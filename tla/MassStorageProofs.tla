------------------------- MODULE MassStorageProofs -------------------------
(***************************************************************************)
(* Proofs about MassStorageAdapter and MassStorageSync, for every set of   *)
(* songs, places, extensions and files: the books that the adapter keeps   *)
(* of its tracks agree, no add of a run meets a file of the user's, a sync *)
(* that finds nothing to do is right, covers go only with their last file, *)
(* the manifest forgets no file, and a save in which nothing goes wrong    *)
(* brings to the device what the adapter has on record. Moreover, no       *)
(* wanted song loses its last file where every song has places of its own, *)
(* syncs of a tidy device come to rest, and the user's own files stay as   *)
(* they are unless --delete may take one of them for a song.               *)
(***************************************************************************)
EXTENDS MassStorageSync, FiniteSetTheorems, WellFoundedInduction,
        TLAPS

(***************************************************************************)
(* A set of numbers has a least one, which is what Min picks.              *)
(***************************************************************************)
LEMMA MinOfNaturals ==
  ASSUME NEW S, S \subseteq Nat, S # {}
  PROVE  Min(S) \in S
<1> DEFINE Below == {0..n : n \in S}
<1>1. Below \subseteq FiniteSubsetsOf(Nat)
  <2>1. \A n \in Nat : IsFiniteSet(0..n)
    BY FS_Interval
  <2>2. QED
    BY <2>1 DEF FiniteSubsetsOf
<1>2. PICK X \in Below : \A Y \in Below : ~(<<Y, X>> \in StrictSubsetOrdering(Nat))
  <2>1. Below # {}
    OBVIOUS
  <2>2. IsWellFoundedOn(StrictSubsetOrdering(Nat), FiniteSubsetsOf(Nat))
    BY FS_StrictSubsetOrderingWellFounded
  <2>3. \A B : B \subseteq FiniteSubsetsOf(Nat) /\ B # {} =>
          \E X \in B : \A Y \in B : ~(<<Y, X>> \in StrictSubsetOrdering(Nat))
    BY <2>2, WFMin, Zenon
  <2>4. QED
    BY <1>1, <2>1, <2>3
<1>3. PICK x \in S : X = 0..x
  OBVIOUS
<1>4. ASSUME NEW y \in S, y < x PROVE FALSE
  <2>1. 0..y \subseteq 0..x /\ 0..y # 0..x
    <3>1. x \in 0..x /\ ~(x \in 0..y)
      BY <1>4
    <3>2. QED
      BY <1>4, <3>1
  <2>2. <<0..y, 0..x>> \in StrictSubsetOrdering(Nat)
    BY <2>1 DEF StrictSubsetOrdering
  <2>3. QED
    BY <1>2, <1>3, <2>2
<1>5. \E m \in S : \A y \in S : m =< y
  BY <1>4
<1>6. QED
  BY <1>5 DEF Min

(***************************************************************************)
(* Of more names than are taken one is free, which is what the search for  *)
(* the least free number ends at.                                          *)
(***************************************************************************)
LEMMA SearchEnds ==
  ASSUME NEW taken, IsFiniteSet(taken), NEW lo \in Nat, NEW hi \in Nat,
         hi - lo + 1 > Cardinality(taken), NEW f, DOMAIN f = lo..hi,
         \A x, y \in lo..hi : f[x] = f[y] => x = y,
         NEW free, \A n : n \in free <=> n \in lo..hi /\ f[n] \notin taken
  PROVE  Min(free) \in free
<1>1. free # {}
  <2> SUFFICES ASSUME free = {} PROVE FALSE
    OBVIOUS
  <2> DEFINE numbers == lo..hi
  <2>1. Cardinality(taken) \in Nat
    BY FS_CardinalityType
  <2>2. \A x, y \in Int :
          IsFiniteSet(x..y) /\ Cardinality(x..y) = IF x > y THEN 0 ELSE y - x + 1
    BY FS_Interval
  <2>3. IsFiniteSet(numbers) /\ Cardinality(taken) < Cardinality(numbers)
    <3>1. IsFiniteSet(numbers)
      BY <2>2
    <3>2. Cardinality(numbers) = IF lo > hi THEN 0 ELSE hi - lo + 1
      BY <2>2
    <3> HIDE DEF numbers
    <3>. QED BY <2>1, <3>1, <3>2
  <2>4. \A x \in numbers : f[x] \in taken
    OBVIOUS
  <2> DEFINE g == [x \in numbers |-> f[x]]
  <2>5. g \in [numbers -> taken]
    BY <2>4
  <2> HIDE DEF numbers, g
  <2>6. PICK x \in numbers, y \in numbers : x # y /\ g[x] = g[y]
    BY <2>3, <2>5, FS_PigeonHole
  <2>7. f[x] = f[y] /\ x \in lo..hi /\ y \in lo..hi
    BY <2>6 DEF numbers, g
  <2>. QED BY <2>6, <2>7
<1>2. free \subseteq Nat
  OBVIOUS
<1>. QED BY <1>1, <1>2, MinOfNaturals

(***************************************************************************)
(* deduplicatePath: what it returns is not taken, so that no two tracks    *)
(* are given one path.                                                     *)
(***************************************************************************)
LEMMA DeduplicateIsFree ==
  ASSUME NEW taken, IsFiniteSet(taken), NEW at, NEW ext, NEW no, NEW dashes
  PROVE  Deduplicate([at |-> at, ext |-> ext, no |-> no, dashes |-> dashes], taken)
           \notin taken
<1> DEFINE path == [at |-> at, ext |-> ext, no |-> no, dashes |-> dashes]
           top == Cardinality(taken) + 2
           f == [n \in 2..top |-> [path EXCEPT !.no = n]]
           free == {n \in 2..top : f[n] \notin taken}
<1>1. Cardinality(taken) \in Nat
  BY FS_CardinalityType
<1>2. Min(free) \in free
  <2>1. 2 \in Nat /\ top \in Nat /\ top - 2 + 1 > Cardinality(taken)
    BY <1>1
  <2>2. \A x, y \in 2..top : f[x] = f[y] => x = y
    <3>1. \A n \in 2..top : f[n].no = n
      OBVIOUS
    <3>. QED BY <3>1
  <2>3. DOMAIN f = 2..top
    OBVIOUS
  <2>4. \A n : n \in free <=> n \in 2..top /\ f[n] \notin taken
    OBVIOUS
  <2> HIDE DEF f, top, free
  <2>. QED BY <2>1, <2>2, <2>3, <2>4, SearchEnds
<1>3. CASE path \in taken
  <2>1. {n \in 2..(Cardinality(taken) + 2) : [path EXCEPT !.no = n] \notin taken} = free
    OBVIOUS
  <2>2. Deduplicate(path, taken) = [path EXCEPT !.no = Min(free)]
    BY <1>3, <2>1 DEF Deduplicate
  <2> HIDE DEF free
  <2>3. Min(free) \in 2..top /\ f[Min(free)] \notin taken
    BY <1>2 DEF free
  <2>. QED BY <2>2, <2>3
<1>4. CASE path \notin taken
  BY <1>4 DEF Deduplicate
<1>. QED BY <1>3, <1>4

-----------------------------------------------------------------------------
(* What every operation of the adapter preserves.                          *)

\* The adapter has its books, each track says whether it is podkit's.
Shaped(a) ==
  /\ {"tracks", "allocatedPaths", "managedFiles", "pendingTagWrites"} \subseteq DOMAIN a
  /\ \A p \in DOMAIN a.tracks : "managed" \in DOMAIN a.tracks[p]

\* The books agree, and pending writes are of tracks.
Balanced(a) ==
  /\ IsFiniteSet(DOMAIN a.tracks)
  /\ a.allocatedPaths = DOMAIN a.tracks
  /\ \A p \in DOMAIN a.tracks : a.tracks[p].managed => p \in a.managedFiles
  /\ DOMAIN a.pendingTagWrites \subseteq DOMAIN a.tracks

Sound(a) == Shaped(a) /\ Balanced(a)

\* Paths at which an add would meet a file of the user's.
Foreign(a) == a.allocatedPaths \ a.managedFiles

\* Paths of podkit's own tracks.
Own(a) == {p \in DOMAIN a.tracks : a.tracks[p].managed}

\* Only writes and covers differ.
SameTracks(a, b) ==
  /\ b.tracks = a.tracks
  /\ b.allocatedPaths = a.allocatedPaths
  /\ b.managedFiles = a.managedFiles

(***************************************************************************)
(* Before open() the books are empty.                                      *)
(***************************************************************************)
LEMMA ClosedIsSound == Sound(ClosedAdapter)
BY FS_EmptySet DEF Sound, Shaped, Balanced, ClosedAdapter, NoEntries

(***************************************************************************)
(* open(): the adapter's tracks are the files of the disk.                 *)
(***************************************************************************)
LEMMA OpenedIsSound ==
  ASSUME NEW files, IsFiniteSet(DOMAIN files), NEW rows
  PROVE  LET a == OpenedAdapter(files, rows)
         IN /\ Sound(a)
            /\ DOMAIN a.tracks = DOMAIN files
            /\ a.managedFiles = rows.files
<1> DEFINE a == OpenedAdapter(files, rows)
           tracks == [p \in DOMAIN files |->
                        [song |-> files[p].song, meta |-> files[p].meta,
                         tag |-> files[p].tag, managed |-> p \in rows.files]]
<1>1. /\ a.tracks = tracks
      /\ a.allocatedPaths = DOMAIN files
      /\ a.managedFiles = rows.files
      /\ a.pendingTagWrites = NoEntries
      /\ DOMAIN a = DOMAIN ClosedAdapter
  BY DEF OpenedAdapter, ClosedAdapter
<1> HIDE DEF a
<1>2. ASSUME NEW p \in DOMAIN files
      PROVE  a.tracks[p].managed <=> p \in rows.files
  <2> DEFINE Row(b) == [song |-> files[p].song, meta |-> files[p].meta,
                        tag |-> files[p].tag, managed |-> b]
  <2>1. \A b : Row(b).managed = b
    BY Zenon
  <2>2. Row(p \in rows.files).managed <=> p \in rows.files
    BY <2>1, Zenon
  <2>3. a.tracks[p] = Row(p \in rows.files)
    BY <1>1, Zenon
  <2>4. QED
    BY <2>2, <2>3, Zenon
<1>3. \A p \in DOMAIN files : "managed" \in DOMAIN a.tracks[p]
  BY <1>1
<1>4. Shaped(a)
  BY <1>1, <1>3 DEF Shaped, ClosedAdapter
<1>5. Balanced(a)
  BY <1>1, <1>2 DEF Balanced, NoEntries
<1>6. QED
  BY <1>1, <1>4, <1>5 DEF a, Sound

(***************************************************************************)
(* queueTagWrite for a track: nothing but the pending writes changes.      *)
(***************************************************************************)
LEMMA QueueTagWriteIsSound ==
  ASSUME NEW a, Sound(a), NEW path \in DOMAIN a.tracks, NEW fields
  PROVE  LET b == QueueTagWrite(a, path, fields)
         IN Sound(b) /\ SameTracks(a, b)
<1> DEFINE b == QueueTagWrite(a, path, fields)
<1>1. \/ b = a
      \/ \E w : b = [a EXCEPT !.pendingTagWrites = Put(@, path, w)]
  BY DEF QueueTagWrite
<1> HIDE DEF b
<1>2. ASSUME NEW w, b = [a EXCEPT !.pendingTagWrites = Put(@, path, w)]
      PROVE  /\ SameTracks(a, b) /\ DOMAIN b = DOMAIN a
             /\ DOMAIN b.pendingTagWrites = DOMAIN a.pendingTagWrites \cup {path}
  BY <1>2 DEF Sound, Shaped, SameTracks, Put
<1>3. QED
  BY <1>1, <1>2 DEF Sound, Shaped, Balanced, SameTracks, b

(***************************************************************************)
(* updateTrack: the same tracks at the same paths, with other tags.        *)
(***************************************************************************)
LEMMA UpdateTrackIsSound ==
  ASSUME NEW a, Sound(a), NEW path \in DOMAIN a.tracks, NEW fields
  PROVE  LET b == UpdateTrack(a, path, fields)
         IN Sound(b) /\ Own(b) = Own(a) /\ Foreign(b) = Foreign(a)
<1> DEFINE track == a.tracks[path]
           updated == [track EXCEPT !.meta = IF fields.meta = Keep THEN @ ELSE fields.meta,
                                    !.tag = IF fields.tag = Keep THEN @ ELSE fields.tag]
           c == [a EXCEPT !.tracks[path] = updated]
<1>1. PICK w : UpdateTrack(a, path, fields) = QueueTagWrite(c, path, w)
  BY DEF UpdateTrack
<1>2. updated.managed = track.managed /\ DOMAIN updated = DOMAIN track
  BY DEF Sound, Shaped
<1> HIDE DEF updated
<1>3. /\ c.tracks = [a.tracks EXCEPT ![path] = updated]
      /\ c.allocatedPaths = a.allocatedPaths
      /\ c.managedFiles = a.managedFiles
      /\ c.pendingTagWrites = a.pendingTagWrites
      /\ DOMAIN c = DOMAIN a
  BY DEF Sound, Shaped
<1> HIDE DEF c
<1>4. /\ DOMAIN c.tracks = DOMAIN a.tracks
      /\ \A p \in DOMAIN a.tracks :
           c.tracks[p] = IF p = path THEN updated ELSE a.tracks[p]
  BY <1>3
<1>5. Sound(c)
  BY <1>2, <1>3, <1>4 DEF Sound, Shaped, Balanced
<1>6. Own(c) = Own(a) /\ Foreign(c) = Foreign(a)
  BY <1>2, <1>3, <1>4 DEF Own, Foreign
<1>7. LET b == QueueTagWrite(c, path, w) IN Sound(b) /\ SameTracks(c, b)
  BY <1>4, <1>5, QueueTagWriteIsSound
<1>8. QED
  BY <1>1, <1>6, <1>7 DEF SameTracks, Own, Foreign

(***************************************************************************)
(* addTrack: one more track, podkit's, at the path.                        *)
(***************************************************************************)
LEMMA AddTrackIsSound ==
  ASSUME NEW a, Sound(a), NEW path, NEW song, NEW meta
  PROVE  LET b == AddTrack(a, path, song, meta)
         IN /\ Sound(b)
            /\ Own(b) = Own(a) \cup {path}
            /\ Foreign(b) \subseteq Foreign(a)
<1> DEFINE new == [song |-> song, meta |-> meta, tag |-> "synced", managed |-> TRUE]
           c == [a EXCEPT !.allocatedPaths = @ \cup {path},
                          !.managedFiles = @ \cup {path},
                          !.tracks = Put(@, path, new)]
<1>1. AddTrack(a, path, song, meta) =
        QueueTagWrite(c, path, [meta |-> Keep, tag |-> "synced"])
  BY DEF AddTrack
<1> DEFINE tracks == Put(a.tracks, path, new)
<1>2. /\ DOMAIN tracks = DOMAIN a.tracks \cup {path}
      /\ \A p \in DOMAIN tracks : tracks[p] = IF p = path THEN new ELSE a.tracks[p]
  BY DEF Put
<1>3. new.managed /\ "managed" \in DOMAIN new
  OBVIOUS
<1> HIDE DEF new, tracks
<1>4. /\ c.tracks = tracks
      /\ c.allocatedPaths = a.allocatedPaths \cup {path}
      /\ c.managedFiles = a.managedFiles \cup {path}
      /\ c.pendingTagWrites = a.pendingTagWrites
      /\ DOMAIN c = DOMAIN a
  BY DEF Sound, Shaped, tracks
<1> HIDE DEF c
<1>5. IsFiniteSet(DOMAIN a.tracks \cup {path})
  BY FS_AddElement DEF Sound, Balanced
<1>6. Sound(c)
  BY <1>2, <1>3, <1>4, <1>5 DEF Sound, Shaped, Balanced
<1>7. Own(c) = Own(a) \cup {path} /\ Foreign(c) \subseteq Foreign(a)
  BY <1>2, <1>3, <1>4 DEF Own, Foreign
<1>8. LET b == AddTrack(a, path, song, meta) IN Sound(b) /\ SameTracks(c, b)
  BY <1>1, <1>2, <1>4, <1>6, QueueTagWriteIsSound
<1>9. QED
  BY <1>7, <1>8 DEF SameTracks, Own, Foreign

(***************************************************************************)
(* copyTrackFile that fails: the track of the path is gone from all books. *)
(***************************************************************************)
LEMMA RollBackIsSound ==
  ASSUME NEW a, Sound(a), NEW path
  PROVE  LET b == RollBack(a, path)
         IN /\ Sound(b)
            /\ Own(b) = Own(a) \ {path}
            /\ Foreign(b) \subseteq Foreign(a)
<1> DEFINE b == RollBack(a, path)
<1>1. /\ b.tracks = Without(a.tracks, path)
      /\ b.allocatedPaths = a.allocatedPaths \ {path}
      /\ b.managedFiles = a.managedFiles \ {path}
      /\ b.pendingTagWrites = Without(a.pendingTagWrites, path)
      /\ DOMAIN b = DOMAIN a
  BY DEF RollBack, Sound, Shaped
<1>2. /\ DOMAIN b.tracks = DOMAIN a.tracks \ {path}
      /\ \A p \in DOMAIN b.tracks : b.tracks[p] = a.tracks[p]
      /\ DOMAIN b.pendingTagWrites = DOMAIN a.pendingTagWrites \ {path}
  BY <1>1 DEF Without
<1>3. IsFiniteSet(DOMAIN a.tracks \ {path})
  BY FS_RemoveElement DEF Sound, Balanced
<1> HIDE DEF b
<1>4. Sound(b)
  BY <1>1, <1>2, <1>3 DEF Sound, Shaped, Balanced
<1>5. Own(b) = Own(a) \ {path} /\ Foreign(b) \subseteq Foreign(a)
  BY <1>1, <1>2 DEF Own, Foreign
<1>6. QED
  BY <1>4, <1>5 DEF b

(***************************************************************************)
(* The books are about tracks: an operation that leaves these, and adds no *)
(* pending tag write, leaves the books in order.                           *)
(***************************************************************************)
LEMMA OnlyTracksMatter ==
  ASSUME NEW a, Sound(a), NEW b, DOMAIN b = DOMAIN a, SameTracks(a, b),
         DOMAIN b.pendingTagWrites \subseteq DOMAIN a.pendingTagWrites
  PROVE  Sound(b) /\ Own(b) = Own(a) /\ Foreign(b) = Foreign(a)
BY DEF Sound, Shaped, Balanced, SameTracks, Own, Foreign

(***************************************************************************)
(* Covers that are queued to be written or deleted concern no track.       *)
(***************************************************************************)
LEMMA SidecarsAreSound ==
  ASSUME NEW a, Sound(a), NEW dir, NEW b,
         b \in {WriteSidecar(a, dir), MaybeQueueSidecarDelete(a, dir)}
  PROVE  Sound(b) /\ Own(b) = Own(a) /\ Foreign(b) = Foreign(a)
<1>1. CASE b = a
  BY <1>1
<1>2. CASE b = [a EXCEPT !.pendingSidecarDeletes = @ \cup {dir}]
  <2>1. /\ DOMAIN b = DOMAIN a /\ SameTracks(a, b)
        /\ b.pendingTagWrites = a.pendingTagWrites
    BY <1>2 DEF Sound, Shaped, SameTracks
  <2>2. QED
    BY <2>1, OnlyTracksMatter
<1>3. CASE b = [a EXCEPT !.pendingSidecarWrites = @ \cup {dir},
                         !.pendingSidecarDeletes = @ \ {dir},
                         !.managedCovers = @ \cup {dir}]
  <2>1. /\ DOMAIN b = DOMAIN a /\ SameTracks(a, b)
        /\ b.pendingTagWrites = a.pendingTagWrites
    BY <1>3 DEF Sound, Shaped, SameTracks
  <2>2. QED
    BY <2>1, OnlyTracksMatter
<1>4. QED
  BY <1>1, <1>2, <1>3 DEF WriteSidecar, MaybeQueueSidecarDelete

(***************************************************************************)
(* A track of podkit's goes to another path: its row, its place in the     *)
(* list and its pending writes go with it, and the other tracks of podkit  *)
(* are still where they were.                                              *)
(***************************************************************************)
LEMMA MovedIsSound ==
  ASSUME NEW a, Sound(a), NEW old \in Own(a), NEW new
  PROVE  LET b == RekeyPendingWrites(TrackMoves(a, old, new), old, new)
         IN /\ Sound(b)
            /\ new \in Own(b)
            /\ Own(a) \ {old} \subseteq Own(b)
            /\ Foreign(b) \subseteq Foreign(a)
<1> DEFINE c == TrackMoves(a, old, new)
           d == [c EXCEPT !.pendingTagWrites = Rekey(@, old, new)]
           b == RekeyPendingWrites(c, old, new)
<1>1. old \in DOMAIN a.tracks /\ a.tracks[old].managed /\ old \in a.managedFiles
  BY DEF Own, Sound, Balanced
<1>2. /\ c.tracks = Put(Without(a.tracks, old), new, a.tracks[old])
      /\ c.allocatedPaths = (a.allocatedPaths \ {old}) \cup {new}
      /\ c.managedFiles = (a.managedFiles \ {old}) \cup {new}
      /\ c.pendingTagWrites = a.pendingTagWrites
      /\ DOMAIN c = DOMAIN a
  BY <1>1 DEF TrackMoves, Sound, Shaped
<1>3. /\ DOMAIN c.tracks = (DOMAIN a.tracks \ {old}) \cup {new}
      /\ \A p \in DOMAIN c.tracks :
           c.tracks[p] = IF p = new THEN a.tracks[old] ELSE a.tracks[p]
  BY <1>2 DEF Put, Without
<1> HIDE DEF c
<1>4. /\ d.pendingTagWrites = Rekey(c.pendingTagWrites, old, new)
      /\ DOMAIN d = DOMAIN a /\ SameTracks(c, d)
  BY <1>2 DEF SameTracks, Sound, Shaped
<1> HIDE DEF d
<1>5. DOMAIN d.pendingTagWrites \subseteq DOMAIN c.tracks
  <2>1. CASE old \in DOMAIN a.pendingTagWrites
    <3>1. DOMAIN d.pendingTagWrites = (DOMAIN a.pendingTagWrites \ {old}) \cup {new}
      BY <1>2, <1>4, <2>1 DEF Rekey, Put, Without
    <3>2. QED
      BY <1>3, <3>1 DEF Sound, Balanced
  <2>2. CASE old \notin DOMAIN a.pendingTagWrites
    BY <1>2, <1>3, <1>4, <2>2 DEF Rekey, Sound, Balanced
  <2>3. QED
    BY <2>1, <2>2
<1>6. IsFiniteSet((DOMAIN a.tracks \ {old}) \cup {new})
  BY FS_RemoveElement, FS_AddElement DEF Sound, Balanced
<1>7. Sound(d)
  <2>1. Shaped(d)
    BY <1>1, <1>3, <1>4 DEF Sound, Shaped, SameTracks
  <2>2. d.allocatedPaths = DOMAIN d.tracks /\ IsFiniteSet(DOMAIN d.tracks)
    BY <1>2, <1>3, <1>4, <1>6 DEF Sound, Balanced, SameTracks
  <2>3. \A p \in DOMAIN d.tracks : d.tracks[p].managed => p \in d.managedFiles
    BY <1>2, <1>3, <1>4 DEF Sound, Balanced, SameTracks
  <2>4. QED
    BY <1>4, <1>5, <2>1, <2>2, <2>3 DEF Sound, Balanced, SameTracks
<1>8. /\ new \in Own(d)
      /\ Own(a) \ {old} \subseteq Own(d)
      /\ Foreign(d) \subseteq Foreign(a)
  BY <1>1, <1>2, <1>3, <1>4 DEF Own, Foreign, SameTracks
<1>9. Sound(b) /\ Own(b) = Own(d) /\ Foreign(b) = Foreign(d)
  <2>1. CASE b = d
    BY <1>7, <2>1
  <2>2. CASE \E w, m : b = [d EXCEPT !.pendingSidecarWrites = w, !.managedCovers = m]
    <3>1. PICK w, m : b = [d EXCEPT !.pendingSidecarWrites = w, !.managedCovers = m]
      BY <2>2
    <3>2. /\ DOMAIN b = DOMAIN d /\ SameTracks(d, b)
          /\ b.pendingTagWrites = d.pendingTagWrites
      BY <1>7, <3>1 DEF SameTracks, Sound, Shaped
    <3>3. QED
      BY <1>7, <3>2, OnlyTracksMatter
  <2>3. b = d \/ \E w, m : b = [d EXCEPT !.pendingSidecarWrites = w, !.managedCovers = m]
    BY DEF RekeyPendingWrites, d
  <2>4. QED
    BY <2>1, <2>2, <2>3
<1>10. QED
  BY <1>8, <1>9 DEF c

(***************************************************************************)
(* relocateTrack: the track is at the free path that it was given.         *)
(***************************************************************************)
LEMMA RelocateIsSound ==
  ASSUME NEW a, Sound(a), NEW old \in Own(a), NEW home
  PROVE  LET b == RelocateTrack(a, old, home)
         IN /\ Sound(b)
            /\ Deduplicate(home, a.allocatedPaths) \in Own(b)
            /\ Own(a) \ {old} \subseteq Own(b)
            /\ Foreign(b) \subseteq Foreign(a)
<1> DEFINE new == Deduplicate(home, a.allocatedPaths)
           c == RekeyPendingWrites(TrackMoves(a, old, new), old, new)
           d == [c EXCEPT !.pendingMoves = Append(@, [from |-> old, to |-> new])]
           b == RelocateTrack(a, old, home)
<1>1. \/ b = d
      \/ b = MaybeQueueSidecarDelete(d, AlbumDir(old))
  BY DEF RelocateTrack
<1> HIDE DEF new
<1>2. /\ Sound(c)
      /\ new \in Own(c)
      /\ Own(a) \ {old} \subseteq Own(c)
      /\ Foreign(c) \subseteq Foreign(a)
  BY MovedIsSound
<1> HIDE DEF c
<1>3. /\ DOMAIN d = DOMAIN c /\ SameTracks(c, d)
      /\ d.pendingTagWrites = c.pendingTagWrites
  BY <1>2 DEF SameTracks, Sound, Shaped
<1> HIDE DEF d
<1>4. Sound(d) /\ Own(d) = Own(c) /\ Foreign(d) = Foreign(c)
  BY <1>2, <1>3, OnlyTracksMatter
<1> HIDE DEF b
<1>5. Sound(b) /\ Own(b) = Own(d) /\ Foreign(b) = Foreign(d)
  <2>1. CASE b = d
    BY <1>4, <2>1
  <2>2. CASE b = MaybeQueueSidecarDelete(d, AlbumDir(old))
    BY <1>4, <2>2, SidecarsAreSound
  <2>3. QED
    BY <1>1, <2>1, <2>2
<1>6. QED
  BY <1>2, <1>4, <1>5 DEF b, new

(***************************************************************************)
(* replaceTrackFile: the track is at the path of its new file.             *)
(***************************************************************************)
LEMMA ReplaceIsSound ==
  ASSUME NEW a, Sound(a), NEW old \in Own(a), NEW new
  PROVE  LET b == ReplaceTrackFile(a, old, new)
         IN /\ Sound(b)
            /\ new \in Own(b)
            /\ Own(a) \ {old} \subseteq Own(b)
            /\ Foreign(b) \subseteq Foreign(a)
<1> DEFINE t == TrackMoves(a, old, new)
           u == [t EXCEPT !.managedFiles = @ \cup {new}]
           c == IF old = new THEN a ELSE RekeyPendingWrites(u, old, new)
<1>1. PICK w : ReplaceTrackFile(a, old, new) = QueueTagWrite(c, new, w)
  BY DEF ReplaceTrackFile
<1>2. /\ Sound(c)
      /\ new \in Own(c)
      /\ Own(a) \ {old} \subseteq Own(c)
      /\ Foreign(c) \subseteq Foreign(a)
  <2>1. CASE old = new
    BY <2>1
  <2>2. CASE old # new
    <3>1. u = t
      <4>1. t = [a EXCEPT
                   !.allocatedPaths = (@ \ {old}) \cup {new},
                   !.managedFiles = IF old \in @ THEN (@ \ {old}) \cup {new} ELSE @,
                   !.tracks = Put(Without(@, old), new, @[old])]
        BY DEF TrackMoves
      <4>2. old \in a.managedFiles
        BY DEF Own, Sound, Balanced
      <4>3. new \in t.managedFiles
        BY <4>1, <4>2 DEF Sound, Shaped
      <4> HIDE DEF t
      <4>4. t.managedFiles \cup {new} = t.managedFiles
        BY <4>3
      <4>5. t = [x \in DOMAIN t |-> t[x]]
        BY <4>1
      <4>6. QED
        BY <4>4, <4>5
    <3>2. QED
      BY <2>2, <3>1, MovedIsSound
  <2>3. QED
    BY <2>1, <2>2
<1> HIDE DEF c
<1>3. LET b == QueueTagWrite(c, new, w) IN Sound(b) /\ SameTracks(c, b)
  BY <1>2, QueueTagWriteIsSound DEF Own
<1>4. QED
  BY <1>1, <1>2, <1>3 DEF SameTracks, Own, Foreign

-----------------------------------------------------------------------------
(* The run: what its plan may rely on.                                     *)

\* The operations that are about a track of podkit's.
AboutTrack(op) == op.kind \in {"update", "relocate", "upgrade"}

\* A path written out, as HomePath gives it.
WrittenOut(path) ==
  path = [at |-> path.at, ext |-> path.ext, no |-> path.no, dashes |-> path.dashes]

\* What a plan of the adapter `a` may contain: no two operations are about
\* one track, and nothing but podkit's files is where an add would go.
PlanSound(operations, a) ==
  /\ \A op \in operations : AboutTrack(op) => op.path \in Own(a)
  /\ \A op, o \in operations :
       AboutTrack(op) /\ AboutTrack(o) /\ op.path = o.path => op = o
  /\ \A op \in operations : op.kind = "add" => op.path \notin Foreign(a) /\ WrittenOut(op.path)

\* The inductive invariant: the three properties, made strong enough for the
\* next step by what the rest of the plan relies on.
IInv ==
  /\ IsFiniteSet(DOMAIN disk)
  /\ Sound(ad)
  /\ PlanSound(plan, ad)
  /\ final \in BOOLEAN
  /\ phase \in Idle \cup {"open"} => plan = {} /\ final = FALSE
  /\ final = TRUE => plan = {}

(***************************************************************************)
(* What is left of a plan stays sound when one of its operations has moved *)
(* its track.                                                              *)
(***************************************************************************)
LEMMA PlanStaysSound ==
  ASSUME NEW operations, NEW a, PlanSound(operations, a),
         NEW left, left \subseteq operations, NEW old, NEW b,
         \A op \in left : AboutTrack(op) => op.path # old,
         Own(a) \ {old} \subseteq Own(b),
         Foreign(b) \subseteq Foreign(a)
  PROVE  PlanSound(left, b)
BY DEF PlanSound

(***************************************************************************)
(* The plan that a diff makes: one operation for each matched song, about  *)
(* an item that only this song is matched with.                            *)
(***************************************************************************)
LEMMA PlanIsSound ==
  ASSUME NEW kept \in Matchings, Collisions(Operations(kept)) = {}
  PROVE  PlanSound(Operations(kept), ad)
<1>1. ASSUME NEW op \in Operations(kept)
      PROVE  \/ /\ op.kind = "add"
                /\ \E s \in Wanted : op.path = Home(s, source[s].ext)
             \/ op.kind = "remove"
             \/ \E s \in Matched : \E k \in OperationFor(s, kept[s]) :
                  op = [kind |-> k, song |-> s, path |-> kept[s]]
  <2>1. \/ op \in Additions
        \/ \E s \in Matched : op \in ChangesOf(s, kept[s])
        \/ op \in Removals(kept)
    BY DEF Operations
  <2>2. op \in Additions => /\ op.kind = "add"
                            /\ \E s \in Wanted : op.path = Home(s, source[s].ext)
    BY DEF Additions
  <2>3. op \in Removals(kept) => op.kind = "remove"
    BY DEF Removals
  <2>4. ASSUME NEW s \in Matched, op \in ChangesOf(s, kept[s])
        PROVE  \E k \in OperationFor(s, kept[s]) :
                 op = [kind |-> k, song |-> s, path |-> kept[s]]
    BY <2>4 DEF ChangesOf
  <2>5. QED
    BY <2>1, <2>2, <2>3, <2>4
<1>2. ASSUME NEW s \in Matched, NEW k \in OperationFor(s, kept[s])
      PROVE  /\ k \in {"update", "relocate", "upgrade"}
             /\ kept[s] \in Own(ad)
             /\ ad.tracks[kept[s]].song = s
             /\ OperationFor(s, kept[s]) = {k}
  <2>1. kept[s] \in ItemsOf(s)
    BY DEF Matchings
  <2>2. kept[s] \in Own(ad) /\ ad.tracks[kept[s]].song = s
    BY <2>1 DEF ItemsOf, DeviceItems, Own
  <2>3. /\ k \in {"update", "relocate", "upgrade"}
        /\ OperationFor(s, kept[s]) = {k}
    BY DEF OperationFor
  <2>4. QED
    BY <2>2, <2>3
<1>3. ASSUME NEW op \in Operations(kept), AboutTrack(op)
      PROVE  \E s \in Matched : \E k \in OperationFor(s, kept[s]) :
               op = [kind |-> k, song |-> s, path |-> kept[s]]
  BY <1>1, <1>3 DEF AboutTrack
<1>4. \A op \in Operations(kept) : AboutTrack(op) => op.path \in Own(ad)
  <2>1. SUFFICES ASSUME NEW op \in Operations(kept), AboutTrack(op)
                 PROVE  op.path \in Own(ad)
    OBVIOUS
  <2>2. PICK s \in Matched : \E k \in OperationFor(s, kept[s]) :
               op = [kind |-> k, song |-> s, path |-> kept[s]]
    BY <1>3, <2>1
  <2>3. op.path = kept[s]
    BY <2>2
  <2>4. QED
    BY <1>2, <2>2, <2>3
<1>5. ASSUME NEW op \in Operations(kept), NEW o \in Operations(kept),
             AboutTrack(op), AboutTrack(o), op.path = o.path
      PROVE  op = o
  <2>1. PICK s \in Matched : \E k \in OperationFor(s, kept[s]) :
               op = [kind |-> k, song |-> s, path |-> kept[s]]
    BY <1>3, <1>5
  <2>2. PICK t \in Matched : \E j \in OperationFor(t, kept[t]) :
               o = [kind |-> j, song |-> t, path |-> kept[t]]
    BY <1>3, <1>5
  <2>3. kept[s] = kept[t]
    BY <1>5, <2>1, <2>2
  <2>4. s = t
    BY <1>2, <2>1, <2>2, <2>3
  <2>5. PICK k : OperationFor(s, kept[s]) = {k}
    BY <1>2, <2>1
  <2>6. QED
    BY <2>1, <2>2, <2>4, <2>5
<1>6. ASSUME NEW op \in Operations(kept), op.kind = "add"
      PROVE  op.path \notin Foreign(ad) /\ WrittenOut(op.path)
  <2>1. op.path \notin Foreign(ad)
    BY <1>6 DEF Collisions, Foreign
  <2>2. PICK s \in Wanted : op.path = Home(s, source[s].ext)
    <3>1. ASSUME NEW s \in Matched, NEW k \in OperationFor(s, kept[s]),
                 op = [kind |-> k, song |-> s, path |-> kept[s]]
          PROVE  FALSE
      <4>1. op.kind = k
        BY <3>1
      <4>2. QED
        BY <1>2, <1>6, <4>1
    <3>2. QED
      BY <1>1, <1>6, <3>1
  <2>3. WrittenOut(op.path)
    BY <2>2 DEF WrittenOut, Home, HomePath
  <2>4. QED
    BY <2>1, <2>3
<1>7. QED
  BY <1>4, <1>5, <1>6 DEF PlanSound

(***************************************************************************)
(* The invariant holds at first.                                           *)
(***************************************************************************)
LEMMA InitIInv == Init => IInv
<1> SUFFICES ASSUME Init PROVE IInv
  OBVIOUS
<1>1. IsFiniteSet(DOMAIN disk)
  <2>1. DOMAIN disk = UserFiles
    BY DEF Init
  <2>2. QED
    BY <2>1, SyncAssumption
<1>2. Sound(ad)
  BY ClosedIsSound DEF Init
<1>3. PlanSound(plan, ad)
  BY DEF Init, PlanSound
<1>4. QED
  BY <1>1, <1>2, <1>3 DEF Init, IInv, Idle

(***************************************************************************)
(* What the stages of save() do to the adapter is not about its tracks.    *)
(***************************************************************************)
LEMMA SavingIsSound ==
  ASSUME NEW a, Sound(a), NEW x, NEW y, NEW b,
         b \in {a, [a EXCEPT !.pendingMoves = x],
                [a EXCEPT !.pendingTagWrites = NoEntries],
                [a EXCEPT !.pendingSidecarWrites = x],
                [a EXCEPT !.pendingSidecarDeletes = x, !.managedCovers = y]}
  PROVE  Sound(b) /\ Own(b) = Own(a) /\ Foreign(b) = Foreign(a)
<1>1. CASE b = a
  BY <1>1
<1>2. CASE b = [a EXCEPT !.pendingTagWrites = NoEntries]
  <2>1. /\ DOMAIN b = DOMAIN a /\ SameTracks(a, b)
        /\ b.pendingTagWrites = NoEntries
    BY <1>2 DEF Sound, Shaped, SameTracks
  <2>2. DOMAIN NoEntries = {}
    BY DEF NoEntries
  <2>3. QED
    BY <2>1, <2>2, OnlyTracksMatter
<1>3. CASE b \in {[a EXCEPT !.pendingMoves = x], [a EXCEPT !.pendingSidecarWrites = x]}
  <2>1. /\ DOMAIN b = DOMAIN a /\ SameTracks(a, b)
        /\ b.pendingTagWrites = a.pendingTagWrites
    BY <1>3 DEF Sound, Shaped, SameTracks
  <2>2. QED
    BY <2>1, OnlyTracksMatter
<1>4. CASE b = [a EXCEPT !.pendingSidecarDeletes = x, !.managedCovers = y]
  <2>1. /\ DOMAIN b = DOMAIN a /\ SameTracks(a, b)
        /\ b.pendingTagWrites = a.pendingTagWrites
    BY <1>4 DEF Sound, Shaped, SameTracks
  <2>2. QED
    BY <2>1, OnlyTracksMatter
<1>5. QED
  BY <1>1, <1>2, <1>3, <1>4

(***************************************************************************)
(* A save that throws drops the rest of the plan, so that nothing is       *)
(* planned for the adapter that the next sync opens.                       *)
(***************************************************************************)
LEMMA ThrowKeepsIInv ==
  ASSUME IInv, SaveThrows, IsFiniteSet(DOMAIN disk'),
         Sound(ad') \/ ad' = ClosedAdapter
  PROVE  IInv'
<1>1. Sound(ad')
  BY ClosedIsSound
<1>2. plan' = {} /\ PlanSound({}, ad')
  BY DEF SaveThrows, PlanSound
<1>3. final' \in BOOLEAN
  BY Zenon DEF SaveThrows
<1>4. phase' \in {"closed", "moves"} /\ (phase' = "closed" => final' = FALSE)
  <2>1. CASE final
    BY <2>1 DEF SaveThrows
  <2>2. CASE ~final
    BY <2>2 DEF SaveThrows
  <2>3. QED
    BY <2>1, <2>2
<1>5. QED
  BY <1>1, <1>2, <1>3, <1>4 DEF IInv, Idle

(***************************************************************************)
(* One map's entry put, taken or renamed leaves the disk finite.           *)
(***************************************************************************)
LEMMA MapsStayFinite ==
  ASSUME NEW map, IsFiniteSet(DOMAIN map), NEW old, NEW new, NEW value
  PROVE  /\ IsFiniteSet(DOMAIN Put(map, new, value))
         /\ IsFiniteSet(DOMAIN Without(map, old))
         /\ IsFiniteSet(DOMAIN Rekey(map, old, new))
<1>1. \A m, v : IsFiniteSet(DOMAIN m) => IsFiniteSet(DOMAIN Put(m, new, v))
  BY FS_AddElement DEF Put
<1>2. IsFiniteSet(DOMAIN Without(map, old))
  BY FS_RemoveElement DEF Without
<1>3. QED
  BY <1>1, <1>2 DEF Rekey

(***************************************************************************)
(* Opening the device, making the plan, or finding that there is none.     *)
(***************************************************************************)
LEMMA PlanningKeepsIInv ==
  ASSUME IInv, Open \/ Settle \/ Refuse \/ Start
  PROVE  IInv'
<1>1. CASE Open
  <2>1. disk' = disk /\ plan' = plan /\ final' = final
    BY <1>1 DEF Open, device
  <2>2. plan = {} /\ final = FALSE
    BY <1>1 DEF Open, IInv
  <2>3. Sound(ad') /\ DOMAIN ad'.tracks = DOMAIN disk
    BY <1>1, OpenedIsSound DEF Open, IInv
  <2>4. QED
    BY <1>1, <2>1, <2>2, <2>3 DEF Open, IInv, PlanSound
<1>2. CASE Settle
  <2>1. /\ disk' = disk /\ plan' = plan /\ final' = final
        /\ phase = "open" /\ phase' = "settled" /\ ad' = ClosedAdapter
    BY <1>2 DEF Settle, device
  <2>2. QED
    BY <2>1, ClosedIsSound DEF IInv, Idle, PlanSound
<1>3. CASE Refuse
  <2>1. /\ disk' = disk /\ plan' = plan /\ final' = final
        /\ phase = "open" /\ phase' = "refused" /\ ad' = ad
    BY <1>3 DEF Refuse, device
  <2>2. QED
    BY <2>1 DEF IInv, Idle
<1>4. CASE Start
  <2>1. PICK kept \in Matchings : /\ MayStart(Operations(kept))
                                  /\ plan' = Operations(kept)
    BY <1>4 DEF Start
  <2>2. PlanSound(plan', ad)
    BY <2>1, PlanIsSound DEF MayStart
  <2>3. ad' = ad /\ disk' = disk /\ final' = FALSE /\ phase' = "executing"
    BY <1>4 DEF Start, IInv, device
  <2>4. QED
    BY <2>2, <2>3 DEF IInv, Idle
<1>5. QED
  BY <1>1, <1>2, <1>3, <1>4

(***************************************************************************)
(* One operation of the plan is done: its track may have got another path, *)
(* and what the rest of the plan is about is still where the plan says.    *)
(***************************************************************************)
LEMMA DoingKeepsIInv ==
  ASSUME IInv, NEW op \in plan, NEW kind, Doing(op, kind),
         IsFiniteSet(DOMAIN disk'), Sound(ad'),
         \/ Own(ad) \subseteq Own(ad')
         \/ AboutTrack(op) /\ Own(ad) \ {op.path} \subseteq Own(ad'),
         Foreign(ad') \subseteq Foreign(ad)
  PROVE  IInv'
<1>1. /\ plan' = plan \ {op} /\ final' = final
      /\ phase = "executing" /\ phase' \in {"executing", "moves"}
  BY DEF Doing
<1>2. final = FALSE \/ final = TRUE
  BY DEF IInv
<1>3. final' = FALSE
  BY <1>1, <1>2 DEF IInv
<1>4. PlanSound(plan', ad')
  <2>1. ASSUME AboutTrack(op), Own(ad) \ {op.path} \subseteq Own(ad')
        PROVE  PlanSound(plan \ {op}, ad')
    <3>1. \A o \in plan \ {op} : AboutTrack(o) => o.path # op.path
      BY <2>1 DEF IInv, PlanSound
    <3> DEFINE left == plan \ {op}
    <3>2. left \subseteq plan /\ PlanSound(plan, ad)
      BY DEF IInv
    <3> HIDE DEF left
    <3>3. \A o \in left : AboutTrack(o) => o.path # op.path
      BY <3>1 DEF left
    <3>4. PlanSound(left, ad')
      BY <2>1, <3>2, <3>3, PlanStaysSound
    <3>5. QED
      BY <3>4 DEF left
  <2>2. ASSUME Own(ad) \subseteq Own(ad')
        PROVE  PlanSound(plan \ {op}, ad')
    BY <2>2 DEF IInv, PlanSound
  <2>3. QED
    BY <1>1, <2>1, <2>2
<1>5. QED
  BY <1>1, <1>3, <1>4 DEF IInv, Idle

(***************************************************************************)
(* The operations of a plan that succeed.                                  *)
(***************************************************************************)
LEMMA ExecuteKeepsIInv ==
  ASSUME IInv, NEW op \in plan, Execute(op) \/ UpgradeLeavesOld(op)
  PROVE  IInv'
<1>1. IsFiniteSet(DOMAIN disk) /\ Sound(ad)
  BY DEF IInv
<1>2. CASE Remove(op)
  <2>1. PICK p : disk' = Without(disk, p)
    BY <1>2 DEF Remove
  <2>2. ad' = ad /\ Doing(op, "remove")
    BY <1>2 DEF Remove
  <2>3. IsFiniteSet(DOMAIN disk')
    BY <1>1, <2>1, MapsStayFinite
  <2>4. QED
    BY <1>1, <2>2, <2>3, DoingKeepsIInv
<1>3. CASE Update(op)
  <2>1. Doing(op, "update") /\ disk' = disk
    BY <1>3 DEF Update, device
  <2>2. op.path \in DOMAIN ad.tracks
    BY <2>1 DEF Doing, IInv, PlanSound, AboutTrack, Own
  <2>3. PICK fields : ad' = UpdateTrack(ad, op.path, fields)
    BY <1>3 DEF Update, Refreshed
  <2>4. Sound(ad') /\ Own(ad') = Own(ad) /\ Foreign(ad') = Foreign(ad)
    BY <1>1, <2>2, <2>3, UpdateTrackIsSound
  <2>5. QED
    BY <1>1, <2>1, <2>4, DoingKeepsIInv
<1>4. CASE Relocate(op)
  <2> DEFINE home == Home(op.song, op.path.ext)
             new == Deduplicate(home, ad.allocatedPaths)
             moved == RelocateTrack(ad, op.path, home)
  <2>1. Doing(op, "relocate") /\ disk' = disk
    BY <1>4 DEF Relocate, device
  <2>2. AboutTrack(op) /\ op.path \in Own(ad)
    BY <2>1 DEF Doing, IInv, PlanSound, AboutTrack
  <2>3. /\ Sound(moved) /\ new \in Own(moved)
        /\ Own(ad) \ {op.path} \subseteq Own(moved)
        /\ Foreign(moved) \subseteq Foreign(ad)
    BY <1>1, <2>2, RelocateIsSound
  <2>4. PICK fields : ad' = UpdateTrack(moved, new, fields)
    BY <1>4 DEF Relocate, Refreshed
  <2> HIDE DEF moved, new
  <2>5. new \in DOMAIN moved.tracks
    BY <2>3 DEF Own
  <2>6. Sound(ad') /\ Own(ad') = Own(moved) /\ Foreign(ad') = Foreign(moved)
    BY <2>3, <2>4, <2>5, UpdateTrackIsSound
  <2>7. QED
    BY <1>1, <2>1, <2>2, <2>3, <2>6, DoingKeepsIInv
<1>5. CASE Add(op)
  <2> DEFINE path == Deduplicate(op.path, ad.allocatedPaths)
  <2>1. Doing(op, "add")
    BY <1>5 DEF Add
  <2>2. IsFiniteSet(DOMAIN disk')
    <3>1. PICK file : disk' = Put(disk, path, file)
      BY <1>5 DEF Add
    <3>2. QED
      BY <1>1, <3>1, MapsStayFinite
  <2>3. PICK meta, dir : ad' = WriteSidecar(AddTrack(ad, path, op.song, meta), dir)
    BY <1>5 DEF Add
  <2> DEFINE added == AddTrack(ad, path, op.song, meta)
  <2> HIDE DEF path
  <2>4. /\ Sound(added) /\ Own(added) = Own(ad) \cup {path}
        /\ Foreign(added) \subseteq Foreign(ad)
    BY <1>1, AddTrackIsSound
  <2> HIDE DEF added
  <2>5. Sound(ad') /\ Own(ad') = Own(added) /\ Foreign(ad') = Foreign(added)
    BY <2>3, <2>4, SidecarsAreSound DEF added
  <2>6. QED
    BY <2>1, <2>2, <2>4, <2>5, DoingKeepsIInv
<1>6. CASE Upgrade(op) \/ UpgradeLeavesOld(op)
  <2> DEFINE new == UpgradeTarget(op)
             moved == ReplaceTrackFile(ad, op.path, new)
  <2>1. Doing(op, "upgrade")
    BY <1>6 DEF Upgrade, UpgradeLeavesOld
  <2>2. AboutTrack(op) /\ op.path \in Own(ad)
    BY <2>1 DEF Doing, IInv, PlanSound, AboutTrack
  <2>3. IsFiniteSet(DOMAIN disk')
    <3>1. \/ disk' = Replaced(op, disk)
          \/ disk' = Replaced(op, Without(disk, op.path))
      BY <1>6 DEF Upgrade, UpgradeLeavesOld
    <3>2. QED
      BY <1>1, <3>1, MapsStayFinite DEF Replaced
  <2>4. /\ Sound(moved) /\ new \in Own(moved)
        /\ Own(ad) \ {op.path} \subseteq Own(moved)
        /\ Foreign(moved) \subseteq Foreign(ad)
    BY <1>1, <2>2, ReplaceIsSound
  <2>5. PICK fields, dir : ad' = WriteSidecar(UpdateTrack(moved, new, fields), dir)
    BY <1>6 DEF Upgrade, UpgradeLeavesOld, Upgraded, Refreshed
  <2> DEFINE updated == UpdateTrack(moved, new, fields)
  <2> HIDE DEF moved, new
  <2>6. new \in DOMAIN moved.tracks
    BY <2>4 DEF Own
  <2>7. Sound(updated) /\ Own(updated) = Own(moved) /\ Foreign(updated) = Foreign(moved)
    BY <2>4, <2>6, UpdateTrackIsSound
  <2> HIDE DEF updated
  <2>8. Sound(ad') /\ Own(ad') = Own(updated) /\ Foreign(ad') = Foreign(updated)
    BY <2>5, <2>7, SidecarsAreSound DEF updated
  <2>9. QED
    BY <2>1, <2>2, <2>3, <2>4, <2>7, <2>8, DoingKeepsIInv
<1>7. QED
  BY <1>2, <1>3, <1>4, <1>5, <1>6 DEF Execute

(***************************************************************************)
(* A copy that fails: the track that was added is taken back, and the add  *)
(* may be tried again, at a path that is still nobody's.                   *)
(***************************************************************************)
LEMMA AddFailsKeepsIInv ==
  ASSUME IInv, NEW op \in plan, AddFails(op)
  PROVE  IInv'
<1> DEFINE path == Deduplicate(op.path, ad.allocatedPaths)
           added == AddTrack(ad, path, op.song, source[op.song].meta)
<1>1. /\ op.kind = "add" /\ plan' \subseteq plan
      /\ ad' = RollBack(added, path)
      /\ disk' = disk /\ phase' = phase /\ final' = final
  BY DEF AddFails, device
<1>2. Sound(ad)
  BY DEF IInv
<1>3. path \notin ad.allocatedPaths
  <2>1. WrittenOut(op.path)
    BY <1>1 DEF IInv, PlanSound
  <2>2. IsFiniteSet(ad.allocatedPaths)
    BY <1>2 DEF Sound, Balanced
  <2> HIDE DEF path
  <2>3. \A at, ext, no, dashes :
          Deduplicate([at |-> at, ext |-> ext, no |-> no, dashes |-> dashes],
                      ad.allocatedPaths) \notin ad.allocatedPaths
    BY <2>2, DeduplicateIsFree
  <2>4. QED
    BY <2>1, <2>3 DEF WrittenOut, path
<1> HIDE DEF path
<1>4. /\ Sound(added) /\ Own(added) = Own(ad) \cup {path}
      /\ Foreign(added) \subseteq Foreign(ad)
  BY <1>2, AddTrackIsSound
<1> HIDE DEF added
<1>5. /\ Sound(ad') /\ Own(ad') = Own(added) \ {path}
      /\ Foreign(ad') \subseteq Foreign(added)
  BY <1>1, <1>4, RollBackIsSound
<1>6. Own(ad') = Own(ad)
  BY <1>2, <1>3, <1>4, <1>5 DEF Own, Sound, Balanced
<1>7. PlanSound(plan', ad')
  BY <1>1, <1>4, <1>5, <1>6 DEF IInv, PlanSound
<1>8. phase = "executing"
  BY DEF AddFails
<1>9. final' = TRUE => plan' = {}
  BY <1>1 DEF IInv
<1>10. QED
  BY <1>1, <1>5, <1>7, <1>8, <1>9 DEF IInv, Idle

(***************************************************************************)
(* Between two stages of a save neither the plan nor the tracks change.    *)
(***************************************************************************)
LEMMA StageKeepsIInv ==
  ASSUME IInv, plan' = plan, final' = final,
         phase \in Saving, phase' \in Saving, IsFiniteSet(DOMAIN disk'),
         Sound(ad'), Own(ad') = Own(ad), Foreign(ad') = Foreign(ad)
  PROVE  IInv'
<1>1. PlanSound(plan', ad')
  BY DEF IInv, PlanSound
<1>2. phase' \notin Idle \cup {"open"}
  BY DEF Saving, Idle
<1>3. QED
  BY <1>1, <1>2 DEF IInv

(***************************************************************************)
(* save(), stage after stage, when every write succeeds. The flush of tag  *)
(* writes fails by itself if a file is not there.                          *)
(***************************************************************************)
LEMMA SaveKeepsIInv ==
  ASSUME IInv, Save
  PROVE  IInv'
<1>1. IsFiniteSet(DOMAIN disk) /\ Sound(ad)
  BY DEF IInv
<1>2. CASE FlushMove
  <2>1. PICK move : disk' = Renamed(disk, move)
    BY <1>2 DEF FlushMove
  <2>2. IsFiniteSet(DOMAIN disk')
    BY <1>1, <2>1, MapsStayFinite DEF Renamed
  <2>3. /\ plan' = plan /\ final' = final /\ ad' = ad
        /\ phase \in Saving /\ phase' \in Saving
    BY <1>2 DEF FlushMove, Saving
  <2>4. QED
    BY <1>1, <2>2, <2>3, StageKeepsIInv
<1>3. CASE FlushMovesEnd
  <2>1. /\ plan' = plan /\ final' = final /\ disk' = disk
        /\ phase \in Saving /\ phase' \in Saving
        /\ ad' = [ad EXCEPT !.pendingMoves = <<>>]
    BY <1>3 DEF FlushMovesEnd, Stage, Saving, device
  <2>2. Sound(ad') /\ Own(ad') = Own(ad) /\ Foreign(ad') = Foreign(ad)
    BY <1>1, <2>1, SavingIsSound
  <2>3. QED
    BY <1>1, <2>1, <2>2, StageKeepsIInv
<1>4. CASE FlushTags
  <2> DEFINE cleared == [ad EXCEPT !.pendingTagWrites = NoEntries]
  <2>1. DOMAIN disk' = DOMAIN disk
    BY <1>4 DEF FlushTags, Tagged
  <2>2. Sound(cleared) /\ Own(cleared) = Own(ad) /\ Foreign(cleared) = Foreign(ad)
    BY <1>1, SavingIsSound
  <2>3. CASE Untaggable = {}
    <3>1. /\ plan' = plan /\ final' = final
          /\ phase \in Saving /\ phase' \in Saving /\ ad' = cleared
      BY <1>4, <2>3 DEF FlushTags, Stage, Saving
    <3> HIDE DEF cleared
    <3>2. QED
      BY <1>1, <2>1, <2>2, <3>1, StageKeepsIInv
  <2>4. CASE Untaggable # {}
    <3>1. SaveThrows /\ (ad' = ClosedAdapter \/ ad' = cleared)
      BY <1>4, <2>4 DEF FlushTags
    <3> HIDE DEF cleared
    <3>2. QED
      BY <1>1, <2>1, <2>2, <3>1, ThrowKeepsIInv
  <2>5. QED
    BY <2>3, <2>4
<1>5. CASE FlushSidecarWrites
  <2>1. /\ plan' = plan /\ final' = final /\ disk' = disk
        /\ phase \in Saving /\ phase' \in Saving
        /\ ad' = [ad EXCEPT !.pendingSidecarWrites = {}]
    BY <1>5 DEF FlushSidecarWrites, Stage, Saving
  <2>2. Sound(ad') /\ Own(ad') = Own(ad) /\ Foreign(ad') = Foreign(ad)
    BY <1>1, <2>1, SavingIsSound
  <2>3. QED
    BY <1>1, <2>1, <2>2, StageKeepsIInv
<1>6. CASE FlushSidecarDeletes
  <2>1. PICK y : ad' = [ad EXCEPT !.pendingSidecarDeletes = {}, !.managedCovers = y]
    BY <1>6 DEF FlushSidecarDeletes
  <2>2. /\ plan' = plan /\ final' = final /\ disk' = disk
        /\ phase \in Saving /\ phase' \in Saving
    BY <1>6 DEF FlushSidecarDeletes, Stage, Saving
  <2>3. Sound(ad') /\ Own(ad') = Own(ad) /\ Foreign(ad') = Foreign(ad)
    <3>1. /\ DOMAIN ad' = DOMAIN ad /\ SameTracks(ad, ad')
          /\ ad'.pendingTagWrites = ad.pendingTagWrites
      BY <1>1, <2>1 DEF Sound, Shaped, SameTracks
    <3>2. QED
      BY <1>1, <3>1, OnlyTracksMatter
  <2>4. QED
    BY <1>1, <2>2, <2>3, StageKeepsIInv
<1>7. CASE WriteManifest
  <2>1. plan' = plan /\ disk' = disk /\ final' = FALSE
    BY <1>7 DEF WriteManifest
  <2>2. CASE final
    <3>1. final = TRUE
      BY <2>2 DEF IInv
    <3>2. plan = {} /\ ad' = ClosedAdapter
      BY <1>7, <3>1 DEF WriteManifest, IInv
    <3>3. PlanSound(plan', ad')
      BY <2>1, <3>2 DEF PlanSound
    <3>4. phase' = "closed"
      BY <1>7, <2>2 DEF WriteManifest
    <3>5. QED
      BY <1>1, <2>1, <3>2, <3>3, <3>4, ClosedIsSound DEF IInv, Idle
  <2>3. CASE ~final
    <3>1. ad' = ad /\ phase' = "executing"
      BY <1>7, <2>3 DEF WriteManifest
    <3>2. QED
      BY <2>1, <3>1 DEF IInv, Idle
  <2>4. QED
    BY <2>2, <2>3
<1>8. QED
  BY <1>2, <1>3, <1>4, <1>5, <1>6, <1>7 DEF Save

(***************************************************************************)
(* save() when a write fails, in any stage.                                *)
(***************************************************************************)
LEMMA SaveFailsKeepsIInv ==
  ASSUME IInv, SaveFails
  PROVE  IInv'
<1>1. IsFiniteSet(DOMAIN disk) /\ Sound(ad)
  BY DEF IInv
<1>2. SaveThrows
  BY DEF SaveFails, FlushMoveFails, FlushTagsFails, FlushSidecarWritesFails,
         FlushSidecarDeletesFails, WriteManifestFails
<1>3. DOMAIN disk' = DOMAIN disk
  BY DEF SaveFails, FlushMoveFails, FlushTagsFails, FlushSidecarWritesFails,
         FlushSidecarDeletesFails, WriteManifestFails, Tagged, device
<1>4. \/ ad' = ClosedAdapter
      \/ ad' = ad
      \/ ad' = [ad EXCEPT !.pendingTagWrites = NoEntries]
      \/ ad' = [ad EXCEPT !.pendingSidecarWrites = {}]
      \/ \E y : ad' = [ad EXCEPT !.pendingSidecarDeletes = {}, !.managedCovers = y]
  BY DEF SaveFails, FlushMoveFails, FlushTagsFails, FlushSidecarWritesFails,
         FlushSidecarDeletesFails, WriteManifestFails
<1>5. ad' = ClosedAdapter \/ Sound(ad')
  BY <1>1, <1>4, SavingIsSound
<1>6. QED
  BY <1>1, <1>2, <1>3, <1>5, ThrowKeepsIInv

(***************************************************************************)
(* What happens to a sync: it is interrupted or killed, or the collection  *)
(* is edited between two of them.                                          *)
(***************************************************************************)
LEMMA WorldKeepsIInv ==
  ASSUME IInv, FinalSave \/ Interrupt \/ Crash \/ Change
  PROVE  IInv'
<1>1. IsFiniteSet(DOMAIN disk) /\ Sound(ad)
  BY DEF IInv
<1>2. CASE FinalSave
  BY <1>2 DEF FinalSave, IInv, Idle, PlanSound, device
<1>3. CASE Interrupt
  <2>1. plan' = {} /\ disk' = disk
    BY <1>3 DEF Interrupt, device
  <2>2. \/ phase' = "moves" /\ final' = TRUE /\ ad' = ad
        \/ phase' = "closed" /\ final' = FALSE /\ ad' = ClosedAdapter
    BY <1>3 DEF Interrupt
  <2>3. QED
    BY <1>1, <2>1, <2>2, ClosedIsSound DEF IInv, Idle, PlanSound
<1>4. CASE Crash
  <2>1. /\ plan' = {} /\ phase' = "closed" /\ final' = FALSE /\ ad' = ClosedAdapter
        /\ disk' \in TornFiles
    BY <1>4 DEF Crash
  <2>2. \/ disk' = disk
        \/ \E done : disk' = Tagged(done)
        \/ \E op : disk' = Replaced(op, disk)
    BY <2>1 DEF TornFiles
  <2>3. IsFiniteSet(DOMAIN disk')
    BY <1>1, <2>2, MapsStayFinite DEF Tagged, Replaced
  <2>4. QED
    BY <2>1, <2>3, ClosedIsSound DEF IInv, PlanSound
<1>5. CASE Change
  <2>1. /\ disk' = disk /\ plan' = plan /\ final' = final
        /\ phase \in Idle /\ phase' = "closed" /\ ad' = ClosedAdapter
    BY <1>5 DEF Change, device
  <2>2. QED
    BY <1>1, <2>1, ClosedIsSound DEF IInv, Idle, PlanSound
<1>6. QED
  BY <1>2, <1>3, <1>4, <1>5

(***************************************************************************)
(* Every step of a sync, and every accident, keeps the invariant.          *)
(***************************************************************************)
LEMMA NextIInv == IInv /\ [Next]_vars => IInv'
<1> SUFFICES ASSUME IInv, [Next]_vars PROVE IInv'
  OBVIOUS
<1>1. CASE Run
  <2>1. ASSUME NEW op \in plan, Execute(op) PROVE IInv'
    BY <2>1, ExecuteKeepsIInv
  <2>2. QED
    BY <1>1, <2>1, PlanningKeepsIInv, SaveKeepsIInv, WorldKeepsIInv DEF Run
<1>2. CASE Trouble
  <2>1. ASSUME NEW op \in plan, AddFails(op) PROVE IInv'
    BY <2>1, AddFailsKeepsIInv
  <2>2. ASSUME NEW op \in plan, UpgradeLeavesOld(op) PROVE IInv'
    BY <2>2, ExecuteKeepsIInv
  <2>3. QED
    BY <1>2, <2>1, <2>2, SaveFailsKeepsIInv, WorldKeepsIInv DEF Trouble
<1>3. CASE UNCHANGED vars
  BY <1>3 DEF vars, device, process, IInv
<1>4. QED
  BY <1>1, <1>2, <1>3 DEF Next

(***************************************************************************)
(* The invariant holds in every reachable state.                           *)
(***************************************************************************)
LEMMA IInvHolds == Spec => []IInv
<1>1. Init => IInv
  BY InitIInv
<1>2. IInv /\ [Next]_vars => IInv'
  BY NextIInv
<1>3. QED
  BY <1>1, <1>2, PTL DEF Spec

(***************************************************************************)
(* allocatedPaths, managedFiles, pendingTagWrites and the track list of    *)
(* the adapter agree after any number of adds, rollbacks, relocations and  *)
(* replacements: deduplicatePath and the flush of tags can rely on them.   *)
(***************************************************************************)
THEOREM BooksAgree == Spec => []Bookkeeping
<1>1. IInv => Bookkeeping
  BY DEF IInv, Sound, Balanced, Bookkeeping
<1>2. QED
  BY <1>1, IInvHolds, PTL

(***************************************************************************)
(* checkAddCollisions is asked once, before the run: no operation of the   *)
(* run and no retry of a failed add makes a collision that it did not see. *)
(***************************************************************************)
THEOREM CollisionsAreCaughtEarly == Spec => []CollisionsCaughtEarly
<1>1. IInv => CollisionsCaughtEarly
  BY DEF IInv, PlanSound, Foreign, Collisions, CollisionsCaughtEarly
<1>2. QED
  BY <1>1, IInvHolds, PTL

(***************************************************************************)
(* A sync that was just opened sees the device as it is, as nothing comes  *)
(* between reading it and comparing, and only Settle ends it as settled.   *)
(***************************************************************************)
OpenIsFresh == phase = "open" => ad = OpenedAdapter(disk, manifest)

LEMMA PhaseFacts ==
  ASSUME [Next]_vars, phase' \in {"open", "settled"}
  PROVE  \/ Open /\ phase' = "open"
         \/ Settle /\ phase' = "settled"
         \/ UNCHANGED vars
<1>1. \A op \in plan : ~Execute(op) /\ ~AddFails(op) /\ ~UpgradeLeavesOld(op)
  <2>1. \A op, kind : ~Doing(op, kind)
    BY DEF Doing
  <2>2. \A op \in plan : ~Execute(op) /\ ~UpgradeLeavesOld(op)
    BY <2>1 DEF Execute, Remove, Update, Relocate, Add, Upgrade, UpgradeLeavesOld
  <2>3. \A op \in plan : ~AddFails(op)
    BY DEF AddFails
  <2>. QED BY <2>2, <2>3
<1>2. ~SaveThrows
  BY DEF SaveThrows
<1>3. \A at, next : next \notin {"open", "settled"} => ~Stage(at, next)
  BY DEF Stage
<1>4. ~Save
  BY <1>2, <1>3 DEF Save, FlushMove, FlushMovesEnd, FlushTags, FlushSidecarWrites,
                    FlushSidecarDeletes, WriteManifest
<1>5. ~SaveFails
  BY <1>2 DEF SaveFails, FlushMoveFails, FlushTagsFails, FlushSidecarWritesFails,
              FlushSidecarDeletesFails, WriteManifestFails
<1>6. ~Refuse /\ ~Start /\ ~FinalSave /\ ~Interrupt /\ ~Crash /\ ~Change
  BY DEF Refuse, Start, FinalSave, Interrupt, Crash, Change
<1>7. (Open => phase' = "open") /\ (Settle => phase' = "settled")
  BY DEF Open, Settle
<1>. QED BY <1>1, <1>4, <1>5, <1>6, <1>7 DEF Next, Run, Trouble

LEMMA FreshStep == OpenIsFresh /\ [Next]_vars => OpenIsFresh'
<1> SUFFICES ASSUME OpenIsFresh, [Next]_vars, phase' = "open" PROVE OpenIsFresh'
  BY DEF OpenIsFresh
<1>1. CASE Open
  BY <1>1 DEF Open, OpenIsFresh, device
<1>2. CASE UNCHANGED vars
  BY <1>2 DEF OpenIsFresh, vars, device, process
<1>. QED BY <1>1, <1>2, PhaseFacts

(***************************************************************************)
(* A diff that finds nothing: each wanted song has a track that podkit     *)
(* lists, at its place, in its form and with its metadata.                 *)
(***************************************************************************)
LEMMA NothingToDo ==
  ASSUME NEW kept \in Matchings, Operations(kept) = {}, NEW s \in Wanted
  PROVE  \E p \in DeviceItems :
           /\ ad.tracks[p].song = s
           /\ p.at = source[s].at
           /\ ad.tracks[p].meta = source[s].meta
           /\ Sidecar => p.ext = source[s].ext
<1>1. s \in Matched
  <2>1. Additions = {}
    BY DEF Operations
  <2>. QED BY <2>1 DEF Additions
<1> DEFINE p == kept[s]
<1>2. p \in DeviceItems /\ ad.tracks[p].song = s
  <2>1. p \in ItemsOf(s)
    BY <1>1 DEF Matchings
  <2>. QED BY <2>1 DEF ItemsOf
<1>3. OperationFor(s, p) = {}
  <2>1. ChangesOf(s, p) = {}
    BY <1>1 DEF Operations
  <2>. QED BY <2>1 DEF ChangesOf
<1>4. ~NeedsFile(s, p) /\ ~Misplaced(s, p) /\ ~Outdated(s, p)
  BY <1>3 DEF OperationFor
<1>5. p.at = source[s].at
  <2>1. p = Home(s, p.ext)
    BY <1>4 DEF Misplaced
  <2>2. Home(s, p.ext).at = source[s].at
    BY DEF Home, HomePath
  <2>. QED BY <2>1, <2>2
<1>6. Sidecar => p.ext = source[s].ext
  BY <1>4 DEF NeedsFile, LacksCover, OtherCodec
<1>7. ad.tracks[p].meta = source[s].meta
  BY <1>4 DEF Outdated
<1>. QED BY <1>2, <1>5, <1>6, <1>7

LEMMA SettlesInSync ==
  ASSUME OpenIsFresh, Settle PROVE SettledIsSynced'
<1> SUFFICES ASSUME NEW s \in Wanted
             PROVE  \E p \in DOMAIN disk :
                      /\ p \in manifest.files
                      /\ disk[p].song = s
                      /\ p.at = source[s].at
                      /\ disk[p].meta = source[s].meta
                      /\ Sidecar => p.ext = source[s].ext
  BY DEF SettledIsSynced, Settle, device, Wanted
<1>1. ad = OpenedAdapter(disk, manifest)
  BY DEF OpenIsFresh, Settle
<1>2. PICK kept \in Matchings : Operations(kept) = {}
  BY DEF Settle
<1>3. PICK p \in DeviceItems :
           /\ ad.tracks[p].song = s
           /\ p.at = source[s].at
           /\ ad.tracks[p].meta = source[s].meta
           /\ Sidecar => p.ext = source[s].ext
  BY <1>2, NothingToDo
<1>4. ad.tracks = [q \in DOMAIN disk |->
                     [song |-> disk[q].song, meta |-> disk[q].meta,
                      tag |-> disk[q].tag, managed |-> q \in manifest.files]]
  BY <1>1 DEF OpenedAdapter, ClosedAdapter
<1>5. p \in DOMAIN disk /\ ad.tracks[p].managed
  BY <1>4 DEF DeviceItems
<1>6. /\ disk[p].song = s
      /\ disk[p].meta = source[s].meta
      /\ p \in manifest.files
  <2>1. ad.tracks[p] = [song |-> disk[p].song, meta |-> disk[p].meta,
                        tag |-> disk[p].tag, managed |-> p \in manifest.files]
    BY <1>4, <1>5
  <2>2. ad.tracks[p].managed = (p \in manifest.files)
    BY <2>1
  <2>3. ad.tracks[p].song = disk[p].song /\ ad.tracks[p].meta = disk[p].meta
    BY <2>1
  <2>. QED BY <1>3, <1>5, <2>2, <2>3
<1>. QED BY <1>3, <1>5, <1>6

(***************************************************************************)
(* Whatever went wrong before, a sync that says that there is nothing to   *)
(* do is right: every wanted song is on the device and listed, at the      *)
(* layout's place, in the wanted form and with its metadata.               *)
(***************************************************************************)
THEOREM SettledSynced == Spec => []SettledIsSynced
<1>1. Init => OpenIsFresh /\ SettledIsSynced
  BY DEF Init, OpenIsFresh, SettledIsSynced
<1>2. OpenIsFresh /\ SettledIsSynced /\ [Next]_vars => OpenIsFresh' /\ SettledIsSynced'
  <2> SUFFICES ASSUME OpenIsFresh, SettledIsSynced, [Next]_vars, phase' = "settled"
               PROVE  SettledIsSynced'
    BY FreshStep DEF SettledIsSynced
  <2>1. CASE UNCHANGED vars
    BY <2>1 DEF SettledIsSynced, vars, device, process, Wanted
  <2>. QED BY <2>1, PhaseFacts, SettlesInSync
<1>. QED BY <1>1, <1>2, PTL DEF Spec

-----------------------------------------------------------------------------
(* Types. Most of the work is in the adapter's state, which                *)
(* MassStorageTypeOK leaves out.                                           *)

Maps(S) == UNION {[P -> S] : P \in SUBSET Paths}
Tags == {"none", "synced"}
Tracks == [song : Songs \cup {UserTags}, meta : Versions, tag : Tags, managed : BOOLEAN]
Fields == [meta : Versions \cup {Keep}, tag : Tags \cup {Keep}]
Moves == [from : Paths, to : Paths]

Adapters ==
  [tracks : Maps(Tracks), allocatedPaths : SUBSET Paths, managedFiles : SUBSET Paths,
   managedCovers : SUBSET Dirs, pendingTagWrites : Maps(Fields), pendingMoves : Seq(Moves),
   pendingSidecarWrites : SUBSET Dirs, pendingSidecarDeletes : SUBSET Dirs]

\* Only tags and covers differ.
SamePlaces(a, b) == DOMAIN b.tracks = DOMAIN a.tracks /\ b.pendingMoves = a.pendingMoves

LEMMA MapFacts ==
  ASSUME NEW S, NEW map
  PROVE  map \in Maps(S) <=> /\ DOMAIN map \subseteq Paths
                             /\ map \in [DOMAIN map -> S]
<1>1. map \in Maps(S) => DOMAIN map \subseteq Paths /\ map \in [DOMAIN map -> S]
  BY DEF Maps
<1>2. DOMAIN map \subseteq Paths /\ map \in [DOMAIN map -> S] => map \in Maps(S)
  BY DEF Maps
<1>. QED BY <1>1, <1>2

\* An entry put, taken or renamed leaves a map a map.
LEMMA PutIsMap ==
  ASSUME NEW S, NEW map \in Maps(S), NEW key \in Paths, NEW value \in S
  PROVE  /\ Put(map, key, value) \in Maps(S)
         /\ DOMAIN Put(map, key, value) = DOMAIN map \cup {key}
BY MapFacts DEF Put

LEMMA WithoutIsMap ==
  ASSUME NEW S, NEW map \in Maps(S), NEW key
  PROVE  /\ Without(map, key) \in Maps(S)
         /\ DOMAIN Without(map, key) = DOMAIN map \ {key}
BY MapFacts DEF Without

LEMMA EntryMoves ==
  ASSUME NEW S, NEW map \in Maps(S), NEW old \in DOMAIN map, NEW new \in Paths
  PROVE  LET moved == Put(Without(map, old), new, map[old])
         IN moved \in Maps(S) /\ DOMAIN moved = (DOMAIN map \ {old}) \cup {new}
<1> DEFINE rest == Without(map, old)
           value == map[old]
<1>1. DOMAIN map \subseteq Paths /\ map \in [DOMAIN map -> S]
  BY MapFacts
<1>2. value \in S
  BY <1>1
<1>3. rest \in Maps(S) /\ DOMAIN rest = DOMAIN map \ {old}
  BY WithoutIsMap
<1> HIDE DEF rest, value
<1>4. Put(rest, new, value) \in Maps(S) /\ DOMAIN Put(rest, new, value) = DOMAIN rest \cup {new}
  BY <1>2, <1>3, PutIsMap, Z3
<1>. QED BY <1>3, <1>4 DEF rest, value

LEMMA RekeyIsMap ==
  ASSUME NEW S, NEW map \in Maps(S), NEW old, NEW new \in Paths
  PROVE  Rekey(map, old, new) \in Maps(S)
BY EntryMoves DEF Rekey

LEMMA EmptyIsMap == ASSUME NEW S PROVE NoEntries \in Maps(S)
BY MapFacts DEF NoEntries

LEMMA DirOfPath == \A path \in Paths : AlbumDir(path) \in Dirs
BY DEF Paths, AlbumDir, Dirs

LEMMA HomeIsPath ==
  ASSUME NEW place \in Places, NEW ext \in Exts
  PROVE  HomePath(place, ext) \in Paths /\ HomePath(place, ext).at = place
BY DEF HomePath, Paths

\* deduplicatePath gives a free name in the same directory.
LEMMA DeduplicateIsPath ==
  ASSUME NEW path \in Paths, NEW taken, IsFiniteSet(taken)
  PROVE  LET new == Deduplicate(path, taken)
         IN /\ new \in Paths /\ new \notin taken
            /\ new.at = path.at /\ AlbumDir(new) = AlbumDir(path)
<1> DEFINE new == Deduplicate(path, taken)
           top == Cardinality(taken) + 2
           f == [n \in 2..top |-> [path EXCEPT !.no = n]]
           free == {n \in 2..top : f[n] \notin taken}
<1>1. path = [at |-> path.at, ext |-> path.ext, no |-> path.no, dashes |-> path.dashes]
  BY DEF Paths
<1>2. \A at, ext, no, dashes :
        Deduplicate([at |-> at, ext |-> ext, no |-> no, dashes |-> dashes], taken)
          \notin taken
  BY DeduplicateIsFree
<1>3. new \notin taken
  BY <1>1, <1>2
<1>4. CASE path \notin taken
  BY <1>3, <1>4 DEF Deduplicate
<1>5. CASE path \in taken
  <2>1. Cardinality(taken) \in Nat
    BY FS_CardinalityType
  <2>2. Min(free) \in free
    <3>1. 2 \in Nat /\ top \in Nat /\ top - 2 + 1 > Cardinality(taken)
      BY <2>1
    <3>2. \A x, y \in 2..top : f[x] = f[y] => x = y
      <4>1. \A n \in 2..top : f[n].no = n
        BY DEF Paths
      <4>. QED BY <4>1
    <3>3. DOMAIN f = 2..top
      OBVIOUS
    <3>4. \A n : n \in free <=> n \in 2..top /\ f[n] \notin taken
      OBVIOUS
    <3> HIDE DEF f, top, free
    <3>. QED BY <3>1, <3>2, <3>3, <3>4, SearchEnds
  <2>3. {n \in 2..(Cardinality(taken) + 2) : [path EXCEPT !.no = n] \notin taken} = free
    OBVIOUS
  <2>4. new = [path EXCEPT !.no = Min(free)]
    BY <1>5, <2>3 DEF Deduplicate
  <2> HIDE DEF free, new
  <2>5. Min(free) \in Nat
    BY <2>1, <2>2 DEF free
  <2>6. new \in Paths /\ new.at = path.at
    BY <2>4, <2>5 DEF Paths
  <2>. QED BY <1>3, <2>6 DEF AlbumDir, new
<1>. QED BY <1>4, <1>5

\* So does the name that a replacement gets.
LEMMA ReplacementIsPath ==
  ASSUME NEW path \in Paths, NEW ext \in Exts, NEW taken, IsFiniteSet(taken)
  PROVE  LET new == ReplacementPath(path, ext, taken)
         IN /\ new \in Paths /\ new.at = path.at /\ AlbumDir(new) = AlbumDir(path)
            /\ new = path \/ new \notin taken
<1> DEFINE renamed == [path EXCEPT !.ext = ext]
           top == Cardinality(taken) + 1
           f == [k \in 1..top |-> [renamed EXCEPT !.dashes = Append(@, k)]]
           free == {k \in 1..top : f[k] \notin taken}
           new == ReplacementPath(path, ext, taken)
<1>1. renamed \in Paths /\ renamed.at = path.at /\ renamed.dashes \in Seq(Nat)
  BY DEF Paths
<1>2. CASE ext = path.ext
  BY <1>2 DEF ReplacementPath
<1>3. CASE ext # path.ext /\ renamed \notin taken
  BY <1>1, <1>3 DEF ReplacementPath, AlbumDir
<1>4. CASE ext # path.ext /\ renamed \in taken
  <2>1. Cardinality(taken) \in Nat
    BY FS_CardinalityType
  <2>2. ASSUME NEW k \in 1..top
        PROVE  /\ f[k] \in Paths /\ f[k].at = path.at
               /\ f[k].dashes = Append(renamed.dashes, k)
    <3>1. Append(renamed.dashes, k) \in Seq(Nat)
      BY <1>1, <2>1
    <3> HIDE DEF renamed
    <3>. QED BY <1>1, <3>1 DEF Paths
  <2>3. \A x, y \in 1..top : f[x] = f[y] => x = y
    <3>1. \A k \in 1..top : Append(renamed.dashes, k)[Len(renamed.dashes) + 1] = k
      BY <1>1
    <3> HIDE DEF f, top
    <3>. QED BY <2>2, <3>1
  <2>4. Min(free) \in free
    <3>1. 1 \in Nat /\ top \in Nat /\ top - 1 + 1 > Cardinality(taken)
      BY <2>1
    <3>2. DOMAIN f = 1..top
      OBVIOUS
    <3>3. \A k : k \in free <=> k \in 1..top /\ f[k] \notin taken
      OBVIOUS
    <3> HIDE DEF f, top, free
    <3>. QED BY <2>3, <3>1, <3>2, <3>3, SearchEnds
  <2>5. {k \in 1..(Cardinality(taken) + 1) :
           [renamed EXCEPT !.dashes = Append(@, k)] \notin taken} = free
    OBVIOUS
  <2>6. new = [renamed EXCEPT !.dashes = Append(@, Min(free))]
    BY <1>4, <2>5 DEF ReplacementPath
  <2> HIDE DEF free, renamed
  <2>7. Min(free) \in 1..top /\ f[Min(free)] \notin taken
    BY <2>4 DEF free
  <2>8. new = f[Min(free)]
    BY <2>6, <2>7
  <2> HIDE DEF f, new
  <2>9. new \in Paths /\ new.at = path.at /\ new \notin taken
    BY <2>2, <2>7, <2>8
  <2>. QED BY <2>9 DEF AlbumDir, new
<1>. QED BY <1>2, <1>3, <1>4

-----------------------------------------------------------------------------
(* The adapter's methods: of what type the state is that they lead to, at  *)
(* which paths its tracks are, and which moves are queued.                 *)

LEMMA ClosedIsTyped == ClosedAdapter \in Adapters /\ DOMAIN ClosedAdapter.tracks = {}
<1>1. \A S : NoEntries \in Maps(S)
  BY EmptyIsMap
<1>2. <<>> \in Seq(Moves) /\ DOMAIN NoEntries = {}
  BY DEF NoEntries
<1>. QED BY <1>1, <1>2 DEF ClosedAdapter, Adapters

LEMMA OpenedIsTyped ==
  ASSUME NEW files \in Maps(Files), NEW rows \in [files : SUBSET Paths, covers : SUBSET Dirs]
  PROVE  LET a == OpenedAdapter(files, rows)
         IN a \in Adapters /\ DOMAIN a.tracks = DOMAIN files /\ a.pendingMoves = <<>>
<1> DEFINE tracks == [p \in DOMAIN files |->
                        [song |-> files[p].song, meta |-> files[p].meta,
                         tag |-> files[p].tag, managed |-> p \in rows.files]]
           a == OpenedAdapter(files, rows)
<1>1. DOMAIN files \subseteq Paths /\ files \in [DOMAIN files -> Files]
  BY MapFacts
<1>2. tracks \in Maps(Tracks)
  <2>1. ASSUME NEW p \in DOMAIN files
        PROVE  [song |-> files[p].song, meta |-> files[p].meta,
                tag |-> files[p].tag, managed |-> p \in rows.files] \in Tracks
    <3>1. files[p] \in Files
      BY <1>1
    <3>2. (p \in rows.files) \in BOOLEAN
      OBVIOUS
    <3>. QED BY <3>1, <3>2 DEF Files, Tracks, Tags
  <2>2. tracks \in [DOMAIN files -> Tracks]
    BY <2>1
  <2> HIDE DEF tracks
  <2>. QED BY <1>1, <2>2, MapFacts
<1>3. DOMAIN tracks = DOMAIN files
  OBVIOUS
<1>4. a = [ClosedAdapter EXCEPT !.managedFiles = rows.files, !.managedCovers = rows.covers,
                                !.allocatedPaths = DOMAIN files, !.tracks = tracks]
  BY DEF OpenedAdapter
<1> HIDE DEF tracks, a
<1>5. a \in Adapters /\ a.tracks = tracks /\ a.pendingMoves = <<>>
  <2>1. ClosedAdapter \in Adapters /\ ClosedAdapter.pendingMoves = <<>>
    BY ClosedIsTyped DEF ClosedAdapter
  <2> HIDE DEF ClosedAdapter
  <2>. QED BY <1>1, <1>2, <1>4, <2>1 DEF Adapters
<1>. QED BY <1>3, <1>5 DEF a

LEMMA QueueTagWriteIsTyped ==
  ASSUME NEW a \in Adapters, NEW path \in Paths, NEW fields \in Fields
  PROVE  LET b == QueueTagWrite(a, path, fields)
         IN b \in Adapters /\ b.tracks = a.tracks /\ b.pendingMoves = a.pendingMoves
<1> DEFINE old == IF path \in DOMAIN a.pendingTagWrites
                  THEN a.pendingTagWrites[path] ELSE [meta |-> Keep, tag |-> Keep]
           Merged(x, y) == IF y = Keep THEN x ELSE y
           both == [meta |-> Merged(old.meta, fields.meta), tag |-> Merged(old.tag, fields.tag)]
<1>1. a.pendingTagWrites \in Maps(Fields)
  BY DEF Adapters
<1>2. old \in Fields
  <2>1. path \in DOMAIN a.pendingTagWrites => a.pendingTagWrites[path] \in Fields
    BY <1>1, MapFacts
  <2>2. [meta |-> Keep, tag |-> Keep] \in Fields
    BY DEF Fields
  <2>. QED BY <2>1, <2>2
<1>3. both \in Fields
  BY <1>2 DEF Fields
<1>4. Put(a.pendingTagWrites, path, both) \in Maps(Fields)
  BY <1>1, <1>3, PutIsMap
<1>5. \/ QueueTagWrite(a, path, fields) = a
      \/ QueueTagWrite(a, path, fields)
           = [a EXCEPT !.pendingTagWrites = Put(a.pendingTagWrites, path, both)]
  BY DEF QueueTagWrite
<1> HIDE DEF both
<1>. QED BY <1>4, <1>5 DEF Adapters

LEMMA UpdateTrackIsTyped ==
  ASSUME NEW a \in Adapters, NEW path \in DOMAIN a.tracks, NEW fields \in Fields
  PROVE  LET b == UpdateTrack(a, path, fields) IN b \in Adapters /\ SamePlaces(a, b)
<1> DEFINE track == a.tracks[path]
           Changed(new, old) == IF new = old THEN Keep ELSE new
           updated == [track EXCEPT !.meta = IF fields.meta = Keep THEN @ ELSE fields.meta,
                                    !.tag = IF fields.tag = Keep THEN @ ELSE fields.tag]
           write == [meta |-> Changed(fields.meta, track.meta),
                     tag |-> Changed(fields.tag, track.tag)]
           c == [a EXCEPT !.tracks[path] = updated]
<1>1. DOMAIN a.tracks \subseteq Paths /\ a.tracks \in [DOMAIN a.tracks -> Tracks]
  BY MapFacts DEF Adapters
<1>2. track \in Tracks
  BY <1>1
<1>3. updated \in Tracks
  BY <1>2 DEF Fields, Tracks
<1>4. write \in Fields
  BY DEF Fields
<1>5. UpdateTrack(a, path, fields) = QueueTagWrite(c, path, write)
  BY DEF UpdateTrack
<1> HIDE DEF updated, write
<1>6. [a.tracks EXCEPT ![path] = updated] \in Maps(Tracks)
  <2>1. [a.tracks EXCEPT ![path] = updated] \in [DOMAIN a.tracks -> Tracks]
    BY <1>1, <1>3
  <2>. QED BY <1>1, <2>1, MapFacts
<1>7. c \in Adapters /\ DOMAIN c.tracks = DOMAIN a.tracks /\ c.pendingMoves = a.pendingMoves
  BY <1>6 DEF Adapters
<1> HIDE DEF c
<1>8. path \in Paths
  BY <1>1
<1>. QED BY <1>4, <1>5, <1>7, <1>8, QueueTagWriteIsTyped DEF SamePlaces

LEMMA AddTrackIsTyped ==
  ASSUME NEW a \in Adapters, NEW path \in Paths, NEW song \in Songs, NEW meta \in Versions
  PROVE  LET b == AddTrack(a, path, song, meta)
         IN /\ b \in Adapters
            /\ DOMAIN b.tracks = DOMAIN a.tracks \cup {path}
            /\ b.pendingMoves = a.pendingMoves
<1> DEFINE new == [song |-> song, meta |-> meta, tag |-> "synced", managed |-> TRUE]
           tracks == Put(a.tracks, path, new)
           c == [a EXCEPT !.allocatedPaths = @ \cup {path},
                          !.managedFiles = @ \cup {path},
                          !.tracks = tracks]
<1>1. new \in Tracks
  BY DEF Tracks, Tags
<1>2. tracks \in Maps(Tracks) /\ DOMAIN tracks = DOMAIN a.tracks \cup {path}
  <2>1. a.tracks \in Maps(Tracks)
    BY DEF Adapters
  <2> HIDE DEF new
  <2>. QED BY <1>1, <2>1, PutIsMap
<1>3. AddTrack(a, path, song, meta) =
        QueueTagWrite(c, path, [meta |-> Keep, tag |-> "synced"])
  BY DEF AddTrack
<1> HIDE DEF new, tracks
<1>4. c \in Adapters /\ c.tracks = tracks /\ c.pendingMoves = a.pendingMoves
  BY <1>2 DEF Adapters
<1> HIDE DEF c
<1>5. [meta |-> Keep, tag |-> "synced"] \in Fields
  BY DEF Fields, Tags
<1>. QED BY <1>2, <1>3, <1>4, <1>5, QueueTagWriteIsTyped

LEMMA RollBackIsTyped ==
  ASSUME NEW a \in Adapters, NEW path
  PROVE  LET b == RollBack(a, path)
         IN /\ b \in Adapters
            /\ DOMAIN b.tracks = DOMAIN a.tracks \ {path}
            /\ b.pendingMoves = a.pendingMoves
<1>1. /\ Without(a.tracks, path) \in Maps(Tracks)
      /\ DOMAIN Without(a.tracks, path) = DOMAIN a.tracks \ {path}
      /\ Without(a.pendingTagWrites, path) \in Maps(Fields)
  BY WithoutIsMap DEF Adapters
<1>. QED BY <1>1 DEF RollBack, Adapters

LEMMA SidecarsAreTyped ==
  ASSUME NEW a \in Adapters, NEW dir \in Dirs, NEW b,
         b \in {WriteSidecar(a, dir), MaybeQueueSidecarDelete(a, dir)}
  PROVE  b \in Adapters /\ b.tracks = a.tracks /\ b.pendingMoves = a.pendingMoves
<1>1. \/ b = a
      \/ b = [a EXCEPT !.pendingSidecarDeletes = @ \cup {dir}]
      \/ b = [a EXCEPT !.pendingSidecarWrites = @ \cup {dir},
                       !.pendingSidecarDeletes = @ \ {dir},
                       !.managedCovers = @ \cup {dir}]
  BY DEF WriteSidecar, MaybeQueueSidecarDelete
<1>2. CASE b = a
  BY <1>2
<1>3. CASE b = [a EXCEPT !.pendingSidecarDeletes = @ \cup {dir}]
  BY <1>3 DEF Adapters
<1>4. CASE b = [a EXCEPT !.pendingSidecarWrites = @ \cup {dir},
                        !.pendingSidecarDeletes = @ \ {dir},
                        !.managedCovers = @ \cup {dir}]
  BY <1>4 DEF Adapters
<1>. QED BY <1>1, <1>2, <1>3, <1>4

\* A track goes to another path.
LEMMA MovedIsTyped ==
  ASSUME NEW a \in Adapters, NEW old \in DOMAIN a.tracks, NEW new \in Paths,
         NEW u \in {TrackMoves(a, old, new),
                    [TrackMoves(a, old, new) EXCEPT !.managedFiles = @ \cup {new}]}
  PROVE  LET b == RekeyPendingWrites(u, old, new)
         IN /\ b \in Adapters
            /\ DOMAIN b.tracks = (DOMAIN a.tracks \ {old}) \cup {new}
            /\ b.pendingMoves = a.pendingMoves
<1> DEFINE tracks == Put(Without(a.tracks, old), new, a.tracks[old])
           t == TrackMoves(a, old, new)
           tags == [u EXCEPT !.pendingTagWrites = Rekey(u.pendingTagWrites, old, new)]
           b == RekeyPendingWrites(u, old, new)
<1>1. /\ old \in Paths /\ a.tracks[old] \in Tracks
      /\ a.tracks \in Maps(Tracks)
  BY MapFacts DEF Adapters
<1>2. tracks \in Maps(Tracks) /\ DOMAIN tracks = (DOMAIN a.tracks \ {old}) \cup {new}
  <2> DEFINE map == a.tracks
  <2>1. map \in Maps(Tracks) /\ old \in DOMAIN map
    BY <1>1
  <2> HIDE DEF map
  <2>2. LET moved == Put(Without(map, old), new, map[old])
        IN moved \in Maps(Tracks) /\ DOMAIN moved = (DOMAIN map \ {old}) \cup {new}
    BY <2>1, EntryMoves
  <2>. QED BY <2>2 DEF map
<1>3. /\ t \in Adapters /\ t.tracks = tracks /\ t.pendingMoves = a.pendingMoves
  <2>1. t = [a EXCEPT !.allocatedPaths = (@ \ {old}) \cup {new},
                      !.managedFiles = IF old \in @ THEN (@ \ {old}) \cup {new} ELSE @,
                      !.tracks = tracks]
    BY DEF TrackMoves
  <2> HIDE DEF t, tracks
  <2>. QED BY <1>1, <1>2, <2>1 DEF Adapters
<1> HIDE DEF t, tracks
<1>4. u \in Adapters /\ u.tracks = tracks /\ u.pendingMoves = a.pendingMoves
  <2>1. u = t \/ u = [t EXCEPT !.managedFiles = @ \cup {new}]
    BY DEF t
  <2>. QED BY <1>3, <2>1 DEF Adapters
<1>5. tags \in Adapters /\ tags.tracks = tracks /\ tags.pendingMoves = a.pendingMoves
  <2>1. Rekey(u.pendingTagWrites, old, new) \in Maps(Fields)
    BY <1>4, RekeyIsMap DEF Adapters
  <2>. QED BY <1>4, <2>1 DEF Adapters
<1>6. \/ b = tags
      \/ \E w, m \in SUBSET Dirs :
           b = [tags EXCEPT !.pendingSidecarWrites = w, !.managedCovers = m]
  <2> DEFINE from == AlbumDir(old)
             to == AlbumDir(new)
  <2>1. from \in Dirs /\ to \in Dirs
    BY <1>1, DirOfPath
  <2> HIDE DEF from, to
  <2>2. \/ b = tags
        \/ b = [tags EXCEPT
                  !.pendingSidecarWrites = (@ \ {from}) \cup {to},
                  !.managedCovers = IF from \in @ THEN (@ \ {from}) \cup {to} ELSE @]
    BY DEF RekeyPendingWrites, from, to
  <2> HIDE DEF b, tags
  <2>3. (tags.pendingSidecarWrites \ {from}) \cup {to} \in SUBSET Dirs
    BY <1>5, <2>1 DEF Adapters
  <2>4. (IF from \in tags.managedCovers THEN (tags.managedCovers \ {from}) \cup {to}
         ELSE tags.managedCovers) \in SUBSET Dirs
    BY <1>5, <2>1 DEF Adapters
  <2>. QED BY <2>2, <2>3, <2>4
<1> HIDE DEF tags, b
<1>7. b \in Adapters /\ b.tracks = tracks /\ b.pendingMoves = a.pendingMoves
  BY <1>5, <1>6 DEF Adapters
<1>. QED BY <1>2, <1>7 DEF b

\* relocateTrack queues one move, to a path that was free.
LEMMA RelocateIsTyped ==
  ASSUME NEW a \in Adapters, IsFiniteSet(a.allocatedPaths), NEW old \in DOMAIN a.tracks,
         NEW home \in Paths
  PROVE  LET new == Deduplicate(home, a.allocatedPaths)
             b == RelocateTrack(a, old, home)
         IN /\ b \in Adapters
            /\ DOMAIN b.tracks = (DOMAIN a.tracks \ {old}) \cup {new}
            /\ b.pendingMoves = Append(a.pendingMoves, [from |-> old, to |-> new])
<1> DEFINE new == Deduplicate(home, a.allocatedPaths)
           c == RekeyPendingWrites(TrackMoves(a, old, new), old, new)
           d == [c EXCEPT !.pendingMoves = Append(@, [from |-> old, to |-> new])]
           b == RelocateTrack(a, old, home)
<1>1. b = d \/ b = MaybeQueueSidecarDelete(d, AlbumDir(old))
  BY DEF RelocateTrack
<1>2. new \in Paths
  BY DeduplicateIsPath
<1>3. old \in Paths
  BY MapFacts DEF Adapters
<1> HIDE DEF new
<1>4. /\ c \in Adapters
      /\ DOMAIN c.tracks = (DOMAIN a.tracks \ {old}) \cup {new}
      /\ c.pendingMoves = a.pendingMoves
  <2>1. TrackMoves(a, old, new) \in {TrackMoves(a, old, new),
              [TrackMoves(a, old, new) EXCEPT !.managedFiles = @ \cup {new}]}
    OBVIOUS
  <2>. QED BY <1>2, <2>1, MovedIsTyped
<1> HIDE DEF c
<1>5. /\ d \in Adapters /\ d.tracks = c.tracks
      /\ d.pendingMoves = Append(a.pendingMoves, [from |-> old, to |-> new])
  <2>1. [from |-> old, to |-> new] \in Moves
    BY <1>2, <1>3 DEF Moves
  <2>2. Append(c.pendingMoves, [from |-> old, to |-> new]) \in Seq(Moves)
    BY <1>4, <2>1 DEF Adapters
  <2>. QED BY <1>4, <2>2 DEF Adapters
<1> HIDE DEF d, b
<1>6. b \in Adapters /\ b.tracks = d.tracks /\ b.pendingMoves = d.pendingMoves
  <2>1. AlbumDir(old) \in Dirs
    BY <1>3, DirOfPath
  <2>2. CASE b = d
    BY <1>5, <2>2
  <2>3. CASE b = MaybeQueueSidecarDelete(d, AlbumDir(old))
    BY <1>5, <2>1, <2>3, SidecarsAreTyped
  <2>. QED BY <1>1, <2>2, <2>3
<1>. QED BY <1>4, <1>5, <1>6 DEF b, new

\* replaceTrackFile queues none.
LEMMA ReplaceIsTyped ==
  ASSUME NEW a \in Adapters, NEW old \in DOMAIN a.tracks, NEW new \in Paths
  PROVE  LET b == ReplaceTrackFile(a, old, new)
         IN /\ b \in Adapters
            /\ DOMAIN b.tracks = (DOMAIN a.tracks \ {old}) \cup {new}
            /\ b.pendingMoves = a.pendingMoves
<1> DEFINE u == [TrackMoves(a, old, new) EXCEPT !.managedFiles = @ \cup {new}]
           c == IF old = new THEN a ELSE RekeyPendingWrites(u, old, new)
           comment == a.tracks[old].tag
           write == [meta |-> Keep, tag |-> IF comment = "none" THEN Keep ELSE comment]
<1>1. ReplaceTrackFile(a, old, new) = QueueTagWrite(c, new, write)
  BY DEF ReplaceTrackFile
<1>2. a.tracks[old] \in Tracks
  BY MapFacts DEF Adapters
<1>3. write \in Fields
  BY <1>2 DEF Fields, Tracks
<1>4. /\ c \in Adapters
      /\ DOMAIN c.tracks = (DOMAIN a.tracks \ {old}) \cup {new}
      /\ c.pendingMoves = a.pendingMoves
  <2>1. CASE old = new
    BY <2>1
  <2>2. CASE old # new
    <3>1. u \in {TrackMoves(a, old, new), u}
      OBVIOUS
    <3>. QED BY <2>2, <3>1, MovedIsTyped
  <2>. QED BY <2>1, <2>2
<1> HIDE DEF c, write
<1>. QED BY <1>1, <1>3, <1>4, QueueTagWriteIsTyped

(***************************************************************************)
(* What a method does to managedFiles, the files that the next manifest    *)
(* lists.                                                                  *)
(***************************************************************************)
LEMMA WritesKeepManaged ==
  ASSUME NEW a, "managedFiles" \in DOMAIN a,
         NEW path, NEW fields, NEW dir, NEW old, NEW new, NEW b,
         b \in {QueueTagWrite(a, path, fields), UpdateTrack(a, path, fields),
                WriteSidecar(a, dir), MaybeQueueSidecarDelete(a, dir),
                RekeyPendingWrites(a, old, new)}
  PROVE  b.managedFiles = a.managedFiles /\ "managedFiles" \in DOMAIN b
<1>1. ASSUME NEW c, "managedFiles" \in DOMAIN c, NEW x, NEW y
      PROVE  LET d == QueueTagWrite(c, x, y)
             IN d.managedFiles = c.managedFiles /\ "managedFiles" \in DOMAIN d
  BY <1>1 DEF QueueTagWrite
<1>2. CASE b = UpdateTrack(a, path, fields)
  <2>1. PICK track, write : b = QueueTagWrite([a EXCEPT !.tracks[path] = track], path, write)
    BY <1>2 DEF UpdateTrack
  <2> DEFINE c == [a EXCEPT !.tracks[path] = track]
  <2>2. c.managedFiles = a.managedFiles /\ "managedFiles" \in DOMAIN c
    OBVIOUS
  <2> HIDE DEF c
  <2>. QED BY <1>1, <2>1, <2>2 DEF c
<1>3. CASE b \in {WriteSidecar(a, dir), MaybeQueueSidecarDelete(a, dir)}
  BY <1>3 DEF WriteSidecar, MaybeQueueSidecarDelete
<1>4. CASE b = RekeyPendingWrites(a, old, new)
  BY <1>4 DEF RekeyPendingWrites
<1>. QED BY <1>1, <1>2, <1>3, <1>4

LEMMA UpdateKeepsManaged ==
  ASSUME NEW a \in Adapters, NEW path, NEW fields
  PROVE  UpdateTrack(a, path, fields).managedFiles = a.managedFiles
<1>1. "managedFiles" \in DOMAIN a
  BY DEF Adapters
<1>. QED BY <1>1, WritesKeepManaged

LEMMA AddedIsManaged ==
  ASSUME NEW a \in Adapters, NEW path, NEW song, NEW meta
  PROVE  /\ AddTrack(a, path, song, meta).managedFiles = a.managedFiles \cup {path}
         /\ RollBack(a, path).managedFiles = a.managedFiles \ {path}
<1>1. "managedFiles" \in DOMAIN a
  BY DEF Adapters
<1>2. AddTrack(a, path, song, meta).managedFiles = a.managedFiles \cup {path}
  <2> DEFINE track == [song |-> song, meta |-> meta, tag |-> "synced", managed |-> TRUE]
             c == [a EXCEPT !.allocatedPaths = @ \cup {path},
                            !.managedFiles = @ \cup {path},
                            !.tracks = Put(@, path, track)]
             write == [meta |-> Keep, tag |-> "synced"]
  <2>1. AddTrack(a, path, song, meta) = QueueTagWrite(c, path, write)
    BY DEF AddTrack
  <2>2. c.managedFiles = a.managedFiles \cup {path} /\ "managedFiles" \in DOMAIN c
    BY <1>1
  <2> HIDE DEF c, write
  <2>. QED BY <2>1, <2>2, WritesKeepManaged
<1>3. RollBack(a, path).managedFiles = a.managedFiles \ {path}
  BY <1>1 DEF RollBack
<1>. QED BY <1>2, <1>3

LEMMA ManagedFollows ==
  ASSUME NEW a \in Adapters, NEW old \in a.managedFiles, NEW new, NEW home
  PROVE  /\ RelocateTrack(a, old, home).managedFiles =
              (a.managedFiles \ {old}) \cup {Deduplicate(home, a.allocatedPaths)}
         /\ ReplaceTrackFile(a, old, new).managedFiles = (a.managedFiles \ {old}) \cup {new}
<1>1. "managedFiles" \in DOMAIN a
  BY DEF Adapters
<1>2. ASSUME NEW x
      PROVE  LET t == TrackMoves(a, old, x)
             IN t.managedFiles = (a.managedFiles \ {old}) \cup {x} /\ "managedFiles" \in DOMAIN t
  BY <1>1 DEF TrackMoves
<1>3. RelocateTrack(a, old, home).managedFiles =
        (a.managedFiles \ {old}) \cup {Deduplicate(home, a.allocatedPaths)}
  <2> DEFINE x == Deduplicate(home, a.allocatedPaths)
             t == TrackMoves(a, old, x)
             c == RekeyPendingWrites(t, old, x)
             d == [c EXCEPT !.pendingMoves = Append(@, [from |-> old, to |-> x])]
             b == RelocateTrack(a, old, home)
  <2>1. b = d \/ b = MaybeQueueSidecarDelete(d, AlbumDir(old))
    BY DEF RelocateTrack
  <2> HIDE DEF b, x
  <2>2. t.managedFiles = (a.managedFiles \ {old}) \cup {x} /\ "managedFiles" \in DOMAIN t
    BY <1>2
  <2> HIDE DEF t
  <2>3. c.managedFiles = t.managedFiles /\ "managedFiles" \in DOMAIN c
    BY <2>2, WritesKeepManaged
  <2> HIDE DEF c
  <2>4. d.managedFiles = c.managedFiles /\ "managedFiles" \in DOMAIN d
    BY <2>3
  <2> HIDE DEF d
  <2>5. b.managedFiles = d.managedFiles
    BY <2>1, <2>4, WritesKeepManaged
  <2>. QED BY <2>2, <2>3, <2>4, <2>5 DEF b, x
<1>4. ReplaceTrackFile(a, old, new).managedFiles = (a.managedFiles \ {old}) \cup {new}
  <2> DEFINE t == TrackMoves(a, old, new)
             u == [t EXCEPT !.managedFiles = @ \cup {new}]
             c == IF old = new THEN a ELSE RekeyPendingWrites(u, old, new)
  <2>1. PICK write : ReplaceTrackFile(a, old, new) = QueueTagWrite(c, new, write)
    BY DEF ReplaceTrackFile
  <2>2. t.managedFiles = (a.managedFiles \ {old}) \cup {new} /\ "managedFiles" \in DOMAIN t
    BY <1>2
  <2> HIDE DEF t
  <2>3. u.managedFiles = (a.managedFiles \ {old}) \cup {new} /\ "managedFiles" \in DOMAIN u
    BY <2>2
  <2> HIDE DEF u
  <2>4. c.managedFiles = (a.managedFiles \ {old}) \cup {new} /\ "managedFiles" \in DOMAIN c
    BY <1>1, <2>3, WritesKeepManaged
  <2> HIDE DEF c
  <2>. QED BY <2>1, <2>4, WritesKeepManaged
<1>. QED BY <1>3, <1>4

(***************************************************************************)
(* The inductive invariant of the types: those of the state and those of   *)
(* the adapter, and what the operations of the plan are about.             *)
(***************************************************************************)
OpTyped(op) ==
  /\ op.kind \in {"add", "upgrade", "relocate", "update", "remove"}
  /\ op.path \in Paths
  /\ op.kind # "remove" => op.song \in Wanted

DeviceTyped ==
  /\ disk \in Maps(Files)
  /\ covers \subseteq Dirs
  /\ manifest \in [files : SUBSET Paths, covers : SUBSET Dirs]

ProcessTyped ==
  /\ ad \in Adapters
  /\ \A op \in plan : OpTyped(op)
  /\ phase \in Phases
  /\ nextMove \in 1..(Len(ad.pendingMoves) + 1)
  /\ phase # "moves" => nextMove = 1

FlagsTyped == final \in BOOLEAN /\ failed \in BOOLEAN /\ quiet \in 0..3

TInv == DeviceTyped /\ ProcessTyped /\ FlagsTyped /\ source \in Collections

LEMMA SourceFacts ==
  ASSUME source \in Collections
  PROVE  /\ Wanted \subseteq Songs
         /\ \A s \in Wanted : /\ source[s].at \in Places
                              /\ source[s].ext \in Exts
                              /\ source[s].meta \in Versions
<1>1. PICK W \in SUBSET Songs : source \in [W -> [at : Places, ext : Exts, meta : Versions]]
  BY DEF Collections
<1>2. Wanted = W
  BY <1>1 DEF Wanted
<1>3. \A s \in W : source[s] \in [at : Places, ext : Exts, meta : Versions]
  BY <1>1
<1>. QED BY <1>2, <1>3

LEMMA InitTInv == Init => TInv
<1> SUFFICES ASSUME Init PROVE TInv
  OBVIOUS
<1>1. source \in Collections /\ DOMAIN source # {}
  BY DEF Init
<1>2. disk \in Maps(Files)
  <2>1. PICK s \in Wanted : TRUE
    BY <1>1 DEF Wanted
  <2>2. source[s].meta \in Versions
    BY <1>1, SourceFacts
  <2>3. (CHOOSE v \in Versions : TRUE) \in Versions
    BY <2>2
  <2> DEFINE file == [song |-> UserTags, meta |-> CHOOSE v \in Versions : TRUE,
                      tag |-> "none", mine |-> FALSE]
  <2>4. file \in Files
    BY <2>3 DEF Files
  <2>5. disk = [p \in UserFiles |-> file]
    BY DEF Init
  <2> HIDE DEF file
  <2>6. DOMAIN disk = UserFiles /\ disk \in [UserFiles -> Files]
    BY <2>4, <2>5
  <2>. QED BY <2>6, SyncAssumption, MapFacts
<1>3. DeviceTyped
  BY <1>2 DEF Init, DeviceTyped
<1>4. ProcessTyped
  <2>1. ad \in Adapters /\ Len(ad.pendingMoves) = 0
    BY ClosedIsTyped DEF Init, ClosedAdapter
  <2>. QED BY <2>1 DEF Init, ProcessTyped, Phases, Idle
<1>5. FlagsTyped
  <2>1. final = FALSE /\ failed = FALSE /\ quiet = 0
    BY DEF Init
  <2>2. final \in BOOLEAN /\ failed \in BOOLEAN
    BY <2>1, Zenon
  <2>. QED BY <2>1, <2>2 DEF FlagsTyped
<1>. QED BY <1>1, <1>3, <1>4, <1>5 DEF TInv

(***************************************************************************)
(* What each operation of a plan does to the files, the tracks and the     *)
(* moves that are to be flushed.                                           *)
(***************************************************************************)
LEMMA OperationFacts ==
  ASSUME TInv, IInv, NEW op \in plan
  PROVE  /\ op.path \in Paths
         /\ op.kind # "remove" => /\ op.song \in Wanted /\ op.song \in Songs
                                  /\ source[op.song].at \in Places
                                  /\ source[op.song].ext \in Exts
                                  /\ source[op.song].meta \in Versions
                                  /\ [meta |-> source[op.song].meta, tag |-> Keep] \in Fields
                                  /\ [meta |-> source[op.song].meta, tag |-> "synced"] \in Fields
                                  /\ Copy(op.song, source[op.song].meta) \in Files
         /\ AboutTrack(op) => op.path \in DOMAIN ad.tracks /\ op.path \in ad.managedFiles
         /\ ad.allocatedPaths = DOMAIN ad.tracks
         /\ IsFiniteSet(ad.allocatedPaths)
         /\ IsFiniteSet(DOMAIN disk)
<1>1. OpTyped(op) /\ source \in Collections
  BY DEF TInv, ProcessTyped
<1>2. ASSUME op.kind # "remove"
      PROVE  /\ op.song \in Wanted /\ op.song \in Songs
             /\ source[op.song].at \in Places
             /\ source[op.song].ext \in Exts
             /\ source[op.song].meta \in Versions
  BY <1>1, <1>2, SourceFacts DEF OpTyped
<1>3. ASSUME op.kind # "remove"
      PROVE  /\ [meta |-> source[op.song].meta, tag |-> Keep] \in Fields
             /\ [meta |-> source[op.song].meta, tag |-> "synced"] \in Fields
  BY <1>2, <1>3 DEF Fields, Tags
<1>4. ASSUME op.kind # "remove"
      PROVE  Copy(op.song, source[op.song].meta) \in Files
  BY <1>2, <1>4 DEF Copy, Files
<1>5. /\ AboutTrack(op) => op.path \in DOMAIN ad.tracks /\ op.path \in ad.managedFiles
      /\ ad.allocatedPaths = DOMAIN ad.tracks
      /\ IsFiniteSet(ad.allocatedPaths)
      /\ IsFiniteSet(DOMAIN disk)
  BY DEF IInv, PlanSound, Own, Sound, Balanced
<1>. QED BY <1>1, <1>2, <1>3, <1>4, <1>5 DEF OpTyped

LEMMA UpdateEffect ==
  ASSUME TInv, IInv, NEW op \in plan, Update(op)
  PROVE  /\ disk' = disk /\ ad' \in Adapters /\ SamePlaces(ad, ad')
         /\ ad'.managedFiles = ad.managedFiles
<1> DEFINE fields == [meta |-> source[op.song].meta, tag |-> Keep]
<1>1. op.kind = "update" /\ disk' = disk /\ ad' = UpdateTrack(ad, op.path, fields)
  BY DEF Update, Doing, device, Refreshed
<1>2. ad \in Adapters /\ op.path \in DOMAIN ad.tracks /\ fields \in Fields
  BY <1>1, OperationFacts DEF AboutTrack, TInv, ProcessTyped
<1> HIDE DEF fields
<1>3. ad'.managedFiles = ad.managedFiles
  BY <1>1, <1>2, UpdateKeepsManaged
<1>. QED BY <1>1, <1>2, <1>3, UpdateTrackIsTyped

LEMMA RelocateEffect ==
  ASSUME TInv, IInv, NEW op \in plan, Relocate(op)
  PROVE  /\ disk' = disk
         /\ op.path \in DOMAIN ad.tracks
         /\ ad' \in Adapters
         /\ \E new \in Paths \ DOMAIN ad.tracks :
              /\ DOMAIN ad'.tracks = (DOMAIN ad.tracks \ {op.path}) \cup {new}
              /\ ad'.pendingMoves = Append(ad.pendingMoves, [from |-> op.path, to |-> new])
              /\ ad'.managedFiles = (ad.managedFiles \ {op.path}) \cup {new}
<1> DEFINE home == Home(op.song, op.path.ext)
           new == Deduplicate(home, ad.allocatedPaths)
           moved == RelocateTrack(ad, op.path, home)
           fields == [meta |-> source[op.song].meta, tag |-> Keep]
<1>1. op.kind = "relocate" /\ disk' = disk /\ ad' = UpdateTrack(moved, new, fields)
  BY DEF Relocate, Doing, device, Refreshed
<1>2. /\ ad \in Adapters /\ op.path \in DOMAIN ad.tracks /\ fields \in Fields
      /\ ad.allocatedPaths = DOMAIN ad.tracks /\ IsFiniteSet(ad.allocatedPaths)
      /\ op.path \in ad.managedFiles
  BY <1>1, OperationFacts DEF AboutTrack, TInv, ProcessTyped
<1>3. home \in Paths
  <2>1. source[op.song].at \in Places /\ op.path \in Paths
    BY <1>1, OperationFacts
  <2>2. op.path.ext \in Exts
    BY <2>1 DEF Paths
  <2>. QED BY <2>1, <2>2, HomeIsPath DEF Home
<1> HIDE DEF home, fields
<1>4. new \in Paths /\ new \notin DOMAIN ad.tracks
  BY <1>2, <1>3, DeduplicateIsPath
<1>5. /\ moved \in Adapters
      /\ DOMAIN moved.tracks = (DOMAIN ad.tracks \ {op.path}) \cup {new}
      /\ moved.pendingMoves = Append(ad.pendingMoves, [from |-> op.path, to |-> new])
  BY <1>2, <1>3, RelocateIsTyped
<1>6. moved.managedFiles = (ad.managedFiles \ {op.path}) \cup {new}
  BY <1>2, ManagedFollows
<1> HIDE DEF moved, new
<1>7. ad' \in Adapters /\ SamePlaces(moved, ad')
  BY <1>1, <1>2, <1>5, UpdateTrackIsTyped
<1>8. ad'.managedFiles = moved.managedFiles
  BY <1>1, <1>5, UpdateKeepsManaged
<1>. QED BY <1>1, <1>2, <1>4, <1>5, <1>6, <1>7, <1>8 DEF SamePlaces

LEMMA AddEffect ==
  ASSUME TInv, IInv, NEW op \in plan, Add(op)
  PROVE  /\ ad' \in Adapters /\ disk' \in Maps(Files)
         /\ ad'.pendingMoves = ad.pendingMoves
         /\ \E new \in Paths \ DOMAIN ad.tracks :
              /\ DOMAIN ad'.tracks = DOMAIN ad.tracks \cup {new}
              /\ DOMAIN disk' = DOMAIN disk \cup {new}
              /\ \A p \in DOMAIN disk \ {new} : disk'[p] = disk[p]
              /\ ad'.managedFiles = ad.managedFiles \cup {new}
<1> DEFINE new == Deduplicate(op.path, ad.allocatedPaths)
           meta == source[op.song].meta
           added == AddTrack(ad, new, op.song, meta)
           file == Copy(op.song, meta)
<1>1. /\ op.kind = "add" /\ disk' = Put(disk, new, file)
      /\ ad' = WriteSidecar(added, AlbumDir(new))
  BY DEF Add, Doing
<1>2. /\ ad \in Adapters /\ disk \in Maps(Files) /\ op.path \in Paths
      /\ ad.allocatedPaths = DOMAIN ad.tracks /\ IsFiniteSet(ad.allocatedPaths)
      /\ op.song \in Songs /\ meta \in Versions /\ file \in Files
  BY <1>1, OperationFacts DEF TInv, ProcessTyped, DeviceTyped
<1>3. new \in Paths /\ new \notin DOMAIN ad.tracks
  BY <1>2, DeduplicateIsPath
<1> HIDE DEF new, meta, file
<1>4. /\ added \in Adapters /\ DOMAIN added.tracks = DOMAIN ad.tracks \cup {new}
      /\ added.pendingMoves = ad.pendingMoves
      /\ added.managedFiles = ad.managedFiles \cup {new}
  BY <1>2, <1>3, AddTrackIsTyped, AddedIsManaged
<1> HIDE DEF added
<1>5. /\ ad' \in Adapters /\ ad'.tracks = added.tracks
      /\ ad'.pendingMoves = added.pendingMoves
      /\ ad'.managedFiles = added.managedFiles
  <2>1. AlbumDir(new) \in Dirs
    BY <1>3, DirOfPath
  <2>2. ad'.managedFiles = added.managedFiles
    BY <1>1, <1>4, WritesKeepManaged DEF Adapters
  <2>. QED BY <1>1, <1>4, <2>1, <2>2, SidecarsAreTyped
<1>6. /\ Put(disk, new, file) \in Maps(Files)
      /\ DOMAIN Put(disk, new, file) = DOMAIN disk \cup {new}
  <2>1. new \in Paths /\ file \in Files /\ disk \in Maps(Files)
    BY <1>2, <1>3
  <2>. QED BY <2>1, PutIsMap
<1>7. \A p \in DOMAIN disk \ {new} : disk'[p] = disk[p]
  BY <1>1 DEF Put
<1>. QED BY <1>1, <1>3, <1>4, <1>5, <1>6, <1>7

LEMMA AddFailsEffect ==
  ASSUME TInv, IInv, NEW op \in plan, AddFails(op)
  PROVE  /\ disk' = disk /\ ad' \in Adapters /\ SamePlaces(ad, ad')
         /\ DOMAIN ad.tracks \cap ad.managedFiles \subseteq ad'.managedFiles
<1> DEFINE new == Deduplicate(op.path, ad.allocatedPaths)
           meta == source[op.song].meta
           added == AddTrack(ad, new, op.song, meta)
<1>1. op.kind = "add" /\ disk' = disk /\ ad' = RollBack(added, new)
  BY DEF AddFails, device
<1>2. /\ ad \in Adapters /\ op.path \in Paths
      /\ ad.allocatedPaths = DOMAIN ad.tracks /\ IsFiniteSet(ad.allocatedPaths)
      /\ op.song \in Songs /\ meta \in Versions
  BY <1>1, OperationFacts DEF TInv, ProcessTyped
<1>3. new \in Paths /\ new \notin DOMAIN ad.tracks
  BY <1>2, DeduplicateIsPath
<1> HIDE DEF new, meta
<1>4. /\ added \in Adapters /\ DOMAIN added.tracks = DOMAIN ad.tracks \cup {new}
      /\ added.pendingMoves = ad.pendingMoves
      /\ added.managedFiles = ad.managedFiles \cup {new}
  BY <1>2, <1>3, AddTrackIsTyped, AddedIsManaged
<1> HIDE DEF added
<1>5. /\ ad' \in Adapters /\ DOMAIN ad'.tracks = DOMAIN added.tracks \ {new}
      /\ ad'.pendingMoves = added.pendingMoves
      /\ ad'.managedFiles = added.managedFiles \ {new}
  BY <1>1, <1>4, RollBackIsTyped, AddedIsManaged
<1>. QED BY <1>1, <1>3, <1>4, <1>5 DEF SamePlaces

LEMMA ReplacedIsTyped ==
  ASSUME TInv, IInv, NEW op \in plan, op.kind = "upgrade", NEW files \in Maps(Files)
  PROVE  /\ UpgradeTarget(op) \in Paths
         /\ UpgradeTarget(op).at = op.path.at
         /\ AlbumDir(UpgradeTarget(op)) = AlbumDir(op.path)
         /\ \/ UpgradeTarget(op) = op.path
            \/ UpgradeTarget(op) \notin ad.allocatedPaths \cup DOMAIN disk
         /\ Replaced(op, files) \in Maps(Files)
         /\ DOMAIN Replaced(op, files) = DOMAIN files \cup {UpgradeTarget(op)}
         /\ \A p \in DOMAIN files \ {UpgradeTarget(op)} : Replaced(op, files)[p] = files[p]
<1> DEFINE new == UpgradeTarget(op)
           file == Copy(op.song, source[op.song].meta)
<1>1. /\ new \in Paths /\ new.at = op.path.at /\ AlbumDir(new) = AlbumDir(op.path)
      /\ new = op.path \/ new \notin ad.allocatedPaths \cup DOMAIN disk
  <2> DEFINE taken == ad.allocatedPaths \cup DOMAIN disk
  <2>1. /\ op.path \in Paths /\ source[op.song].ext \in Exts
        /\ IsFiniteSet(ad.allocatedPaths) /\ IsFiniteSet(DOMAIN disk)
    BY OperationFacts
  <2>2. IsFiniteSet(taken)
    BY <2>1, FS_Union
  <2>3. new = ReplacementPath(op.path, source[op.song].ext, taken)
    BY DEF UpgradeTarget
  <2> HIDE DEF taken, new
  <2>4. /\ new \in Paths /\ new.at = op.path.at /\ AlbumDir(new) = AlbumDir(op.path)
        /\ new = op.path \/ new \notin taken
    BY <2>1, <2>2, <2>3, ReplacementIsPath
  <2>. QED BY <2>4 DEF taken
<1>2. file \in Files
  BY OperationFacts
<1>3. Replaced(op, files) = Put(files, new, file)
  BY DEF Replaced
<1> HIDE DEF new, file
<1>4. /\ Put(files, new, file) \in Maps(Files)
      /\ DOMAIN Put(files, new, file) = DOMAIN files \cup {new}
  BY <1>1, <1>2, PutIsMap
<1>5. \A p \in DOMAIN files \ {new} : Replaced(op, files)[p] = files[p]
  BY <1>3 DEF Put
<1>. QED BY <1>1, <1>3, <1>4, <1>5 DEF new

LEMMA UpgradeEffect ==
  ASSUME TInv, IInv, NEW op \in plan, Upgrade(op) \/ UpgradeLeavesOld(op)
  PROVE  /\ ad' \in Adapters /\ disk' \in Maps(Files)
         /\ ad'.pendingMoves = ad.pendingMoves
         /\ op.path \in DOMAIN ad.tracks
         /\ \E new \in Paths :
              /\ AlbumDir(new) = AlbumDir(op.path)
              /\ DOMAIN ad'.tracks = (DOMAIN ad.tracks \ {op.path}) \cup {new}
              /\ DOMAIN disk' \subseteq DOMAIN disk \cup {new}
              /\ \A p \in DOMAIN disk' \ {new} :
                   disk'[p] = disk[p] /\ (p = op.path => p \in strays')
              /\ ad'.managedFiles = (ad.managedFiles \ {op.path}) \cup {new}
<1> DEFINE new == UpgradeTarget(op)
           moved == ReplaceTrackFile(ad, op.path, new)
           fields == [meta |-> source[op.song].meta, tag |-> "synced"]
           updated == UpdateTrack(moved, new, fields)
<1>1. op.kind = "upgrade" /\ ad' = WriteSidecar(updated, AlbumDir(new))
  BY DEF Upgrade, UpgradeLeavesOld, Doing, Upgraded, Refreshed
<1>2. /\ ad \in Adapters /\ disk \in Maps(Files)
      /\ op.path \in DOMAIN ad.tracks /\ fields \in Fields
      /\ op.path \in ad.managedFiles
  BY <1>1, OperationFacts DEF AboutTrack, TInv, ProcessTyped, DeviceTyped
<1>3. new \in Paths /\ AlbumDir(new) = AlbumDir(op.path)
  BY <1>1, <1>2, ReplacedIsTyped
<1>4. /\ disk' \in Maps(Files) /\ DOMAIN disk' \subseteq DOMAIN disk \cup {new}
      /\ \A p \in DOMAIN disk' \ {new} :
           disk'[p] = disk[p] /\ (p = op.path => p \in strays')
  <2> DEFINE rest == Without(disk, op.path)
  <2>1. /\ rest \in Maps(Files) /\ DOMAIN rest = DOMAIN disk \ {op.path}
        /\ \A p \in DOMAIN rest : rest[p] = disk[p]
    <3>1. rest \in Maps(Files) /\ DOMAIN rest = DOMAIN disk \ {op.path}
      BY <1>2, WithoutIsMap
    <3>2. \A p \in DOMAIN rest : rest[p] = disk[p]
      BY DEF Without
    <3>. QED BY <3>1, <3>2
  <2> HIDE DEF rest
  <2>2. PICK files \in {disk, rest} :
          /\ disk' = Replaced(op, files)
          /\ files = rest \/ new = op.path \/ op.path \in strays'
    BY DEF Upgrade, UpgradeLeavesOld, rest
  <2>3. files \in Maps(Files) /\ DOMAIN files \subseteq DOMAIN disk
    BY <1>2, <2>1
  <2>4. /\ disk' \in Maps(Files) /\ DOMAIN disk' = DOMAIN files \cup {new}
        /\ \A p \in DOMAIN files \ {new} : disk'[p] = files[p]
    BY <1>1, <2>2, <2>3, ReplacedIsTyped
  <2> HIDE DEF new
  <2>. QED BY <2>1, <2>2, <2>3, <2>4
<1> HIDE DEF new, fields
<1>5. /\ moved \in Adapters
      /\ DOMAIN moved.tracks = (DOMAIN ad.tracks \ {op.path}) \cup {new}
      /\ moved.pendingMoves = ad.pendingMoves
      /\ moved.managedFiles = (ad.managedFiles \ {op.path}) \cup {new}
  <2>1. moved.managedFiles = (ad.managedFiles \ {op.path}) \cup {new}
    BY <1>2, ManagedFollows
  <2>. QED BY <1>2, <1>3, <2>1, ReplaceIsTyped
<1> HIDE DEF moved
<1>6. /\ updated \in Adapters /\ SamePlaces(moved, updated)
      /\ updated.managedFiles = moved.managedFiles
  <2>1. updated.managedFiles = moved.managedFiles
    BY <1>5, UpdateKeepsManaged
  <2>2. new \in DOMAIN moved.tracks
    BY <1>5
  <2> HIDE DEF updated
  <2>3. updated \in Adapters /\ SamePlaces(moved, updated)
    BY <1>2, <1>5, <2>2, UpdateTrackIsTyped DEF updated
  <2>. QED BY <2>1, <2>3
<1> HIDE DEF updated
<1>7. /\ ad' \in Adapters /\ ad'.tracks = updated.tracks
      /\ ad'.pendingMoves = updated.pendingMoves
      /\ ad'.managedFiles = updated.managedFiles
  <2>1. AlbumDir(new) \in Dirs
    BY <1>3, DirOfPath
  <2>2. ad'.managedFiles = updated.managedFiles
    BY <1>1, <1>6, WritesKeepManaged DEF Adapters
  <2>. QED BY <1>1, <1>6, <2>1, <2>2, SidecarsAreTyped
<1>. QED BY <1>2, <1>3, <1>4, <1>5, <1>6, <1>7 DEF SamePlaces

LEMMA RemoveEffect ==
  ASSUME TInv, NEW op \in plan, Remove(op)
  PROVE  /\ ad' = ad /\ disk' \in Maps(Files) /\ DOMAIN disk' \subseteq DOMAIN disk
         /\ \A p \in DOMAIN disk' : disk'[p] = disk[p]
<1>1. PICK p : disk' = Without(disk, p)
  BY DEF Remove
<1>2. ad' = ad /\ disk \in Maps(Files)
  BY DEF Remove, TInv, DeviceTyped
<1>3. /\ Without(disk, p) \in Maps(Files)
      /\ DOMAIN Without(disk, p) = DOMAIN disk \ {p}
  BY <1>2, WithoutIsMap
<1>4. \A q \in DOMAIN disk' : disk'[q] = disk[q]
  BY <1>1 DEF Without
<1>. QED BY <1>1, <1>2, <1>3, <1>4

(***************************************************************************)
(* The flags and the count of clean syncs.                                 *)
(***************************************************************************)
LEMMA FlagsStep ==
  ASSUME TInv, IInv, [Next]_vars
  PROVE  FlagsTyped'
<1>1. final' \in BOOLEAN
  BY NextIInv DEF IInv
<1>2. \/ failed' \in {failed, TRUE} /\ quiet' \in {quiet, 0}
      \/ Open
  <2>1. \A op, kind : Doing(op, kind) => quiet' = quiet
    BY DEF Doing
  <2>2. \A at, next : Stage(at, next) => failed' = failed
    BY DEF Stage
  <2>3. SaveThrows => failed' = TRUE /\ quiet' = 0
    BY DEF SaveThrows
  <2>4. \A op \in plan : Execute(op) => failed' = failed /\ quiet' = quiet
    BY <2>1 DEF Execute, Remove, Update, Relocate, Add, Upgrade
  <2>5. \A op \in plan : UpgradeLeavesOld(op) \/ AddFails(op) => failed' = TRUE /\ quiet' = quiet
    BY <2>1 DEF UpgradeLeavesOld, AddFails
  <2>6. Save => failed' \in {failed, TRUE} /\ quiet' \in {quiet, 0}
    BY <2>2, <2>3 DEF Save, FlushMove, FlushMovesEnd, FlushTags, FlushSidecarWrites,
                      FlushSidecarDeletes, WriteManifest
  <2>7. SaveFails => failed' = TRUE /\ quiet' = 0
    BY <2>3 DEF SaveFails, FlushMoveFails, FlushTagsFails, FlushSidecarWritesFails,
                FlushSidecarDeletesFails, WriteManifestFails
  <2>8. Settle \/ Refuse \/ Start \/ FinalSave => failed' = failed /\ quiet' = quiet
    BY DEF Settle, Refuse, Start, FinalSave
  <2>9. Interrupt \/ Crash \/ Change => failed' \in {failed, TRUE} /\ quiet' = 0
    BY DEF Interrupt, Crash, Change
  <2>10. UNCHANGED vars => failed' = failed /\ quiet' = quiet
    BY DEF vars, process
  <2>. QED BY <2>4, <2>5, <2>6, <2>7, <2>8, <2>9, <2>10 DEF Next, Run, Trouble
<1>3. failed' \in BOOLEAN
  <2>1. Open => failed' = FALSE
    BY DEF Open
  <2>. QED BY <1>2, <2>1, Zenon DEF TInv, FlagsTyped
<1>4. quiet' \in 0..3
  <2>1. quiet \in 0..3
    BY DEF TInv, FlagsTyped
  <2>2. CASE Open
    <3>1. quiet' \in {0, 3} \/ (quiet # 3 /\ quiet' = quiet + 1)
      BY <2>2 DEF Open
    <3>. QED BY <2>1, <3>1
  <2>3. CASE quiet' \in {quiet, 0}
    BY <2>1, <2>3
  <2>. QED BY <1>2, <2>2, <2>3
<1>. QED BY <1>1, <1>3, <1>4 DEF FlagsTyped

(***************************************************************************)
(* The process, when the plan only gets shorter.                           *)
(***************************************************************************)
LEMMA MovesAreTyped ==
  ASSUME NEW a \in Adapters
  PROVE  /\ Len(a.pendingMoves) \in Nat
         /\ 1 \in 1..(Len(a.pendingMoves) + 1)
         /\ \A i \in 1..Len(a.pendingMoves) : a.pendingMoves[i] \in Moves
BY DEF Adapters

LEMMA ProcessStep ==
  ASSUME ProcessTyped, ad' \in Adapters, plan' \subseteq plan,
         source' = source \/ plan' = {}, phase' \in Phases, nextMove' = 1
  PROVE  ProcessTyped'
<1>1. \A op \in plan' : OpTyped(op)'
  BY DEF ProcessTyped, OpTyped, Wanted
<1>2. nextMove' \in 1..(Len(ad'.pendingMoves) + 1)
  BY MovesAreTyped
<1>. QED BY <1>1, <1>2 DEF ProcessTyped

LEMMA PlanningKeepsTInv ==
  ASSUME TInv, IInv, Open \/ Settle \/ Refuse \/ Start
  PROVE  DeviceTyped' /\ ProcessTyped' /\ source' \in Collections
<1>1. UNCHANGED device /\ source' = source /\ nextMove' = 1 /\ phase' \in Phases
  BY DEF Open, Settle, Refuse, Start, TInv, ProcessTyped, Phases, Idle
<1>2. DeviceTyped' /\ source' \in Collections
  BY <1>1 DEF TInv, DeviceTyped, device
<1>3. ad' \in Adapters
  <2>1. CASE Open
    <3>1. ad' = OpenedAdapter(disk, manifest)
      BY <2>1 DEF Open
    <3>2. disk \in Maps(Files) /\ manifest \in [files : SUBSET Paths, covers : SUBSET Dirs]
      BY DEF TInv, DeviceTyped
    <3>. QED BY <3>1, <3>2, OpenedIsTyped
  <2>2. CASE Settle
    BY <2>2, ClosedIsTyped DEF Settle
  <2>3. CASE Refuse \/ Start
    BY <2>3 DEF Refuse, Start, TInv, ProcessTyped
  <2>. QED BY <2>1, <2>2, <2>3
<1>4. CASE Open \/ Settle \/ Refuse
  <2>1. plan' = plan
    BY <1>4 DEF Open, Settle, Refuse
  <2>. QED BY <1>1, <1>2, <1>3, <2>1, ProcessStep DEF TInv
<1>5. CASE Start
  <2>1. PICK kept \in Matchings : plan' = Operations(kept)
    BY <1>5 DEF Start
  <2>2. ASSUME NEW op \in Operations(kept) PROVE OpTyped(op)
    <3>1. \A p \in DeviceItems : p \in Paths
      BY MapFacts DEF DeviceItems, TInv, ProcessTyped, Adapters
    <3>2. CASE op \in Additions
      <4>1. PICK s \in Wanted : op = [kind |-> "add", song |-> s, path |-> Home(s, source[s].ext)]
        BY <3>2 DEF Additions
      <4>2. Home(s, source[s].ext) \in Paths
        BY SourceFacts, HomeIsPath DEF Home, TInv
      <4>. QED BY <4>1, <4>2 DEF OpTyped
    <3>3. ASSUME NEW s \in Matched, op \in ChangesOf(s, kept[s]) PROVE OpTyped(op)
      <4>1. PICK k \in OperationFor(s, kept[s]) : op = [kind |-> k, song |-> s, path |-> kept[s]]
        BY <3>3 DEF ChangesOf
      <4>2. k \in {"upgrade", "relocate", "update"}
        BY DEF OperationFor
      <4>3. kept[s] \in DeviceItems /\ s \in Wanted
        BY DEF Matchings, Matched
      <4>. QED BY <3>1, <4>1, <4>2, <4>3 DEF OpTyped
    <3>4. CASE op \in Removals(kept)
      <4>1. PICK p \in DeviceItems : op.kind = "remove" /\ op.path = p
        BY <3>4 DEF Removals
      <4>. QED BY <3>1, <4>1 DEF OpTyped
    <3>. QED BY <3>2, <3>3, <3>4 DEF Operations
  <2>3. \A op \in plan' : OpTyped(op)'
    BY <1>1, <2>1, <2>2 DEF OpTyped, Wanted
  <2>4. nextMove' \in 1..(Len(ad'.pendingMoves) + 1)
    BY <1>1, <1>3, MovesAreTyped
  <2>. QED BY <1>1, <1>2, <1>3, <2>3, <2>4 DEF ProcessTyped
<1>. QED BY <1>4, <1>5

LEMMA DoingKeepsTInv ==
  ASSUME TInv, IInv, NEW op \in plan,
         Execute(op) \/ UpgradeLeavesOld(op) \/ AddFails(op)
  PROVE  DeviceTyped' /\ ProcessTyped' /\ source' \in Collections
<1>1. ad' \in Adapters /\ disk' \in Maps(Files)
  <2>1. ad \in Adapters /\ disk \in Maps(Files)
    BY DEF TInv, ProcessTyped, DeviceTyped
  <2>2. CASE Remove(op)
    BY <2>1, <2>2, RemoveEffect
  <2>3. CASE Update(op)
    BY <2>1, <2>3, UpdateEffect
  <2>4. CASE Relocate(op)
    BY <2>1, <2>4, RelocateEffect
  <2>5. CASE Add(op)
    BY <2>5, AddEffect
  <2>6. CASE Upgrade(op) \/ UpgradeLeavesOld(op)
    BY <2>6, UpgradeEffect
  <2>7. CASE AddFails(op)
    BY <2>1, <2>7, AddFailsEffect
  <2>. QED BY <2>2, <2>3, <2>4, <2>5, <2>6, <2>7 DEF Execute
<1>2. /\ phase = "executing" /\ plan' \subseteq plan /\ phase' \in {"executing", "moves"}
      /\ nextMove' = nextMove /\ source' = source
      /\ covers' = covers /\ manifest' = manifest
  <2>1. \A kind : Doing(op, kind) =>
          /\ phase = "executing" /\ plan' \subseteq plan /\ phase' \in {"executing", "moves"}
          /\ nextMove' = nextMove /\ source' = source
    BY DEF Doing
  <2>2. AddFails(op) =>
          /\ phase = "executing" /\ plan' \subseteq plan /\ phase' \in {"executing", "moves"}
          /\ nextMove' = nextMove /\ source' = source
          /\ covers' = covers /\ manifest' = manifest
    BY DEF AddFails, device
  <2>. QED BY <2>1, <2>2 DEF Execute, Remove, Update, Relocate, Add, Upgrade,
                             UpgradeLeavesOld, device
<1>3. nextMove' = 1 /\ phase' \in Phases
  BY <1>2 DEF TInv, ProcessTyped, Phases, Saving
<1>. QED BY <1>1, <1>2, <1>3, ProcessStep DEF TInv, DeviceTyped

(***************************************************************************)
(* The stages of a save.                                                   *)
(***************************************************************************)
LEMMA RenamedIsTyped ==
  ASSUME NEW files \in Maps(Files), NEW move \in Moves
  PROVE  Renamed(files, move) \in Maps(Files)
<1>1. move.to \in Paths
  BY DEF Moves
<1>2. Rekey(files, move.from, move.to) \in Maps(Files)
  BY <1>1, RekeyIsMap
<1>. QED BY <1>2 DEF Renamed

LEMMA TaggedIsTyped ==
  ASSUME TInv, NEW written, written \subseteq DOMAIN ad.pendingTagWrites
  PROVE  Tagged(written) \in Maps(Files) /\ DOMAIN Tagged(written) = DOMAIN disk
<1> DEFINE Write(p) == [disk[p] EXCEPT
                          !.meta = IF ad.pendingTagWrites[p].meta = Keep
                                   THEN @ ELSE ad.pendingTagWrites[p].meta,
                          !.tag = IF ad.pendingTagWrites[p].tag = Keep
                                  THEN @ ELSE ad.pendingTagWrites[p].tag]
           file(p) == IF p \notin written THEN disk[p] ELSE Write(p)
<1>1. /\ DOMAIN disk \subseteq Paths /\ disk \in [DOMAIN disk -> Files]
      /\ ad.pendingTagWrites \in [DOMAIN ad.pendingTagWrites -> Fields]
  BY MapFacts DEF TInv, DeviceTyped, ProcessTyped, Adapters
<1>2. ASSUME NEW p \in DOMAIN disk PROVE file(p) \in Files
  <2>1. CASE p \notin written
    BY <1>1, <2>1
  <2>2. CASE p \in written
    <3>1. disk[p] \in Files /\ ad.pendingTagWrites[p] \in Fields
      BY <1>1, <2>2
    <3>2. Write(p) \in Files
      BY <3>1 DEF Files, Fields, Tags
    <3>. QED BY <2>2, <3>2
  <2>. QED BY <2>1, <2>2
<1>3. Tagged(written) = [p \in DOMAIN disk |-> file(p)]
  BY DEF Tagged
<1> HIDE DEF file
<1>4. Tagged(written) \in [DOMAIN disk -> Files] /\ DOMAIN Tagged(written) = DOMAIN disk
  BY <1>2, <1>3
<1>. QED BY <1>1, <1>4, MapFacts

\* The adapter after a stage: one of its pending sets is empty.
LEMMA FlushedIsTyped ==
  ASSUME NEW a \in Adapters, NEW dirs
  PROVE  /\ [a EXCEPT !.pendingMoves = <<>>] \in Adapters
         /\ [a EXCEPT !.pendingTagWrites = NoEntries] \in Adapters
         /\ [a EXCEPT !.pendingSidecarWrites = {}] \in Adapters
         /\ [a EXCEPT !.pendingSidecarDeletes = {}, !.managedCovers = @ \ dirs] \in Adapters
         /\ ClosedAdapter \in Adapters
<1>1. [a EXCEPT !.pendingTagWrites = NoEntries] \in Adapters
  BY EmptyIsMap DEF Adapters
<1>2. /\ [a EXCEPT !.pendingMoves = <<>>] \in Adapters
      /\ [a EXCEPT !.pendingSidecarWrites = {}] \in Adapters
      /\ [a EXCEPT !.pendingSidecarDeletes = {}, !.managedCovers = @ \ dirs] \in Adapters
  <2>1. <<>> \in Seq(Moves)
    OBVIOUS
  <2>2. /\ a.managedCovers \ dirs \in SUBSET Dirs
        /\ {} \in SUBSET Dirs
    BY DEF Adapters
  <2>. QED BY <2>1, <2>2 DEF Adapters
<1>. QED BY <1>1, <1>2, ClosedIsTyped

LEMMA SavingKeepsProcess ==
  ASSUME ProcessTyped, ad' \in Adapters,
         source' = source, nextMove' = 1,
         \/ plan' = plan /\ phase' \in Phases
         \/ plan' = {} /\ phase' \in {"closed", "moves"}
  PROVE  ProcessTyped'
<1>1. phase' \in Phases /\ plan' \subseteq plan
  BY DEF Phases, Idle, Saving
<1>. QED BY <1>1, ProcessStep

LEMMA SaveKeepsTInv ==
  ASSUME TInv, Save
  PROVE  DeviceTyped' /\ ProcessTyped' /\ source' \in Collections
<1>1. ad \in Adapters /\ disk \in Maps(Files) /\ ProcessTyped /\ DeviceTyped
  BY DEF TInv, ProcessTyped, DeviceTyped
<1>2. source' = source /\ source' \in Collections
  BY DEF Save, FlushMove, FlushMovesEnd, FlushTags, FlushSidecarWrites,
         FlushSidecarDeletes, WriteManifest, TInv
<1>3. phase # "moves" => nextMove = 1
  BY <1>1 DEF ProcessTyped
<1>4. CASE FlushMove
  <2>1. /\ nextMove \in 1..(Len(ad.pendingMoves) + 1) /\ nextMove <= Len(ad.pendingMoves)
        /\ nextMove' = nextMove + 1 /\ ad' = ad /\ plan' = plan /\ phase' = phase
        /\ phase = "moves" /\ covers' = covers /\ manifest' = manifest
        /\ disk' = Renamed(disk, ad.pendingMoves[nextMove])
    BY <1>1, <1>4 DEF FlushMove, ProcessTyped
  <2>2. Len(ad.pendingMoves) \in Nat /\ nextMove \in 1..Len(ad.pendingMoves)
    BY <1>1, <2>1, MovesAreTyped
  <2>3. ad.pendingMoves[nextMove] \in Moves
    BY <1>1, <2>2, MovesAreTyped
  <2>4. disk' \in Maps(Files)
    BY <1>1, <2>1, <2>3, RenamedIsTyped
  <2>5. nextMove' \in 1..(Len(ad'.pendingMoves) + 1)
    BY <2>1, <2>2
  <2>6. DeviceTyped'
    BY <1>1, <2>1, <2>4 DEF DeviceTyped
  <2>7. \A op \in plan' : OpTyped(op)'
    BY <1>1, <1>2, <2>1 DEF ProcessTyped, OpTyped, Wanted
  <2>. QED BY <1>1, <1>2, <2>1, <2>5, <2>6, <2>7 DEF ProcessTyped
<1>5. CASE FlushMovesEnd
  <2>1. /\ UNCHANGED device /\ nextMove' = 1 /\ plan' = plan /\ phase' = "tags"
        /\ ad' = [ad EXCEPT !.pendingMoves = <<>>]
    BY <1>5 DEF FlushMovesEnd, Stage
  <2>2. ad' \in Adapters
    BY <1>1, <2>1, FlushedIsTyped
  <2>3. phase' \in Phases
    BY <2>1 DEF Phases, Saving
  <2>. QED BY <1>1, <1>2, <2>1, <2>2, <2>3, SavingKeepsProcess DEF DeviceTyped, device
<1>6. CASE FlushTags
  <2>1. /\ disk' = Tagged(DOMAIN ad.pendingTagWrites \cap DOMAIN disk)
        /\ covers' = covers /\ manifest' = manifest /\ phase = "tags"
        /\ ad' \in {ClosedAdapter, [ad EXCEPT !.pendingTagWrites = NoEntries]}
    BY <1>6 DEF FlushTags
  <2>2. disk' \in Maps(Files)
    BY <2>1, TaggedIsTyped
  <2>3. ad' \in Adapters
    BY <1>1, <2>1, FlushedIsTyped
  <2>4. \/ Stage("tags", "sidecars") /\ nextMove' = nextMove
        \/ SaveThrows
    BY <1>6 DEF FlushTags
  <2>5. /\ nextMove' = 1
        /\ \/ plan' = plan /\ phase' \in Phases
           \/ plan' = {} /\ phase' \in {"closed", "moves"}
    BY <1>3, <2>1, <2>4 DEF Stage, SaveThrows, Phases, Saving
  <2>. QED BY <1>1, <1>2, <2>1, <2>2, <2>3, <2>5, SavingKeepsProcess DEF DeviceTyped
<1>7. CASE FlushSidecarWrites
  <2>1. /\ covers' = covers \cup ad.pendingSidecarWrites /\ disk' = disk /\ manifest' = manifest
        /\ phase = "sidecars" /\ phase' = "drops" /\ nextMove' = nextMove /\ plan' = plan
        /\ ad' = [ad EXCEPT !.pendingSidecarWrites = {}]
    BY <1>7 DEF FlushSidecarWrites, Stage
  <2>2. ad' \in Adapters
    BY <1>1, <2>1, FlushedIsTyped
  <2>3. ad.pendingSidecarWrites \subseteq Dirs
    BY <1>1 DEF Adapters
  <2>4. phase' \in Phases /\ nextMove' = 1
    BY <1>3, <2>1 DEF Phases, Saving
  <2>. QED BY <1>1, <1>2, <2>1, <2>2, <2>3, <2>4, SavingKeepsProcess DEF DeviceTyped
<1>8. CASE FlushSidecarDeletes
  <2>1. /\ covers' \subseteq covers /\ disk' = disk /\ manifest' = manifest
        /\ phase = "drops" /\ phase' = "manifest" /\ nextMove' = nextMove /\ plan' = plan
        /\ ad' = [ad EXCEPT !.pendingSidecarDeletes = {}, !.managedCovers = @ \ Abandoned]
    BY <1>8 DEF FlushSidecarDeletes, Stage
  <2>2. ad' \in Adapters
    BY <1>1, <2>1, FlushedIsTyped
  <2>3. phase' \in Phases /\ nextMove' = 1
    BY <1>3, <2>1 DEF Phases, Saving
  <2>. QED BY <1>1, <1>2, <2>1, <2>2, <2>3, SavingKeepsProcess DEF DeviceTyped
<1>9. CASE WriteManifest
  <2>1. /\ covers' = covers /\ disk' = disk
        /\ manifest' = [files |-> ad.managedFiles, covers |-> ad.managedCovers]
        /\ phase = "manifest" /\ phase' \in {"closed", "executing"}
        /\ nextMove' = nextMove /\ plan' = plan
        /\ ad' \in {ad, ClosedAdapter}
    BY <1>9 DEF WriteManifest
  <2>2. ad' \in Adapters
    BY <1>1, <2>1, ClosedIsTyped
  <2>3. manifest' \in [files : SUBSET Paths, covers : SUBSET Dirs]
    BY <1>1, <2>1 DEF Adapters
  <2>4. phase' \in Phases /\ nextMove' = 1
    BY <1>3, <2>1 DEF Phases, Idle
  <2>. QED BY <1>1, <1>2, <2>1, <2>2, <2>3, <2>4, SavingKeepsProcess DEF DeviceTyped
<1>. QED BY <1>4, <1>5, <1>6, <1>7, <1>8, <1>9 DEF Save

LEMMA SaveFailsKeepsTInv ==
  ASSUME TInv, SaveFails
  PROVE  DeviceTyped' /\ ProcessTyped' /\ source' \in Collections
<1>1. ad \in Adapters /\ disk \in Maps(Files) /\ ProcessTyped /\ DeviceTyped
  BY DEF TInv, ProcessTyped, DeviceTyped
<1>2. SaveThrows /\ source' = source /\ manifest' = manifest
  BY DEF SaveFails, FlushMoveFails, FlushTagsFails, FlushSidecarWritesFails,
         FlushSidecarDeletesFails, WriteManifestFails, device
<1>3. /\ nextMove' = 1 /\ plan' = {} /\ phase' \in {"closed", "moves"}
  BY <1>2 DEF SaveThrows
<1>4. disk' \in Maps(Files)
  <2>1. disk' = disk \/ \E written \in SUBSET DOMAIN ad.pendingTagWrites : disk' = Tagged(written)
    BY DEF SaveFails, FlushMoveFails, FlushTagsFails, FlushSidecarWritesFails,
           FlushSidecarDeletesFails, WriteManifestFails, device
  <2>. QED BY <1>1, <2>1, TaggedIsTyped
<1>5. covers' \subseteq covers \cup ad.pendingSidecarWrites
  BY DEF SaveFails, FlushMoveFails, FlushTagsFails, FlushSidecarWritesFails,
         FlushSidecarDeletesFails, WriteManifestFails, device
<1>6. ad' \in Adapters
  <2>1. \/ ad' \in {ad, ClosedAdapter}
        \/ ad' = [ad EXCEPT !.pendingTagWrites = NoEntries]
        \/ ad' = [ad EXCEPT !.pendingSidecarWrites = {}]
        \/ \E dirs : ad' = [ad EXCEPT !.pendingSidecarDeletes = {}, !.managedCovers = @ \ dirs]
    BY DEF SaveFails, FlushMoveFails, FlushTagsFails, FlushSidecarWritesFails,
           FlushSidecarDeletesFails, WriteManifestFails
  <2>. QED BY <1>1, <2>1, FlushedIsTyped
<1>7. covers' \subseteq Dirs
  BY <1>1, <1>5 DEF DeviceTyped, Adapters
<1>8. DeviceTyped'
  BY <1>1, <1>2, <1>4, <1>7 DEF DeviceTyped
<1>. QED BY <1>1, <1>2, <1>3, <1>6, <1>8, SavingKeepsProcess DEF TInv

LEMMA WorldKeepsTInv ==
  ASSUME TInv, IInv, FinalSave \/ Interrupt \/ Crash \/ Change
  PROVE  DeviceTyped' /\ ProcessTyped' /\ source' \in Collections
<1>1. ad \in Adapters /\ disk \in Maps(Files) /\ ProcessTyped /\ DeviceTyped
  BY DEF TInv, ProcessTyped, DeviceTyped
<1>2. phase # "moves" => nextMove = 1
  BY <1>1 DEF ProcessTyped
<1>3. ad' \in Adapters
  <2>1. ad' \in {ad, ClosedAdapter}
    BY DEF FinalSave, Interrupt, Crash, Change
  <2>. QED BY <1>1, <2>1, ClosedIsTyped
<1>4. CASE FinalSave
  <2>1. /\ UNCHANGED device /\ source' = source /\ nextMove' = 1 /\ plan' = plan
        /\ phase' \in Phases
    BY <1>2, <1>4 DEF FinalSave, Phases, Saving
  <2>. QED BY <1>1, <1>3, <2>1, SavingKeepsProcess DEF TInv, DeviceTyped, device
<1>5. CASE Interrupt
  <2>1. /\ UNCHANGED device /\ source' = source /\ nextMove' = 1 /\ plan' = {}
        /\ phase' \in {"closed", "moves"}
    BY <1>2, <1>5 DEF Interrupt
  <2>. QED BY <1>1, <1>3, <2>1, SavingKeepsProcess DEF TInv, DeviceTyped, device
<1>6. CASE Crash
  <2>1. /\ source' = source /\ nextMove' = 1 /\ plan' = {} /\ phase' = "closed"
        /\ manifest' = manifest /\ disk' \in TornFiles /\ covers' \in TornCovers
    BY <1>6 DEF Crash
  <2>2. disk' \in Maps(Files)
    <3>1. \/ disk' = disk
          \/ \E written \in SUBSET DOMAIN ad.pendingTagWrites : disk' = Tagged(written)
          \/ \E op \in plan : op.kind = "upgrade" /\ disk' = Replaced(op, disk)
      BY <2>1 DEF TornFiles
    <3>. QED BY <1>1, <3>1, TaggedIsTyped, ReplacedIsTyped
  <2>3. covers' \subseteq Dirs
    <3>1. covers' \subseteq covers \cup ad.pendingSidecarWrites
      BY <2>1 DEF TornCovers
    <3>. QED BY <1>1, <3>1 DEF DeviceTyped, Adapters
  <2>. QED BY <1>1, <1>3, <2>1, <2>2, <2>3, SavingKeepsProcess DEF TInv, DeviceTyped
<1>7. CASE Change
  <2>1. /\ UNCHANGED device /\ source' \in Collections /\ plan' = plan /\ phase' = "closed"
        /\ phase \in Idle /\ nextMove' = nextMove
    BY <1>7 DEF Change
  <2>2. plan' = {} /\ nextMove' = 1 /\ phase' \in Phases
    BY <1>2, <2>1 DEF IInv, Idle, Phases
  <2>. QED BY <1>1, <1>3, <2>1, <2>2, ProcessStep DEF DeviceTyped, device
<1>. QED BY <1>4, <1>5, <1>6, <1>7

LEMMA NextTInv == TInv /\ IInv /\ [Next]_vars => TInv'
<1> SUFFICES ASSUME TInv, IInv, [Next]_vars PROVE TInv'
  OBVIOUS
<1>1. FlagsTyped'
  BY FlagsStep
<1>2. CASE Run
  <2>1. \A op \in plan : Execute(op) => DeviceTyped' /\ ProcessTyped' /\ source' \in Collections
    BY DoingKeepsTInv
  <2>. QED BY <1>1, <1>2, <2>1, PlanningKeepsTInv, SaveKeepsTInv, WorldKeepsTInv DEF Run, TInv
<1>3. CASE Trouble
  <2>1. \A op \in plan : AddFails(op) \/ UpgradeLeavesOld(op) =>
          DeviceTyped' /\ ProcessTyped' /\ source' \in Collections
    BY DoingKeepsTInv
  <2>. QED BY <1>1, <1>3, <2>1, SaveFailsKeepsTInv, WorldKeepsTInv DEF Trouble, TInv
<1>4. CASE UNCHANGED vars
  BY <1>1, <1>4 DEF vars, device, process, TInv, DeviceTyped, ProcessTyped, OpTyped, Wanted
<1>. QED BY <1>2, <1>3, <1>4 DEF Next

LEMMA TInvHolds == Spec => []TInv
<1>. QED BY InitTInv, IInvHolds, NextTInv, PTL DEF Spec

(***************************************************************************)
(* Files, covers, manifest, plan and the save's progress have their types  *)
(* in every reachable state: a path that deduplicatePath or a replacement  *)
(* makes up is a path, and the flush of moves never runs past its list.    *)
(***************************************************************************)
THEOREM MassStorageTyped == Spec => []MassStorageTypeOK
<1>1. TInv => MassStorageTypeOK
  <2> SUFFICES ASSUME TInv PROVE MassStorageTypeOK
    OBVIOUS
  <2>1. DOMAIN disk \subseteq Paths /\ \A p \in DOMAIN disk : disk[p] \in Files
    BY MapFacts DEF TInv, DeviceTyped
  <2>. QED BY <2>1 DEF TInv, DeviceTyped, ProcessTyped, FlagsTyped, OpTyped, MassStorageTypeOK
<1>. QED BY <1>1, TInvHolds, PTL

-----------------------------------------------------------------------------
(* The run and its saves, as far as files, tracks and moves are concerned. *)

Running == phase \in {"executing"} \cup Saving

\* The other stages change tags, covers and the manifest only.
LEMMA FlushedKeepsPlaces ==
  ASSUME NEW a \in Adapters, NEW dirs, NEW b,
         b \in {a, [a EXCEPT !.pendingTagWrites = NoEntries],
                [a EXCEPT !.pendingSidecarWrites = {}],
                [a EXCEPT !.pendingSidecarDeletes = {}, !.managedCovers = @ \ dirs]}
  PROVE  b \in Adapters /\ SamePlaces(a, b) /\ b.managedFiles = a.managedFiles
<1>1. b \in Adapters
  BY FlushedIsTyped
<1>2. /\ b.tracks = a.tracks /\ b.pendingMoves = a.pendingMoves
      /\ b.managedFiles = a.managedFiles
  BY DEF Adapters
<1>. QED BY <1>1, <1>2 DEF SamePlaces

LEMMA TagsKeepOwner ==
  ASSUME TInv, NEW written
  PROVE  /\ DOMAIN Tagged(written) = DOMAIN disk
         /\ \A p \in DOMAIN disk : /\ Tagged(written)[p].mine = disk[p].mine
                                   /\ Tagged(written)[p].song = disk[p].song
<1>1. \A p \in DOMAIN disk : disk[p] \in Files
  BY MapFacts DEF TInv, DeviceTyped
<1>2. DOMAIN Tagged(written) = DOMAIN disk
  BY DEF Tagged
<1>3. ASSUME NEW p \in DOMAIN disk
      PROVE  /\ Tagged(written)[p].mine = disk[p].mine
             /\ Tagged(written)[p].song = disk[p].song
  <2>1. {"mine", "song"} \subseteq DOMAIN disk[p]
    BY <1>1 DEF Files
  <2>2. \/ Tagged(written)[p] = disk[p]
        \/ \E meta, tag : Tagged(written)[p] = [disk[p] EXCEPT !.meta = meta, !.tag = tag]
    BY DEF Tagged
  <2>. QED BY <2>1, <2>2
<1>. QED BY <1>2, <1>3

(***************************************************************************)
(* What a save and its failures, an interrupt and the end of the plan      *)
(* leave as it is.                                                         *)
(***************************************************************************)
LEMMA SavingLeavesFiles ==
  ASSUME TInv, Running', ~FlushMove, ~FlushMovesEnd,
         Save \/ SaveFails \/ FinalSave \/ Interrupt
  PROVE  /\ Running /\ strays' = strays
         /\ \A p \in DOMAIN disk' : p \in DOMAIN disk /\ disk'[p].mine = disk[p].mine
         /\ ad' \in Adapters /\ SamePlaces(ad, ad') /\ ad'.managedFiles = ad.managedFiles
         /\ plan' \subseteq plan /\ (nextMove' = nextMove \/ nextMove' = 1)
         /\ phase' \in Saving \ {"moves"} => phase \in Saving \ {"moves"}
<1>1. phase' # "closed" /\ ad \in Adapters
  BY DEF Running, Saving, TInv, ProcessTyped
<1>2. CASE FlushTags \/ FlushSidecarWrites \/ FlushSidecarDeletes \/ WriteManifest
  <2>1. /\ Running /\ strays' = strays /\ plan' \subseteq plan
        /\ phase \in Saving \ {"moves"}
        /\ nextMove' = nextMove \/ nextMove' = 1
    BY <1>2 DEF FlushTags, FlushSidecarWrites, FlushSidecarDeletes, WriteManifest,
                Stage, SaveThrows, Running, Saving
  <2>2. disk' = disk \/ \E written : disk' = Tagged(written)
    BY <1>2 DEF FlushTags, FlushSidecarWrites, FlushSidecarDeletes, WriteManifest
  <2>3. \E dirs : ad' \in {ad, [ad EXCEPT !.pendingTagWrites = NoEntries],
                           [ad EXCEPT !.pendingSidecarWrites = {}],
                           [ad EXCEPT !.pendingSidecarDeletes = {}, !.managedCovers = @ \ dirs]}
    <3>1. FlushTags => ad' = [ad EXCEPT !.pendingTagWrites = NoEntries]
      BY <1>1 DEF FlushTags, SaveThrows
    <3>2. WriteManifest => ad' = ad
      BY <1>1 DEF WriteManifest
    <3>. QED BY <1>2, <3>1, <3>2 DEF FlushSidecarWrites, FlushSidecarDeletes
  <2>4. \A p \in DOMAIN disk' : p \in DOMAIN disk /\ disk'[p].mine = disk[p].mine
    BY <2>2, TagsKeepOwner
  <2>5. ad' \in Adapters /\ SamePlaces(ad, ad') /\ ad'.managedFiles = ad.managedFiles
    BY <1>1, <2>3, FlushedKeepsPlaces
  <2>. QED BY <2>1, <2>4, <2>5
<1>3. CASE SaveFails
  <2>1. /\ Running /\ strays' = strays /\ SaveThrows
    BY <1>3 DEF SaveFails, FlushMoveFails, FlushTagsFails, FlushSidecarWritesFails,
                FlushSidecarDeletesFails, WriteManifestFails, Running, Saving
  <2>2. plan' = {} /\ nextMove' = 1 /\ ~final /\ phase' = "moves"
    BY <1>1, <2>1 DEF SaveThrows
  <2>3. disk' = disk \/ \E written : disk' = Tagged(written)
    BY <1>3 DEF SaveFails, FlushMoveFails, FlushTagsFails, FlushSidecarWritesFails,
                FlushSidecarDeletesFails, WriteManifestFails, device
  <2>4. \E dirs : ad' \in {ad, [ad EXCEPT !.pendingTagWrites = NoEntries],
                           [ad EXCEPT !.pendingSidecarWrites = {}],
                           [ad EXCEPT !.pendingSidecarDeletes = {}, !.managedCovers = @ \ dirs]}
    BY <1>3, <2>2 DEF SaveFails, FlushMoveFails, FlushTagsFails, FlushSidecarWritesFails,
                      FlushSidecarDeletesFails, WriteManifestFails
  <2>5. \A p \in DOMAIN disk' : p \in DOMAIN disk /\ disk'[p].mine = disk[p].mine
    BY <2>3, TagsKeepOwner
  <2>6. ad' \in Adapters /\ SamePlaces(ad, ad') /\ ad'.managedFiles = ad.managedFiles
    BY <1>1, <2>4, FlushedKeepsPlaces
  <2>. QED BY <2>1, <2>2, <2>5, <2>6
<1>4. CASE FinalSave \/ Interrupt
  <2>1. /\ Running /\ strays' = strays /\ disk' = disk /\ ad' = ad /\ phase' = "moves"
        /\ plan' \subseteq plan /\ nextMove' = nextMove
    BY <1>1, <1>4 DEF FinalSave, Interrupt, Running, device
  <2>. QED BY <1>1, <2>1 DEF SamePlaces
<1>. QED BY <1>2, <1>3, <1>4 DEF Save

-----------------------------------------------------------------------------
(* Covers. A file of the device may be without a track of its own: it is   *)
(* on its way to where its track is, or an upgrade could not unlink it.    *)

Tracked(dir) == \E p \in DOMAIN ad.tracks : AlbumDir(p) = dir

NoRelocations == \A op \in plan : op.kind # "relocate"

\* The new file of the upgrade is in the same directory, and is to stay there.
LeftBehind(p) == Tracked(AlbumDir(p)) /\ NoRelocations

ToMove(p) == \E i \in nextMove..Len(ad.pendingMoves) : ad.pendingMoves[i].from = p

\* A path that a move puts a file at. No second move takes the track away.
Arrives(p) ==
  \/ /\ p \in DOMAIN ad.tracks
     /\ \A op \in plan : op.kind = "relocate" => op.path # p
  \/ LeftBehind(p)

(***************************************************************************)
(* The inductive invariant: every file of the device is accounted for, so  *)
(* that a directory without a track has no file when covers are deleted.   *)
(***************************************************************************)
Accounted ==
  /\ \A p \in DOMAIN disk : p \in DOMAIN ad.tracks \/ ToMove(p) \/ LeftBehind(p)
  /\ \A i \in 1..Len(ad.pendingMoves) : Arrives(ad.pendingMoves[i].to)

CInv ==
  Running => /\ phase \in Saving \ {"moves"} => ad.pendingMoves = <<>>
             /\ Accounted

\* Fewer files, a shorter plan or moves that are started over.
LEMMA StillAccounted ==
  ASSUME Accounted, TInv, DOMAIN disk' \subseteq DOMAIN disk,
         ad' \in Adapters, SamePlaces(ad, ad'), plan' \subseteq plan,
         nextMove' = nextMove \/ nextMove' = 1
  PROVE  Accounted'
<1>1. \A p : LeftBehind(p) => LeftBehind(p)'
  BY DEF LeftBehind, Tracked, NoRelocations, SamePlaces
<1>2. \A p : ToMove(p) => ToMove(p)'
  BY MovesAreTyped DEF ToMove, SamePlaces, TInv, ProcessTyped
<1>3. \A p : Arrives(p) => Arrives(p)'
  BY <1>1 DEF Arrives, SamePlaces
<1>. QED BY <1>1, <1>2, <1>3 DEF Accounted, SamePlaces

LEMMA RelocateAccounts ==
  ASSUME Accounted, TInv, IInv, NEW op \in plan, Relocate(op)
  PROVE  Accounted'
<1> DEFINE moves == ad.pendingMoves
           last == Len(moves) + 1
<1>1. /\ disk' = disk /\ op.path \in DOMAIN ad.tracks /\ ad' \in Adapters
      /\ op.kind = "relocate" /\ plan' = plan \ {op} /\ nextMove' = 1
  <2>1. phase = "executing" /\ nextMove' = nextMove
    BY DEF Relocate, Doing
  <2>2. nextMove = 1
    BY <2>1 DEF TInv, ProcessTyped
  <2>. QED BY <2>1, <2>2, RelocateEffect DEF Relocate, Doing
<1>2. PICK new \in Paths \ DOMAIN ad.tracks :
        /\ DOMAIN ad'.tracks = (DOMAIN ad.tracks \ {op.path}) \cup {new}
        /\ ad'.pendingMoves = Append(moves, [from |-> op.path, to |-> new])
  BY RelocateEffect
<1>3. moves \in Seq(Moves)
  BY DEF TInv, ProcessTyped, Adapters
<1>4. /\ Len(ad'.pendingMoves) = last
      /\ ad'.pendingMoves[last] = [from |-> op.path, to |-> new]
      /\ \A i \in 1..Len(moves) : ad'.pendingMoves[i] = moves[i]
      /\ Len(moves) \in Nat
  BY <1>2, <1>3
<1> HIDE DEF moves
<1>5. ASSUME NEW p PROVE ~LeftBehind(p)
  BY <1>1 DEF LeftBehind, NoRelocations
<1>6. ASSUME NEW p \in DOMAIN disk' PROVE p \in DOMAIN ad'.tracks \/ ToMove(p)'
  <2>1. p \in DOMAIN ad.tracks \/ ToMove(p)
    BY <1>1, <1>5 DEF Accounted
  <2>2. CASE p = op.path
    <3>1. last \in nextMove'..Len(ad'.pendingMoves) /\ ad'.pendingMoves[last].from = p
      BY <1>1, <1>4, <2>2
    <3>. QED BY <3>1 DEF ToMove
  <2>3. CASE p \in DOMAIN ad.tracks /\ p # op.path
    BY <1>2, <2>3
  <2>4. CASE ToMove(p)
    <3>1. PICK i \in nextMove..Len(moves) : moves[i].from = p
      BY <2>4 DEF ToMove, moves
    <3>2. nextMove \in Nat /\ nextMove >= 1
      BY <1>4 DEF TInv, ProcessTyped, moves
    <3>3. i \in nextMove'..Len(ad'.pendingMoves) /\ ad'.pendingMoves[i].from = p
      BY <1>1, <1>4, <3>1, <3>2
    <3>. QED BY <3>3 DEF ToMove
  <2>. QED BY <2>1, <2>2, <2>3, <2>4
<1>7. ASSUME NEW i \in 1..Len(ad'.pendingMoves)
      PROVE  Arrives(ad.pendingMoves[i].to)'
  <2> DEFINE to == ad'.pendingMoves[i].to
  <2>1. CASE i = last
    <3>1. to = new /\ new \in DOMAIN ad'.tracks
      BY <1>2, <1>4, <2>1
    <3>2. \A o \in plan : o.kind = "relocate" => o.path \in DOMAIN ad.tracks
      BY OperationFacts DEF AboutTrack
    <3>3. \A o \in plan' : o.kind = "relocate" => o.path # to
      BY <1>1, <1>2, <3>1, <3>2
    <3>. QED BY <3>1, <3>3 DEF Arrives
  <2>2. CASE i \in 1..Len(moves)
    <3>1. to = moves[i].to
      BY <1>4, <2>2
    <3>2. Arrives(to)
      BY <2>2, <3>1 DEF Accounted, moves
    <3>3. to \in DOMAIN ad.tracks /\ \A o \in plan : o.kind = "relocate" => o.path # to
      BY <1>5, <3>2 DEF Arrives
    <3>4. to \in DOMAIN ad'.tracks /\ \A o \in plan' : o.kind = "relocate" => o.path # to
      BY <1>1, <1>2, <3>3
    <3>. QED BY <3>4 DEF Arrives
  <2>. QED BY <1>4, <2>1, <2>2
<1>. QED BY <1>6, <1>7 DEF Accounted

LEMMA AddAccounts ==
  ASSUME Accounted, TInv, IInv, NEW op \in plan, Add(op)
  PROVE  Accounted'
<1>1. /\ plan' = plan \ {op} /\ nextMove' = nextMove /\ ad'.pendingMoves = ad.pendingMoves
  BY AddEffect DEF Add, Doing
<1>2. PICK new \in Paths : /\ DOMAIN ad'.tracks = DOMAIN ad.tracks \cup {new}
                           /\ DOMAIN disk' = DOMAIN disk \cup {new}
  BY AddEffect
<1>3. \A p : LeftBehind(p) => LeftBehind(p)'
  BY <1>1, <1>2 DEF LeftBehind, Tracked, NoRelocations
<1>4. \A p : ToMove(p) => ToMove(p)'
  BY <1>1 DEF ToMove
<1>5. \A p : Arrives(p) => Arrives(p)'
  BY <1>1, <1>2, <1>3 DEF Arrives
<1>. QED BY <1>1, <1>2, <1>3, <1>4, <1>5 DEF Accounted

(***************************************************************************)
(* An upgrade comes when nothing is left to relocate. What loses its track *)
(* by it is in the directory of the new track.                             *)
(***************************************************************************)
LEMMA UpgradeAccounts ==
  ASSUME Accounted, TInv, IInv, NEW op \in plan, Upgrade(op) \/ UpgradeLeavesOld(op)
  PROVE  Accounted'
<1>1. /\ plan' = plan \ {op} /\ nextMove' = nextMove /\ ad'.pendingMoves = ad.pendingMoves
      /\ op \in Ready /\ op.kind = "upgrade"
  BY UpgradeEffect DEF Upgrade, UpgradeLeavesOld, Doing
<1>2. PICK new \in Paths : /\ AlbumDir(new) = AlbumDir(op.path)
                           /\ DOMAIN ad'.tracks = (DOMAIN ad.tracks \ {op.path}) \cup {new}
                           /\ DOMAIN disk' \subseteq DOMAIN disk \cup {new}
  BY UpgradeEffect
<1>3. NoRelocations
  <2>1. ASSUME NEW o \in plan, o.kind = "relocate" PROVE FALSE
    <3>1. Priority(op) = 2 /\ Priority(o) = 1
      BY <1>1, <2>1 DEF Priority
    <3>2. Priority(op) <= Priority(o)
      BY <1>1 DEF Ready
    <3>. QED BY <3>1, <3>2
  <2>. QED BY <2>1 DEF NoRelocations
<1>4. NoRelocations'
  BY <1>1, <1>3 DEF NoRelocations
<1>5. \A dir : Tracked(dir) => Tracked(dir)'
  BY <1>2 DEF Tracked
<1>6. \A p \in DOMAIN ad.tracks : p \in DOMAIN ad'.tracks \/ LeftBehind(p)'
  <2>1. Tracked(AlbumDir(op.path))'
    BY <1>2 DEF Tracked
  <2>. QED BY <1>2, <1>4, <2>1 DEF LeftBehind
<1>7. \A p : LeftBehind(p) => LeftBehind(p)'
  BY <1>4, <1>5 DEF LeftBehind
<1>8. \A p : ToMove(p) => ToMove(p)'
  BY <1>1 DEF ToMove
<1>9. \A p : Arrives(p) => Arrives(p)'
  BY <1>1, <1>4, <1>6, <1>7 DEF Arrives, NoRelocations
<1>. QED BY <1>1, <1>2, <1>6, <1>7, <1>8, <1>9 DEF Accounted

LEMMA FlushMoveEffect ==
  ASSUME TInv, FlushMove
  PROVE  /\ ad' = ad /\ plan' = plan /\ strays' = strays
         /\ nextMove \in 1..Len(ad.pendingMoves)
         /\ \A p \in DOMAIN disk' :
              \/ p = ad.pendingMoves[nextMove].to
              \/ /\ p \in DOMAIN disk /\ disk'[p] = disk[p]
                 /\ ToMove(p) => ToMove(p)'
<1> DEFINE move == ad.pendingMoves[nextMove]
<1>1. /\ ad' = ad /\ plan' = plan /\ strays' = strays /\ nextMove' = nextMove + 1
      /\ disk' = Renamed(disk, move) /\ nextMove <= Len(ad.pendingMoves)
  BY DEF FlushMove
<1>2. nextMove \in 1..Len(ad.pendingMoves) /\ Len(ad.pendingMoves) \in Nat
  BY <1>1, MovesAreTyped DEF TInv, ProcessTyped
<1>3. \A p \in DOMAIN disk' :
        p = move.to \/ (p \in DOMAIN disk /\ p # move.from /\ disk'[p] = disk[p])
  BY <1>1 DEF Renamed, Rekey, Put, Without
<1>4. ASSUME NEW p, ToMove(p), p # move.from PROVE ToMove(p)'
  <2>1. PICK i \in nextMove..Len(ad.pendingMoves) : ad.pendingMoves[i].from = p
    BY <1>4 DEF ToMove
  <2>2. i # nextMove
    BY <1>4, <2>1
  <2>3. i \in nextMove'..Len(ad'.pendingMoves)
    BY <1>1, <1>2, <2>1, <2>2
  <2>. QED BY <1>1, <2>1, <2>3 DEF ToMove
<1>. QED BY <1>1, <1>2, <1>3, <1>4

LEMMA FlushMoveAccounts ==
  ASSUME Accounted, TInv, FlushMove
  PROVE  Accounted'
<1>1. ad' = ad /\ plan' = plan
  BY FlushMoveEffect
<1>2. \A p : /\ LeftBehind(p)' <=> LeftBehind(p)
             /\ Arrives(p)' <=> Arrives(p)
  BY <1>1 DEF LeftBehind, Tracked, NoRelocations, Arrives
<1>3. ASSUME NEW p \in DOMAIN disk'
      PROVE  p \in DOMAIN ad.tracks \/ ToMove(p)' \/ LeftBehind(p)
  <2>1. CASE p = ad.pendingMoves[nextMove].to
    BY <2>1, FlushMoveEffect DEF Accounted, Arrives
  <2>2. CASE p \in DOMAIN disk /\ (ToMove(p) => ToMove(p)')
    BY <2>2 DEF Accounted
  <2>. QED BY <2>1, <2>2, FlushMoveEffect
<1>. QED BY <1>1, <1>2, <1>3 DEF Accounted

LEMMA FlushMovesEndAccounts ==
  ASSUME Accounted, TInv, FlushMovesEnd
  PROVE  Accounted' /\ ad'.pendingMoves = <<>>
<1>1. /\ ad' = [ad EXCEPT !.pendingMoves = <<>>] /\ plan' = plan /\ disk' = disk
      /\ nextMove > Len(ad.pendingMoves)
  BY DEF FlushMovesEnd, Stage, device
<1>2. ad \in Adapters
  BY DEF TInv, ProcessTyped
<1>3. ad'.tracks = ad.tracks /\ ad'.pendingMoves = <<>> /\ Len(ad'.pendingMoves) = 0
  BY <1>1, <1>2 DEF Adapters
<1>4. \A p : ~ToMove(p)
  BY <1>1, <1>2, MovesAreTyped DEF ToMove, TInv, ProcessTyped
<1>5. \A p : LeftBehind(p) => LeftBehind(p)'
  BY <1>1, <1>3 DEF LeftBehind, Tracked, NoRelocations
<1>. QED BY <1>1, <1>3, <1>4, <1>5 DEF Accounted

LEMMA SavingKeepsCInv ==
  ASSUME CInv, TInv, Save \/ SaveFails \/ FinalSave \/ Interrupt, Running'
  PROVE  CInv'
<1>1. CASE FlushMove
  <2>1. phase = "moves" /\ phase' = "moves"
    BY <1>1 DEF FlushMove
  <2>. QED BY <1>1, <2>1, FlushMoveAccounts DEF CInv, Running, Saving
<1>2. CASE FlushMovesEnd
  <2>1. phase = "moves"
    BY <1>2 DEF FlushMovesEnd, Stage
  <2>. QED BY <1>2, <2>1, FlushMovesEndAccounts DEF CInv, Running, Saving
<1>3. CASE ~FlushMove /\ ~FlushMovesEnd
  <2>1. /\ Running /\ DOMAIN disk' \subseteq DOMAIN disk
        /\ ad' \in Adapters /\ SamePlaces(ad, ad')
        /\ plan' \subseteq plan /\ (nextMove' = nextMove \/ nextMove' = 1)
        /\ phase' \in Saving \ {"moves"} => phase \in Saving \ {"moves"}
    BY <1>3, SavingLeavesFiles
  <2>2. Accounted /\ (phase \in Saving \ {"moves"} => ad.pendingMoves = <<>>)
    BY <2>1 DEF CInv
  <2>3. phase' \in Saving \ {"moves"} => ad'.pendingMoves = <<>>
    BY <2>1, <2>2 DEF SamePlaces
  <2>. QED BY <2>1, <2>2, <2>3, StillAccounted DEF CInv
<1>. QED BY <1>1, <1>2, <1>3

LEMMA DoingKeepsCInv ==
  ASSUME CInv, TInv, IInv, NEW op \in plan,
         Execute(op) \/ UpgradeLeavesOld(op) \/ AddFails(op)
  PROVE  CInv'
<1>1. phase = "executing" /\ phase' \in {"executing", "moves"}
  <2>1. \A kind : Doing(op, kind) => phase = "executing" /\ phase' \in {"executing", "moves"}
    BY DEF Doing
  <2>2. AddFails(op) => phase = "executing" /\ phase' \in {"executing", "moves"}
    BY DEF AddFails
  <2>. QED BY <2>1, <2>2 DEF Execute, Remove, Update, Relocate, Add, Upgrade, UpgradeLeavesOld
<1>2. Accounted /\ ad \in Adapters
  BY <1>1 DEF CInv, Running, TInv, ProcessTyped
<1>3. plan' \subseteq plan /\ nextMove' = nextMove
  BY DEF Execute, Remove, Update, Relocate, Add, Upgrade, UpgradeLeavesOld, AddFails, Doing
<1>4. Accounted'
  <2>1. CASE Remove(op)
    <3>1. ad' = ad /\ DOMAIN disk' \subseteq DOMAIN disk
      BY <2>1, RemoveEffect
    <3>. QED BY <1>2, <1>3, <3>1, StillAccounted DEF SamePlaces
  <2>2. CASE Update(op)
    BY <1>2, <1>3, <2>2, UpdateEffect, StillAccounted
  <2>3. CASE AddFails(op)
    BY <1>2, <1>3, <2>3, AddFailsEffect, StillAccounted
  <2>4. CASE Relocate(op)
    BY <1>2, <2>4, RelocateAccounts
  <2>5. CASE Add(op)
    BY <1>2, <2>5, AddAccounts
  <2>6. CASE Upgrade(op) \/ UpgradeLeavesOld(op)
    BY <1>2, <2>6, UpgradeAccounts
  <2>. QED BY <2>1, <2>2, <2>3, <2>4, <2>5, <2>6 DEF Execute
<1>. QED BY <1>1, <1>4 DEF CInv, Saving

\* When the run starts, every file has its track: nothing has happened since
\* the walk over the device.
LEMMA StartAccounts ==
  ASSUME OpenIsFresh, TInv, Start
  PROVE  CInv'
<1>1. /\ ad' = ad /\ disk' = disk /\ phase' = "executing"
      /\ ad = OpenedAdapter(disk, manifest)
  BY DEF Start, OpenIsFresh, device
<1>2. DOMAIN ad.tracks = DOMAIN disk /\ ad.pendingMoves = <<>>
  BY <1>1, OpenedIsTyped DEF TInv, DeviceTyped
<1>3. Len(ad'.pendingMoves) = 0
  BY <1>1, <1>2
<1>. QED BY <1>1, <1>2, <1>3 DEF CInv, Accounted, Saving

LEMMA NextCInv == OpenIsFresh /\ TInv /\ IInv /\ CInv /\ [Next]_vars => CInv'
<1> SUFFICES ASSUME OpenIsFresh, TInv, IInv, CInv, [Next]_vars, Running' PROVE CInv'
  BY DEF CInv
<1>1. ~Open /\ ~Settle /\ ~Refuse /\ ~Crash /\ ~Change
  BY DEF Open, Settle, Refuse, Crash, Change, Running, Saving
<1>2. \A op \in plan : Execute(op) \/ UpgradeLeavesOld(op) \/ AddFails(op) => CInv'
  BY DoingKeepsCInv
<1>3. CASE UNCHANGED vars
  BY <1>3 DEF vars, device, process, CInv, Running, Accounted, ToMove, Arrives, LeftBehind,
              Tracked, NoRelocations
<1>. QED BY <1>1, <1>2, <1>3, StartAccounts, SavingKeepsCInv
         DEF Next, Run, Trouble

(***************************************************************************)
(* Covers go in the stage "drops" only, and only from directories without  *)
(* a track. No file is on its way then, so they have no file either.       *)
(***************************************************************************)
LEMMA CoversGoLate ==
  ASSUME [Next]_vars, NEW dir \in covers \ covers'
  PROVE  phase = "drops" /\ disk' = disk /\ dir \in Abandoned
<1>1. UNCHANGED covers => FALSE
  OBVIOUS
<1>2. CASE Run
  <2>1. \A op \in plan : Execute(op) => UNCHANGED covers
    BY DEF Execute, Remove, Update, Relocate, Add, Upgrade, device
  <2>2. ~Open /\ ~Settle /\ ~Refuse /\ ~Start /\ ~FinalSave
    BY <1>1 DEF Open, Settle, Refuse, Start, FinalSave, device
  <2>3. ~FlushMove /\ ~FlushMovesEnd /\ ~FlushTags /\ ~FlushSidecarWrites /\ ~WriteManifest
    BY <1>1 DEF FlushMove, FlushMovesEnd, FlushTags, FlushSidecarWrites, WriteManifest, device
  <2>4. FlushSidecarDeletes
    BY <1>1, <1>2, <2>1, <2>2, <2>3 DEF Run, Save
  <2>. QED BY <2>4 DEF FlushSidecarDeletes, Stage
<1>3. CASE Trouble
  <2>1. \A op \in plan : AddFails(op) \/ UpgradeLeavesOld(op) => UNCHANGED covers
    BY DEF AddFails, UpgradeLeavesOld, device
  <2>2. ~Interrupt /\ ~Change
    BY <1>1 DEF Interrupt, Change, device
  <2>3. ~FlushMoveFails /\ ~FlushTagsFails /\ ~FlushSidecarWritesFails /\ ~WriteManifestFails
    BY <1>1 DEF FlushMoveFails, FlushTagsFails, FlushSidecarWritesFails, WriteManifestFails, device
  <2>4. FlushSidecarDeletesFails \/ Crash
    BY <1>1, <1>3, <2>1, <2>2, <2>3 DEF Trouble, SaveFails
  <2>5. CASE FlushSidecarDeletesFails
    BY <2>5 DEF FlushSidecarDeletesFails
  <2>6. CASE Crash
    <3>1. covers' \in TornCovers /\ disk' \in TornFiles
      BY <2>6 DEF Crash
    <3>2. phase = "drops" /\ dir \in Abandoned
      BY <3>1 DEF TornCovers
    <3>. QED BY <3>1, <3>2 DEF TornFiles
  <2>. QED BY <2>4, <2>5, <2>6
<1>4. CASE UNCHANGED vars
  BY <1>1, <1>4 DEF vars, device
<1>. QED BY <1>2, <1>3, <1>4 DEF Next

(***************************************************************************)
(* flushSidecarDeletes asks the track list, not the device, whether an     *)
(* album directory is still in use. It never deletes the cover of a        *)
(* directory that has a file, whatever was moved, replaced, rolled back or *)
(* left behind before, and wherever the process is killed.                 *)
(***************************************************************************)
THEOREM CoversKept == Spec => CoverKept
<1>1. Init => OpenIsFresh /\ CInv
  BY DEF Init, OpenIsFresh, CInv, Running, Saving
<1>2. OpenIsFresh /\ TInv /\ IInv /\ CInv /\ [Next]_vars => OpenIsFresh' /\ CInv'
  BY FreshStep, NextCInv
<1>3. TInv /\ CInv /\ [Next]_vars =>
        [\A d \in covers \ covers' :
           ~\E p \in DOMAIN disk' : AlbumDir(p) = d /\ disk'[p].mine]_vars
  <2> SUFFICES ASSUME TInv, CInv, [Next]_vars, NEW d \in covers \ covers',
                      NEW p \in DOMAIN disk', AlbumDir(p) = d
               PROVE  FALSE
    OBVIOUS
  <2>1. phase = "drops" /\ p \in DOMAIN disk /\ d \in Abandoned
    BY CoversGoLate
  <2>2. Accounted /\ ad.pendingMoves = <<>>
    BY <2>1 DEF CInv, Running, Saving
  <2>3. ~Tracked(d)
    BY <2>1 DEF Abandoned, AlbumDirStillOccupied, Tracked
  <2>4. ~ToMove(p)
    <3>1. Len(ad.pendingMoves) = 0 /\ nextMove >= 1 /\ nextMove \in Nat
      BY <2>2 DEF TInv, ProcessTyped
    <3>. QED BY <3>1 DEF ToMove
  <2>5. p \in DOMAIN ad.tracks \/ LeftBehind(p)
    BY <2>1, <2>2, <2>4 DEF Accounted
  <2>6. Tracked(AlbumDir(p))
    BY <2>5 DEF Tracked, LeftBehind
  <2>. QED BY <2>3, <2>6
<1>. QED BY <1>1, <1>2, <1>3, TInvHolds, IInvHolds, PTL DEF Spec, CoverKept

-----------------------------------------------------------------------------
(* The manifest. A file of podkit's is listed in the next manifest, is on  *)
(* its way to a path that is, or was left unlisted by an accident.         *)

Listed(p) == p \in DOMAIN ad.tracks /\ p \in ad.managedFiles

\* A path that a move puts a file at: no operation takes its track away.
Reserved(p) == Listed(p) /\ \A op \in plan : AboutTrack(op) => op.path # p

AllKnown ==
  /\ \A p \in DOMAIN disk : disk[p].mine => p \in strays \/ Listed(p) \/ ToMove(p)
  /\ \A i \in 1..Len(ad.pendingMoves) : Reserved(ad.pendingMoves[i].to)

\* The inductive invariant, and what Open makes of the strays.
NInv ==
  /\ Running => AllKnown
  /\ phase = "open" => strays = {p \in DOMAIN disk : disk[p].mine} \ manifest.files

\* Fewer files, a shorter plan or moves that are started over.
LEMMA StillKnown ==
  ASSUME AllKnown, TInv, strays' = strays,
         \A p \in DOMAIN disk' : p \in DOMAIN disk /\ disk'[p].mine = disk[p].mine,
         ad' \in Adapters, SamePlaces(ad, ad'),
         DOMAIN ad.tracks \cap ad.managedFiles \subseteq ad'.managedFiles,
         plan' \subseteq plan, nextMove' = nextMove \/ nextMove' = 1
  PROVE  AllKnown'
<1>1. \A p : Listed(p) => Listed(p)'
  BY DEF Listed, SamePlaces
<1>2. \A p : ToMove(p) => ToMove(p)'
  BY MovesAreTyped DEF ToMove, SamePlaces, TInv, ProcessTyped
<1>3. \A p : Reserved(p) => Reserved(p)'
  BY <1>1 DEF Reserved, AboutTrack
<1>. QED BY <1>1, <1>2, <1>3 DEF AllKnown, SamePlaces

LEMMA RelocateIsKnown ==
  ASSUME AllKnown, TInv, IInv, NEW op \in plan, Relocate(op)
  PROVE  AllKnown'
<1> DEFINE moves == ad.pendingMoves
           last == Len(moves) + 1
<1>1. /\ disk' = disk /\ strays' = strays /\ op.path \in DOMAIN ad.tracks
      /\ AboutTrack(op) /\ plan' = plan \ {op} /\ nextMove' = 1 /\ nextMove = 1
  <2>1. phase = "executing" /\ nextMove' = nextMove
    BY DEF Relocate, Doing
  <2>2. nextMove = 1
    BY <2>1 DEF TInv, ProcessTyped
  <2>. QED BY <2>1, <2>2, RelocateEffect DEF Relocate, Doing, AboutTrack
<1>2. PICK new \in Paths \ DOMAIN ad.tracks :
        /\ DOMAIN ad'.tracks = (DOMAIN ad.tracks \ {op.path}) \cup {new}
        /\ ad'.pendingMoves = Append(moves, [from |-> op.path, to |-> new])
        /\ ad'.managedFiles = (ad.managedFiles \ {op.path}) \cup {new}
  BY RelocateEffect
<1>3. moves \in Seq(Moves)
  BY DEF TInv, ProcessTyped, Adapters
<1>4. /\ Len(ad'.pendingMoves) = last
      /\ ad'.pendingMoves[last] = [from |-> op.path, to |-> new]
      /\ \A i \in 1..Len(moves) : ad'.pendingMoves[i] = moves[i]
      /\ Len(moves) \in Nat
  BY <1>2, <1>3
<1> HIDE DEF moves
<1>5. \A p : Listed(p) /\ p # op.path => Listed(p)'
  BY <1>2 DEF Listed
<1>6. \A p : ToMove(p) => ToMove(p)'
  <2>1. ASSUME NEW p, NEW i \in 1..Len(moves), moves[i].from = p PROVE ToMove(p)'
    <3>1. i \in nextMove'..Len(ad'.pendingMoves) /\ ad'.pendingMoves[i].from = p
      BY <1>1, <1>4, <2>1
    <3>. QED BY <3>1 DEF ToMove
  <2>. QED BY <1>1, <2>1 DEF ToMove, moves
<1>7. ToMove(op.path)'
  <2>1. last \in nextMove'..Len(ad'.pendingMoves) /\ ad'.pendingMoves[last].from = op.path
    BY <1>1, <1>4
  <2>. QED BY <2>1 DEF ToMove
<1>8. ASSUME NEW i \in 1..Len(ad'.pendingMoves)
      PROVE  Reserved(ad.pendingMoves[i].to)'
  <2>1. CASE i = last
    <3>1. ad'.pendingMoves[i].to = new /\ Listed(new)'
      BY <1>2, <1>4, <2>1 DEF Listed
    <3>2. \A o \in plan : AboutTrack(o) => o.path \in DOMAIN ad.tracks
      BY OperationFacts
    <3>3. \A o \in plan' : AboutTrack(o)' => o.path # new
      BY <1>1, <1>2, <3>2 DEF AboutTrack
    <3>. QED BY <3>1, <3>3 DEF Reserved
  <2>2. CASE i \in 1..Len(moves)
    <3>1. ad'.pendingMoves[i].to = moves[i].to /\ Reserved(moves[i].to)
      BY <1>4, <2>2 DEF AllKnown, moves
    <3>2. moves[i].to # op.path
      BY <1>1, <3>1 DEF Reserved
    <3>3. Listed(ad.pendingMoves[i].to)'
      BY <1>2, <3>1, <3>2 DEF Reserved, Listed
    <3>4. \A o \in plan' : AboutTrack(o)' => o.path # ad'.pendingMoves[i].to
      BY <1>1, <3>1 DEF Reserved, AboutTrack
    <3>. QED BY <3>1, <3>3, <3>4 DEF Reserved
  <2>. QED BY <1>4, <2>1, <2>2
<1>9. \A p \in DOMAIN disk' : disk'[p].mine => p \in strays' \/ Listed(p)' \/ ToMove(p)'
  BY <1>1, <1>5, <1>6, <1>7 DEF AllKnown
<1>. QED BY <1>8, <1>9 DEF AllKnown

LEMMA AddIsKnown ==
  ASSUME AllKnown, TInv, IInv, NEW op \in plan, Add(op)
  PROVE  AllKnown'
<1>1. /\ plan' \subseteq plan /\ nextMove' = nextMove /\ strays' = strays
      /\ ad'.pendingMoves = ad.pendingMoves
  BY AddEffect DEF Add, Doing
<1>2. PICK new \in Paths : /\ DOMAIN ad'.tracks = DOMAIN ad.tracks \cup {new}
                           /\ DOMAIN disk' = DOMAIN disk \cup {new}
                           /\ \A p \in DOMAIN disk \ {new} : disk'[p] = disk[p]
                           /\ ad'.managedFiles = ad.managedFiles \cup {new}
  BY AddEffect
<1>3. Listed(new)' /\ \A p : Listed(p) => Listed(p)'
  BY <1>2 DEF Listed
<1>4. \A p : ToMove(p) => ToMove(p)'
  BY <1>1 DEF ToMove
<1>5. \A p : Reserved(p) => Reserved(p)'
  BY <1>1, <1>3 DEF Reserved, AboutTrack
<1>6. \A p \in DOMAIN disk' : disk'[p].mine => p \in strays' \/ Listed(p)' \/ ToMove(p)'
  BY <1>1, <1>2, <1>3, <1>4 DEF AllKnown
<1>. QED BY <1>1, <1>5, <1>6 DEF AllKnown

LEMMA UpgradeIsKnown ==
  ASSUME AllKnown, TInv, IInv, NEW op \in plan, Upgrade(op) \/ UpgradeLeavesOld(op)
  PROVE  AllKnown'
<1>1. /\ plan' \subseteq plan /\ nextMove' = nextMove /\ strays \subseteq strays'
      /\ ad'.pendingMoves = ad.pendingMoves /\ AboutTrack(op)
  BY UpgradeEffect DEF Upgrade, UpgradeLeavesOld, Doing, AboutTrack
<1>2. PICK new \in Paths :
        /\ DOMAIN ad'.tracks = (DOMAIN ad.tracks \ {op.path}) \cup {new}
        /\ DOMAIN disk' \subseteq DOMAIN disk \cup {new}
        /\ \A p \in DOMAIN disk' \ {new} : disk'[p] = disk[p] /\ (p = op.path => p \in strays')
        /\ ad'.managedFiles = (ad.managedFiles \ {op.path}) \cup {new}
  BY UpgradeEffect
<1>3. Listed(new)' /\ \A p : Listed(p) /\ p # op.path => Listed(p)'
  BY <1>2 DEF Listed
<1>4. \A p : ToMove(p) => ToMove(p)'
  BY <1>1 DEF ToMove
<1>5. \A p : Reserved(p) => Reserved(p)'
  BY <1>1, <1>3 DEF Reserved, AboutTrack
<1>6. \A p \in DOMAIN disk' : disk'[p].mine => p \in strays' \/ Listed(p)' \/ ToMove(p)'
  BY <1>1, <1>2, <1>3, <1>4 DEF AllKnown
<1>. QED BY <1>1, <1>5, <1>6 DEF AllKnown

LEMMA DoingKeepsNInv ==
  ASSUME NInv, TInv, IInv, NEW op \in plan,
         Execute(op) \/ UpgradeLeavesOld(op) \/ AddFails(op)
  PROVE  NInv'
<1>1. phase = "executing" /\ phase' \in {"executing", "moves"}
  <2>1. \A kind : Doing(op, kind) => phase = "executing" /\ phase' \in {"executing", "moves"}
    BY DEF Doing
  <2>2. AddFails(op) => phase = "executing" /\ phase' \in {"executing", "moves"}
    BY DEF AddFails
  <2>. QED BY <2>1, <2>2 DEF Execute, Remove, Update, Relocate, Add, Upgrade, UpgradeLeavesOld
<1>2. AllKnown /\ ad \in Adapters
  BY <1>1 DEF NInv, Running, TInv, ProcessTyped
<1>3. plan' \subseteq plan /\ nextMove' = nextMove
  BY DEF Execute, Remove, Update, Relocate, Add, Upgrade, UpgradeLeavesOld, AddFails, Doing
<1>4. AllKnown'
  <2>1. CASE Remove(op)
    <3>1. /\ ad' = ad /\ strays' = strays
          /\ DOMAIN disk' \subseteq DOMAIN disk /\ \A p \in DOMAIN disk' : disk'[p] = disk[p]
      BY <2>1, RemoveEffect DEF Remove
    <3>. QED BY <1>2, <1>3, <3>1, StillKnown DEF SamePlaces
  <2>2. CASE Update(op)
    <3>1. strays' = strays
      BY <2>2 DEF Update
    <3>. QED BY <1>2, <1>3, <2>2, <3>1, UpdateEffect, StillKnown
  <2>3. CASE AddFails(op)
    <3>1. strays' = strays
      BY <2>3 DEF AddFails
    <3>. QED BY <1>2, <1>3, <2>3, <3>1, AddFailsEffect, StillKnown
  <2>4. CASE Relocate(op)
    BY <1>2, <2>4, RelocateIsKnown
  <2>5. CASE Add(op)
    BY <1>2, <2>5, AddIsKnown
  <2>6. CASE Upgrade(op) \/ UpgradeLeavesOld(op)
    BY <1>2, <2>6, UpgradeIsKnown
  <2>. QED BY <2>1, <2>2, <2>3, <2>4, <2>5, <2>6 DEF Execute
<1>. QED BY <1>1, <1>4 DEF NInv

LEMMA FlushMoveIsKnown ==
  ASSUME AllKnown, TInv, FlushMove
  PROVE  AllKnown'
<1>1. ad' = ad /\ plan' = plan /\ strays' = strays
  BY FlushMoveEffect
<1>2. \A p : /\ Listed(p)' <=> Listed(p)
             /\ Reserved(p)' <=> Reserved(p)
  BY <1>1 DEF Listed, Reserved, AboutTrack
<1>3. ASSUME NEW p \in DOMAIN disk', disk'[p].mine
      PROVE  p \in strays \/ Listed(p) \/ ToMove(p)'
  <2>1. CASE p = ad.pendingMoves[nextMove].to
    BY <2>1, FlushMoveEffect DEF AllKnown, Reserved
  <2>2. CASE p \in DOMAIN disk /\ disk'[p] = disk[p] /\ (ToMove(p) => ToMove(p)')
    BY <1>3, <2>2 DEF AllKnown
  <2>. QED BY <2>1, <2>2, FlushMoveEffect
<1>. QED BY <1>1, <1>2, <1>3 DEF AllKnown

LEMMA FlushMovesEndIsKnown ==
  ASSUME AllKnown, TInv, FlushMovesEnd
  PROVE  AllKnown'
<1>1. /\ ad' = [ad EXCEPT !.pendingMoves = <<>>] /\ plan' = plan /\ disk' = disk
      /\ strays' = strays /\ nextMove > Len(ad.pendingMoves)
  BY DEF FlushMovesEnd, Stage, device
<1>2. ad \in Adapters
  BY DEF TInv, ProcessTyped
<1>3. /\ ad'.tracks = ad.tracks /\ ad'.managedFiles = ad.managedFiles
      /\ Len(ad'.pendingMoves) = 0
  BY <1>1, <1>2 DEF Adapters
<1>4. \A p : ~ToMove(p)
  BY <1>1, <1>2, MovesAreTyped DEF ToMove, TInv, ProcessTyped
<1>5. \A p : Listed(p) => Listed(p)'
  BY <1>3 DEF Listed
<1>. QED BY <1>1, <1>3, <1>4, <1>5 DEF AllKnown

LEMMA SavingKeepsNInv ==
  ASSUME NInv, TInv, Save \/ SaveFails \/ FinalSave \/ Interrupt, Running'
  PROVE  AllKnown'
<1>1. CASE FlushMove
  <2>1. Running
    BY <1>1 DEF FlushMove, Running, Saving
  <2>. QED BY <1>1, <2>1, FlushMoveIsKnown DEF NInv
<1>2. CASE FlushMovesEnd
  <2>1. Running
    BY <1>2 DEF FlushMovesEnd, Stage, Running, Saving
  <2>. QED BY <1>2, <2>1, FlushMovesEndIsKnown DEF NInv
<1>3. CASE ~FlushMove /\ ~FlushMovesEnd
  <2>1. /\ Running /\ strays' = strays
        /\ \A p \in DOMAIN disk' : p \in DOMAIN disk /\ disk'[p].mine = disk[p].mine
        /\ ad' \in Adapters /\ SamePlaces(ad, ad') /\ ad'.managedFiles = ad.managedFiles
        /\ plan' \subseteq plan /\ (nextMove' = nextMove \/ nextMove' = 1)
    BY <1>3, SavingLeavesFiles
  <2>2. AllKnown
    BY <2>1 DEF NInv
  <2>. QED BY <2>1, <2>2, StillKnown
<1>. QED BY <1>1, <1>2, <1>3

\* When the run starts, what the manifest does not list is a stray.
LEMMA StartIsKnown ==
  ASSUME OpenIsFresh, NInv, TInv, Start
  PROVE  AllKnown'
<1>1. /\ ad' = ad /\ disk' = disk /\ strays' = strays
      /\ ad = OpenedAdapter(disk, manifest)
      /\ strays = {p \in DOMAIN disk : disk[p].mine} \ manifest.files
  BY DEF Start, OpenIsFresh, NInv, device
<1>2. /\ DOMAIN ad.tracks = DOMAIN disk /\ ad.pendingMoves = <<>>
      /\ ad.managedFiles = manifest.files
  <2>1. ad.managedFiles = manifest.files
    BY <1>1 DEF OpenedAdapter, ClosedAdapter
  <2>. QED BY <1>1, <2>1, OpenedIsTyped DEF TInv, DeviceTyped
<1>3. Len(ad'.pendingMoves) = 0
  BY <1>1, <1>2
<1>. QED BY <1>1, <1>2, <1>3 DEF AllKnown, Listed

LEMMA NextNInv == OpenIsFresh /\ TInv /\ IInv /\ NInv /\ [Next]_vars => NInv'
<1> SUFFICES ASSUME OpenIsFresh, TInv, IInv, NInv, [Next]_vars PROVE NInv'
  OBVIOUS
<1>1. CASE phase' = "open"
  <2>1. CASE Open
    BY <1>1, <2>1 DEF Open, NInv, Running, Saving, device
  <2>2. CASE UNCHANGED vars
    BY <1>1, <2>2 DEF vars, device, process, NInv, Running, Saving
  <2>. QED BY <1>1, <2>1, <2>2, PhaseFacts
<1>2. CASE Running'
  <2>1. ~Open /\ ~Settle /\ ~Refuse /\ ~Crash /\ ~Change
    BY <1>2 DEF Open, Settle, Refuse, Crash, Change, Running, Saving
  <2>2. phase' # "open"
    BY <1>2 DEF Running, Saving
  <2>3. \A op \in plan : Execute(op) \/ UpgradeLeavesOld(op) \/ AddFails(op) => AllKnown'
    BY <1>2, DoingKeepsNInv DEF NInv
  <2>4. CASE UNCHANGED vars
    BY <1>2, <2>4 DEF vars, device, process, NInv, Running, AllKnown, Listed, Reserved, ToMove,
                      AboutTrack
  <2>5. AllKnown' \/ UNCHANGED vars
    BY <1>2, <2>1, <2>3, StartIsKnown, SavingKeepsNInv DEF Next, Run, Trouble
  <2>. QED BY <2>2, <2>4, <2>5 DEF NInv
<1>3. CASE phase' # "open" /\ ~Running'
  BY <1>3 DEF NInv
<1>. QED BY <1>1, <1>2, <1>3

\* Only the last stage of a save writes the manifest.
LEMMA ManifestGoesLast ==
  ASSUME [Next]_vars, manifest' # manifest
  PROVE  WriteManifest
<1>1. \A op \in plan : Execute(op) \/ AddFails(op) \/ UpgradeLeavesOld(op) => UNCHANGED manifest
  BY DEF Execute, Remove, Update, Relocate, Add, Upgrade, AddFails, UpgradeLeavesOld, device
<1>2. ~Open /\ ~Settle /\ ~Refuse /\ ~Start /\ ~FinalSave /\ ~Interrupt /\ ~Crash /\ ~Change
  BY DEF Open, Settle, Refuse, Start, FinalSave, Interrupt, Crash, Change, device
<1>3. ~FlushMove /\ ~FlushMovesEnd /\ ~FlushTags /\ ~FlushSidecarWrites /\ ~FlushSidecarDeletes
  BY DEF FlushMove, FlushMovesEnd, FlushTags, FlushSidecarWrites, FlushSidecarDeletes, device
<1>4. ~SaveFails
  BY DEF SaveFails, FlushMoveFails, FlushTagsFails, FlushSidecarWritesFails,
         FlushSidecarDeletesFails, WriteManifestFails, device
<1>5. ~UNCHANGED vars
  BY DEF vars, device
<1>. QED BY <1>1, <1>2, <1>3, <1>4, <1>5 DEF Next, Run, Trouble, Save

(***************************************************************************)
(* The manifest is written from managedFiles, which every method keeps up  *)
(* by itself. It lists every file of podkit's on the device after any      *)
(* number of adds, rollbacks, moves, replacements and failed saves, but    *)
(* for those that an earlier accident had left unlisted.                   *)
(***************************************************************************)
THEOREM NothingForgotten == Spec => NoForgottenFile
<1>1. Init => OpenIsFresh /\ CInv /\ NInv
  BY DEF Init, OpenIsFresh, CInv, NInv, Running, Saving
<1>2. OpenIsFresh /\ TInv /\ IInv /\ CInv /\ NInv /\ [Next]_vars =>
        OpenIsFresh' /\ CInv' /\ NInv'
  BY FreshStep, NextCInv, NextNInv
<1>3. TInv /\ CInv /\ NInv /\ [Next]_vars =>
        [manifest' # manifest \/ WriteManifest =>
           {p \in DOMAIN disk' : disk'[p].mine} \subseteq manifest'.files \cup strays']_vars
  <2> SUFFICES ASSUME TInv, CInv, NInv, WriteManifest, NEW p \in DOMAIN disk', disk'[p].mine
               PROVE  p \in manifest'.files \cup strays'
    BY ManifestGoesLast
  <2>1. /\ phase = "manifest" /\ disk' = disk /\ strays' = strays
        /\ manifest'.files = ad.managedFiles
    BY DEF WriteManifest
  <2>2. AllKnown /\ ad.pendingMoves = <<>>
    BY <2>1 DEF NInv, CInv, Running, Saving
  <2>3. ~ToMove(p)
    <3>1. Len(ad.pendingMoves) = 0 /\ nextMove >= 1 /\ nextMove \in Nat
      BY <2>2 DEF TInv, ProcessTyped
    <3>. QED BY <3>1 DEF ToMove
  <2>4. p \in strays \/ Listed(p)
    BY <2>1, <2>2, <2>3 DEF AllKnown
  <2>. QED BY <2>1, <2>4 DEF Listed
<1>. QED BY <1>1, <1>2, <1>3, TInvHolds, IInvHolds, PTL DEF Spec, NoForgottenFile


-----------------------------------------------------------------------------
(* What the adapter has on record for a path: the track and what is still  *)
(* to be written to its file.                                              *)

Pending(a, p) ==
  IF p \in DOMAIN a.pendingTagWrites THEN a.pendingTagWrites[p]
  ELSE [meta |-> Keep, tag |-> Keep]

\* What `a` has on record for `p` is what `b` has for `q`.
SameEntry(a, p, b, q) ==
  /\ b.tracks[q] = a.tracks[p]
  /\ Pending(b, q) = Pending(a, p)
  /\ q \in DOMAIN b.pendingTagWrites <=> p \in DOMAIN a.pendingTagWrites

\* What is pending for a path has the fields of a tag write.
LEMMA PendingIsTyped ==
  ASSUME NEW a \in Adapters, NEW p
  PROVE  /\ Pending(a, p) \in Fields
         /\ Pending(a, p) = [meta |-> Pending(a, p).meta, tag |-> Pending(a, p).tag]
<1>1. p \in DOMAIN a.pendingTagWrites => a.pendingTagWrites[p] \in Fields
  BY MapFacts DEF Adapters
<1>2. [meta |-> Keep, tag |-> Keep] \in Fields
  BY DEF Fields
<1>3. Pending(a, p) \in Fields
  BY <1>1, <1>2 DEF Pending
<1>. QED BY <1>3 DEF Fields

\* A queued write: the field that it leaves out stays what it was.
LEMMA QueuedWrite ==
  ASSUME NEW a \in Adapters, NEW path, NEW fields \in Fields
  PROVE  LET b == QueueTagWrite(a, path, fields)
         IN /\ b.tracks = a.tracks
            /\ \A p : p # path => SameEntry(a, p, b, p)
            /\ Pending(b, path).meta =
                 IF fields.meta = Keep THEN Pending(a, path).meta ELSE fields.meta
            /\ Pending(b, path).tag =
                 IF fields.tag = Keep THEN Pending(a, path).tag ELSE fields.tag
<1> DEFINE old == Pending(a, path)
           Merged(x, y) == IF y = Keep THEN x ELSE y
           both == [meta |-> Merged(old.meta, fields.meta), tag |-> Merged(old.tag, fields.tag)]
           b == QueueTagWrite(a, path, fields)
<1>1. CASE fields = [meta |-> Keep, tag |-> Keep]
  BY <1>1 DEF QueueTagWrite, SameEntry
<1>2. CASE fields # [meta |-> Keep, tag |-> Keep]
  <2>1. b = [a EXCEPT !.pendingTagWrites = Put(a.pendingTagWrites, path, both)]
    BY <1>2 DEF QueueTagWrite, Pending
  <2> HIDE DEF both, b
  <2>2. b.tracks = a.tracks /\ b.pendingTagWrites = Put(a.pendingTagWrites, path, both)
    BY <2>1 DEF Adapters
  <2>3. Pending(b, path) = both
    BY <2>2 DEF Pending, Put
  <2>4. \A p : p # path => SameEntry(a, p, b, p)
    BY <2>2 DEF Pending, Put, SameEntry
  <2>. QED BY <2>2, <2>3, <2>4 DEF both, b
<1>. QED BY <1>1, <1>2

\* updateTrack: the fields that change are to be written as well.
LEMMA UpdatedEntry ==
  ASSUME NEW a \in Adapters, NEW path \in DOMAIN a.tracks, NEW fields \in Fields
  PROVE  LET b == UpdateTrack(a, path, fields)
             track == a.tracks[path]
         IN /\ \A p \in DOMAIN a.tracks \ {path} : SameEntry(a, p, b, p)
            /\ b.tracks[path].song = track.song /\ b.tracks[path].managed = track.managed
            /\ b.tracks[path].meta = IF fields.meta = Keep THEN track.meta ELSE fields.meta
            /\ b.tracks[path].tag = IF fields.tag = Keep THEN track.tag ELSE fields.tag
            /\ Pending(b, path).meta =
                 IF fields.meta \in {Keep, track.meta} THEN Pending(a, path).meta ELSE fields.meta
            /\ Pending(b, path).tag =
                 IF fields.tag \in {Keep, track.tag} THEN Pending(a, path).tag ELSE fields.tag
<1> DEFINE track == a.tracks[path]
           Changed(new, old) == IF new = old THEN Keep ELSE new
           updated == [track EXCEPT !.meta = IF fields.meta = Keep THEN @ ELSE fields.meta,
                                    !.tag = IF fields.tag = Keep THEN @ ELSE fields.tag]
           write == [meta |-> Changed(fields.meta, track.meta),
                     tag |-> Changed(fields.tag, track.tag)]
           c == [a EXCEPT !.tracks[path] = updated]
           b == UpdateTrack(a, path, fields)
<1>1. DOMAIN a.tracks \subseteq Paths /\ a.tracks \in [DOMAIN a.tracks -> Tracks]
  BY MapFacts DEF Adapters
<1>2. track \in Tracks
  BY <1>1
<1>3. updated \in Tracks
  BY <1>2 DEF Fields, Tracks
<1>4. /\ updated.song = track.song /\ updated.managed = track.managed
      /\ updated.meta = IF fields.meta = Keep THEN track.meta ELSE fields.meta
      /\ updated.tag = IF fields.tag = Keep THEN track.tag ELSE fields.tag
  BY <1>2 DEF Tracks
<1>5. write \in Fields
  BY DEF Fields
<1>6. b = QueueTagWrite(c, path, write)
  BY DEF UpdateTrack
<1> HIDE DEF updated, b
<1>7. /\ c \in Adapters /\ c.pendingTagWrites = a.pendingTagWrites
      /\ c.tracks = [a.tracks EXCEPT ![path] = updated]
  <2>1. [a.tracks EXCEPT ![path] = updated] \in [DOMAIN a.tracks -> Tracks]
    BY <1>1, <1>3
  <2>2. [a.tracks EXCEPT ![path] = updated] \in Maps(Tracks)
    BY <1>1, <2>1, MapFacts
  <2>. QED BY <2>2 DEF Adapters
<1> HIDE DEF c
<1>8. /\ c.tracks[path] = updated
      /\ \A p \in DOMAIN a.tracks \ {path} : SameEntry(a, p, c, p)
      /\ Pending(c, path) = Pending(a, path)
  BY <1>7 DEF SameEntry, Pending
<1>9. /\ b.tracks = c.tracks
      /\ \A p : p # path => SameEntry(c, p, b, p)
      /\ Pending(b, path).meta =
           IF write.meta = Keep THEN Pending(c, path).meta ELSE write.meta
      /\ Pending(b, path).tag =
           IF write.tag = Keep THEN Pending(c, path).tag ELSE write.tag
  BY <1>5, <1>6, <1>7, QueuedWrite
<1>10. \A p \in DOMAIN a.tracks \ {path} : SameEntry(a, p, b, p)
  BY <1>8, <1>9 DEF SameEntry
<1>. QED BY <1>4, <1>8, <1>9, <1>10 DEF b

\* addTrack: a new entry, with the sync tag to be written.
LEMMA AddedEntry ==
  ASSUME NEW a \in Adapters, DOMAIN a.pendingTagWrites \subseteq DOMAIN a.tracks,
         NEW path \in Paths, path \notin DOMAIN a.tracks,
         NEW song \in Songs, NEW meta \in Versions
  PROVE  LET b == AddTrack(a, path, song, meta)
         IN /\ \A p \in DOMAIN a.tracks : SameEntry(a, p, b, p)
            /\ b.tracks[path] = [song |-> song, meta |-> meta, tag |-> "synced",
                                 managed |-> TRUE]
            /\ Pending(b, path).meta = Keep /\ Pending(b, path).tag = "synced"
<1> DEFINE new == [song |-> song, meta |-> meta, tag |-> "synced", managed |-> TRUE]
           write == [meta |-> Keep, tag |-> "synced"]
           tracks == Put(a.tracks, path, new)
           c == [a EXCEPT !.allocatedPaths = @ \cup {path},
                          !.managedFiles = @ \cup {path},
                          !.tracks = tracks]
           b == AddTrack(a, path, song, meta)
<1>1. new \in Tracks /\ write \in Fields /\ "synced" # Keep
  BY DEF Tracks, Fields, Tags, Keep
<1>2. tracks \in Maps(Tracks)
  BY <1>1, PutIsMap DEF Adapters
<1>3. b = QueueTagWrite(c, path, write)
  BY DEF AddTrack
<1>4. /\ tracks[path] = new
      /\ \A p \in DOMAIN a.tracks : tracks[p] = a.tracks[p]
  BY DEF Put
<1> HIDE DEF tracks, b, new
<1>5. c \in Adapters /\ c.tracks = tracks /\ c.pendingTagWrites = a.pendingTagWrites
  BY <1>2 DEF Adapters
<1> HIDE DEF c
<1>6. /\ \A p \in DOMAIN a.tracks : SameEntry(a, p, c, p)
      /\ Pending(c, path).meta = Keep
  BY <1>4, <1>5 DEF SameEntry, Pending
<1>7. /\ b.tracks = c.tracks
      /\ \A p : p # path => SameEntry(c, p, b, p)
      /\ Pending(b, path).meta =
           IF write.meta = Keep THEN Pending(c, path).meta ELSE write.meta
      /\ Pending(b, path).tag =
           IF write.tag = Keep THEN Pending(c, path).tag ELSE write.tag
  BY <1>1, <1>3, <1>5, QueuedWrite
<1>8. \A p \in DOMAIN a.tracks : SameEntry(a, p, b, p)
  BY <1>6, <1>7 DEF SameEntry
<1>. QED BY <1>1, <1>4, <1>5, <1>6, <1>7, <1>8 DEF b, new

\* copyTrackFile fails: addTrack has not happened.
LEMMA RolledBackEntries ==
  ASSUME NEW a \in Adapters, NEW path
  PROVE  \A p \in DOMAIN a.tracks \ {path} : SameEntry(a, p, RollBack(a, path), p)
<1>1. /\ RollBack(a, path).tracks = Without(a.tracks, path)
      /\ RollBack(a, path).pendingTagWrites = Without(a.pendingTagWrites, path)
  BY DEF RollBack, Adapters
<1>. QED BY <1>1 DEF SameEntry, Pending, Without

\* Covers are not on record for a path.
LEMMA SidecarsKeepEntries ==
  ASSUME NEW a \in Adapters, NEW dir, NEW b,
         b \in {WriteSidecar(a, dir), MaybeQueueSidecarDelete(a, dir)}
  PROVE  \A p : SameEntry(a, p, b, p)
<1>1. b.tracks = a.tracks /\ b.pendingTagWrites = a.pendingTagWrites
  BY DEF WriteSidecar, MaybeQueueSidecarDelete, Adapters
<1>. QED BY <1>1 DEF SameEntry, Pending

\* A track goes to another path, with all that is on record for it.
LEMMA MovedEntry ==
  ASSUME NEW a \in Adapters, DOMAIN a.pendingTagWrites \subseteq DOMAIN a.tracks,
         NEW old \in DOMAIN a.tracks, NEW new \in Paths \ DOMAIN a.tracks,
         NEW u \in {TrackMoves(a, old, new),
                    [TrackMoves(a, old, new) EXCEPT !.managedFiles = @ \cup {new}]}
  PROVE  LET b == RekeyPendingWrites(u, old, new)
         IN /\ \A p \in DOMAIN a.tracks \ {old} : SameEntry(a, p, b, p)
            /\ SameEntry(a, old, b, new)
<1> DEFINE tracks == Put(Without(a.tracks, old), new, a.tracks[old])
           t == TrackMoves(a, old, new)
           tags == [u EXCEPT !.pendingTagWrites = Rekey(u.pendingTagWrites, old, new)]
           b == RekeyPendingWrites(u, old, new)
<1>1. /\ t.tracks = tracks /\ t.pendingTagWrites = a.pendingTagWrites
      /\ DOMAIN t = DOMAIN a
  BY DEF TrackMoves, Adapters
<1> HIDE DEF t
<1>2. /\ u.tracks = tracks /\ u.pendingTagWrites = a.pendingTagWrites
      /\ DOMAIN u = DOMAIN a
  BY <1>1 DEF t, Adapters
<1>3. /\ \A p \in DOMAIN a.tracks \ {old} : tracks[p] = a.tracks[p]
      /\ tracks[new] = a.tracks[old]
  BY DEF Put, Without
<1>4. \/ b = tags
      \/ \E w, m : b = [tags EXCEPT !.pendingSidecarWrites = w, !.managedCovers = m]
  BY DEF RekeyPendingWrites
<1> HIDE DEF tracks, b
<1>5. /\ b.tracks = tracks
      /\ b.pendingTagWrites = Rekey(a.pendingTagWrites, old, new)
  BY <1>2, <1>4 DEF Adapters
<1>6. ASSUME NEW p \in DOMAIN a.tracks \ {old} PROVE SameEntry(a, p, b, p)
  BY <1>3, <1>5, <1>6 DEF SameEntry, Pending, Rekey, Put, Without
<1>7. SameEntry(a, old, b, new)
  BY <1>3, <1>5 DEF SameEntry, Pending, Rekey, Put, Without
<1>. QED BY <1>6, <1>7 DEF b

\* relocateTrack moves the entry of a path to another path, with what is pending.
LEMMA RelocatedEntry ==
  ASSUME NEW a \in Adapters, DOMAIN a.pendingTagWrites \subseteq DOMAIN a.tracks,
         a.allocatedPaths = DOMAIN a.tracks, IsFiniteSet(a.allocatedPaths),
         NEW old \in DOMAIN a.tracks, NEW home \in Paths
  PROVE  LET new == Deduplicate(home, a.allocatedPaths)
             b == RelocateTrack(a, old, home)
         IN /\ \A p \in DOMAIN a.tracks \ {old} : SameEntry(a, p, b, p)
            /\ SameEntry(a, old, b, new)
<1> DEFINE new == Deduplicate(home, a.allocatedPaths)
           u == TrackMoves(a, old, new)
           c == RekeyPendingWrites(u, old, new)
           d == [c EXCEPT !.pendingMoves = Append(@, [from |-> old, to |-> new])]
           b == RelocateTrack(a, old, home)
<1>1. b = d \/ b = MaybeQueueSidecarDelete(d, AlbumDir(old))
  BY DEF RelocateTrack
<1>2. new \in Paths \ DOMAIN a.tracks /\ old \in Paths
  BY DeduplicateIsPath, MapFacts DEF Adapters
<1> HIDE DEF new, b
<1>3. c \in Adapters
  <2>1. u \in {u, [u EXCEPT !.managedFiles = @ \cup {new}]}
    OBVIOUS
  <2>. QED BY <1>2, <2>1, MovedIsTyped
<1>4. /\ \A p \in DOMAIN a.tracks \ {old} : SameEntry(a, p, c, p)
      /\ SameEntry(a, old, c, new)
  <2>1. u \in {u, [u EXCEPT !.managedFiles = @ \cup {new}]}
    OBVIOUS
  <2>. QED BY <1>2, <2>1, MovedEntry
<1> HIDE DEF c
<1>5. d \in Adapters /\ \A p : SameEntry(c, p, d, p)
  <2>1. [from |-> old, to |-> new] \in Moves
    BY <1>2 DEF Moves
  <2>2. Append(c.pendingMoves, [from |-> old, to |-> new]) \in Seq(Moves)
    BY <1>3, <2>1 DEF Adapters
  <2>. QED BY <1>3, <2>2 DEF Adapters, SameEntry, Pending
<1> HIDE DEF d
<1>6. \A p : SameEntry(d, p, b, p)
  <2>1. CASE b = d
    BY <2>1 DEF SameEntry
  <2>2. CASE b = MaybeQueueSidecarDelete(d, AlbumDir(old))
    BY <1>5, <2>2, SidecarsKeepEntries
  <2>. QED BY <1>1, <2>1, <2>2
<1>. QED BY <1>4, <1>5, <1>6 DEF SameEntry, b, new

\* replaceTrackFile: the comment is to be written to the new file.
LEMMA ReplacedEntry ==
  ASSUME NEW a \in Adapters, DOMAIN a.pendingTagWrites \subseteq DOMAIN a.tracks,
         NEW old \in DOMAIN a.tracks, NEW new \in Paths,
         new = old \/ new \notin DOMAIN a.tracks
  PROVE  LET b == ReplaceTrackFile(a, old, new)
             comment == a.tracks[old].tag
         IN /\ \A p \in DOMAIN a.tracks \ {old} : p # new /\ SameEntry(a, p, b, p)
            /\ b.tracks[new] = a.tracks[old]
            /\ Pending(b, new).meta = Pending(a, old).meta
            /\ Pending(b, new).tag = IF comment = "none" THEN Pending(a, old).tag ELSE comment
<1> DEFINE u == [TrackMoves(a, old, new) EXCEPT !.managedFiles = @ \cup {new}]
           c == IF old = new THEN a ELSE RekeyPendingWrites(u, old, new)
           comment == a.tracks[old].tag
           write == [meta |-> Keep, tag |-> IF comment = "none" THEN Keep ELSE comment]
           b == ReplaceTrackFile(a, old, new)
<1>1. b = QueueTagWrite(c, new, write)
  BY DEF ReplaceTrackFile
<1>2. a.tracks[old] \in Tracks
  BY MapFacts DEF Adapters
<1>3. /\ write \in Fields
      /\ write.meta = Keep
      /\ write.tag = Keep <=> comment = "none"
  BY <1>2 DEF Fields, Tracks, Tags, Keep
<1> HIDE DEF b
<1>4. /\ c \in Adapters
      /\ \A p \in DOMAIN a.tracks \ {old} : SameEntry(a, p, c, p)
      /\ SameEntry(a, old, c, new)
  <2>1. CASE old = new
    BY <2>1 DEF SameEntry
  <2>2. CASE old # new
    <3>1. u \in {TrackMoves(a, old, new), u}
      OBVIOUS
    <3>. QED BY <2>2, <3>1, MovedIsTyped, MovedEntry
  <2>. QED BY <2>1, <2>2
<1> HIDE DEF c
<1>5. /\ b.tracks = c.tracks
      /\ \A p : p # new => SameEntry(c, p, b, p)
      /\ Pending(b, new).meta =
           IF write.meta = Keep THEN Pending(c, new).meta ELSE write.meta
      /\ Pending(b, new).tag =
           IF write.tag = Keep THEN Pending(c, new).tag ELSE write.tag
  BY <1>1, <1>3, <1>4, QueuedWrite
<1>6. \A p \in DOMAIN a.tracks \ {old} : p # new /\ SameEntry(a, p, b, p)
  BY <1>4, <1>5 DEF SameEntry
<1>. QED BY <1>3, <1>4, <1>5, <1>6 DEF SameEntry, b

-----------------------------------------------------------------------------
(* What each operation of a plan puts on record, and where.                *)

\* The place that an operation gives its track.
Target(op) ==
  CASE op.kind = "add" -> Deduplicate(op.path, ad.allocatedPaths)
    [] op.kind = "relocate" -> Deduplicate(Home(op.song, op.path.ext), ad.allocatedPaths)
    [] op.kind = "upgrade" -> UpgradeTarget(op)
    [] OTHER -> op.path

\* Nothing else on record changes: the entry of `old` (if it had one) is now the
\* entry of `new`, and podkit's own.
OnlyMoves(old, new) ==
  /\ new \in Paths /\ (new = old \/ new \notin DOMAIN ad.tracks)
  /\ DOMAIN ad'.tracks = (DOMAIN ad.tracks \ {old}) \cup {new}
  /\ \A p \in DOMAIN ad.tracks \ {old} : SameEntry(ad, p, ad', p)
  /\ ad'.managedFiles \subseteq ad.managedFiles \cup {new}

\* The metadata of `new` is that of the collection.
Brought(op, new) ==
  LET meta == source[op.song].meta
      track == ad.tracks[op.path]
  IN /\ ad'.tracks[new].song = track.song
     /\ ad'.tracks[new].managed = track.managed
     /\ ad'.tracks[new].meta = meta
     /\ Pending(ad', new).meta = IF meta = track.meta THEN Pending(ad, op.path).meta ELSE meta

\* updateTrack in place: the track's own entry changes, and nothing else.
LEMMA UpdateRecorded ==
  ASSUME TInv, IInv, NEW op \in plan, Update(op)
  PROVE  /\ Target(op) = op.path
         /\ OnlyMoves(op.path, op.path)
         /\ Brought(op, op.path)
         /\ ad'.tracks[op.path].tag = ad.tracks[op.path].tag
         /\ Pending(ad', op.path).tag = Pending(ad, op.path).tag
         /\ ad'.pendingMoves = ad.pendingMoves
<1> DEFINE meta == source[op.song].meta
           fields == [meta |-> meta, tag |-> Keep]
<1>1. op.kind = "update" /\ ad' = UpdateTrack(ad, op.path, fields)
  BY DEF Update, Doing, Refreshed
<1>2. /\ ad \in Adapters /\ op.path \in DOMAIN ad.tracks /\ fields \in Fields
      /\ op.path \in Paths /\ meta \in Versions /\ meta # Keep
  BY <1>1, OperationFacts, AdapterAssumption DEF AboutTrack, TInv, ProcessTyped
<1>3. SamePlaces(ad, ad') /\ ad'.managedFiles = ad.managedFiles
  BY UpdateEffect
<1>4. fields.meta = meta /\ fields.tag = Keep
  OBVIOUS
<1> HIDE DEF fields, meta
<1>5. /\ \A p \in DOMAIN ad.tracks \ {op.path} : SameEntry(ad, p, ad', p)
      /\ ad'.tracks[op.path].song = ad.tracks[op.path].song
      /\ ad'.tracks[op.path].managed = ad.tracks[op.path].managed
      /\ ad'.tracks[op.path].meta = meta
      /\ ad'.tracks[op.path].tag = ad.tracks[op.path].tag
      /\ Pending(ad', op.path).meta =
           IF meta = ad.tracks[op.path].meta THEN Pending(ad, op.path).meta ELSE meta
      /\ Pending(ad', op.path).tag = Pending(ad, op.path).tag
  BY <1>1, <1>2, <1>4, UpdatedEntry
<1>6. Target(op) = op.path
  BY <1>1 DEF Target
<1>7. OnlyMoves(op.path, op.path)
  BY <1>2, <1>3, <1>5 DEF OnlyMoves, SamePlaces
<1>8. Brought(op, op.path)
  BY <1>5 DEF Brought, meta
<1>. QED BY <1>3, <1>5, <1>6, <1>7, <1>8 DEF SamePlaces

\* A relocation moves the track's entry to its new place and queues the rename.
LEMMA RelocateRecorded ==
  ASSUME TInv, IInv, NEW op \in plan, Relocate(op)
  PROVE  LET new == Target(op)
         IN /\ new \notin DOMAIN ad.tracks /\ new.at = source[op.song].at
            /\ OnlyMoves(op.path, new)
            /\ Brought(op, new)
            /\ ad'.tracks[new].tag = ad.tracks[op.path].tag
            /\ Pending(ad', new).tag = Pending(ad, op.path).tag
            /\ ad'.pendingMoves = Append(ad.pendingMoves, [from |-> op.path, to |-> new])
<1> DEFINE home == Home(op.song, op.path.ext)
           new == Deduplicate(home, ad.allocatedPaths)
           moved == RelocateTrack(ad, op.path, home)
           meta == source[op.song].meta
           fields == [meta |-> meta, tag |-> Keep]
<1>1. op.kind = "relocate" /\ ad' = UpdateTrack(moved, new, fields)
  BY DEF Relocate, Doing, Refreshed
<1>2. /\ ad \in Adapters /\ op.path \in DOMAIN ad.tracks /\ fields \in Fields
      /\ ad.allocatedPaths = DOMAIN ad.tracks /\ IsFiniteSet(ad.allocatedPaths)
      /\ op.path \in ad.managedFiles /\ meta \in Versions /\ meta # Keep
      /\ DOMAIN ad.pendingTagWrites \subseteq DOMAIN ad.tracks
  BY <1>1, OperationFacts, AdapterAssumption
     DEF AboutTrack, TInv, ProcessTyped, IInv, Sound, Balanced
<1>3. home \in Paths /\ home.at = source[op.song].at
  <2>1. source[op.song].at \in Places /\ op.path \in Paths
    BY <1>1, OperationFacts
  <2>2. op.path.ext \in Exts
    BY <2>1 DEF Paths
  <2>. QED BY <2>1, <2>2, HomeIsPath DEF Home
<1>4. fields.meta = meta /\ fields.tag = Keep
  OBVIOUS
<1>5. Target(op) = new
  BY <1>1 DEF Target
<1> HIDE DEF home, fields, meta
<1>6. new \in Paths /\ new \notin DOMAIN ad.tracks /\ new.at = source[op.song].at
  BY <1>2, <1>3, DeduplicateIsPath
<1>7. /\ moved \in Adapters
      /\ DOMAIN moved.tracks = (DOMAIN ad.tracks \ {op.path}) \cup {new}
      /\ moved.pendingMoves = Append(ad.pendingMoves, [from |-> op.path, to |-> new])
  BY <1>2, <1>3, RelocateIsTyped
<1>8. moved.managedFiles = (ad.managedFiles \ {op.path}) \cup {new}
  BY <1>2, ManagedFollows
<1>9. /\ \A p \in DOMAIN ad.tracks \ {op.path} : SameEntry(ad, p, moved, p)
      /\ SameEntry(ad, op.path, moved, new)
  BY <1>2, <1>3, RelocatedEntry
<1> HIDE DEF moved, new
<1>10. ad' \in Adapters /\ SamePlaces(moved, ad') /\ ad'.managedFiles = moved.managedFiles
  BY <1>1, <1>2, <1>7, UpdateTrackIsTyped, UpdateKeepsManaged
<1>11. /\ \A p \in DOMAIN moved.tracks \ {new} : SameEntry(moved, p, ad', p)
       /\ ad'.tracks[new].song = moved.tracks[new].song
       /\ ad'.tracks[new].managed = moved.tracks[new].managed
       /\ ad'.tracks[new].meta = meta
       /\ ad'.tracks[new].tag = moved.tracks[new].tag
       /\ Pending(ad', new).meta =
            IF meta = moved.tracks[new].meta THEN Pending(moved, new).meta ELSE meta
       /\ Pending(ad', new).tag = Pending(moved, new).tag
  BY <1>1, <1>2, <1>4, <1>7, UpdatedEntry
<1>12. OnlyMoves(op.path, new)
  <2>1. \A p \in DOMAIN ad.tracks \ {op.path} : SameEntry(ad, p, ad', p)
    BY <1>6, <1>7, <1>9, <1>11 DEF SameEntry
  <2>. QED BY <1>6, <1>7, <1>8, <1>10, <2>1 DEF OnlyMoves, SamePlaces
<1>13. Brought(op, new)
  BY <1>9, <1>11 DEF Brought, SameEntry, meta
<1>. QED BY <1>5, <1>6, <1>7, <1>9, <1>10, <1>11, <1>12, <1>13 DEF SamePlaces, SameEntry

\* An add makes one new entry, of a track that podkit manages.
LEMMA AddRecorded ==
  ASSUME TInv, IInv, NEW op \in plan, Add(op)
  PROVE  LET new == Target(op)
         IN /\ new \notin DOMAIN ad.tracks /\ new.at = op.path.at
            /\ OnlyMoves(new, new)
            /\ ad'.tracks[new] = [song |-> op.song, meta |-> source[op.song].meta,
                                  tag |-> "synced", managed |-> TRUE]
            /\ Pending(ad', new).meta = Keep /\ Pending(ad', new).tag = "synced"
            /\ ad'.pendingMoves = ad.pendingMoves
            /\ disk' = Put(disk, new, Copy(op.song, source[op.song].meta))
<1> DEFINE new == Deduplicate(op.path, ad.allocatedPaths)
           meta == source[op.song].meta
           added == AddTrack(ad, new, op.song, meta)
<1>1. /\ op.kind = "add" /\ disk' = Put(disk, new, Copy(op.song, meta))
      /\ ad' = WriteSidecar(added, AlbumDir(new))
  BY DEF Add, Doing
<1>2. /\ ad \in Adapters /\ op.path \in Paths
      /\ ad.allocatedPaths = DOMAIN ad.tracks /\ IsFiniteSet(ad.allocatedPaths)
      /\ op.song \in Songs /\ meta \in Versions
      /\ DOMAIN ad.pendingTagWrites \subseteq DOMAIN ad.tracks
  BY <1>1, OperationFacts DEF TInv, ProcessTyped, IInv, Sound, Balanced
<1>3. new \in Paths /\ new \notin DOMAIN ad.tracks /\ new.at = op.path.at
  BY <1>2, DeduplicateIsPath
<1>4. Target(op) = new
  BY <1>1 DEF Target
<1> HIDE DEF new, meta
<1>5. /\ added \in Adapters /\ DOMAIN added.tracks = DOMAIN ad.tracks \cup {new}
      /\ added.pendingMoves = ad.pendingMoves
      /\ added.managedFiles = ad.managedFiles \cup {new}
  BY <1>2, <1>3, AddTrackIsTyped, AddedIsManaged
<1>6. /\ \A p \in DOMAIN ad.tracks : SameEntry(ad, p, added, p)
      /\ added.tracks[new] = [song |-> op.song, meta |-> meta, tag |-> "synced",
                              managed |-> TRUE]
      /\ Pending(added, new).meta = Keep /\ Pending(added, new).tag = "synced"
  BY <1>2, <1>3, AddedEntry
<1> HIDE DEF added
<1>7. /\ ad'.tracks = added.tracks
      /\ ad'.pendingMoves = added.pendingMoves
      /\ ad'.managedFiles = added.managedFiles
      /\ \A p : SameEntry(added, p, ad', p)
  <2>1. AlbumDir(new) \in Dirs
    BY <1>3, DirOfPath
  <2>2. ad'.managedFiles = added.managedFiles
    BY <1>1, <1>5, WritesKeepManaged DEF Adapters
  <2>3. \A p : SameEntry(added, p, ad', p)
    BY <1>1, <1>5, SidecarsKeepEntries
  <2>. QED BY <1>1, <1>5, <2>1, <2>2, <2>3, SidecarsAreTyped
<1>8. OnlyMoves(new, new)
  <2>1. \A p \in DOMAIN ad.tracks : SameEntry(ad, p, ad', p)
    BY <1>6, <1>7 DEF SameEntry
  <2>. QED BY <1>3, <1>5, <1>7, <2>1 DEF OnlyMoves
<1>9. /\ ad'.tracks[new] = added.tracks[new]
      /\ Pending(ad', new).meta = Keep /\ Pending(ad', new).tag = "synced"
  BY <1>6, <1>7 DEF SameEntry
<1>. QED BY <1>1, <1>3, <1>4, <1>5, <1>6, <1>7, <1>8, <1>9 DEF meta

\* A copy that fails leaves no record.
LEMMA AddFailsRecorded ==
  ASSUME TInv, IInv, NEW op \in plan, AddFails(op)
  PROVE  /\ DOMAIN ad'.tracks = DOMAIN ad.tracks
         /\ \A p \in DOMAIN ad.tracks : SameEntry(ad, p, ad', p)
         /\ ad'.managedFiles \subseteq ad.managedFiles
         /\ ad'.pendingMoves = ad.pendingMoves
<1> DEFINE new == Deduplicate(op.path, ad.allocatedPaths)
           meta == source[op.song].meta
           added == AddTrack(ad, new, op.song, meta)
<1>1. op.kind = "add" /\ ad' = RollBack(added, new)
  BY DEF AddFails
<1>2. /\ ad \in Adapters /\ op.path \in Paths
      /\ ad.allocatedPaths = DOMAIN ad.tracks /\ IsFiniteSet(ad.allocatedPaths)
      /\ op.song \in Songs /\ meta \in Versions
      /\ DOMAIN ad.pendingTagWrites \subseteq DOMAIN ad.tracks
  BY <1>1, OperationFacts DEF TInv, ProcessTyped, IInv, Sound, Balanced
<1>3. new \in Paths /\ new \notin DOMAIN ad.tracks
  BY <1>2, DeduplicateIsPath
<1> HIDE DEF new, meta
<1>4. /\ added \in Adapters /\ DOMAIN added.tracks = DOMAIN ad.tracks \cup {new}
      /\ added.managedFiles = ad.managedFiles \cup {new}
      /\ \A p \in DOMAIN ad.tracks : SameEntry(ad, p, added, p)
  <2>1. \A p \in DOMAIN ad.tracks : SameEntry(ad, p, added, p)
    BY <1>2, <1>3, AddedEntry
  <2>. QED BY <1>2, <1>3, <2>1, AddTrackIsTyped, AddedIsManaged
<1> HIDE DEF added
<1>5. /\ ad'.managedFiles = added.managedFiles \ {new}
      /\ \A p \in DOMAIN added.tracks \ {new} : SameEntry(added, p, ad', p)
  BY <1>1, <1>4, AddedIsManaged, RolledBackEntries
<1>6. \A p \in DOMAIN ad.tracks : SameEntry(ad, p, ad', p)
  BY <1>3, <1>4, <1>5 DEF SameEntry
<1>. QED BY <1>4, <1>5, <1>6, AddFailsEffect DEF SamePlaces

\* An upgrade moves the track's entry to the new file's path, tagged as synced.
LEMMA UpgradeRecorded ==
  ASSUME TInv, IInv, NEW op \in plan, Upgrade(op) \/ UpgradeLeavesOld(op)
  PROVE  LET new == Target(op)
         IN /\ new = op.path \/ new \notin DOMAIN ad.tracks \cup DOMAIN disk
            /\ new.at = op.path.at
            /\ OnlyMoves(op.path, new)
            /\ Brought(op, new)
            /\ ad'.tracks[new].tag = "synced"
            /\ Pending(ad', new).tag = "synced"
            /\ ad'.pendingMoves = ad.pendingMoves
            /\ \E files \in {disk, Without(disk, op.path)} :
                 disk' = Put(files, new, Copy(op.song, source[op.song].meta))
<1> DEFINE new == UpgradeTarget(op)
           moved == ReplaceTrackFile(ad, op.path, new)
           meta == source[op.song].meta
           fields == [meta |-> meta, tag |-> "synced"]
           updated == UpdateTrack(moved, new, fields)
<1>1. op.kind = "upgrade" /\ ad' = WriteSidecar(updated, AlbumDir(new))
  BY DEF Upgrade, UpgradeLeavesOld, Doing, Upgraded, Refreshed
<1>2. /\ ad \in Adapters /\ disk \in Maps(Files)
      /\ op.path \in DOMAIN ad.tracks /\ fields \in Fields
      /\ op.path \in ad.managedFiles /\ meta \in Versions /\ meta # Keep
      /\ DOMAIN ad.pendingTagWrites \subseteq DOMAIN ad.tracks
      /\ ad.allocatedPaths = DOMAIN ad.tracks
      /\ ad.tracks[op.path] \in Tracks
  <2>1. ad \in Adapters /\ op.path \in DOMAIN ad.tracks
    BY <1>1, OperationFacts DEF AboutTrack, TInv, ProcessTyped
  <2>2. ad.tracks[op.path] \in Tracks
    BY <2>1, MapFacts DEF Adapters
  <2>. QED BY <1>1, <2>1, <2>2, OperationFacts, AdapterAssumption
           DEF AboutTrack, TInv, DeviceTyped, IInv, Sound, Balanced
<1>3. /\ new \in Paths /\ new.at = op.path.at
      /\ new = op.path \/ new \notin DOMAIN ad.tracks \cup DOMAIN disk
  BY <1>1, <1>2, ReplacedIsTyped
<1>4. \E files \in {disk, Without(disk, op.path)} : disk' = Put(files, new, Copy(op.song, meta))
  BY DEF Upgrade, UpgradeLeavesOld, Replaced
<1>5. Target(op) = new
  BY <1>1 DEF Target
<1>6. fields.meta = meta /\ fields.tag = "synced" /\ "synced" # Keep
  BY DEF Keep
<1> HIDE DEF new, fields, meta
<1>7. /\ moved \in Adapters
      /\ DOMAIN moved.tracks = (DOMAIN ad.tracks \ {op.path}) \cup {new}
      /\ moved.managedFiles = (ad.managedFiles \ {op.path}) \cup {new}
  <2>1. moved.managedFiles = (ad.managedFiles \ {op.path}) \cup {new}
    BY <1>2, ManagedFollows
  <2>. QED BY <1>2, <1>3, <2>1, ReplaceIsTyped
<1>8. /\ \A p \in DOMAIN ad.tracks \ {op.path} : p # new /\ SameEntry(ad, p, moved, p)
      /\ moved.tracks[new] = ad.tracks[op.path]
      /\ Pending(moved, new).meta = Pending(ad, op.path).meta
      /\ Pending(moved, new).tag =
           IF ad.tracks[op.path].tag = "none" THEN Pending(ad, op.path).tag
           ELSE ad.tracks[op.path].tag
  BY <1>2, <1>3, ReplacedEntry
<1> HIDE DEF moved
<1>9. /\ updated \in Adapters /\ SamePlaces(moved, updated)
      /\ updated.managedFiles = moved.managedFiles
  <2>1. new \in DOMAIN moved.tracks
    BY <1>7
  <2>. QED BY <1>2, <1>7, <2>1, UpdateTrackIsTyped, UpdateKeepsManaged
<1>10. /\ \A p \in DOMAIN moved.tracks \ {new} : SameEntry(moved, p, updated, p)
       /\ updated.tracks[new].song = moved.tracks[new].song
       /\ updated.tracks[new].managed = moved.tracks[new].managed
       /\ updated.tracks[new].meta = meta
       /\ updated.tracks[new].tag = "synced"
       /\ Pending(updated, new).meta =
            IF meta = moved.tracks[new].meta THEN Pending(moved, new).meta ELSE meta
       /\ Pending(updated, new).tag =
            IF "synced" = moved.tracks[new].tag THEN Pending(moved, new).tag ELSE "synced"
  <2>1. new \in DOMAIN moved.tracks
    BY <1>7
  <2> HIDE DEF updated
  <2>2. /\ \A p \in DOMAIN moved.tracks \ {new} : SameEntry(moved, p, updated, p)
        /\ updated.tracks[new].song = moved.tracks[new].song
        /\ updated.tracks[new].managed = moved.tracks[new].managed
        /\ updated.tracks[new].meta =
             IF fields.meta = Keep THEN moved.tracks[new].meta ELSE fields.meta
        /\ updated.tracks[new].tag =
             IF fields.tag = Keep THEN moved.tracks[new].tag ELSE fields.tag
        /\ Pending(updated, new).meta =
             IF fields.meta \in {Keep, moved.tracks[new].meta}
             THEN Pending(moved, new).meta ELSE fields.meta
        /\ Pending(updated, new).tag =
             IF fields.tag \in {Keep, moved.tracks[new].tag}
             THEN Pending(moved, new).tag ELSE fields.tag
    BY <1>2, <1>7, <2>1, UpdatedEntry DEF updated
  <2>. QED BY <1>2, <1>6, <2>2
<1>11. Pending(updated, new).tag = "synced"
  BY <1>8, <1>10
<1> HIDE DEF updated
<1>12. /\ ad'.tracks = updated.tracks
       /\ ad'.managedFiles = updated.managedFiles
       /\ \A p : SameEntry(updated, p, ad', p)
  <2>1. AlbumDir(new) \in Dirs
    BY <1>3, DirOfPath
  <2>2. ad'.managedFiles = updated.managedFiles
    BY <1>1, <1>9, WritesKeepManaged DEF Adapters
  <2>3. \A p : SameEntry(updated, p, ad', p)
    BY <1>1, <1>9, SidecarsKeepEntries
  <2>. QED BY <1>1, <1>9, <2>1, <2>2, <2>3, SidecarsAreTyped
<1>13. OnlyMoves(op.path, new)
  <2>1. \A p \in DOMAIN ad.tracks \ {op.path} : SameEntry(ad, p, ad', p)
    BY <1>7, <1>8, <1>10, <1>12 DEF SameEntry
  <2>. QED BY <1>3, <1>7, <1>9, <1>12, <2>1 DEF OnlyMoves, SamePlaces
<1>14. /\ Brought(op, new)
       /\ ad'.tracks[new].tag = "synced" /\ Pending(ad', new).tag = "synced"
  BY <1>8, <1>10, <1>11, <1>12 DEF Brought, SameEntry, meta
<1>. QED BY <1>3, <1>4, <1>5, <1>13, <1>14, UpgradeEffect DEF meta

\* A save, its failures, an interrupt and the end of the plan: the tracks stay
\* what they are on record, and pending writes are dropped all at once.
LEMMA SavingRecorded ==
  ASSUME TInv, Running', Save \/ SaveFails \/ FinalSave \/ Interrupt
  PROVE  /\ Running /\ ad'.tracks = ad.tracks /\ ad'.managedFiles = ad.managedFiles
         /\ ad'.pendingMoves \in {ad.pendingMoves, <<>>}
         /\ DOMAIN ad'.pendingTagWrites \subseteq DOMAIN ad.pendingTagWrites
<1>1. phase' # "closed" /\ ad \in Adapters
  BY DEF Running, Saving, TInv, ProcessTyped
<1>2. Running
  BY DEF Save, FlushMove, FlushMovesEnd, FlushTags, FlushSidecarWrites, FlushSidecarDeletes,
         WriteManifest, Stage, SaveFails, FlushMoveFails, FlushTagsFails,
         FlushSidecarWritesFails, FlushSidecarDeletesFails, WriteManifestFails,
         FinalSave, Interrupt, Running, Saving
<1>3. \E dirs : ad' \in {ad, [ad EXCEPT !.pendingMoves = <<>>],
                         [ad EXCEPT !.pendingTagWrites = NoEntries],
                         [ad EXCEPT !.pendingSidecarWrites = {}],
                         [ad EXCEPT !.pendingSidecarDeletes = {}, !.managedCovers = @ \ dirs]}
  <2>1. CASE Save
    <3>1. FlushTags => ad' = [ad EXCEPT !.pendingTagWrites = NoEntries]
      BY <1>1 DEF FlushTags, SaveThrows
    <3>2. WriteManifest => ad' = ad
      BY <1>1 DEF WriteManifest
    <3>. QED BY <2>1, <3>1, <3>2
             DEF Save, FlushMove, FlushMovesEnd, FlushSidecarWrites, FlushSidecarDeletes
  <2>2. CASE SaveFails
    <3>1. ~final
      BY <1>1, <2>2 DEF SaveFails, FlushMoveFails, FlushTagsFails, FlushSidecarWritesFails,
                        FlushSidecarDeletesFails, WriteManifestFails, SaveThrows
    <3>. QED BY <2>2, <3>1 DEF SaveFails, FlushMoveFails, FlushTagsFails,
                FlushSidecarWritesFails, FlushSidecarDeletesFails, WriteManifestFails
  <2>3. CASE FinalSave \/ Interrupt
    BY <1>1, <2>3 DEF FinalSave, Interrupt
  <2>. QED BY <2>1, <2>2, <2>3
<1>4. /\ ad'.tracks = ad.tracks /\ ad'.managedFiles = ad.managedFiles
      /\ ad'.pendingMoves \in {ad.pendingMoves, <<>>}
      /\ ad'.pendingTagWrites \in {ad.pendingTagWrites, NoEntries}
  BY <1>1, <1>3 DEF Adapters
<1>. QED BY <1>2, <1>4 DEF NoEntries

-----------------------------------------------------------------------------
(* What a step may do to the files.                                        *)

\* An add or an upgrade has put its file in place, or a kill has caught it
\* just then.
Copies(op) ==
  /\ op.kind \in {"add", "upgrade"}
  /\ \E new \in Paths, files \in {disk, Without(disk, op.path)} :
       /\ new.at = op.path.at
       /\ new \notin DOMAIN ad.tracks \/ (op.kind = "upgrade" /\ new = op.path)
       /\ (files = disk \/ op.kind = "upgrade")
       /\ disk' = Put(files, new, Copy(op.song, source[op.song].meta))

FileStep ==
  \/ disk' = disk
  \/ \E written \in SUBSET DOMAIN ad.pendingTagWrites : disk' = Tagged(written)
  \/ FlushMove
  \/ \E op \in plan : Remove(op)
  \/ \E op \in plan : Copies(op)

\* Files change in no other way than these.
LEMMA EveryFileStep ==
  ASSUME TInv, IInv, [Next]_vars
  PROVE  disk' = disk \/ (Running /\ FileStep)
<1>1. ASSUME NEW op \in plan, Execute(op) \/ UpgradeLeavesOld(op) \/ AddFails(op)
      PROVE  disk' = disk \/ (Running /\ FileStep)
  <2>1. phase = "executing"
    BY <1>1 DEF Execute, Remove, Update, Relocate, Add, Upgrade, UpgradeLeavesOld, AddFails, Doing
  <2>2. CASE Remove(op)
    BY <2>1, <2>2 DEF FileStep, Running
  <2>3. CASE Update(op) \/ Relocate(op) \/ AddFails(op)
    BY <2>3 DEF Update, Relocate, AddFails, device
  <2>4. CASE Add(op)
    <3> DEFINE new == Target(op)
    <3>1. /\ new \in Paths /\ new.at = op.path.at /\ new \notin DOMAIN ad.tracks
          /\ disk' = Put(disk, new, Copy(op.song, source[op.song].meta))
      BY <2>4, AddRecorded DEF OnlyMoves
    <3>2. op.kind = "add"
      BY <2>4 DEF Add, Doing
    <3> HIDE DEF new
    <3>. QED BY <2>1, <3>1, <3>2 DEF Copies, FileStep, Running
  <2>5. CASE Upgrade(op) \/ UpgradeLeavesOld(op)
    <3> DEFINE new == Target(op)
    <3>1. /\ new \in Paths /\ new.at = op.path.at
          /\ new = op.path \/ new \notin DOMAIN ad.tracks
          /\ \E files \in {disk, Without(disk, op.path)} :
               disk' = Put(files, new, Copy(op.song, source[op.song].meta))
      BY <2>5, UpgradeRecorded DEF OnlyMoves
    <3>2. op.kind = "upgrade"
      BY <2>5 DEF Upgrade, UpgradeLeavesOld, Doing
    <3> HIDE DEF new
    <3>. QED BY <2>1, <3>1, <3>2 DEF Copies, FileStep, Running
  <2>. QED BY <1>1, <2>2, <2>3, <2>4, <2>5 DEF Execute
<1>2. CASE Crash
  <2>1. Running /\ disk' \in TornFiles
    BY <1>2 DEF Crash, Running
  <2>2. CASE \E op \in plan : op.kind = "upgrade" /\ disk' = Replaced(op, disk)
    <3>1. PICK op \in plan : op.kind = "upgrade" /\ disk' = Replaced(op, disk)
      BY <2>2
    <3> DEFINE new == UpgradeTarget(op)
    <3>2. /\ new \in Paths /\ new.at = op.path.at
          /\ new = op.path \/ new \notin DOMAIN ad.tracks
      BY <3>1, ReplacedIsTyped, OperationFacts DEF TInv, DeviceTyped
    <3>3. disk' = Put(disk, new, Copy(op.song, source[op.song].meta))
      BY <3>1 DEF Replaced
    <3> HIDE DEF new
    <3>. QED BY <2>1, <3>1, <3>2, <3>3 DEF Copies, FileStep
  <2>. QED BY <2>1, <2>2 DEF TornFiles, FileStep
<1>3. CASE Save \/ SaveFails
  <2>1. disk' = disk \/ FlushMove \/ FlushTags \/ FlushTagsFails
    BY <1>3 DEF Save, SaveFails, FlushMovesEnd, FlushSidecarWrites, FlushSidecarDeletes,
                WriteManifest, FlushMoveFails, FlushSidecarWritesFails,
                FlushSidecarDeletesFails, WriteManifestFails, device
  <2>2. FlushTags \/ FlushTagsFails =>
          \E written \in SUBSET DOMAIN ad.pendingTagWrites : disk' = Tagged(written)
    BY DEF FlushTags, FlushTagsFails
  <2>3. FlushMove \/ FlushTags \/ FlushTagsFails => Running
    BY DEF FlushMove, FlushTags, FlushTagsFails, Running, Saving
  <2>. QED BY <2>1, <2>2, <2>3 DEF FileStep
<1>4. CASE Open \/ Settle \/ Refuse \/ Start \/ FinalSave \/ Interrupt \/ Change \/ UNCHANGED vars
  BY <1>4 DEF Open, Settle, Refuse, Start, FinalSave, Interrupt, Change, device, vars
<1>. QED BY <1>1, <1>2, <1>3, <1>4 DEF Next, Run, Trouble

-----------------------------------------------------------------------------
(* The user's files.                                                       *)

Users == {p \in DOMAIN disk : ~disk[p].mine}

\* A sync has a file of the user's on record as such, and plans nothing for it.
Aside(p) ==
  /\ p \in DOMAIN ad.tracks /\ ~ad.tracks[p].managed /\ ad.tracks[p].song = UserTags
  /\ p \notin ad.managedFiles /\ p \notin DOMAIN ad.pendingTagWrites
  /\ \A i \in 1..Len(ad.pendingMoves) :
       ad.pendingMoves[i].from # p /\ ad.pendingMoves[i].to # p

FInv ==
  /\ \A p \in DOMAIN disk : disk[p].song \in (IF disk[p].mine THEN Songs ELSE {UserTags})
  /\ Users \cap manifest.files = {}
  /\ \A op \in plan : op.kind = "remove" => Delete /\ op.song \in Songs
  /\ Running => \A p \in Users : Aside(p)

\* Every file after a step is one of before, perhaps with other tags or at another
\* path, or a copy of a song. The user's files are none of those.
LEMMA FilesComeFrom ==
  ASSUME FInv, TInv, IInv, [Next]_vars, NEW p \in DOMAIN disk'
  PROVE  \/ (p \in DOMAIN disk /\ disk'[p].mine = disk[p].mine /\ disk'[p].song = disk[p].song)
         \/ disk'[p].mine /\ disk'[p].song \in Songs
<1>1. CASE disk' = disk
  BY <1>1
<1>2. CASE Running /\ FileStep
  <2>1. ASSUME NEW written, disk' = Tagged(written)
        PROVE  p \in DOMAIN disk /\ disk'[p].mine = disk[p].mine /\ disk'[p].song = disk[p].song
    BY <2>1, TagsKeepOwner
  <2>2. CASE FlushMove
    <3> DEFINE move == ad.pendingMoves[nextMove]
    <3>1. /\ disk' = Renamed(disk, move) /\ nextMove \in 1..Len(ad.pendingMoves)
      BY <2>2, FlushMoveEffect DEF FlushMove
    <3>2. move.from \in DOMAIN disk => disk[move.from].mine
      BY <1>2, <3>1 DEF FInv, Aside, Users
    <3>3. \/ p \in DOMAIN disk /\ disk'[p] = disk[p]
          \/ move.from \in DOMAIN disk /\ disk'[p] = disk[move.from]
      BY <3>1 DEF Renamed, Rekey, Put, Without
    <3>. QED BY <3>2, <3>3 DEF FInv
  <2>3. CASE \E op \in plan : Remove(op)
    BY <2>3 DEF Remove, Without
  <2>4. ASSUME NEW op \in plan, Copies(op)
        PROVE  \/ p \in DOMAIN disk /\ disk'[p] = disk[p]
               \/ disk'[p].mine /\ disk'[p].song \in Songs
    <3>1. PICK new \in Paths, files \in {disk, Without(disk, op.path)} :
            disk' = Put(files, new, Copy(op.song, source[op.song].meta))
      BY <2>4 DEF Copies
    <3>2. op.song \in Songs
      BY <2>4, OperationFacts DEF Copies
    <3>. QED BY <3>1, <3>2 DEF Put, Without, Copy
  <2>. QED BY <1>2, <2>1, <2>2, <2>3, <2>4 DEF FileStep
<1>. QED BY <1>1, <1>2, EveryFileStep

\* Removals look for a song by its tags. If none of the user's files has the tags
\* of a song that podkit may remove, no step touches one.
LEMMA UsersStay ==
  ASSUME FInv, TInv, IInv, [Next]_vars, Delete => UserTags \notin Songs, NEW p \in Users
  PROVE  p \in DOMAIN disk' /\ disk'[p] = disk[p]
<1>1. p \in DOMAIN disk /\ ~disk[p].mine
  BY DEF Users
<1>2. CASE disk' = disk
  BY <1>1, <1>2
<1>3. CASE Running /\ FileStep
  <2>1. Aside(p)
    BY <1>3 DEF FInv
  <2>2. ASSUME NEW written \in SUBSET DOMAIN ad.pendingTagWrites, disk' = Tagged(written)
        PROVE  p \in DOMAIN disk' /\ disk'[p] = disk[p]
    BY <1>1, <2>1, <2>2 DEF Tagged, Aside
  <2>3. CASE FlushMove
    <3> DEFINE move == ad.pendingMoves[nextMove]
    <3>1. /\ disk' = Renamed(disk, move) /\ nextMove \in 1..Len(ad.pendingMoves)
      BY <2>3, FlushMoveEffect DEF FlushMove
    <3>2. move.from # p /\ move.to # p
      BY <2>1, <3>1 DEF Aside
    <3>. QED BY <1>1, <3>1, <3>2 DEF Renamed, Rekey, Put, Without
  <2>4. ASSUME NEW op \in plan, Remove(op)
        PROVE  p \in DOMAIN disk' /\ disk'[p] = disk[p]
    <3>1. op.kind = "remove"
      BY <2>4 DEF Remove, Doing
    <3>2. op.song # UserTags
      BY <3>1 DEF FInv
    <3>3. PICK q \in DOMAIN ad.tracks : ad.tracks[q].song = op.song /\ disk' = Without(disk, q)
      BY <2>4 DEF Remove
    <3>. QED BY <1>1, <2>1, <3>2, <3>3 DEF Aside, Without
  <2>5. ASSUME NEW op \in plan, Copies(op)
        PROVE  p \in DOMAIN disk' /\ disk'[p] = disk[p]
    <3>1. PICK new \in Paths, files \in {disk, Without(disk, op.path)} :
            /\ new \notin DOMAIN ad.tracks \/ (op.kind = "upgrade" /\ new = op.path)
            /\ files = disk \/ op.kind = "upgrade"
            /\ disk' = Put(files, new, Copy(op.song, source[op.song].meta))
      BY <2>5 DEF Copies
    <3>2. op.kind = "upgrade" => op.path # p
      BY <2>1, OperationFacts DEF Aside, AboutTrack
    <3>3. new # p
      BY <2>1, <3>1, <3>2 DEF Aside
    <3>4. p \in DOMAIN files /\ files[p] = disk[p]
      BY <1>1, <3>1, <3>2 DEF Without
    <3>5. disk'[p] = files[p] /\ p \in DOMAIN disk'
      BY <3>1, <3>3, <3>4 DEF Put
    <3>. QED BY <3>4, <3>5
  <2>. QED BY <1>2, <1>3, <2>2, <2>3, <2>4, <2>5 DEF FileStep
<1>. QED BY <1>2, <1>3, EveryFileStep

\* Planning takes the user's files for what they are: a removal is of a track that
\* the manifest lists.
LEMMA StartKeepsAside ==
  ASSUME FInv, TInv, OpenIsFresh, Start
  PROVE  /\ \A p \in Users : Aside(p)'
         /\ \A op \in plan' : op.kind = "remove" => Delete /\ op.song \in Songs
<1>1. ad = OpenedAdapter(disk, manifest) /\ ad' = ad
  BY DEF Start, OpenIsFresh
<1>2. /\ DOMAIN ad.tracks = DOMAIN disk /\ ad.managedFiles = manifest.files
      /\ DOMAIN ad.pendingTagWrites = {} /\ ad.pendingMoves = <<>>
      /\ \A p \in DOMAIN disk : /\ ad.tracks[p].song = disk[p].song
                                /\ ad.tracks[p].managed <=> p \in manifest.files
  BY <1>1 DEF OpenedAdapter, ClosedAdapter, NoEntries
<1>3. ASSUME NEW p \in Users PROVE Aside(p)'
  <2>1. p \in DOMAIN disk /\ p \notin manifest.files /\ disk[p].song = UserTags
    BY DEF Users, FInv
  <2>. QED BY <1>1, <1>2, <2>1 DEF Aside
<1>4. ASSUME NEW op \in plan', op.kind = "remove" PROVE Delete /\ op.song \in Songs
  <2>1. PICK kept \in Matchings : plan' = Operations(kept)
    BY DEF Start
  <2>2. op \in Removals(kept)
    BY <1>4, <2>1 DEF Operations, Additions, ChangesOf, OperationFor
  <2>3. PICK p \in DeviceItems : Delete /\ op.song = ad.tracks[p].song
    BY <2>2 DEF Removals
  <2>4. p \in DOMAIN disk /\ p \in manifest.files
    BY <1>2 DEF DeviceItems
  <2>5. disk[p].mine
    BY <2>4 DEF FInv, Users
  <2>. QED BY <1>2, <2>3, <2>4, <2>5 DEF FInv
<1>. QED BY <1>3, <1>4

\* Operations are about podkit's own tracks and about paths that nothing has.
LEMMA DoingKeepsAside ==
  ASSUME TInv, IInv, NEW op \in plan, Execute(op) \/ UpgradeLeavesOld(op) \/ AddFails(op),
         NEW p, Aside(p)
  PROVE  Aside(p)'
<1>1. AboutTrack(op) => op.path # p
  BY OperationFacts DEF Aside
<1>2. ad \in Adapters /\ p \in DOMAIN ad.tracks
  BY DEF TInv, ProcessTyped, Aside
<1>3. CASE Remove(op)
  BY <1>3, RemoveEffect DEF Aside
<1>4. ASSUME NEW old, NEW new, OnlyMoves(old, new), old # p, new # p,
             ad'.pendingMoves \in {ad.pendingMoves,
                                   Append(ad.pendingMoves, [from |-> old, to |-> new])}
      PROVE  Aside(p)'
  <2>1. p \in DOMAIN ad'.tracks /\ SameEntry(ad, p, ad', p) /\ p \notin ad'.managedFiles
    BY <1>2, <1>4 DEF OnlyMoves, Aside
  <2>2. \A i \in 1..Len(ad'.pendingMoves) :
          ad'.pendingMoves[i].from # p /\ ad'.pendingMoves[i].to # p
    <3>1. CASE ad'.pendingMoves = ad.pendingMoves
      BY <3>1 DEF Aside
    <3>2. CASE ad'.pendingMoves = Append(ad.pendingMoves, [from |-> old, to |-> new])
      <4> DEFINE q == ad.pendingMoves
                 move == [from |-> old, to |-> new]
      <4>1. q \in Seq(Moves)
        BY <1>2 DEF Adapters
      <4>2. move.from # p /\ move.to # p
        BY <1>4
      <4> HIDE DEF move
      <4>3. ad'.pendingMoves = Append(q, move)
        BY <3>2 DEF move
      <4>4. Len(ad'.pendingMoves) = Len(q) + 1 /\ Len(q) \in Nat
        BY <4>1, <4>3
      <4>5. \A i \in 1..Len(ad'.pendingMoves) :
              ad'.pendingMoves[i] = move \/ (i \in 1..Len(q) /\ ad'.pendingMoves[i] = q[i])
        BY <4>1, <4>3, <4>4
      <4>. QED BY <4>2, <4>5 DEF Aside
    <3>. QED BY <1>4, <3>1, <3>2
  <2>. QED BY <2>1, <2>2 DEF Aside, SameEntry
<1>5. CASE Update(op)
  BY <1>1, <1>4, <1>5, UpdateRecorded DEF Update, Doing, AboutTrack
<1>6. CASE Relocate(op)
  <2>1. op.path # p /\ Target(op) # p
    BY <1>1, <1>2, <1>6, RelocateRecorded DEF Relocate, Doing, AboutTrack
  <2>. QED BY <1>4, <1>6, <2>1, RelocateRecorded
<1>7. CASE Add(op)
  <2>1. Target(op) # p
    BY <1>2, <1>7, AddRecorded
  <2>. QED BY <1>4, <1>7, <2>1, AddRecorded
<1>8. CASE Upgrade(op) \/ UpgradeLeavesOld(op)
  <2>1. op.path # p
    BY <1>1, <1>8 DEF Upgrade, UpgradeLeavesOld, Doing, AboutTrack
  <2>2. Target(op) # p
    BY <1>2, <1>8, <2>1, UpgradeRecorded
  <2>. QED BY <1>4, <1>8, <2>1, <2>2, UpgradeRecorded
<1>9. CASE AddFails(op)
  BY <1>2, <1>9, AddFailsRecorded DEF Aside, SameEntry
<1>. QED BY <1>3, <1>5, <1>6, <1>7, <1>8, <1>9 DEF Execute

\* A plan only gets smaller once it is made.
LEMMA PlanShrinks ==
  ASSUME [Next]_vars, ~Start
  PROVE  plan' \subseteq plan
<1>1. \A op \in plan : Execute(op) \/ AddFails(op) \/ UpgradeLeavesOld(op) => plan' \subseteq plan
  BY DEF Execute, Remove, Update, Relocate, Add, Upgrade, AddFails, UpgradeLeavesOld, Doing
<1>2. Save \/ SaveFails => plan' \subseteq plan
  BY DEF Save, FlushMove, FlushMovesEnd, FlushTags, FlushSidecarWrites, FlushSidecarDeletes,
         WriteManifest, Stage, SaveFails, FlushMoveFails, FlushTagsFails,
         FlushSidecarWritesFails, FlushSidecarDeletesFails, WriteManifestFails, SaveThrows
<1>3. Open \/ Settle \/ Refuse \/ FinalSave \/ Interrupt \/ Crash \/ Change => plan' \subseteq plan
  BY DEF Open, Settle, Refuse, FinalSave, Interrupt, Crash, Change
<1>4. UNCHANGED vars => plan' = plan
  BY DEF vars, process
<1>. QED BY <1>1, <1>2, <1>3, <1>4 DEF Next, Run, Trouble

\* The invariant about whose files are where is inductive.
LEMMA NextFInv == OpenIsFresh /\ TInv /\ IInv /\ FInv /\ [Next]_vars => FInv'
<1> SUFFICES ASSUME OpenIsFresh, TInv, IInv, FInv, [Next]_vars PROVE FInv'
  OBVIOUS
<1>1. \A p \in DOMAIN disk' : disk'[p].song \in (IF disk'[p].mine THEN Songs ELSE {UserTags})
  <2> TAKE p \in DOMAIN disk'
  <2>. QED BY FilesComeFrom DEF FInv
<1>2. Users' \subseteq Users
  <2> SUFFICES ASSUME NEW p \in Users' PROVE p \in Users
    OBVIOUS
  <2>1. p \in DOMAIN disk' /\ ~disk'[p].mine
    BY DEF Users
  <2>. QED BY <2>1, FilesComeFrom DEF Users
<1>3. Users' \cap manifest'.files = {}
  <2>1. CASE manifest' = manifest
    BY <1>2, <2>1 DEF FInv
  <2>2. CASE WriteManifest
    <3>1. manifest'.files = ad.managedFiles /\ Running
      BY <2>2 DEF WriteManifest, Running, Saving
    <3>. QED BY <1>2, <3>1 DEF FInv, Aside
  <2>. QED BY <2>1, <2>2, ManifestGoesLast
<1>4. \A op \in plan' : op.kind = "remove" => Delete /\ op.song \in Songs
  BY StartKeepsAside, PlanShrinks DEF FInv
<1>5. ASSUME Running' PROVE \A p \in Users' : Aside(p)'
  <2>1. CASE Start
    BY <1>2, <2>1, StartKeepsAside
  <2>2. CASE \E op \in plan : Execute(op) \/ UpgradeLeavesOld(op) \/ AddFails(op)
    <3>1. PICK op \in plan : Execute(op) \/ UpgradeLeavesOld(op) \/ AddFails(op)
      BY <2>2
    <3>2. phase = "executing"
      BY <3>1 DEF Execute, Remove, Update, Relocate, Add, Upgrade, UpgradeLeavesOld, AddFails,
                  Doing
    <3>3. \A p : Aside(p) => Aside(p)'
      BY <3>1, DoingKeepsAside
    <3>. QED BY <1>2, <3>2, <3>3 DEF FInv, Running
  <2>3. CASE Save \/ SaveFails \/ FinalSave \/ Interrupt
    <3>1. /\ Running /\ ad'.tracks = ad.tracks /\ ad'.managedFiles = ad.managedFiles
          /\ ad'.pendingMoves \in {ad.pendingMoves, <<>>}
          /\ DOMAIN ad'.pendingTagWrites \subseteq DOMAIN ad.pendingTagWrites
      BY <1>5, <2>3, SavingRecorded
    <3>2. \A p : Aside(p) => Aside(p)'
      <4>1. CASE ad'.pendingMoves = ad.pendingMoves
        BY <3>1, <4>1 DEF Aside
      <4>2. CASE ad'.pendingMoves = <<>>
        <5>1. 1..Len(ad'.pendingMoves) = {}
          BY <4>2
        <5>. QED BY <3>1, <5>1 DEF Aside
      <4>. QED BY <3>1, <4>1, <4>2
    <3>. QED BY <1>2, <3>1, <3>2 DEF FInv
  <2>4. CASE UNCHANGED vars
    BY <1>2, <1>5, <2>4 DEF FInv, Running, Aside, vars, process
  <2>5. ~Open /\ ~Settle /\ ~Refuse /\ ~Crash /\ ~Change
    BY <1>5 DEF Open, Settle, Refuse, Crash, Change, Running, Saving
  <2>. QED BY <2>1, <2>2, <2>3, <2>4, <2>5 DEF Next, Run, Trouble
<1>. QED BY <1>1, <1>3, <1>4, <1>5 DEF FInv

\* It holds in every state.
LEMMA FInvHolds == Spec => []FInv
<1>1. Init => FInv /\ OpenIsFresh
  BY DEF Init, FInv, Users, Running, Saving, OpenIsFresh
<1>2. OpenIsFresh /\ [Next]_vars => OpenIsFresh'
  BY FreshStep
<1>. QED BY <1>1, <1>2, NextFInv, TInvHolds, IInvHolds, PTL DEF Spec

\* No step of a sync touches a file that the user put on the device, if the tags
\* of none of them name a song that podkit may have to remove.
THEOREM UserFilesKept ==
  ASSUME Delete => UserTags \notin Songs
  PROVE  Spec => UserFilesSafe
<1> DEFINE AllThere == UserFiles \subseteq Users
<1>1. Init => AllThere
  BY DEF Init, Users
<1>2. FInv /\ TInv /\ IInv /\ [Next]_vars =>
        \A p \in Users : p \in DOMAIN disk' /\ disk'[p] = disk[p]
  BY UsersStay
<1>3. AllThere /\ FInv /\ TInv /\ IInv /\ [Next]_vars => AllThere'
  BY <1>2 DEF Users
<1>4. AllThere /\ FInv /\ TInv /\ IInv /\ [Next]_vars =>
        [\A p \in UserFiles : p \in DOMAIN disk' /\ disk'[p] = disk[p]]_vars
  BY <1>2 DEF Users
<1> HIDE DEF AllThere
<1>. QED BY <1>1, <1>3, <1>4, FInvHolds, TInvHolds, IInvHolds, PTL DEF Spec, UserFilesSafe

-----------------------------------------------------------------------------
(* The songs. A layout gives every song places of its own.                 *)

LayoutsApart == \A s, t \in Songs : s # t => Layouts[s] \cap Layouts[t] = {}

\* What a plan consists of.
LEMMA Planned ==
  ASSUME NEW kept \in Matchings, NEW op \in Operations(kept)
  PROVE  \/ /\ op.song \in Wanted \ Matched
            /\ op = [kind |-> "add", song |-> op.song,
                     path |-> Home(op.song, source[op.song].ext)]
         \/ /\ op.song \in Matched /\ AboutTrack(op)
            /\ OperationFor(op.song, kept[op.song]) = {op.kind}
            /\ op = [kind |-> op.kind, song |-> op.song, path |-> kept[op.song]]
         \/ /\ op.path \in DeviceItems /\ \A s \in Matched : op.path # kept[s]
            /\ op = [kind |-> "remove", song |-> ad.tracks[op.path].song, path |-> op.path]
<1>1. CASE op \in Additions
  BY <1>1 DEF Additions
<1>2. CASE op \in Removals(kept)
  BY <1>2 DEF Removals
<1>3. ASSUME NEW s \in Matched, op \in ChangesOf(s, kept[s])
      PROVE  /\ op.song \in Matched /\ AboutTrack(op)
             /\ OperationFor(op.song, kept[op.song]) = {op.kind}
             /\ op = [kind |-> op.kind, song |-> op.song, path |-> kept[op.song]]
  <2>1. PICK k \in OperationFor(s, kept[s]) : op = [kind |-> k, song |-> s, path |-> kept[s]]
    BY <1>3 DEF ChangesOf
  <2>2. k \in {"update", "relocate", "upgrade"} /\ OperationFor(s, kept[s]) = {k}
    BY <2>1 DEF OperationFor
  <2>. QED BY <2>1, <2>2 DEF AboutTrack
<1>. QED BY <1>1, <1>2, <1>3 DEF Operations

\* What the adapter has on record when a run starts is what is on the device.
LEMMA FreshFacts ==
  ASSUME OpenIsFresh, Start
  PROVE  /\ ad' = ad /\ disk' = disk /\ source' = source
         /\ DOMAIN ad.tracks = DOMAIN disk /\ ad.managedFiles = manifest.files
         /\ DOMAIN ad.pendingTagWrites = {} /\ ad.pendingMoves = <<>>
         /\ \A p \in DOMAIN disk :
              /\ ad.tracks[p].song = disk[p].song /\ ad.tracks[p].meta = disk[p].meta
              /\ ad.tracks[p].tag = disk[p].tag
              /\ ad.tracks[p].managed <=> p \in manifest.files
         /\ phase = "open" /\ phase' = "executing"
         /\ \E kept \in Matchings : plan' = Operations(kept)
<1>1. /\ ad' = ad /\ disk' = disk /\ source' = source
      /\ phase = "open" /\ phase' = "executing"
      /\ \E kept \in Matchings : plan' = Operations(kept)
  BY DEF Start, device
<1>2. ad = OpenedAdapter(disk, manifest)
  BY <1>1 DEF OpenIsFresh
<1>3. /\ ad.managedFiles = manifest.files /\ ad.pendingTagWrites = NoEntries
      /\ ad.pendingMoves = <<>>
  BY <1>2 DEF OpenedAdapter, ClosedAdapter
<1>4. /\ DOMAIN ad.tracks = DOMAIN disk
      /\ \A p \in DOMAIN disk :
           /\ ad.tracks[p].song = disk[p].song /\ ad.tracks[p].meta = disk[p].meta
           /\ ad.tracks[p].tag = disk[p].tag
           /\ ad.tracks[p].managed <=> p \in manifest.files
  BY <1>2 DEF OpenedAdapter, ClosedAdapter
<1>. QED BY <1>1, <1>3, <1>4 DEF NoEntries

HInv ==
  /\ \A p \in DOMAIN disk : disk[p].mine => p.at \in Layouts[disk[p].song]
  /\ Laid(source)
  /\ \A op \in plan : op.kind # "remove" => op.path.at \in Layouts[op.song]
  /\ Running => \A i \in 1..Len(ad.pendingMoves) : \E s \in Songs :
       /\ ad.pendingMoves[i].from.at \in Layouts[s]
       /\ ad.pendingMoves[i].to.at \in Layouts[s]

\* A move is of a file of the song in whose places both its paths are, and takes
\* the place of no other song's file.
LEMMA MovesWithinSong ==
  ASSUME LayoutsApart, HInv, FInv, TInv, FlushMove
  PROVE  LET move == ad.pendingMoves[nextMove]
         IN \/ move.from \notin DOMAIN disk /\ disk' = disk
            \/ /\ move.from \in DOMAIN disk /\ disk[move.from].mine
               /\ disk' = Put(Without(disk, move.from), move.to, disk[move.from])
               /\ move.to.at \in Layouts[disk[move.from].song]
               /\ move.to \in DOMAIN disk =>
                    disk[move.to].mine /\ disk[move.to].song = disk[move.from].song
<1> DEFINE move == ad.pendingMoves[nextMove]
<1>1. /\ disk' = Renamed(disk, move) /\ nextMove \in 1..Len(ad.pendingMoves) /\ Running
  BY FlushMoveEffect DEF FlushMove, Running, Saving
<1>2. PICK s \in Songs : move.from.at \in Layouts[s] /\ move.to.at \in Layouts[s]
  BY <1>1 DEF HInv
<1>3. \A p \in {move.from, move.to} \cap DOMAIN disk : disk[p].mine
  BY <1>1 DEF FInv, Aside, Users
<1> HIDE DEF move
<1>4. \A p \in {move.from, move.to} \cap DOMAIN disk : disk[p].song = s
  BY <1>2, <1>3 DEF HInv, FInv, LayoutsApart
<1>. QED BY <1>1, <1>2, <1>3, <1>4 DEF Renamed, Rekey, move

\* Every file of podkit's stays at a place of its song.
LEMMA FilesStayHome ==
  ASSUME LayoutsApart, HInv, FInv, TInv, IInv, [Next]_vars,
         NEW p \in DOMAIN disk', disk'[p].mine
  PROVE  p.at \in Layouts[disk'[p].song]
<1>1. CASE p \in DOMAIN disk /\ disk'[p].mine = disk[p].mine /\ disk'[p].song = disk[p].song
  BY <1>1 DEF HInv
<1>2. CASE FlushMove
  <2>1. CASE p = ad.pendingMoves[nextMove].to
    BY <2>1, <1>2, MovesWithinSong DEF HInv, Put
  <2>2. CASE p # ad.pendingMoves[nextMove].to
    BY <1>2, <2>2, FlushMoveEffect DEF HInv
  <2>. QED BY <2>1, <2>2
<1>3. ASSUME NEW op \in plan, Copies(op) PROVE p.at \in Layouts[disk'[p].song]
  <2>1. PICK new \in Paths, files \in {disk, Without(disk, op.path)} :
          /\ new.at = op.path.at
          /\ disk' = Put(files, new, Copy(op.song, source[op.song].meta))
    BY <1>3 DEF Copies
  <2>2. op.path.at \in Layouts[op.song]
    BY <1>3 DEF HInv, Copies
  <2>3. p # new => p \in DOMAIN disk /\ disk'[p] = disk[p]
    BY <2>1 DEF Put, Without
  <2>4. p = new => disk'[p].song = op.song
    BY <2>1 DEF Put, Copy
  <2>. QED BY <1>1, <2>1, <2>2, <2>3, <2>4
<1>4. CASE disk' = disk \/ \E op \in plan : Remove(op)
  BY <1>1, <1>4 DEF Remove, Without
<1>5. ASSUME NEW written \in SUBSET DOMAIN ad.pendingTagWrites, disk' = Tagged(written)
      PROVE  p.at \in Layouts[disk'[p].song]
  BY <1>1, <1>5, TagsKeepOwner
<1>. QED BY <1>2, <1>3, <1>4, <1>5, EveryFileStep DEF FileStep

\* A fresh plan is about places that the layouts give its songs.
LEMMA StartStaysHome ==
  ASSUME HInv, FInv, TInv, OpenIsFresh, Start
  PROVE  /\ \A op \in plan' : op.kind # "remove" => op.path.at \in Layouts[op.song]
         /\ Len(ad'.pendingMoves) = 0
<1>1. PICK kept \in Matchings : plan' = Operations(kept)
  BY FreshFacts
<1>2. ASSUME NEW op \in plan', op.kind # "remove" PROVE op.path.at \in Layouts[op.song]
  <2>1. CASE /\ op.song \in Wanted
             /\ op = [kind |-> "add", song |-> op.song,
                      path |-> Home(op.song, source[op.song].ext)]
    <3>1. op.path = HomePath(source[op.song].at, source[op.song].ext)
      BY <2>1 DEF Home
    <3>2. op.path.at = source[op.song].at
      BY <3>1 DEF HomePath
    <3>. QED BY <2>1, <3>2 DEF HInv, Laid, Wanted
  <2>2. CASE op.song \in Matched /\ op.path = kept[op.song]
    <3>1. op.path \in ItemsOf(op.song)
      BY <2>2 DEF Matchings
    <3>2. op.path \in DOMAIN ad.tracks /\ ad.tracks[op.path].managed
            /\ ad.tracks[op.path].song = op.song
      BY <3>1 DEF ItemsOf, DeviceItems
    <3>3. op.path \in DOMAIN disk /\ op.path \in manifest.files /\ disk[op.path].song = op.song
      BY <3>2, FreshFacts
    <3>4. disk[op.path].mine
      BY <3>3 DEF FInv, Users
    <3>. QED BY <3>3, <3>4 DEF HInv
  <2>. QED BY <1>1, <1>2, <2>1, <2>2, Planned
<1>3. Len(ad'.pendingMoves) = 0
  BY FreshFacts
<1>. QED BY <1>2, <1>3

\* The moves that are to be flushed: one operation adds one at most.
LEMMA DoingMoves ==
  ASSUME TInv, IInv, NEW op \in plan, Execute(op) \/ UpgradeLeavesOld(op) \/ AddFails(op),
         NEW i \in 1..Len(ad'.pendingMoves)
  PROVE  \/ i \in 1..Len(ad.pendingMoves) /\ ad'.pendingMoves[i] = ad.pendingMoves[i]
         \/ /\ Relocate(op) /\ i = Len(ad.pendingMoves) + 1
            /\ ad'.pendingMoves[i] = [from |-> op.path, to |-> Target(op)]
<1> DEFINE q == ad.pendingMoves
           move == [from |-> op.path, to |-> Target(op)]
<1>1. q \in Seq(Moves)
  BY DEF TInv, ProcessTyped, Adapters
<1>2. CASE ad'.pendingMoves = q
  BY <1>2
<1>3. CASE Relocate(op)
  <2>1. ad'.pendingMoves = Append(q, move)
    BY <1>3, RelocateRecorded
  <2> HIDE DEF q, move
  <2>2. Len(ad'.pendingMoves) = Len(q) + 1 /\ Len(q) \in Nat
    BY <1>1, <2>1
  <2>3. (i = Len(q) + 1 /\ ad'.pendingMoves[i] = move)
          \/ (i \in 1..Len(q) /\ ad'.pendingMoves[i] = q[i])
    BY <1>1, <2>1, <2>2
  <2>. QED BY <1>3, <2>3 DEF q, move
<1>4. Remove(op) => ad'.pendingMoves = q
  BY DEF Remove
<1>. QED BY <1>2, <1>3, <1>4, UpdateRecorded, AddRecorded, UpgradeRecorded, AddFailsRecorded
         DEF Execute

\* Every file, track, operation and move stays at places of its song.
LEMMA NextHInv ==
  ASSUME LayoutsApart
  PROVE  OpenIsFresh /\ TInv /\ IInv /\ FInv /\ HInv /\ [Next]_vars => HInv'
<1> SUFFICES ASSUME OpenIsFresh, TInv, IInv, FInv, HInv, [Next]_vars PROVE HInv'
  OBVIOUS
<1>1. \A p \in DOMAIN disk' : disk'[p].mine => p.at \in Layouts[disk'[p].song]
  BY FilesStayHome
<1>2. Laid(source)'
  <2>1. source' = source \/ Laid(source')
    <3>1. \A op \in plan : Execute(op) \/ AddFails(op) \/ UpgradeLeavesOld(op) => source' = source
      BY DEF Execute, Remove, Update, Relocate, Add, Upgrade, AddFails, UpgradeLeavesOld, Doing
    <3>2. Save \/ SaveFails => source' = source
      BY DEF Save, FlushMove, FlushMovesEnd, FlushTags, FlushSidecarWrites, FlushSidecarDeletes,
             WriteManifest, SaveFails, FlushMoveFails, FlushTagsFails,
             FlushSidecarWritesFails, FlushSidecarDeletesFails, WriteManifestFails
    <3>3. Open \/ Settle \/ Refuse \/ Start \/ FinalSave \/ Interrupt \/ Crash \/ UNCHANGED vars
            => source' = source
      BY DEF Open, Settle, Refuse, Start, FinalSave, Interrupt, Crash, vars
    <3>4. Change => Laid(source')
      BY DEF Change
    <3>. QED BY <3>1, <3>2, <3>3, <3>4 DEF Next, Run, Trouble
  <2>. QED BY <2>1 DEF HInv, Laid, Wanted
<1>3. \A op \in plan' : op.kind # "remove" => op.path.at \in Layouts[op.song]
  BY StartStaysHome, PlanShrinks DEF HInv
<1>4. ASSUME Running', NEW i \in 1..Len(ad'.pendingMoves)
      PROVE  \E s \in Songs : /\ ad'.pendingMoves[i].from.at \in Layouts[s]
                              /\ ad'.pendingMoves[i].to.at \in Layouts[s]
  <2>1. CASE Start
    <3>1. 1..Len(ad'.pendingMoves) = {}
      BY <2>1, StartStaysHome
    <3>. QED BY <1>4, <3>1
  <2>2. CASE \E op \in plan : Execute(op) \/ UpgradeLeavesOld(op) \/ AddFails(op)
    <3>1. PICK op \in plan : Execute(op) \/ UpgradeLeavesOld(op) \/ AddFails(op)
      BY <2>2
    <3>2. Running
      BY <3>1 DEF Execute, Remove, Update, Relocate, Add, Upgrade, UpgradeLeavesOld, AddFails,
                  Doing, Running
    <3>3. CASE i \in 1..Len(ad.pendingMoves) /\ ad'.pendingMoves[i] = ad.pendingMoves[i]
      BY <3>2, <3>3 DEF HInv
    <3>4. CASE Relocate(op) /\ ad'.pendingMoves[i] = [from |-> op.path, to |-> Target(op)]
      <4>1. op.kind = "relocate"
        BY <3>4 DEF Relocate, Doing
      <4>2. op.song \in Songs /\ op.song \in Wanted /\ Target(op).at = source[op.song].at
        BY <3>4, <4>1, OperationFacts, RelocateRecorded
      <4>3. op.path.at \in Layouts[op.song] /\ Target(op).at \in Layouts[op.song]
        BY <4>1, <4>2 DEF HInv, Laid, Wanted
      <4>. QED BY <3>4, <4>2, <4>3
    <3>. QED BY <1>4, <3>1, <3>3, <3>4, DoingMoves
  <2>3. CASE Save \/ SaveFails \/ FinalSave \/ Interrupt
    <3>1. Running /\ ad'.pendingMoves \in {ad.pendingMoves, <<>>}
      BY <1>4, <2>3, SavingRecorded
    <3>2. ad'.pendingMoves = ad.pendingMoves
      BY <1>4, <3>1
    <3>. QED BY <1>4, <3>1, <3>2 DEF HInv
  <2>4. CASE UNCHANGED vars
    BY <1>4, <2>4 DEF HInv, Running, vars, process
  <2>5. ~Open /\ ~Settle /\ ~Refuse /\ ~Crash /\ ~Change
    BY <1>4 DEF Open, Settle, Refuse, Crash, Change, Running, Saving
  <2>. QED BY <2>1, <2>2, <2>3, <2>4, <2>5 DEF Next, Run, Trouble
<1>. QED BY <1>1, <1>2, <1>3, <1>4 DEF HInv

\* It holds in every state.
LEMMA HInvHolds ==
  ASSUME LayoutsApart
  PROVE  Spec => []HInv
<1>1. Init => HInv /\ OpenIsFresh
  BY DEF Init, HInv, Running, Saving, OpenIsFresh
<1>2. OpenIsFresh /\ [Next]_vars => OpenIsFresh'
  BY FreshStep
<1>. QED BY <1>1, <1>2, NextHInv, FInvHolds, TInvHolds, IInvHolds, PTL DEF Spec

-----------------------------------------------------------------------------
(* Removals. A song that is wanted keeps one of its files: it has more     *)
(* files than removals to come.                                            *)

RemovalsOf(s) == {op \in plan : op.kind = "remove" /\ op.song = s}
FilesOf(s) == {p \in DOMAIN disk : disk[p].mine /\ disk[p].song = s}

Outnumbered(s) ==
  IsFiniteSet(RemovalsOf(s)) /\ Cardinality(RemovalsOf(s)) < Cardinality(FilesOf(s))

RInv ==
  /\ (\E op \in plan : op.kind = "remove") =>
       /\ phase = "executing"
       /\ \A p \in DOMAIN disk : p \in DOMAIN ad.tracks /\ ad.tracks[p].song = disk[p].song
  /\ \A s \in Wanted : RemovalsOf(s) # {} => Outnumbered(s)

\* A song has finitely many files.
LEMMA FilesAreFinite ==
  ASSUME IInv, NEW s
  PROVE  IsFiniteSet(FilesOf(s)) /\ Cardinality(FilesOf(s)) \in Nat
<1>1. IsFiniteSet(DOMAIN disk)
  BY DEF IInv
<1>2. FilesOf(s) \in SUBSET DOMAIN disk
  BY DEF FilesOf
<1>3. IsFiniteSet(FilesOf(s))
  BY <1>1, <1>2, FS_Subset
<1>. QED BY <1>3, FS_CardinalityType

\* Removals are of other items than the one that the song is matched with.
LEMMA StartOutnumbers ==
  ASSUME FInv, TInv, IInv, OpenIsFresh, Start
  PROVE  RInv'
<1>1. PICK kept \in Matchings : plan' = Operations(kept)
  BY FreshFacts
<1>2. \A s : FilesOf(s)' = FilesOf(s)
  BY FreshFacts DEF FilesOf
<1>3. /\ phase' = "executing"
      /\ \A p \in DOMAIN disk' : p \in DOMAIN ad'.tracks /\ ad'.tracks[p].song = disk'[p].song
  BY FreshFacts
<1>4. \A p \in DeviceItems : p \in FilesOf(ad.tracks[p].song)
  <2> TAKE p \in DeviceItems
  <2>1. p \in DOMAIN ad.tracks /\ ad.tracks[p].managed
    BY DEF DeviceItems
  <2>2. p \in DOMAIN disk /\ p \in manifest.files /\ ad.tracks[p].song = disk[p].song
    BY <2>1, FreshFacts
  <2>3. disk[p].mine
    BY <2>2 DEF FInv, Users
  <2>. QED BY <2>2, <2>3 DEF FilesOf
<1>5. ASSUME NEW s \in Wanted, RemovalsOf(s)' # {} PROVE Outnumbered(s)'
  <2> DEFINE R == RemovalsOf(s)'
  <2>1. ASSUME NEW op \in R
        PROVE  /\ op.path \in ItemsOf(s) /\ \A t \in Matched : op.path # kept[t]
               /\ op = [kind |-> "remove", song |-> s, path |-> op.path]
    <3>1. op \in Operations(kept) /\ op.kind = "remove" /\ op.song = s
      BY <1>1 DEF RemovalsOf
    <3>2. /\ op.path \in DeviceItems /\ \A t \in Matched : op.path # kept[t]
          /\ op = [kind |-> "remove", song |-> ad.tracks[op.path].song, path |-> op.path]
      BY <3>1, Planned DEF AboutTrack
    <3>3. ad.tracks[op.path].song = s
      BY <3>1, <3>2
    <3>. QED BY <3>2, <3>3 DEF ItemsOf
  <2> HIDE DEF R
  <2>2. R # {}
    BY <1>5 DEF R
  <2>3. s \in Matched
    BY <2>1, <2>2 DEF Matched
  <2>4. kept[s] \in ItemsOf(s)
    BY <2>3 DEF Matchings
  <2>5. \A p \in ItemsOf(s) : p \in FilesOf(s)
    BY <1>4 DEF ItemsOf
  <2> DEFINE others == FilesOf(s) \ {kept[s]}
             path == [op \in R |-> op.path]
  <2>6. IsFiniteSet(others) /\ Cardinality(others) = Cardinality(FilesOf(s)) - 1
    BY <2>4, <2>5, FilesAreFinite, FS_RemoveElement
  <2>7. \A op \in R : op.path \in others
    BY <2>1, <2>3, <2>5
  <2>8. path \in [R -> others]
    BY <2>7
  <2>9. \A x, y \in R : path[x] = path[y] => x = y
    <3> SUFFICES ASSUME NEW x \in R, NEW y \in R, x.path = y.path PROVE x = y
      OBVIOUS
    <3>. QED BY <2>1
  <2> HIDE DEF others
  <2>10. path \in Injection(R, others)
    BY <2>8, <2>9 DEF Injection, IsInjective
  <2> HIDE DEF path
  <2>11. IsFiniteSet(R) /\ Cardinality(R) <= Cardinality(others)
    BY <2>6, <2>10, FS_Injection
  <2>12. Cardinality(R) \in Nat
    BY <2>11, FS_CardinalityType
  <2>13. Cardinality(FilesOf(s)) \in Nat /\ FilesOf(s)' = FilesOf(s)
    BY <1>2, FilesAreFinite
  <2>14. IsFiniteSet(R) /\ Cardinality(R) < Cardinality(FilesOf(s))
    BY <2>6, <2>11, <2>12, <2>13
  <2>. QED BY <2>13, <2>14 DEF Outnumbered, R
<1>6. source' = source
  BY FreshFacts
<1>. QED BY <1>3, <1>5, <1>6 DEF RInv, Wanted

\* One removal takes one file.
LEMMA RemoveOutnumbers ==
  ASSUME RInv, TInv, IInv, NEW op \in plan, Remove(op)
  PROVE  /\ RInv'
         /\ \A s \in Wanted : HasFile(disk, s) => HasFile(disk', s)
<1>1. /\ op.kind = "remove" /\ plan' = plan \ {op} /\ phase = "executing"
      /\ phase' = "executing" /\ ad' = ad /\ source' = source
  BY DEF Remove, Doing
<1>2. PICK p \in DOMAIN ad.tracks : ad.tracks[p].song = op.song /\ disk' = Without(disk, p)
  BY DEF Remove
<1>3. /\ DOMAIN disk' = DOMAIN disk \ {p} /\ \A q \in DOMAIN disk' : disk'[q] = disk[q]
      /\ p \in DOMAIN disk => disk[p].song = op.song
  BY <1>1, <1>2 DEF Without, RInv
<1>4. \A s : FilesOf(s)' = FilesOf(s) \ {p}
  BY <1>3 DEF FilesOf
<1>5. \A s : s # op.song => p \notin FilesOf(s)
  BY <1>3 DEF FilesOf
<1>6. \A s : RemovalsOf(s)' = RemovalsOf(s) \ {op}
  BY <1>1 DEF RemovalsOf
<1>7. \A s : s # op.song => RemovalsOf(s)' = RemovalsOf(s) /\ FilesOf(s)' = FilesOf(s)
  BY <1>4, <1>5, <1>6 DEF RemovalsOf
<1>8. ASSUME op.song \in Wanted
      PROVE  /\ Outnumbered(op.song)'
             /\ FilesOf(op.song)' # {}
  <2> DEFINE R == RemovalsOf(op.song)
             F == FilesOf(op.song)
  <2>1. op \in R
    BY <1>1 DEF RemovalsOf
  <2>2. Outnumbered(op.song)
    BY <1>8, <2>1 DEF RInv
  <2>3. IsFiniteSet(R) /\ Cardinality(R) < Cardinality(F)
    BY <2>2 DEF Outnumbered
  <2>4. IsFiniteSet(F) /\ Cardinality(F) \in Nat
    BY FilesAreFinite
  <2>5. /\ IsFiniteSet(R \ {op}) /\ Cardinality(R \ {op}) = Cardinality(R) - 1
    BY <2>1, <2>3, FS_RemoveElement
  <2>6. /\ IsFiniteSet(F \ {p}) /\ Cardinality(F \ {p}) \in {Cardinality(F), Cardinality(F) - 1}
    BY <2>4, FS_RemoveElement
  <2>7. Cardinality(R) \in Nat /\ Cardinality(R \ {op}) \in Nat
    BY <2>3, <2>5, FS_CardinalityType
  <2> HIDE DEF R, F
  <2>8. Cardinality(R \ {op}) < Cardinality(F \ {p}) /\ Cardinality(F \ {p}) # 0
    BY <2>3, <2>4, <2>5, <2>6, <2>7
  <2>9. F \ {p} # {}
    BY <2>8, FS_EmptySet
  <2>10. RemovalsOf(op.song)' = R \ {op} /\ FilesOf(op.song)' = F \ {p}
    BY <1>4, <1>6 DEF R, F
  <2>. QED BY <2>5, <2>8, <2>9, <2>10 DEF Outnumbered
<1>9. RInv'
  <2>1. \A s \in Wanted' : RemovalsOf(s)' # {} => Outnumbered(s)'
    <3> SUFFICES ASSUME NEW s \in Wanted, RemovalsOf(s)' # {} PROVE Outnumbered(s)'
      BY <1>1 DEF Wanted
    <3>1. CASE s = op.song
      BY <1>8, <3>1
    <3>2. CASE s # op.song
      BY <1>7, <3>2 DEF RInv, Outnumbered
    <3>. QED BY <3>1, <3>2
  <2>2. /\ phase' = "executing"
        /\ \A q \in DOMAIN disk' : q \in DOMAIN ad'.tracks /\ ad'.tracks[q].song = disk'[q].song
    BY <1>1, <1>3 DEF RInv
  <2>. QED BY <2>1, <2>2 DEF RInv
<1>10. ASSUME NEW s \in Wanted, HasFile(disk, s) PROVE HasFile(disk', s)
  <2>1. FilesOf(s)' # {}
    <3>1. CASE s = op.song
      BY <1>8, <3>1
    <3>2. CASE s # op.song
      BY <1>7, <1>10, <3>2 DEF HasFile, FilesOf
    <3>. QED BY <3>1, <3>2
  <2>. QED BY <2>1 DEF FilesOf, HasFile
<1>. QED BY <1>9, <1>10

\* While removals are to come, nothing else of the plan is done.
LEMMA RemovalsFirst ==
  ASSUME RInv, TInv, IInv, FInv, OpenIsFresh, [Next]_vars, NEW o \in plan', o.kind = "remove"
  PROVE  RInv'
<1>1. CASE Start
  BY <1>1, StartOutnumbers
<1>2. CASE ~Start
  <2>1. o \in plan /\ phase = "executing"
    BY <1>2, PlanShrinks DEF RInv
  <2>2. \A op \in Ready :
          op.kind = "remove" \/ op.kind \notin {"add", "upgrade", "relocate", "update"}
    <3> SUFFICES ASSUME NEW op \in Ready, op.kind \in {"add", "upgrade", "relocate", "update"}
                 PROVE  FALSE
      OBVIOUS
    <3>1. Priority(op) <= Priority(o)
      BY <2>1 DEF Ready
    <3>2. Priority(o) = 0 /\ Priority(op) \in {1, 2}
      BY DEF Priority
    <3>. QED BY <3>1, <3>2
  <2>3. ASSUME NEW op \in plan, Execute(op) \/ UpgradeLeavesOld(op) \/ AddFails(op)
        PROVE  RInv'
    <3>1. op \in Ready /\ (Remove(op) \/ op.kind \in {"add", "upgrade", "relocate", "update"})
      BY <2>3 DEF Execute, Remove, Update, Relocate, Add, Upgrade, UpgradeLeavesOld, AddFails,
                  Doing
    <3>2. op.kind \in {"add", "upgrade", "relocate", "update"} => FALSE
      BY <2>2, <3>1
    <3>. QED BY <3>1, <3>2, RemoveOutnumbers
  <2>4. CASE UNCHANGED vars
    BY <2>4 DEF RInv, Outnumbered, RemovalsOf, FilesOf, Wanted, vars, device, process
  <2>5. ~Open /\ ~Settle /\ ~Refuse /\ ~FinalSave /\ ~Interrupt /\ ~Crash /\ ~Change
    BY <2>1 DEF Open, Settle, Refuse, FinalSave, Interrupt, Crash, Change, Idle
  <2>6. ~Save /\ ~SaveFails
    BY <2>1 DEF Save, FlushMove, FlushMovesEnd, FlushTags, FlushSidecarWrites,
                FlushSidecarDeletes, WriteManifest, Stage, SaveFails, FlushMoveFails,
                FlushTagsFails, FlushSidecarWritesFails, FlushSidecarDeletesFails,
                WriteManifestFails
  <2>. QED BY <1>2, <2>3, <2>4, <2>5, <2>6 DEF Next, Run, Trouble
<1>. QED BY <1>1, <1>2

\* A wanted song keeps more files than there are removals to come.
LEMMA NextRInv == OpenIsFresh /\ TInv /\ IInv /\ FInv /\ RInv /\ [Next]_vars => RInv'
<1> SUFFICES ASSUME OpenIsFresh, TInv, IInv, FInv, RInv, [Next]_vars PROVE RInv'
  OBVIOUS
<1>1. CASE \E o \in plan' : o.kind = "remove"
  BY <1>1, RemovalsFirst
<1>2. CASE \A o \in plan' : o.kind # "remove"
  BY <1>2 DEF RInv, RemovalsOf
<1>. QED BY <1>1, <1>2

\* It holds in every state.
LEMMA RInvHolds == Spec => []RInv
<1>1. Init => RInv /\ OpenIsFresh
  BY DEF Init, RInv, RemovalsOf, OpenIsFresh
<1>2. OpenIsFresh /\ [Next]_vars => OpenIsFresh'
  BY FreshStep
<1>. QED BY <1>1, <1>2, NextRInv, FInvHolds, TInvHolds, IInvHolds, PTL DEF Spec

\* A copy takes the place of files of its own song only.
LEMMA CopiesLoseNothing ==
  ASSUME LayoutsApart, HInv, FInv, TInv, IInv, NEW op \in plan, Copies(op), Running,
         NEW s, HasFile(disk, s)
  PROVE  HasFile(disk', s)
<1>1. PICK new \in Paths, files \in {disk, Without(disk, op.path)} :
        /\ new.at = op.path.at
        /\ (files = disk \/ op.kind = "upgrade")
        /\ disk' = Put(files, new, Copy(op.song, source[op.song].meta))
  BY DEF Copies
<1>2. PICK p \in DOMAIN disk : disk[p].song = s /\ disk[p].mine
  BY DEF HasFile
<1>3. op.path.at \in Layouts[op.song] /\ op.song \in Songs
  BY OperationFacts DEF HInv, Copies
<1>4. p.at = op.path.at => s = op.song
  <2>1. p.at \in Layouts[s] /\ s \in Songs
    BY <1>2 DEF HInv, FInv
  <2>. QED BY <1>3, <2>1 DEF LayoutsApart
<1>5. CASE p \in {new, op.path}
  <2>1. s = op.song /\ new \in DOMAIN disk' /\ disk'[new] = Copy(op.song, source[op.song].meta)
    BY <1>1, <1>4, <1>5 DEF Put
  <2>. QED BY <2>1 DEF HasFile, Copy
<1>6. CASE p \notin {new, op.path}
  <2>1. p \in DOMAIN disk' /\ disk'[p] = disk[p]
    BY <1>1, <1>6 DEF Put, Without
  <2>. QED BY <1>2, <2>1 DEF HasFile
<1>. QED BY <1>5, <1>6

\* So no step takes the last file of a wanted song.
LEMMA StepLosesNothing ==
  ASSUME LayoutsApart, HInv, RInv, FInv, TInv, IInv, [Next]_vars,
         NEW s \in Wanted, HasFile(disk, s)
  PROVE  HasFile(disk', s)
<1>1. CASE disk' = disk
  BY <1>1
<1>2. ASSUME NEW written, disk' = Tagged(written) PROVE HasFile(disk', s)
  BY <1>2, TagsKeepOwner DEF HasFile
<1>3. CASE FlushMove
  <2> DEFINE move == ad.pendingMoves[nextMove]
  <2>1. PICK p \in DOMAIN disk : disk[p].song = s /\ disk[p].mine
    BY DEF HasFile
  <2>2. CASE disk' = disk
    BY <2>2
  <2>3. CASE /\ move.from \in DOMAIN disk /\ disk[move.from].mine
             /\ disk' = Put(Without(disk, move.from), move.to, disk[move.from])
             /\ move.to \in DOMAIN disk =>
                  disk[move.to].mine /\ disk[move.to].song = disk[move.from].song
    <3> HIDE DEF move
    <3>1. move.to \in DOMAIN disk' /\ disk'[move.to] = disk[move.from]
      BY <2>3 DEF Put
    <3>2. p \in {move.from, move.to} => disk'[move.to].song = s /\ disk'[move.to].mine
      BY <2>1, <2>3, <3>1
    <3>3. p \notin {move.from, move.to} => p \in DOMAIN disk' /\ disk'[p] = disk[p]
      BY <2>3 DEF Put, Without
    <3>. QED BY <2>1, <3>1, <3>2, <3>3 DEF HasFile
  <2>. QED BY <1>3, <2>2, <2>3, MovesWithinSong
<1>4. CASE \E op \in plan : Remove(op)
  BY <1>4, RemoveOutnumbers
<1>5. CASE Running /\ \E op \in plan : Copies(op)
  BY <1>5, CopiesLoseNothing
<1>. QED BY <1>1, <1>2, <1>3, <1>4, <1>5, EveryFileStep DEF FileStep

\* No step of a sync takes the last file of a song that is wanted, if no two songs
\* are ever given one place.
THEOREM NothingGoesLost ==
  ASSUME LayoutsApart
  PROVE  Spec => NothingLost
<1>1. HInv /\ RInv /\ FInv /\ TInv /\ IInv /\ [Next]_vars =>
        [\A s \in Wanted \cap DOMAIN source' : HasFile(disk, s) => HasFile(disk', s)]_vars
  BY StepLosesNothing
<1>. QED BY <1>1, HInvHolds, RInvHolds, FInvHolds, TInvHolds, IInvHolds, PTL
         DEF Spec, NothingLost

-----------------------------------------------------------------------------
(* What a save brings to the device. The moves of a sync are made in the   *)
(* order in which they were planned, which keeps them out of each other's  *)
(* way.                                                                    *)

From(i) == ad.pendingMoves[i].from
MoveTo(i) == ad.pendingMoves[i].to

\* Every move is of a track of its own that no operation to come is about; none
\* goes to a path from which it or a later one is still to take a file.
Separate ==
  /\ \A op \in plan : AboutTrack(op) => ad.tracks[op.path].song = op.song
  /\ \A op \in plan, i \in 1..Len(ad.pendingMoves) : AboutTrack(op) => From(i) # op.path
  /\ \A i, j \in 1..Len(ad.pendingMoves) : From(i) = From(j) => i = j
  /\ \A i, j \in 1..Len(ad.pendingMoves) : i <= j => MoveTo(i) # From(j)

GInv == Running => Separate

\* A fresh plan changes tracks of its songs, and nothing is to be moved yet.
LEMMA StartSeparates ==
  ASSUME OpenIsFresh, Start
  PROVE  Separate'
<1>1. PICK kept \in Matchings : plan' = Operations(kept)
  BY FreshFacts
<1>2. 1..Len(ad'.pendingMoves) = {} /\ ad' = ad
  BY FreshFacts
<1>3. ASSUME NEW op \in plan', AboutTrack(op) PROVE ad.tracks[op.path].song = op.song
  <2>1. op.song \in Matched /\ op.path = kept[op.song]
    BY <1>1, <1>3, Planned DEF AboutTrack
  <2>. QED BY <2>1 DEF Matchings, ItemsOf
<1>. QED BY <1>2, <1>3 DEF Separate, AboutTrack

\* A relocation is queued last, to a path that no track had, from one that no
\* other operation is about.
LEMMA DoingSeparates ==
  ASSUME Separate, AllKnown, TInv, IInv, NEW op \in plan,
         Execute(op) \/ UpgradeLeavesOld(op) \/ AddFails(op)
  PROVE  Separate'
<1>1. /\ plan' \subseteq plan /\ (AddFails(op) \/ op \notin plan')
  BY DEF Execute, Remove, Update, Relocate, Add, Upgrade, UpgradeLeavesOld, AddFails, Doing
<1>2. ASSUME NEW o \in plan', AboutTrack(o)
      PROVE  o.path \in DOMAIN ad.tracks /\ ad'.tracks[o.path].song = ad.tracks[o.path].song
  <2>1. /\ o \in plan /\ o.path \in DOMAIN ad.tracks
        /\ AboutTrack(op) /\ o # op => o.path # op.path
    <3>1. o \in plan
      BY <1>1, <1>2
    <3>. QED BY <1>2, <3>1, OperationFacts DEF IInv, PlanSound
  <2>2. \A new : OnlyMoves(op.path, new) /\ o.path # op.path =>
                  ad'.tracks[o.path] = ad.tracks[o.path]
    BY <2>1 DEF OnlyMoves, SameEntry
  <2>3. CASE Remove(op)
    BY <2>1, <2>3 DEF Remove
  <2>4. CASE AddFails(op)
    BY <2>1, <2>4, AddFailsRecorded DEF SameEntry
  <2>5. CASE Add(op)
    <3>1. OnlyMoves(Target(op), Target(op)) /\ Target(op) \notin DOMAIN ad.tracks
      BY <2>5, AddRecorded
    <3>. QED BY <2>1, <3>1 DEF OnlyMoves, SameEntry
  <2>6. CASE Update(op) \/ Relocate(op) \/ Upgrade(op) \/ UpgradeLeavesOld(op)
    <3>1. o # op /\ AboutTrack(op)
      BY <1>1, <2>6 DEF AboutTrack, Update, Relocate, Upgrade, UpgradeLeavesOld, Doing
    <3>2. \E new : OnlyMoves(op.path, new)
      BY <2>6, UpdateRecorded, RelocateRecorded, UpgradeRecorded
    <3>. QED BY <2>1, <2>2, <3>1, <3>2
  <2>. QED BY <2>3, <2>4, <2>5, <2>6 DEF Execute
<1>3. \A o \in plan' : AboutTrack(o) => ad'.tracks[o.path].song = o.song
  BY <1>1, <1>2 DEF Separate
<1>4. Relocate(op) => op.kind = "relocate" /\ op \notin plan'
  BY DEF Relocate, Doing
<1>5. ASSUME Relocate(op)
      PROVE  op.path \in DOMAIN ad.tracks /\ Target(op) \notin DOMAIN ad.tracks
  BY <1>4, <1>5, OperationFacts, RelocateRecorded DEF AboutTrack
<1>6. ASSUME NEW i \in 1..Len(ad'.pendingMoves)
      PROVE  \/ i \in 1..Len(ad.pendingMoves) /\ From(i)' = From(i) /\ MoveTo(i)' = MoveTo(i)
             \/ /\ Relocate(op) /\ i = Len(ad.pendingMoves) + 1
                /\ From(i)' = op.path /\ MoveTo(i)' = Target(op)
  <2>1. \/ i \in 1..Len(ad.pendingMoves) /\ ad'.pendingMoves[i] = ad.pendingMoves[i]
        \/ /\ Relocate(op) /\ i = Len(ad.pendingMoves) + 1
           /\ ad'.pendingMoves[i] = [from |-> op.path, to |-> Target(op)]
    BY DoingMoves
  <2>. QED BY <2>1 DEF From, MoveTo
<1>7. ASSUME NEW o \in plan', NEW i \in 1..Len(ad'.pendingMoves), AboutTrack(o)
      PROVE  From(i)' # o.path
  <2>1. o \in plan
    BY <1>1
  <2>2. CASE i \in 1..Len(ad.pendingMoves) /\ From(i)' = From(i)
    BY <1>7, <2>1, <2>2 DEF Separate
  <2>3. CASE Relocate(op) /\ From(i)' = op.path
    <3>1. o # op /\ AboutTrack(op)
      BY <1>4, <2>3 DEF AboutTrack
    <3>. QED BY <1>7, <2>1, <2>3, <3>1 DEF IInv, PlanSound
  <2>. QED BY <1>6, <2>2, <2>3
<1>8. ASSUME NEW i \in 1..Len(ad.pendingMoves), Relocate(op)
      PROVE  From(i) # op.path /\ MoveTo(i) # op.path
  <2>1. AboutTrack(op)
    BY <1>4, <1>8 DEF AboutTrack
  <2>2. Reserved(MoveTo(i))
    BY DEF AllKnown, MoveTo
  <2>. QED BY <2>1, <2>2 DEF Separate, Reserved
<1>9. ASSUME NEW i \in 1..Len(ad'.pendingMoves), NEW j \in 1..Len(ad'.pendingMoves),
             From(i)' = From(j)'
      PROVE  i = j
  BY <1>6, <1>8, <1>9 DEF Separate
<1>10. ASSUME NEW i \in 1..Len(ad'.pendingMoves), NEW j \in 1..Len(ad'.pendingMoves), i <= j
       PROVE  MoveTo(i)' # From(j)'
  <2>1. Len(ad.pendingMoves) \in Nat
    BY MovesAreTyped DEF TInv, ProcessTyped
  <2>2. CASE j \in 1..Len(ad.pendingMoves) /\ From(j)' = From(j)
    <3>1. i \in 1..Len(ad.pendingMoves) /\ MoveTo(i)' = MoveTo(i)
      BY <1>6, <1>10, <2>1, <2>2
    <3>. QED BY <1>10, <2>2, <3>1 DEF Separate
  <2>3. CASE Relocate(op) /\ From(j)' = op.path
    BY <1>5, <1>6, <1>8, <2>3
  <2>. QED BY <1>6, <2>2, <2>3
<1>. QED BY <1>3, <1>7, <1>9, <1>10 DEF Separate, AboutTrack

\* The moves and the operations to come stay apart.
LEMMA NextGInv ==
  OpenIsFresh /\ TInv /\ IInv /\ NInv /\ GInv /\ [Next]_vars => GInv'
<1> SUFFICES ASSUME OpenIsFresh, TInv, IInv, NInv, GInv, [Next]_vars, Running' PROVE Separate'
  BY DEF GInv
<1>1. CASE Start
  BY <1>1, StartSeparates
<1>2. CASE \E op \in plan : Execute(op) \/ UpgradeLeavesOld(op) \/ AddFails(op)
  <2>1. PICK op \in plan : Execute(op) \/ UpgradeLeavesOld(op) \/ AddFails(op)
    BY <1>2
  <2>2. Running
    BY <2>1 DEF Execute, Remove, Update, Relocate, Add, Upgrade, UpgradeLeavesOld, AddFails,
                Doing, Running
  <2>. QED BY <2>1, <2>2, DoingSeparates DEF GInv, NInv
<1>3. CASE Save \/ SaveFails \/ FinalSave \/ Interrupt
  <2>1. Running /\ ad'.tracks = ad.tracks /\ ad'.pendingMoves \in {ad.pendingMoves, <<>>}
    BY <1>3, SavingRecorded
  <2>2. ~Start
    BY <2>1 DEF Start, Running, Saving
  <2>3. plan' \subseteq plan /\ Separate
    BY <2>1, <2>2, PlanShrinks DEF GInv
  <2>4. CASE ad'.pendingMoves = ad.pendingMoves
    BY <2>1, <2>3, <2>4 DEF Separate, From, MoveTo, AboutTrack
  <2>5. CASE ad'.pendingMoves = <<>>
    <3>1. 1..Len(ad'.pendingMoves) = {}
      BY <2>5
    <3>. QED BY <2>1, <2>3, <3>1 DEF Separate, AboutTrack
  <2>. QED BY <2>1, <2>4, <2>5
<1>4. CASE UNCHANGED vars
  BY <1>4 DEF GInv, Running, Separate, From, MoveTo, AboutTrack, vars, process
<1>5. ~Open /\ ~Settle /\ ~Refuse /\ ~Crash /\ ~Change
  BY DEF Open, Settle, Refuse, Crash, Change, Running, Saving
<1>. QED BY <1>1, <1>2, <1>3, <1>4, <1>5 DEF Next, Run, Trouble

\* A file is what `a` has on record for the path, but for what is yet to be written.
Agrees(file, a, p) ==
  /\ file.song = a.tracks[p].song
  /\ Pending(a, p).meta = Keep => file.meta = a.tracks[p].meta
  /\ Pending(a, p).tag = Keep => file.tag = a.tracks[p].tag

\* What is yet to be written is what is on record.
Queued(a, p) ==
  /\ Pending(a, p).meta \in {Keep, a.tracks[p].meta}
  /\ Pending(a, p).tag \in {Keep, a.tracks[p].tag}

\* Every file is what its entry says, or what the entry says that it moves to.
Truthful ==
  /\ \A p \in DOMAIN ad.tracks : Queued(ad, p)
  /\ \A p \in DOMAIN disk : p \in DOMAIN ad.tracks \/ ToMove(p)
  /\ \A p \in DOMAIN ad.tracks \cap DOMAIN disk : ~ToMove(p) => Agrees(disk[p], ad, p)
  /\ \A i \in nextMove..Len(ad.pendingMoves) :
       From(i) \in DOMAIN disk => Agrees(disk[From(i)], ad, MoveTo(i))

\* A new file was put where another song's file waits to be moved: it is moved in
\* its stead, and the save is bound to fail when it writes the new file's tags.
Doomed(p) ==
  /\ p \in DOMAIN ad.pendingTagWrites
  /\ \A op \in plan : op.kind \in {"add", "upgrade"} /\ (AboutTrack(op) => op.path # p)
  /\ \A i \in 1..Len(ad.pendingMoves) : MoveTo(i) # p
  /\ ToMove(p) \/ (phase # "executing" /\ p \notin DOMAIN disk)

\* While nothing goes wrong, the device and the record agree but for what is
\* queued, or else the save will fail before it gets to the manifest.
SInv ==
  Running /\ ~failed =>
    /\ Truthful \/ \E p : Doomed(p)
    /\ phase \in {"sidecars", "drops", "manifest"} => DOMAIN ad.pendingTagWrites = {}

\* An entry that only changes its path is as true as it was.
LEMMA SameEntryFacts ==
  ASSUME NEW p, NEW q, SameEntry(ad, p, ad', q)
  PROVE  /\ \A file : Agrees(file, ad, p) <=> Agrees(file, ad', q)
         /\ Queued(ad, p) <=> Queued(ad', q)
BY DEF SameEntry, Agrees, Queued

\* The track's metadata is brought up to date: the file still agrees.
LEMMA BroughtAgrees ==
  ASSUME NEW op, NEW new, Brought(op, new), Queued(ad, op.path),
         source[op.song].meta # Keep,
         \/ /\ ad'.tracks[new].tag = ad.tracks[op.path].tag
            /\ Pending(ad', new).tag = Pending(ad, op.path).tag
         \/ ad'.tracks[new].tag = "synced" /\ Pending(ad', new).tag = "synced"
  PROVE  /\ Queued(ad', new)
         /\ ad'.tracks[new].tag = ad.tracks[op.path].tag /\
              Pending(ad', new).tag = Pending(ad, op.path).tag =>
                \A file : Agrees(file, ad, op.path) => Agrees(file, ad', new)
<1>1. /\ ad'.tracks[new].song = ad.tracks[op.path].song
      /\ ad'.tracks[new].meta = source[op.song].meta
      /\ Pending(ad', new).meta = IF source[op.song].meta = ad.tracks[op.path].meta
                                  THEN Pending(ad, op.path).meta ELSE source[op.song].meta
  BY DEF Brought
<1>2. Queued(ad', new)
  BY <1>1 DEF Queued
<1>3. ASSUME ad'.tracks[new].tag = ad.tracks[op.path].tag,
             Pending(ad', new).tag = Pending(ad, op.path).tag,
             NEW file, Agrees(file, ad, op.path)
      PROVE  Agrees(file, ad', new)
  BY <1>1, <1>3 DEF Agrees
<1>. QED BY <1>2, <1>3

\* No move is of the track that an operation is about.
LEMMA MovesElsewhere ==
  ASSUME Separate, AllKnown, TInv, IInv, NEW op \in plan,
         NEW i \in 1..Len(ad.pendingMoves)
  PROVE  /\ MoveTo(i) \in DOMAIN ad.tracks
         /\ AboutTrack(op) => MoveTo(i) # op.path /\ From(i) # op.path
<1>1. Reserved(MoveTo(i))
  BY DEF AllKnown, MoveTo
<1>. QED BY <1>1 DEF Reserved, Listed, Separate

\* Nor is the file of that track to be moved.
LEMMA TrackStays ==
  ASSUME Separate, TInv, NEW op \in plan, AboutTrack(op)
  PROVE  ~ToMove(op.path)
<1>1. nextMove..Len(ad.pendingMoves) \subseteq 1..Len(ad.pendingMoves)
  BY MovesAreTyped DEF TInv, ProcessTyped
<1>. QED BY <1>1 DEF Separate, ToMove, From

\* An operation that moves the entry of `old` to `new`, and a file with it or later.
LEMMA TruthKept ==
  ASSUME Truthful, Separate, AllKnown, TInv, IInv, ad' \in Adapters,
         NEW op \in plan, nextMove' = nextMove, ad'.pendingMoves = ad.pendingMoves,
         NEW old, NEW new, OnlyMoves(old, new), AboutTrack(op) \/ new \notin DOMAIN ad.tracks,
         AboutTrack(op) => old = op.path,  ~AboutTrack(op) => old = new,
         ~ToMove(new), Queued(ad', new),
         DOMAIN disk' = (DOMAIN disk \ {old}) \cup {new} \/ (disk' = disk /\ new = old),
         \A p \in DOMAIN disk' \ {new} : disk'[p] = disk[p],
         new \in DOMAIN disk' => Agrees(disk'[new], ad', new)
  PROVE  Truthful'
<1>1. Len(ad.pendingMoves) \in Nat /\ nextMove \in Nat /\ nextMove >= 1
  BY MovesAreTyped DEF TInv, ProcessTyped
<1>2. \A p \in DOMAIN ad'.tracks :
        p = new \/ (p \in DOMAIN ad.tracks /\ SameEntry(ad, p, ad', p))
  BY DEF OnlyMoves
<1>3. ASSUME NEW p \in DOMAIN ad'.tracks PROVE Queued(ad', p)
  BY <1>2, SameEntryFacts DEF Truthful
<1>4. ASSUME NEW p \in DOMAIN disk' PROVE p \in DOMAIN ad'.tracks \/ ToMove(p)'
  <2>1. CASE p = new
    BY <2>1 DEF OnlyMoves
  <2>2. CASE p # new
    <3>1. p \in DOMAIN disk /\ p # old
      BY <2>2
    <3>2. ToMove(p) => ToMove(p)'
      BY DEF ToMove
    <3>. QED BY <3>1, <3>2 DEF Truthful, OnlyMoves
  <2>. QED BY <2>1, <2>2
<1>5. ASSUME NEW p \in DOMAIN ad'.tracks \cap DOMAIN disk', ~ToMove(p)'
      PROVE  Agrees(disk'[p], ad', p)
  <2>1. ~ToMove(p)
    BY <1>5 DEF ToMove
  <2>2. CASE p # new
    <3>1. /\ p \in DOMAIN ad.tracks /\ SameEntry(ad, p, ad', p)
          /\ p \in DOMAIN disk /\ disk'[p] = disk[p]
      BY <1>2, <2>2
    <3>. QED BY <2>1, <3>1, SameEntryFacts DEF Truthful
  <2>. QED BY <2>2
<1>6. ASSUME NEW i \in nextMove'..Len(ad'.pendingMoves), From(i)' \in DOMAIN disk'
      PROVE  Agrees(disk'[From(i)'], ad', MoveTo(i)')
  <2>1. /\ i \in nextMove..Len(ad.pendingMoves) /\ i \in 1..Len(ad.pendingMoves)
        /\ From(i)' = From(i) /\ MoveTo(i)' = MoveTo(i)
    BY <1>1 DEF From, MoveTo
  <2>2. /\ MoveTo(i) \in DOMAIN ad.tracks
        /\ AboutTrack(op) => MoveTo(i) # op.path
    BY <2>1, MovesElsewhere
  <2>3. From(i) # new
    BY <2>1 DEF ToMove, From
  <2>4. MoveTo(i) # old
    BY <2>2
  <2>5. From(i) \in DOMAIN disk /\ disk'[From(i)] = disk[From(i)]
    BY <1>6, <2>1, <2>3
  <2>6. SameEntry(ad, MoveTo(i), ad', MoveTo(i))
    BY <2>2, <2>4 DEF OnlyMoves
  <2>7. Agrees(disk[From(i)], ad, MoveTo(i))
    BY <2>1, <2>5 DEF Truthful
  <2>. QED BY <2>1, <2>5, <2>6, <2>7, SameEntryFacts
<1>. QED BY <1>3, <1>4, <1>5, <1>6 DEF Truthful

\* A new value of the metadata is on record and queued for the file.
LEMMA UpdateIsTruthful ==
  ASSUME Truthful, Separate, AllKnown, TInv, IInv, NEW op \in plan, Update(op)
  PROVE  Truthful'
<1>1. /\ op.kind = "update" /\ AboutTrack(op) /\ nextMove' = nextMove /\ disk' = disk
      /\ ad' \in Adapters
  BY UpdateEffect DEF Update, Doing, AboutTrack
<1>2. /\ OnlyMoves(op.path, op.path) /\ Brought(op, op.path)
      /\ ad'.tracks[op.path].tag = ad.tracks[op.path].tag
      /\ Pending(ad', op.path).tag = Pending(ad, op.path).tag
      /\ ad'.pendingMoves = ad.pendingMoves
  BY UpdateRecorded
<1>3. op.path \in DOMAIN ad.tracks /\ source[op.song].meta # Keep /\ ~ToMove(op.path)
  BY <1>1, OperationFacts, AdapterAssumption, TrackStays
<1>4. Queued(ad, op.path) /\ (op.path \in DOMAIN disk => Agrees(disk[op.path], ad, op.path))
  BY <1>3 DEF Truthful
<1>5. Queued(ad', op.path) /\ (op.path \in DOMAIN disk' => Agrees(disk'[op.path], ad', op.path))
  BY <1>1, <1>2, <1>3, <1>4, BroughtAgrees
<1>. QED BY <1>1, <1>2, <1>3, <1>5, TruthKept

\* A new file is what its new entry says.
LEMMA AddIsTruthful ==
  ASSUME Truthful, Separate, AllKnown, TInv, IInv, NEW op \in plan, Add(op),
         ~ToMove(Target(op))
  PROVE  Truthful'
<1> DEFINE new == Target(op)
           file == Copy(op.song, source[op.song].meta)
<1>1. op.kind = "add" /\ ~AboutTrack(op) /\ nextMove' = nextMove /\ ad' \in Adapters
  BY AddEffect DEF Add, Doing, AboutTrack
<1>2. /\ new \notin DOMAIN ad.tracks /\ new.at = op.path.at /\ OnlyMoves(new, new)
      /\ ad'.tracks[new] = [song |-> op.song, meta |-> source[op.song].meta,
                            tag |-> "synced", managed |-> TRUE]
      /\ Pending(ad', new).meta = Keep /\ Pending(ad', new).tag = "synced"
      /\ ad'.pendingMoves = ad.pendingMoves
      /\ disk' = Put(disk, new, file)
  BY AddRecorded
<1> HIDE DEF new
<1>4. new \notin DOMAIN disk
  BY <1>2 DEF Truthful, new
<1>5. /\ DOMAIN disk' = (DOMAIN disk \ {new}) \cup {new} /\ disk'[new] = file
      /\ \A p \in DOMAIN disk' \ {new} : disk'[p] = disk[p]
  BY <1>2, <1>4 DEF Put
<1>6. Queued(ad', new) /\ Agrees(file, ad', new)
  BY <1>2 DEF Queued, Agrees, Copy, Keep
<1>7. ~ToMove(new)
  BY DEF new
<1> HIDE DEF file
<1>. QED BY <1>1, <1>2, <1>5, <1>6, <1>7, TruthKept

\* The new file is what the track's entry says, but for its tag, which is queued.
LEMMA UpgradeIsTruthful ==
  ASSUME Truthful, Separate, AllKnown, TInv, IInv, NEW op \in plan, Upgrade(op),
         ~ToMove(Target(op))
  PROVE  Truthful'
<1> DEFINE new == Target(op)
           file == Copy(op.song, source[op.song].meta)
<1>1. /\ op.kind = "upgrade" /\ AboutTrack(op) /\ nextMove' = nextMove /\ ad' \in Adapters
      /\ Target(op) = UpgradeTarget(op)
  BY UpgradeEffect DEF Upgrade, Doing, AboutTrack, Target
<1>2. /\ new = op.path \/ new \notin DOMAIN ad.tracks \cup DOMAIN disk
      /\ new.at = op.path.at /\ OnlyMoves(op.path, new) /\ Brought(op, new)
      /\ ad'.tracks[new].tag = "synced" /\ Pending(ad', new).tag = "synced"
      /\ ad'.pendingMoves = ad.pendingMoves
  BY UpgradeRecorded
<1>3. op.path \in DOMAIN ad.tracks /\ source[op.song].meta # Keep /\ ~ToMove(op.path)
  BY <1>1, OperationFacts, AdapterAssumption, TrackStays
<1>4. disk' = Put(IF new = op.path THEN disk ELSE Without(disk, op.path), new, file)
  BY <1>1 DEF Upgrade, Replaced
<1> HIDE DEF new
<1>5. /\ DOMAIN disk' = (DOMAIN disk \ {op.path}) \cup {new} /\ disk'[new] = file
      /\ \A p \in DOMAIN disk' \ {new} : disk'[p] = disk[p]
  BY <1>4 DEF Put, Without
<1>6. Queued(ad', new)
  BY <1>2, <1>3, BroughtAgrees DEF Truthful
<1>7. ad.tracks[op.path].song = op.song
  BY <1>1 DEF Separate
<1>8. Agrees(file, ad', new)
  BY <1>2, <1>7 DEF Brought, Agrees, Copy, Keep
<1>9. ~ToMove(new)
  BY DEF new
<1> HIDE DEF file
<1>. QED BY <1>9, <1>1, <1>2, <1>3, <1>5, <1>6, <1>8, TruthKept

\* The track moves at once on record, the file at the next save.
LEMMA RelocateIsTruthful ==
  ASSUME Truthful, Separate, AllKnown, TInv, IInv,
         NEW op \in plan, Relocate(op)
  PROVE  Truthful'
<1> DEFINE new == Target(op)
           last == Len(ad.pendingMoves) + 1
<1>1. /\ op.kind = "relocate" /\ AboutTrack(op) /\ nextMove' = nextMove
      /\ ad' \in Adapters /\ disk' = disk
  BY RelocateEffect DEF Relocate, Doing, AboutTrack
<1>2. /\ new \notin DOMAIN ad.tracks /\ new.at = source[op.song].at
      /\ OnlyMoves(op.path, new) /\ Brought(op, new)
      /\ ad'.tracks[new].tag = ad.tracks[op.path].tag
      /\ Pending(ad', new).tag = Pending(ad, op.path).tag
      /\ ad'.pendingMoves = Append(ad.pendingMoves, [from |-> op.path, to |-> new])
  BY RelocateRecorded
<1>3. op.path \in DOMAIN ad.tracks /\ source[op.song].meta # Keep /\ ~ToMove(op.path)
  BY <1>1, OperationFacts, AdapterAssumption, TrackStays
<1>4. /\ Len(ad.pendingMoves) \in Nat /\ nextMove \in 1..last
      /\ ad.pendingMoves \in Seq(Moves)
  BY MovesAreTyped DEF TInv, ProcessTyped, Adapters
<1> HIDE DEF new
<1>5. /\ Len(ad'.pendingMoves) = last
      /\ ad'.pendingMoves[last] = [from |-> op.path, to |-> new]
  <2> DEFINE q == ad.pendingMoves
             move == [from |-> op.path, to |-> new]
  <2>1. q \in Seq(Moves) /\ ad'.pendingMoves = Append(q, move)
    BY <1>2, <1>4
  <2> HIDE DEF q, move
  <2>2. Len(ad'.pendingMoves) = Len(q) + 1 /\ ad'.pendingMoves[Len(q) + 1] = move
    BY <2>1
  <2>. QED BY <2>2 DEF q, move
<1>6. ASSUME NEW i \in 1..Len(ad'.pendingMoves)
      PROVE  \/ /\ i \in 1..Len(ad.pendingMoves)
                /\ From(i)' = From(i) /\ MoveTo(i)' = MoveTo(i)
             \/ i = last /\ From(i)' = op.path /\ MoveTo(i)' = new
  <2>1. \/ i \in 1..Len(ad.pendingMoves) /\ ad'.pendingMoves[i] = ad.pendingMoves[i]
        \/ i = last /\ ad'.pendingMoves[i] = [from |-> op.path, to |-> new]
    BY DoingMoves DEF Execute, new
  <2>. QED BY <2>1 DEF From, MoveTo
<1>7. ASSUME NEW p, ToMove(p) PROVE ToMove(p)'
  <2>1. PICK i \in nextMove..Len(ad.pendingMoves) : From(i) = p
    BY <1>7 DEF ToMove, From
  <2>2. i \in 1..Len(ad.pendingMoves) /\ i # last
          /\ i \in nextMove'..Len(ad'.pendingMoves) /\ i \in 1..Len(ad'.pendingMoves)
    BY <1>1, <1>4, <1>5, <2>1 DEF last
  <2>3. From(i)' = p
    BY <1>6, <2>1, <2>2
  <2>. QED BY <2>2, <2>3 DEF ToMove, From
<1>8. /\ Queued(ad, op.path) /\ Queued(ad', new)
      /\ \A file : Agrees(file, ad, op.path) => Agrees(file, ad', new)
  BY <1>2, <1>3, BroughtAgrees DEF Truthful
<1>9. \A p \in DOMAIN ad'.tracks :
        p = new \/ (p \in DOMAIN ad.tracks /\ SameEntry(ad, p, ad', p))
  BY <1>2 DEF OnlyMoves
<1>10. ASSUME NEW p \in DOMAIN ad'.tracks PROVE Queued(ad', p)
  BY <1>8, <1>9, SameEntryFacts DEF Truthful
<1>11. ASSUME NEW p \in DOMAIN disk' PROVE p \in DOMAIN ad'.tracks \/ ToMove(p)'
  <2>1. CASE p = op.path
    <3>1. last \in nextMove'..Len(ad'.pendingMoves)
      BY <1>1, <1>4, <1>5 DEF last
    <3> HIDE DEF last
    <3>. QED BY <1>5, <2>1, <3>1 DEF ToMove
  <2>2. CASE p # op.path
    BY <1>1, <1>2, <1>7, <2>2 DEF Truthful, OnlyMoves
  <2>. QED BY <2>1, <2>2
<1>12. ASSUME NEW p \in DOMAIN ad'.tracks \cap DOMAIN disk', ~ToMove(p)'
       PROVE  Agrees(disk'[p], ad', p)
  <2>1. ~ToMove(p)
    BY <1>7, <1>12
  <2>2. p # new
    BY <1>1, <1>2, <1>12, <2>1 DEF Truthful
  <2>3. /\ p \in DOMAIN ad.tracks /\ SameEntry(ad, p, ad', p)
        /\ p \in DOMAIN disk /\ disk'[p] = disk[p]
    BY <1>1, <1>9, <1>12, <2>2
  <2>. QED BY <2>1, <2>3, SameEntryFacts DEF Truthful
<1>13. ASSUME NEW i \in nextMove'..Len(ad'.pendingMoves), From(i)' \in DOMAIN disk'
       PROVE  Agrees(disk'[From(i)'], ad', MoveTo(i)')
  <2>1. i \in 1..Len(ad'.pendingMoves) /\ i >= nextMove
    BY <1>1, <1>4, <1>5
  <2>2. CASE From(i)' = op.path /\ MoveTo(i)' = new
    <3>1. op.path \in DOMAIN disk /\ disk'[From(i)'] = disk[op.path]
      BY <1>1, <1>13, <2>2
    <3>2. Agrees(disk[op.path], ad, op.path)
      BY <1>3, <3>1 DEF Truthful
    <3>. QED BY <1>8, <2>2, <3>1, <3>2
  <2>3. CASE /\ i \in 1..Len(ad.pendingMoves)
             /\ From(i)' = From(i) /\ MoveTo(i)' = MoveTo(i)
    <3>1. i \in nextMove..Len(ad.pendingMoves)
      BY <1>4, <2>1, <2>3 DEF last
    <3>2. MoveTo(i) \in DOMAIN ad.tracks /\ MoveTo(i) # op.path
      BY <1>1, <2>3, MovesElsewhere
    <3>3. SameEntry(ad, MoveTo(i), ad', MoveTo(i))
      BY <1>2, <3>2 DEF OnlyMoves
    <3>4. Agrees(disk[From(i)], ad, MoveTo(i))
      BY <1>1, <1>13, <2>3, <3>1 DEF Truthful
    <3>. QED BY <1>1, <2>3, <3>3, <3>4, SameEntryFacts
  <2>. QED BY <1>6, <2>1, <2>2, <2>3
<1>. QED BY <1>10, <1>11, <1>12, <1>13 DEF Truthful

\* A removal takes one file and leaves everything on record as it is.
LEMMA RemoveIsTruthful ==
  ASSUME Truthful, TInv, NEW op \in plan, Remove(op)
  PROVE  Truthful'
<1>1. /\ ad' = ad /\ nextMove' = nextMove /\ DOMAIN disk' \subseteq DOMAIN disk
      /\ \A p \in DOMAIN disk' : disk'[p] = disk[p]
  BY RemoveEffect DEF Remove, Doing
<1>2. \A p : ToMove(p)' <=> ToMove(p)
  BY <1>1 DEF ToMove
<1>3. \A i : From(i)' = From(i) /\ MoveTo(i)' = MoveTo(i)
  BY <1>1 DEF From, MoveTo
<1>. QED BY <1>1, <1>2, <1>3 DEF Truthful

\* Once all moves are flushed, none is to come.
LEMMA NothingLeftToMove ==
  ASSUME nextMove \in Nat, Len(ad.pendingMoves) \in Nat, nextMove > Len(ad.pendingMoves)
  PROVE  \A p : ~ToMove(p)
BY DEF ToMove

\* A rename takes a file to where the entry is already; no file is in its way.
LEMMA FlushMoveIsTruthful ==
  ASSUME Truthful, Separate, AllKnown, TInv, FlushMove
  PROVE  Truthful'
<1> DEFINE n == nextMove
<1>1. /\ ad' = ad /\ nextMove' = nextMove + 1 /\ disk' = Renamed(disk, ad.pendingMoves[n])
      /\ n \in 1..Len(ad.pendingMoves) /\ Len(ad.pendingMoves) \in Nat /\ Running
  BY FlushMoveEffect, MovesAreTyped DEF FlushMove, Running, Saving, TInv, ProcessTyped
<1>2. \A i : From(i)' = From(i) /\ MoveTo(i)' = MoveTo(i)
  BY <1>1 DEF From, MoveTo
<1>3. MoveTo(n) \in DOMAIN ad.tracks
  BY <1>1 DEF AllKnown, Reserved, Listed, MoveTo
<1>4. \A i \in 1..Len(ad.pendingMoves) : i # n => From(i) # From(n)
  BY <1>1 DEF Separate
<1>5. \A i \in n..Len(ad.pendingMoves) : From(i) # MoveTo(n)
  BY <1>1 DEF Separate
<1>6. \/ From(n) \notin DOMAIN disk /\ disk' = disk
      \/ From(n) \in DOMAIN disk /\ disk' = Put(Without(disk, From(n)), MoveTo(n), disk[From(n)])
  BY <1>1 DEF Renamed, Rekey, From, MoveTo
<1>7. /\ From(n) \in DOMAIN disk => Agrees(disk[From(n)], ad, MoveTo(n))
      /\ ~ToMove(MoveTo(n))
  BY <1>1, <1>5 DEF Truthful, ToMove, From
<1>8. \A p \in DOMAIN disk' :
        \/ p \in DOMAIN disk /\ disk'[p] = disk[p] /\ p # From(n)
        \/ From(n) \in DOMAIN disk /\ p = MoveTo(n) /\ disk'[p] = disk[From(n)]
  BY <1>6 DEF Put, Without
<1> HIDE DEF n
<1>9. ASSUME NEW p \in DOMAIN disk' PROVE p \in DOMAIN ad.tracks \/ ToMove(p)'
  <2>1. CASE p = MoveTo(n)
    BY <1>3, <2>1
  <2>2. CASE p # MoveTo(n)
    <3>1. p # ad.pendingMoves[nextMove].to
      BY <2>2 DEF MoveTo, n
    <3>2. p \in DOMAIN disk /\ (ToMove(p) => ToMove(p)')
      BY <1>9, <3>1, FlushMoveEffect
    <3>. QED BY <3>2 DEF Truthful
  <2>. QED BY <2>1, <2>2
<1>10. ASSUME NEW p \in DOMAIN ad.tracks \cap DOMAIN disk', ~ToMove(p)'
       PROVE  Agrees(disk'[p], ad, p)
  <2>1. CASE From(n) \in DOMAIN disk /\ p = MoveTo(n) /\ disk'[p] = disk[From(n)]
    BY <1>7, <2>1
  <2>2. CASE p \in DOMAIN disk /\ disk'[p] = disk[p] /\ p # From(n)
    <3>1. ~ToMove(p)
      <4>1. ASSUME NEW i \in nextMove..Len(ad.pendingMoves), From(i) = p PROVE FALSE
        <5>1. i # n
          BY <2>2, <4>1
        <5>2. i \in nextMove'..Len(ad'.pendingMoves)
          BY <1>1, <5>1 DEF n
        <5>. QED BY <1>2, <1>10, <4>1, <5>2 DEF ToMove, From
      <4>. QED BY <4>1 DEF ToMove, From
    <3>. QED BY <2>2, <3>1 DEF Truthful
  <2>. QED BY <1>8, <2>1, <2>2
<1>11. ASSUME NEW i \in nextMove'..Len(ad'.pendingMoves), From(i) \in DOMAIN disk'
       PROVE  Agrees(disk'[From(i)], ad, MoveTo(i))
  <2>1. i \in 1..Len(ad.pendingMoves) /\ i # n /\ i \in nextMove..Len(ad.pendingMoves)
    BY <1>1 DEF n
  <2>2. From(i) \in DOMAIN disk /\ disk'[From(i)] = disk[From(i)]
    BY <1>4, <1>5, <1>8, <1>11, <2>1 DEF n
  <2>. QED BY <2>1, <2>2 DEF Truthful
<1>. QED BY <1>1, <1>2, <1>9, <1>10, <1>11 DEF Truthful

\* At the end of the renames every file is at the path of its entry.
LEMMA FlushMovesEndIsTruthful ==
  ASSUME Truthful, TInv, FlushMovesEnd
  PROVE  Truthful'
<1>1. /\ disk' = disk /\ nextMove' = 1 /\ ad' = [ad EXCEPT !.pendingMoves = <<>>]
      /\ nextMove > Len(ad.pendingMoves) /\ Len(ad.pendingMoves) \in Nat /\ nextMove \in Nat
  BY MovesAreTyped DEF FlushMovesEnd, Stage, device, TInv, ProcessTyped
<1>2. /\ ad'.tracks = ad.tracks /\ ad'.pendingTagWrites = ad.pendingTagWrites
      /\ ad'.pendingMoves = <<>>
  BY <1>1 DEF TInv, ProcessTyped, Adapters
<1>3. nextMove'..Len(ad'.pendingMoves) = {}
  BY <1>1, <1>2
<1>4. \A p : SameEntry(ad, p, ad', p)
  BY <1>2 DEF SameEntry, Pending
<1>5. \A p : ~ToMove(p)
  BY <1>1, NothingLeftToMove
<1>. QED BY <1>1, <1>2, <1>3, <1>4, <1>5, SameEntryFacts DEF Truthful

\* Every file gets what is to be written to it, and then nothing is.
LEMMA FlushTagsIsTruthful ==
  ASSUME Truthful, TInv, ad.pendingMoves = <<>>, nextMove = 1, FlushTags, ~failed'
  PROVE  Truthful' /\ DOMAIN ad'.pendingTagWrites = {}
<1> DEFINE written == DOMAIN ad.pendingTagWrites \cap DOMAIN disk
<1>1. /\ Untaggable = {} /\ nextMove' = nextMove /\ disk' = Tagged(written)
      /\ ad' = [ad EXCEPT !.pendingTagWrites = NoEntries]
  BY DEF FlushTags, SaveThrows
<1>2. /\ ad'.tracks = ad.tracks /\ ad'.pendingTagWrites = NoEntries
      /\ ad'.pendingMoves = ad.pendingMoves
  BY <1>1 DEF TInv, ProcessTyped, Adapters
<1>3. DOMAIN ad'.pendingTagWrites = {}
  BY <1>2 DEF NoEntries
<1>4. \A p : Pending(ad', p) = [meta |-> Keep, tag |-> Keep]
  BY <1>3 DEF Pending
<1>5. nextMove..Len(ad.pendingMoves) = {}
  OBVIOUS
<1>6. DOMAIN disk' = DOMAIN disk
  BY <1>1, TagsKeepOwner
<1>7. ASSUME NEW p \in DOMAIN ad.tracks \cap DOMAIN disk PROVE Agrees(disk'[p], ad', p)
  <2>1. Agrees(disk[p], ad, p) /\ Queued(ad, p)
    BY <1>5 DEF Truthful, ToMove
  <2>2. disk[p] \in Files /\ disk'[p].song = disk[p].song
    BY <1>1, TagsKeepOwner, MapFacts DEF TInv, DeviceTyped
  <2>3. /\ disk'[p].meta = IF Pending(ad, p).meta = Keep THEN disk[p].meta ELSE Pending(ad, p).meta
        /\ disk'[p].tag = IF Pending(ad, p).tag = Keep THEN disk[p].tag ELSE Pending(ad, p).tag
    <3>1. CASE p \notin written
      <4>1. p \notin DOMAIN ad.pendingTagWrites
        BY <3>1
      <4>2. disk'[p] = disk[p]
        BY <1>1, <3>1 DEF Tagged
      <4>. QED BY <4>1, <4>2 DEF Pending
    <3>2. CASE p \in written
      <4> DEFINE fields == ad.pendingTagWrites[p]
                 meta == IF fields.meta = Keep THEN disk[p].meta ELSE fields.meta
                 tag == IF fields.tag = Keep THEN disk[p].tag ELSE fields.tag
      <4>1. disk'[p] = [disk[p] EXCEPT !.meta = meta, !.tag = tag]
        BY <1>1, <3>2 DEF Tagged
      <4>2. Pending(ad, p) = fields
        BY <3>2 DEF Pending
      <4> HIDE DEF meta, tag
      <4>3. disk'[p].meta = meta /\ disk'[p].tag = tag
        BY <2>2, <4>1 DEF Files
      <4>. QED BY <4>2, <4>3 DEF meta, tag
    <3>. QED BY <3>1, <3>2
  <2>. QED BY <1>2, <2>1, <2>2, <2>3 DEF Agrees, Queued
<1>8. \A p : ToMove(p) => ToMove(p)'
  BY <1>1, <1>2 DEF ToMove
<1>9. \A p \in DOMAIN ad'.tracks : Queued(ad', p)
  BY <1>4 DEF Queued
<1>. QED BY <1>1, <1>2, <1>3, <1>5, <1>6, <1>7, <1>8, <1>9 DEF Truthful

\* The other stages are about covers and the manifest.
LEMMA OthersAreTruthful ==
  ASSUME Truthful, TInv, ~failed', Running',
         FlushSidecarWrites \/ FlushSidecarDeletes \/ WriteManifest \/ FinalSave
  PROVE  Truthful' /\ ad'.pendingTagWrites = ad.pendingTagWrites
<1>1. /\ disk' = disk /\ nextMove' = nextMove
      /\ \E dirs : ad' \in {ad, [ad EXCEPT !.pendingSidecarWrites = {}],
                            [ad EXCEPT !.pendingSidecarDeletes = {}, !.managedCovers = @ \ dirs]}
  <2>1. phase' # "closed"
    BY DEF Running, Saving
  <2>2. WriteManifest => ad' = ad
    BY <2>1 DEF WriteManifest
  <2>. QED BY <2>2 DEF FlushSidecarWrites, FlushSidecarDeletes, WriteManifest, FinalSave, device
<1>2. /\ ad'.tracks = ad.tracks /\ ad'.pendingTagWrites = ad.pendingTagWrites
      /\ ad'.pendingMoves = ad.pendingMoves
  BY <1>1 DEF TInv, ProcessTyped, Adapters
<1>3. \A p : SameEntry(ad, p, ad', p) /\ (ToMove(p) <=> ToMove(p)')
  BY <1>1, <1>2 DEF SameEntry, Pending, ToMove
<1>4. \A i : From(i)' = From(i) /\ MoveTo(i)' = MoveTo(i)
  BY <1>2 DEF From, MoveTo
<1>. QED BY <1>1, <1>2, <1>3, <1>4, SameEntryFacts DEF Truthful

\* The adapter opens the device: nothing is to be written or moved.
LEMMA StartIsTruthful ==
  ASSUME OpenIsFresh, TInv, Start
  PROVE  Truthful'
<1>1. /\ ad' = ad /\ disk' = disk /\ DOMAIN ad.tracks = DOMAIN disk
      /\ DOMAIN ad.pendingTagWrites = {} /\ ad.pendingMoves = <<>>
      /\ \A p \in DOMAIN disk :
           /\ ad.tracks[p].song = disk[p].song /\ ad.tracks[p].meta = disk[p].meta
           /\ ad.tracks[p].tag = disk[p].tag
  BY FreshFacts
<1>2. nextMove' = nextMove
  BY DEF Start
<1>3. \A p : Pending(ad, p) = [meta |-> Keep, tag |-> Keep]
  BY <1>1 DEF Pending
<1>4. \A p \in DOMAIN ad.tracks : Queued(ad, p)
  BY <1>3 DEF Queued
<1>5. \A p \in DOMAIN disk : Agrees(disk[p], ad, p)
  BY <1>1 DEF Agrees
<1>6. nextMove = 1
  BY DEF Start, TInv, ProcessTyped
<1>7. nextMove'..Len(ad'.pendingMoves) = {}
  BY <1>1, <1>2, <1>6
<1>. QED BY <1>1, <1>4, <1>5, <1>7 DEF Truthful

\* A new file that is put where another one waits to be moved.
LEMMA DoomBegins ==
  ASSUME Separate, AllKnown, TInv, IInv, NEW op \in plan, Add(op) \/ Upgrade(op),
         ToMove(Target(op))
  PROVE  \E p : Doomed(p)'
<1>1. PICK new : new = Target(op)
  OBVIOUS
<1>2. /\ nextMove' = nextMove /\ plan' \subseteq plan /\ op \in Ready
      /\ op.kind \in {"add", "upgrade"}
  BY DEF Add, Upgrade, Doing
<1>3. AboutTrack(op) => new # op.path
  BY <1>1, TrackStays
<1>4. /\ new \notin DOMAIN ad.tracks /\ ad'.pendingMoves = ad.pendingMoves
      /\ Pending(ad', new).tag = "synced"
  <2>1. CASE Add(op)
    BY <1>1, <2>1, AddRecorded
  <2>2. CASE Upgrade(op)
    <3>1. AboutTrack(op)
      BY <2>2 DEF Upgrade, Doing, AboutTrack
    <3>. QED BY <1>1, <1>3, <2>2, <3>1, UpgradeRecorded
  <2>. QED BY <2>1, <2>2
<1>5. new \in DOMAIN ad'.pendingTagWrites
  BY <1>4 DEF Pending, Keep
<1>6. ASSUME NEW o \in plan'
      PROVE  o.kind \in {"add", "upgrade"} /\ (AboutTrack(o) => o.path # new)
  <2>1. o \in plan /\ OpTyped(o) /\ Priority(op) <= Priority(o)
    BY <1>2, <1>6 DEF Ready, TInv, ProcessTyped
  <2>2. o.kind \in {"add", "upgrade"}
    BY <1>2, <2>1 DEF Priority, OpTyped
  <2>. QED BY <1>4, <2>1, <2>2, OperationFacts
<1>7. \A i \in 1..Len(ad.pendingMoves) : MoveTo(i) # new
  BY <1>4, MovesElsewhere
<1>8. ToMove(new)' /\ \A i : MoveTo(i)' = MoveTo(i)
  BY <1>1, <1>2, <1>4 DEF ToMove, MoveTo
<1>. QED BY <1>4, <1>5, <1>6, <1>7, <1>8 DEF Doomed, AboutTrack

\* What is doomed stays so, whatever the operations to come are.
LEMMA DoingStaysDoomed ==
  ASSUME TInv, IInv, NEW op \in plan, Execute(op), NEW p, Doomed(p)
  PROVE  Doomed(p)'
<1>1. phase = "executing" /\ nextMove' = nextMove /\ plan' \subseteq plan
  BY DEF Execute, Remove, Update, Relocate, Add, Upgrade, Doing
<1>2. p \in DOMAIN ad.tracks
  BY DEF Doomed, IInv, Sound, Balanced
<1>3. Add(op) \/ Upgrade(op)
  BY DEF Doomed, Execute, Remove, Update, Relocate, Doing
<1>4. ad'.pendingMoves = ad.pendingMoves /\ SameEntry(ad, p, ad', p)
  <2>1. CASE Add(op)
    BY <1>2, <2>1, AddRecorded DEF OnlyMoves
  <2>2. CASE Upgrade(op)
    <3>1. op.path # p
      BY <2>2 DEF Doomed, Upgrade, Doing, AboutTrack
    <3>. QED BY <1>2, <2>2, <3>1, UpgradeRecorded DEF OnlyMoves
  <2>. QED BY <1>3, <2>1, <2>2
<1>5. ToMove(p)' /\ \A i : MoveTo(i)' = MoveTo(i)
  BY <1>1, <1>4 DEF Doomed, ToMove, MoveTo
<1>. QED BY <1>1, <1>4, <1>5 DEF Doomed, SameEntry, AboutTrack

\* An operation that is done without an error.
LEMMA DoingKeepsSInv ==
  ASSUME TInv, IInv, NInv, GInv, SInv, NEW op \in plan, Execute(op), ~failed'
  PROVE  SInv'
<1>1. phase = "executing" /\ ~failed /\ phase' \in {"executing", "moves"}
  BY DEF Execute, Remove, Update, Relocate, Add, Upgrade, Doing
<1>2. Separate /\ AllKnown /\ (Truthful \/ \E p : Doomed(p))
  BY <1>1 DEF SInv, GInv, NInv, Running
<1>3. CASE Truthful
  <2>1. Truthful' \/ \E p : Doomed(p)'
    <3>1. CASE (Add(op) \/ Upgrade(op)) /\ ToMove(Target(op))
      BY <1>2, <3>1, DoomBegins
    <3>2. CASE ~((Add(op) \/ Upgrade(op)) /\ ToMove(Target(op)))
      BY <1>2, <1>3, <3>2, RemoveIsTruthful, UpdateIsTruthful, RelocateIsTruthful,
         AddIsTruthful, UpgradeIsTruthful DEF Execute
    <3>. QED BY <3>1, <3>2
  <2>. QED BY <1>1, <2>1 DEF SInv
<1>4. ASSUME NEW p, Doomed(p) PROVE SInv'
  <2>1. Doomed(p)'
    BY <1>4, DoingStaysDoomed
  <2>. QED BY <1>1, <2>1 DEF SInv
<1>. QED BY <1>2, <1>3, <1>4

\* What is doomed stays so until the tags are written, which fails.
LEMMA SavingStaysDoomed ==
  ASSUME CInv, TInv, Running, Save \/ FinalSave, Running', ~failed', NEW p, Doomed(p),
         phase \in {"sidecars", "drops", "manifest"} => DOMAIN ad.pendingTagWrites = {}
  PROVE  Doomed(p)' /\ phase' \in {"moves", "tags"}
<1>1. nextMove \in Nat /\ Len(ad.pendingMoves) \in Nat
  BY MovesAreTyped DEF TInv, ProcessTyped
<1>2. CASE FlushMove
  <2> DEFINE n == nextMove
  <2>1. /\ phase = "moves" /\ phase' = phase /\ plan' = plan /\ ad' = ad /\ n' = n + 1
        /\ disk' = Renamed(disk, ad.pendingMoves[n]) /\ n \in 1..Len(ad.pendingMoves)
    BY <1>2, FlushMoveEffect DEF FlushMove
  <2>2. MoveTo(n) # p /\ MoveTo(n) = ad.pendingMoves[n].to
    BY <2>1 DEF Doomed, MoveTo
  <2>3. p \in DOMAIN disk' => p \in DOMAIN disk /\ p # ad.pendingMoves[n].from
    BY <2>1, <2>2 DEF Renamed, Rekey, Put, Without
  <2>4. ToMove(p) /\ p # ad.pendingMoves[n].from => ToMove(p)'
    <3>1. ASSUME NEW i \in nextMove..Len(ad.pendingMoves), ad.pendingMoves[i].from = p,
                 p # ad.pendingMoves[n].from
          PROVE  i \in nextMove'..Len(ad'.pendingMoves) /\ ad'.pendingMoves[i].from = p
      <4>1. i # n
        BY <3>1
      <4>. QED BY <1>1, <2>1, <3>1, <4>1
    <3>. QED BY <3>1 DEF ToMove
  <2>5. \A i : MoveTo(i)' = MoveTo(i)
    BY <2>1 DEF MoveTo
  <2>. QED BY <2>1, <2>3, <2>4, <2>5 DEF Doomed, AboutTrack
<1>3. CASE FlushMovesEnd
  <2>1. /\ phase = "moves" /\ phase' = "tags" /\ plan' = plan /\ disk' = disk
        /\ nextMove > Len(ad.pendingMoves) /\ ad' = [ad EXCEPT !.pendingMoves = <<>>]
    BY <1>3 DEF FlushMovesEnd, Stage, device
  <2>2. ad'.pendingTagWrites = ad.pendingTagWrites /\ ad'.pendingMoves = <<>>
    BY <2>1 DEF TInv, ProcessTyped, Adapters
  <2>3. p \notin DOMAIN disk
    BY <1>1, <2>1, NothingLeftToMove DEF Doomed
  <2>4. 1..Len(ad'.pendingMoves) = {}
    BY <2>2
  <2>. QED BY <2>1, <2>2, <2>3, <2>4 DEF Doomed, AboutTrack
<1>4. ~FlushTags
  <2> SUFFICES ASSUME FlushTags PROVE FALSE
    OBVIOUS
  <2>1. ad.pendingMoves = <<>> /\ nextMove = 1 /\ Untaggable = {}
    BY DEF FlushTags, SaveThrows, CInv, Saving, TInv, ProcessTyped
  <2>2. nextMove..Len(ad.pendingMoves) = {}
    BY <2>1
  <2>3. p \in Untaggable
    BY <2>2 DEF Doomed, ToMove, Untaggable
  <2>. QED BY <2>1, <2>3
<1>5. ~FlushSidecarWrites /\ ~FlushSidecarDeletes /\ ~WriteManifest
  BY DEF FlushSidecarWrites, FlushSidecarDeletes, WriteManifest, Stage, Doomed
<1>6. CASE FinalSave
  <2>1. /\ phase' = "moves" /\ plan' = plan /\ disk' = disk /\ ad' = ad
        /\ nextMove' = nextMove /\ phase = "executing"
    BY <1>6 DEF FinalSave, device
  <2>2. ToMove(p)' /\ \A i : MoveTo(i)' = MoveTo(i)
    BY <2>1 DEF Doomed, ToMove, MoveTo
  <2>. QED BY <2>1, <2>2 DEF Doomed, AboutTrack
<1>. QED BY <1>2, <1>3, <1>4, <1>5, <1>6 DEF Save

\* A stage of a save that goes well.
LEMMA SavingKeepsSInv ==
  ASSUME TInv, CInv, NInv, GInv, SInv,
         Save \/ FinalSave, Running', ~failed'
  PROVE  SInv'
<1>1. Running
  BY DEF Save, FlushMove, FlushMovesEnd, FlushTags, FlushSidecarWrites, FlushSidecarDeletes,
         WriteManifest, FinalSave, Stage, Running, Saving
<1>2. ~failed
  BY DEF Save, FlushMove, FlushMovesEnd, FlushTags, FlushSidecarWrites, FlushSidecarDeletes,
         WriteManifest, FinalSave, Stage, SaveThrows
<1>3. /\ Truthful \/ (\E p : Doomed(p))
      /\ Separate /\ AllKnown
      /\ phase \in {"sidecars", "drops", "manifest"} => DOMAIN ad.pendingTagWrites = {}
  BY <1>1, <1>2 DEF SInv, GInv, NInv
<1>4. CASE Truthful /\ FlushMove
  <2>1. phase' = "moves"
    BY <1>4 DEF FlushMove
  <2>. QED BY <1>3, <1>4, <2>1, FlushMoveIsTruthful DEF SInv
<1>5. CASE Truthful /\ FlushMovesEnd
  <2>1. phase' = "tags"
    BY <1>5 DEF FlushMovesEnd, Stage
  <2>. QED BY <1>3, <1>5, <2>1, FlushMovesEndIsTruthful DEF SInv
<1>6. CASE Truthful /\ FlushTags
  <2>1. ad.pendingMoves = <<>> /\ nextMove = 1
    BY <1>1, <1>6 DEF FlushTags, CInv, Saving, TInv, ProcessTyped
  <2>. QED BY <1>3, <1>6, <2>1, FlushTagsIsTruthful DEF SInv
<1>7. CASE /\ Truthful
           /\ (FlushSidecarWrites \/ FlushSidecarDeletes \/ WriteManifest \/ FinalSave)
  <2>1. Truthful' /\ ad'.pendingTagWrites = ad.pendingTagWrites
    BY <1>3, <1>7, OthersAreTruthful
  <2>2. phase' \in {"sidecars", "drops", "manifest"} =>
          phase \in {"sidecars", "drops", "manifest"}
    BY <1>7 DEF FlushSidecarWrites, FlushSidecarDeletes, WriteManifest, FinalSave, Stage
  <2>. QED BY <1>3, <2>1, <2>2 DEF SInv
<1>8. ASSUME NEW p, Doomed(p) PROVE SInv'
  <2>1. Doomed(p)' /\ phase' \in {"moves", "tags"}
    BY <1>1, <1>3, <1>8, SavingStaysDoomed
  <2>. QED BY <2>1 DEF SInv
<1>. QED BY <1>3, <1>4, <1>5, <1>6, <1>7, <1>8 DEF Save

\* While nothing goes wrong, the device and the record agree but for what is queued.
LEMMA NextSInv ==
  OpenIsFresh /\ TInv /\ IInv /\ CInv /\ NInv /\ GInv /\ SInv /\ [Next]_vars => SInv'
<1> SUFFICES ASSUME OpenIsFresh, TInv, IInv, CInv, NInv, GInv, SInv,
                    [Next]_vars, Running', ~failed'
             PROVE  SInv'
  BY DEF SInv
<1>1. CASE Start
  <2>1. phase' = "executing"
    BY <1>1 DEF Start
  <2>. QED BY <1>1, <2>1, StartIsTruthful DEF SInv
<1>2. \A op \in plan : Execute(op) => SInv'
  BY DoingKeepsSInv
<1>3. CASE Save \/ FinalSave
  BY <1>3, SavingKeepsSInv
<1>4. CASE UNCHANGED vars
  BY <1>4 DEF SInv, Running, Truthful, Doomed, AboutTrack, ToMove, From, MoveTo, vars, device,
              process
<1>5. /\ ~SaveFails /\ ~Interrupt
      /\ \A op \in plan : ~AddFails(op) /\ ~UpgradeLeavesOld(op)
  BY DEF SaveFails, FlushMoveFails, FlushTagsFails, FlushSidecarWritesFails,
         FlushSidecarDeletesFails, WriteManifestFails, SaveThrows, Interrupt, AddFails,
         UpgradeLeavesOld
<1>6. ~Open /\ ~Settle /\ ~Refuse /\ ~Crash /\ ~Change
  BY DEF Open, Settle, Refuse, Crash, Change, Running, Saving
<1>. QED BY <1>1, <1>2, <1>3, <1>4, <1>5, <1>6 DEF Next, Run, Trouble

\* A complete save in which nothing has gone wrong leaves on the device what the
\* adapter has in memory (MassStorageAdapter.save), for any layouts: a file that is
\* moved in place of another one makes the save fail before it writes the manifest.
THEOREM SavesLand == Spec => SaveLands
<1> DEFINE Invs == OpenIsFresh /\ CInv /\ NInv /\ GInv /\ SInv
<1>1. Init => Invs
  BY DEF Init, OpenIsFresh, CInv, NInv, GInv, SInv, Running, Saving
<1>2. Invs /\ TInv /\ IInv /\ [Next]_vars => Invs'
  BY FreshStep, NextCInv, NextNInv, NextGInv, NextSInv
<1>3. Invs /\ TInv /\ [Next]_vars =>
        [WriteManifest /\ ~failed =>
           \A p \in DOMAIN ad.tracks \cap DOMAIN disk :
             /\ disk[p].song = ad.tracks[p].song
             /\ disk[p].meta = ad.tracks[p].meta
             /\ disk[p].tag = ad.tracks[p].tag]_vars
  <2> SUFFICES ASSUME TInv, CInv, SInv, WriteManifest, ~failed,
                      NEW p \in DOMAIN ad.tracks \cap DOMAIN disk
               PROVE  /\ disk[p].song = ad.tracks[p].song
                      /\ disk[p].meta = ad.tracks[p].meta
                      /\ disk[p].tag = ad.tracks[p].tag
    OBVIOUS
  <2>1. phase = "manifest" /\ Running /\ DOMAIN ad.pendingTagWrites = {} /\ Truthful
    BY DEF SInv, Doomed, WriteManifest, Running, Saving
  <2>2. ad.pendingMoves = <<>> /\ nextMove = 1
    BY <2>1 DEF CInv, Saving, TInv, ProcessTyped
  <2>3. nextMove..Len(ad.pendingMoves) = {}
    BY <2>2
  <2>4. Agrees(disk[p], ad, p)
    BY <2>1, <2>3 DEF Truthful, ToMove
  <2>5. Pending(ad, p) = [meta |-> Keep, tag |-> Keep]
    BY <2>1 DEF Pending
  <2>. QED BY <2>4, <2>5 DEF Agrees
<1> HIDE DEF Invs
<1>. QED BY <1>1, <1>2, <1>3, TInvHolds, IInvHolds, PTL
         DEF Spec, SaveLands


-----------------------------------------------------------------------------
(* Coming to rest. What a sync of a tidy device leaves for the next one.   *)

\* Every song has one track of podkit's, at one of its own places, and the places
\* that wanted songs are to have are podkit's.
TracksApart ==
  /\ \A p, q \in Own(ad) : ad.tracks[p].song = ad.tracks[q].song => p = q
  /\ \A p \in Own(ad), q \in DOMAIN ad.tracks :
       ad.tracks[p].song = ad.tracks[q].song /\ ad.tracks[p].song \notin Wanted => p = q
  /\ DOMAIN ad.tracks \cap ad.managedFiles \subseteq Own(ad)
  /\ \A p \in Own(ad) : /\ ad.tracks[p].song \in Songs
                        /\ p.at \in Layouts[ad.tracks[p].song]
  /\ \A s \in Wanted, p \in DOMAIN ad.tracks : p.at = source[s].at => p \in Own(ad)
  /\ \A i \in 1..Len(ad.pendingMoves) : ad.tracks[MoveTo(i)].song \in Wanted

\* No file is on the device that the adapter does not know of.
OnRecord == \A p \in DOMAIN disk : p \in DOMAIN ad.tracks \/ ToMove(p)

\* The rest of the plan still is what a diff would make of its songs. When the files
\* are those of an earlier sync, none has both a new form and a new place to get.
PlanFits ==
  /\ \A op, o \in plan :
       op.kind # "remove" /\ o.kind # "remove" /\ op.song = o.song => op = o
  /\ \A op \in plan : op.kind = "add" =>
       /\ op.path = Home(op.song, source[op.song].ext)
       /\ \A p \in Own(ad) : ad.tracks[p].song # op.song
  /\ \A op \in plan : op.kind \in {"update", "relocate"} =>
       /\ ~LacksCover(op.song, op.path)
       /\ Misplaced(op.song, op.path) <=> op.kind = "relocate"
       /\ quiet >= 2 => ~OtherCodec(op.song, op.path)
  /\ \A op \in plan : op.kind = "remove" => op.song \notin Wanted /\ ad.pendingMoves = <<>>
  /\ quiet >= 2 => \A op \in plan : op.kind = "upgrade" => ~Misplaced(op.song, op.path)

\* The track of a song is as the collection has it, but that after a first sync it may
\* have a new form or a new place still to get, and not both.
Right(s, p) ==
  /\ p \in Own(ad) /\ ad.tracks[p].song = s /\ ad.tracks[p].meta = source[s].meta
  /\ ~LacksCover(s, p)
  /\ ~OtherCodec(s, p) \/ ~Misplaced(s, p)
  /\ quiet >= 2 => ~OtherCodec(s, p) /\ ~Misplaced(s, p)

\* The track's file is there or is to be moved there.
Present(p) ==
  \/ p \in DOMAIN disk
  \/ \E i \in nextMove..Len(ad.pendingMoves) : MoveTo(i) = p /\ From(i) \in DOMAIN disk

PlannedFor(s) == \E op \in plan : op.kind # "remove" /\ op.song = s

ToRemove(s) == \E op \in plan : op.kind = "remove" /\ op.song = s

\* Every wanted song has its track or will have it, and with --delete no other song.
OnItsWay ==
  /\ \A s \in Wanted : PlannedFor(s) \/ \E p \in DOMAIN ad.tracks : Right(s, p)
  /\ Delete => \A p \in Own(ad) \cap DOMAIN disk :
                 ad.tracks[p].song \in Wanted \/ ToRemove(ad.tracks[p].song)
  /\ \A p \in Own(ad) : ad.tracks[p].song \in Wanted => Present(p)

PInv ==
  Running /\ ~failed /\ quiet >= 1 => TracksApart /\ OnRecord /\ PlanFits /\ OnItsWay

\* A listed file that needs neither new tags nor a cover.
UpToDate(s, p) ==
  /\ p \in manifest.files /\ disk[p].song = s /\ disk[p].meta = source[s].meta
  /\ disk[p].tag = "none" => ~Sidecar

\* It need not be replaced; it need not be moved.
RightForm(s, p) == disk[p].tag = "none" \/ p.ext = source[s].ext
RightPlace(s, p) == p = Home(s, p.ext)

\* What one sync achieves, and what two do.
OnceSynced ==
  /\ \A s \in Wanted : \E p \in DOMAIN disk :
       UpToDate(s, p) /\ (RightForm(s, p) \/ RightPlace(s, p))
  /\ Delete => \A p \in DOMAIN disk \cap manifest.files : disk[p].song \in Wanted

TwiceSynced ==
  /\ OnceSynced
  /\ \A s \in Wanted : \E p \in DOMAIN disk :
       UpToDate(s, p) /\ RightForm(s, p) /\ RightPlace(s, p)

DInv ==
  /\ phase \in Idle => (quiet >= 1 => OnceSynced) /\ (quiet >= 2 => TwiceSynced)
  /\ phase = "open" => /\ quiet >= 1 => Tidy
                       /\ quiet >= 2 => OnceSynced
                       /\ quiet >= 3 => TwiceSynced

\* The adapter that was just opened has on record what is on the device.
LEMMA OpenFacts ==
  ASSUME OpenIsFresh, phase = "open"
  PROVE  /\ DOMAIN ad.tracks = DOMAIN disk /\ ad.managedFiles = manifest.files
         /\ ad.allocatedPaths = DOMAIN disk
         /\ ad.pendingMoves = <<>>
         /\ \A p \in DOMAIN disk :
              /\ ad.tracks[p].song = disk[p].song /\ ad.tracks[p].meta = disk[p].meta
              /\ ad.tracks[p].tag = disk[p].tag
         /\ Own(ad) = DOMAIN disk \cap manifest.files
         /\ DeviceItems = DOMAIN disk \cap manifest.files
<1>1. ad = OpenedAdapter(disk, manifest)
  BY DEF OpenIsFresh
<1>2. /\ ad.managedFiles = manifest.files /\ ad.allocatedPaths = DOMAIN disk
      /\ ad.pendingMoves = <<>> /\ DOMAIN ad.tracks = DOMAIN disk
  BY <1>1 DEF OpenedAdapter, ClosedAdapter
<1>3. \A p \in DOMAIN disk :
        /\ ad.tracks[p].song = disk[p].song /\ ad.tracks[p].meta = disk[p].meta
        /\ ad.tracks[p].tag = disk[p].tag
        /\ ad.tracks[p].managed <=> p \in manifest.files
  BY <1>1 DEF OpenedAdapter, ClosedAdapter
<1>4. Own(ad) = DOMAIN disk \cap manifest.files /\ DeviceItems = DOMAIN disk \cap manifest.files
  BY <1>2, <1>3 DEF Own, DeviceItems
<1>. QED BY <1>2, <1>3, <1>4

\* On a tidy device a song has one listed file, which is the one the differ keeps.
LEMMA KeptIsOnly ==
  ASSUME OpenIsFresh, phase = "open", Tidy, NEW kept \in Matchings
  PROVE  /\ \A s \in Matched : kept[s] \in DOMAIN disk \cap manifest.files /\ disk[kept[s]].song = s
         /\ \A p \in DOMAIN disk \cap manifest.files, q \in DOMAIN disk :
              disk[p].song = disk[q].song => p = q
         /\ \A s \in Wanted, p \in DOMAIN disk \cap manifest.files :
              disk[p].song = s => s \in Matched /\ p = kept[s]
<1>1. /\ \A p \in DOMAIN disk : ad.tracks[p].song = disk[p].song
      /\ DeviceItems = DOMAIN disk \cap manifest.files
  BY OpenFacts
<1>2. \A s : ItemsOf(s) = {p \in DOMAIN disk \cap manifest.files : disk[p].song = s}
  BY <1>1 DEF ItemsOf
<1>3. \A s \in Matched : kept[s] \in ItemsOf(s)
  BY DEF Matchings
<1>4. \A p \in DOMAIN disk \cap manifest.files, q \in DOMAIN disk :
        disk[p].song = disk[q].song => p = q
  BY DEF Tidy
<1>5. ASSUME NEW s \in Wanted, NEW p \in DOMAIN disk \cap manifest.files, disk[p].song = s
      PROVE  s \in Matched /\ p = kept[s]
  <2>1. s \in Matched
    BY <1>2, <1>5 DEF Matched
  <2>. QED BY <1>2, <1>3, <1>4, <1>5, <2>1
<1>. QED BY <1>2, <1>3, <1>4, <1>5

\* The tracks of a tidy device.
LEMMA StartIsApart ==
  ASSUME OpenIsFresh, TInv, FInv, HInv, Tidy, Start
  PROVE  TracksApart'
<1>1. /\ ad' = ad /\ disk' = disk /\ source' = source /\ phase = "open"
  BY FreshFacts
<1>2. /\ DOMAIN ad.tracks = DOMAIN disk /\ ad.managedFiles = manifest.files
      /\ \A p \in DOMAIN disk : ad.tracks[p].song = disk[p].song
      /\ Own(ad) = DOMAIN disk \cap manifest.files
      /\ 1..Len(ad.pendingMoves) = {}
  BY <1>1, OpenFacts
<1>3. \A p \in Own(ad), q \in DOMAIN ad.tracks :
        ad.tracks[p].song = ad.tracks[q].song => p = q
  BY <1>2 DEF Tidy
<1>4. \A p \in Own(ad) : ad.tracks[p].song \in Songs /\ p.at \in Layouts[ad.tracks[p].song]
  <2> SUFFICES ASSUME NEW p \in Own(ad)
               PROVE  ad.tracks[p].song \in Songs /\ p.at \in Layouts[ad.tracks[p].song]
    OBVIOUS
  <2>1. p \in DOMAIN disk /\ p \in manifest.files /\ ad.tracks[p].song = disk[p].song
    BY <1>2
  <2>2. disk[p].mine
    BY <2>1 DEF FInv, Users
  <2>. QED BY <2>1, <2>2 DEF FInv, HInv
<1>5. \A s \in Wanted, p \in DOMAIN ad.tracks : p.at = source[s].at => p \in Own(ad)
  BY <1>2 DEF Tidy, NoClash
<1>6. Own(ad) \subseteq DOMAIN ad.tracks
  BY DEF Own
<1>. QED BY <1>1, <1>2, <1>3, <1>4, <1>5, <1>6 DEF TracksApart, Own, Wanted

\* A plan that was just made fits.
LEMMA StartFits ==
  ASSUME OpenIsFresh, TInv, Tidy, quiet >= 2 => OnceSynced, Start
  PROVE  PlanFits'
<1>1. /\ ad' = ad /\ source' = source /\ phase = "open"
      /\ quiet' = quiet
  BY FreshFacts DEF Start
<1>2. PICK kept \in Matchings : plan' = Operations(kept)
  BY FreshFacts
<1>3. /\ DOMAIN ad.tracks = DOMAIN disk
      /\ \A p \in DOMAIN disk :
           /\ ad.tracks[p].song = disk[p].song /\ ad.tracks[p].meta = disk[p].meta
           /\ ad.tracks[p].tag = disk[p].tag
      /\ Own(ad) = DOMAIN disk \cap manifest.files /\ DeviceItems = Own(ad)
      /\ ad.pendingMoves = <<>>
  BY <1>1, OpenFacts
<1>4. /\ \A s \in Matched : kept[s] \in Own(ad) /\ ad.tracks[kept[s]].song = s
      /\ \A s \in Wanted, p \in Own(ad) : ad.tracks[p].song = s => s \in Matched /\ p = kept[s]
  BY <1>1, <1>3, KeptIsOnly
<1>5. /\ \A s, p : LacksCover(s, p)' <=> LacksCover(s, p)
      /\ \A s, p : OtherCodec(s, p)' <=> OtherCodec(s, p)
      /\ \A s, p : Misplaced(s, p)' <=> Misplaced(s, p)
  <2>1. \A s, p : LacksCover(s, p)' <=> LacksCover(s, p)
    BY <1>1 DEF LacksCover
  <2>2. \A s, p : OtherCodec(s, p)' <=> OtherCodec(s, p)
    BY <1>1 DEF OtherCodec
  <2>3. \A s, p : Misplaced(s, p)' <=> Misplaced(s, p)
    BY <1>1 DEF Misplaced, Home
  <2>. QED BY <2>1, <2>2, <2>3
<1>6. \A s, ext : Home(s, ext)' = Home(s, ext)
  BY <1>1 DEF Home
<1>7. ASSUME NEW op \in plan'
      PROVE  \/ /\ op.song \in Wanted \ Matched
                /\ op = [kind |-> "add", song |-> op.song,
                         path |-> Home(op.song, source[op.song].ext)]
             \/ /\ op.song \in Matched /\ AboutTrack(op)
                /\ OperationFor(op.song, kept[op.song]) = {op.kind}
                /\ op = [kind |-> op.kind, song |-> op.song, path |-> kept[op.song]]
             \/ /\ op.path \in DeviceItems /\ \A s \in Matched : op.path # kept[s]
                /\ op = [kind |-> "remove", song |-> ad.tracks[op.path].song, path |-> op.path]
  BY <1>2, Planned
<1>8. ASSUME NEW op \in plan', NEW o \in plan', op.kind # "remove", o.kind # "remove",
             op.song = o.song
      PROVE  op = o
  BY <1>7, <1>8
<1>9. ASSUME NEW op \in plan', op.kind = "add"
      PROVE  /\ op.path = Home(op.song, source[op.song].ext)
             /\ \A p \in Own(ad) : ad.tracks[p].song # op.song
  <2>1. op.song \in Wanted \ Matched /\ op.path = Home(op.song, source[op.song].ext)
    BY <1>7, <1>9 DEF AboutTrack
  <2>. QED BY <1>4, <2>1
<1>10. ASSUME NEW op \in plan', AboutTrack(op)
       PROVE  /\ op.song \in Matched /\ op.path = kept[op.song]
              /\ OperationFor(op.song, op.path) = {op.kind}
  BY <1>7, <1>10 DEF AboutTrack
<1>13. ASSUME NEW op \in plan', AboutTrack(op), quiet >= 2
       PROVE  /\ ~LacksCover(op.song, op.path) /\ ~Outdated(op.song, op.path)
              /\ ~OtherCodec(op.song, op.path) \/ ~Misplaced(op.song, op.path)
  <2>1. op.song \in Wanted
    BY <1>10, <1>13 DEF Matched
  <2>2. PICK p \in DOMAIN disk :
          UpToDate(op.song, p) /\ (RightForm(op.song, p) \/ RightPlace(op.song, p))
    BY <1>13, <2>1 DEF OnceSynced
  <2>3. p = op.path
    BY <1>3, <1>4, <1>10, <1>13, <2>1, <2>2 DEF UpToDate
  <2>. QED BY <1>3, <2>2, <2>3 DEF LacksCover, OtherCodec, Outdated, Misplaced, UpToDate,
                                   RightForm, RightPlace
<1>14. ASSUME NEW op \in plan', op.kind \in {"update", "relocate"}
       PROVE  /\ ~LacksCover(op.song, op.path)
              /\ Misplaced(op.song, op.path) <=> op.kind = "relocate"
              /\ quiet >= 2 => ~OtherCodec(op.song, op.path)
  <2>1. OperationFor(op.song, op.path) = {op.kind} /\ AboutTrack(op)
    BY <1>10, <1>14 DEF AboutTrack
  <2>2. /\ ~NeedsFile(op.song, op.path)
        /\ Misplaced(op.song, op.path) <=> op.kind = "relocate"
    BY <1>14, <2>1 DEF OperationFor
  <2>. QED BY <1>13, <2>1, <2>2 DEF NeedsFile
<1>11. ASSUME NEW op \in plan', op.kind = "remove" PROVE op.song \notin Wanted
  <2>1. /\ op.path \in DeviceItems /\ op.song = ad.tracks[op.path].song
        /\ \A s \in Matched : op.path # kept[s]
    BY <1>7, <1>11 DEF AboutTrack
  <2>. QED BY <1>3, <1>4, <2>1
<1>12. ASSUME quiet >= 2, NEW op \in plan', op.kind = "upgrade"
       PROVE  ~Misplaced(op.song, op.path)
  <2>1. OperationFor(op.song, op.path) = {"upgrade"} /\ AboutTrack(op)
    BY <1>10, <1>12 DEF AboutTrack
  <2>2. NeedsFile(op.song, op.path)
    BY <2>1 DEF OperationFor
  <2>. QED BY <1>12, <1>13, <2>1, <2>2 DEF NeedsFile
<1>. QED BY <1>1, <1>3, <1>5, <1>6, <1>8, <1>9, <1>11, <1>12, <1>14 DEF PlanFits, Wanted

\* It brings every wanted song to where it is to be, or has nothing to do for it.
LEMMA StartIsOnItsWay ==
  ASSUME OpenIsFresh, TInv, Tidy, quiet >= 2 => OnceSynced, Start
  PROVE  OnItsWay'
<1>1. /\ ad' = ad /\ source' = source /\ disk' = disk /\ phase = "open"
      /\ quiet' = quiet /\ nextMove' = nextMove
  BY FreshFacts DEF Start
<1>2. PICK kept \in Matchings : plan' = Operations(kept)
  BY FreshFacts
<1>3. /\ DOMAIN ad.tracks = DOMAIN disk
      /\ \A p \in DOMAIN disk : ad.tracks[p].song = disk[p].song
      /\ Own(ad) = DOMAIN disk \cap manifest.files /\ DeviceItems = Own(ad)
  BY <1>1, OpenFacts
<1>4. \A s \in Matched : kept[s] \in Own(ad) /\ ad.tracks[kept[s]].song = s
  BY <1>1, <1>3, KeptIsOnly
<1>5. /\ \A s, p : LacksCover(s, p)' <=> LacksCover(s, p)
      /\ \A s, p : OtherCodec(s, p)' <=> OtherCodec(s, p)
      /\ \A s, p : Misplaced(s, p)' <=> Misplaced(s, p)
  <2>1. \A s, p : LacksCover(s, p)' <=> LacksCover(s, p)
    BY <1>1 DEF LacksCover
  <2>2. \A s, p : OtherCodec(s, p)' <=> OtherCodec(s, p)
    BY <1>1 DEF OtherCodec
  <2>3. \A s, p : Misplaced(s, p)' <=> Misplaced(s, p)
    BY <1>1 DEF Misplaced, Home
  <2>. QED BY <2>1, <2>2, <2>3
<1>6. ASSUME NEW s \in Wanted
      PROVE  PlannedFor(s)' \/ \E p \in DOMAIN ad'.tracks : Right(s, p)'
  <2>1. CASE s \notin Matched
    <3> DEFINE op == [kind |-> "add", song |-> s, path |-> Home(s, source[s].ext)]
    <3>1. op \in plan'
      BY <1>2, <2>1 DEF Operations, Additions
    <3>. QED BY <3>1 DEF PlannedFor
  <2>2. CASE s \in Matched /\ OperationFor(s, kept[s]) # {}
    <3>1. PICK k \in OperationFor(s, kept[s]) : k # "remove"
      BY <2>2 DEF OperationFor
    <3> DEFINE op == [kind |-> k, song |-> s, path |-> kept[s]]
    <3>2. op \in ChangesOf(s, kept[s])
      BY <3>1 DEF ChangesOf
    <3>3. op \in plan'
      BY <1>2, <2>2, <3>2 DEF Operations
    <3>. QED BY <3>1, <3>3 DEF PlannedFor
  <2>3. CASE s \in Matched /\ OperationFor(s, kept[s]) = {}
    <3>1. PICK p : p = kept[s]
      OBVIOUS
    <3>2. ~LacksCover(s, p) /\ ~OtherCodec(s, p) /\ ~Misplaced(s, p) /\ ~Outdated(s, p)
      BY <2>3, <3>1 DEF OperationFor, NeedsFile
    <3>3. /\ p \in Own(ad) /\ ad.tracks[p].song = s /\ ad.tracks[p].meta = source[s].meta
          /\ p \in DOMAIN ad.tracks
      BY <1>4, <2>3, <3>1, <3>2 DEF Outdated, Own
    <3>4. Right(s, p)'
      BY <1>1, <1>5, <3>2, <3>3 DEF Right
    <3>. QED BY <1>1, <3>3, <3>4
  <2>. QED BY <2>1, <2>2, <2>3
<1>7. ASSUME Delete, NEW p \in Own(ad), ad.tracks[p].song \notin Wanted
      PROVE  ToRemove(ad.tracks[p].song)'
  <2> DEFINE op == [kind |-> "remove", song |-> ad.tracks[p].song, path |-> p]
  <2>1. p \in DeviceItems
    BY <1>3
  <2>2. \A s \in Matched : p # kept[s]
    BY <1>4, <1>7 DEF Matched
  <2>3. op \in Removals(kept)
    BY <1>7, <2>1, <2>2 DEF Removals
  <2>4. op \in plan'
    BY <1>2, <2>3 DEF Operations
  <2>. QED BY <1>1, <2>4 DEF ToRemove
<1>8. \A p \in Own(ad) : p \in DOMAIN disk
  BY <1>3
<1>. QED BY <1>1, <1>6, <1>7, <1>8 DEF OnItsWay, Present, Wanted, Own, ToRemove

\* A track at the place of a wanted song is that song's.
LEMMA PlaceIsOwn ==
  ASSUME LayoutsApart, TInv, HInv, TracksApart, NEW s \in Wanted,
         NEW p \in DOMAIN ad.tracks, p.at = source[s].at
  PROVE  p \in Own(ad) /\ ad.tracks[p].song = s
<1>1. p \in Own(ad)
  BY DEF TracksApart
<1>2. ad.tracks[p].song \in Songs /\ p.at \in Layouts[ad.tracks[p].song]
  BY <1>1 DEF TracksApart
<1>3. s \in Songs /\ p.at \in Layouts[s]
  BY SourceFacts DEF TInv, HInv, Laid, Wanted
<1>. QED BY <1>1, <1>2, <1>3 DEF LayoutsApart

\* Of one song's tracks one is podkit's, and a move takes a file to it, not from it.
LEMMA MovesLeaveTracks ==
  ASSUME LayoutsApart, TracksApart, Separate, AllKnown, HInv, TInv, Running,
         NEW i \in 1..Len(ad.pendingMoves)
  PROVE  From(i) \notin Own(ad) /\ MoveTo(i) \in Own(ad)
<1>1. MoveTo(i) \in Own(ad)
  <2>1. Listed(MoveTo(i))
    BY DEF AllKnown, Reserved, MoveTo
  <2>. QED BY <2>1 DEF Listed, TracksApart
<1>2. PICK s \in Songs : From(i).at \in Layouts[s] /\ MoveTo(i).at \in Layouts[s]
  BY DEF HInv, From, MoveTo
<1>3. \A p \in Own(ad) : ad.tracks[p].song \in Songs /\ p.at \in Layouts[ad.tracks[p].song]
  BY DEF TracksApart
<1>4. ad.tracks[MoveTo(i)].song = s
  BY <1>1, <1>2, <1>3 DEF LayoutsApart
<1>5. From(i) \in Own(ad) => From(i) = MoveTo(i)
  <2>1. From(i) \in Own(ad) => ad.tracks[From(i)].song = s
    BY <1>2, <1>3 DEF LayoutsApart
  <2>. QED BY <1>1, <1>4, <2>1 DEF TracksApart
<1>6. Len(ad.pendingMoves) \in Nat
  BY MovesAreTyped DEF TInv, ProcessTyped
<1>7. From(i) # MoveTo(i)
  BY <1>6 DEF Separate
<1>. QED BY <1>1, <1>5, <1>7

\* A replacement has the extension that was asked for.
LEMMA ReplacementHasExt ==
  ASSUME NEW path \in Paths, NEW ext \in Exts, NEW taken
  PROVE  ReplacementPath(path, ext, taken).ext = ext
<1> DEFINE renamed == [path EXCEPT !.ext = ext]
<1>1. renamed.ext = ext /\ DOMAIN renamed = {"at", "ext", "no", "dashes"}
  BY DEF Paths
<1>2. \A k : [renamed EXCEPT !.dashes = Append(@, k)].ext = ext
  BY <1>1
<1>. QED BY <1>1, <1>2 DEF ReplacementPath

\* What an operation that is done leaves: its song's track is `new` (it was `old`),
\* as the collection has it, but that after a first sync it may have a new form or a
\* new place still to get.
Settles(op, old, new) ==
  /\ OnlyMoves(old, new) /\ op.song \in Wanted
  /\ IF AboutTrack(op) THEN old = op.path /\ old \in Own(ad) /\ ad.tracks[old].song = op.song
     ELSE old = new /\ new \notin DOMAIN ad.tracks /\ \A p \in Own(ad) : ad.tracks[p].song # op.song
  /\ ad'.tracks[new].song = op.song /\ ad'.tracks[new].managed
  /\ ad'.tracks[new].meta = source[op.song].meta
  /\ ad'.tracks[new].tag = "none" => ~Sidecar
  /\ LET form == ad'.tracks[new].tag = "none" \/ new.ext = source[op.song].ext
         place == new = Home(op.song, new.ext)
     IN (form \/ place) /\ (quiet >= 2 => form /\ place)
  /\ new.at \in Layouts[op.song]
  /\ \/ /\ ad'.pendingMoves = ad.pendingMoves
        /\ (op.kind = "update" /\ disk' = disk) \/ new \in DOMAIN disk'
        /\ old = new \/ old \notin DOMAIN disk'
     \/ /\ AboutTrack(op) /\ disk' = disk
        /\ ad'.pendingMoves = Append(ad.pendingMoves, [from |-> old, to |-> new])
  /\ op.kind = "update" => old = new
  /\ DOMAIN disk \ {old} \subseteq DOMAIN disk'
  /\ DOMAIN disk' \subseteq DOMAIN disk \cup {new}
  /\ source' = source /\ nextMove' = nextMove /\ quiet' = quiet /\ plan' = plan \ {op}
  /\ op \in Ready

\* An update in place.
LEMMA UpdateSettles ==
  ASSUME TInv, IInv, Separate, HInv, PlanFits, NEW op \in plan, Update(op)
  PROVE  Settles(op, op.path, op.path)
<1>1. /\ op.kind = "update" /\ AboutTrack(op) /\ op \in Ready /\ disk' = disk
      /\ source' = source /\ nextMove' = nextMove /\ quiet' = quiet /\ plan' = plan \ {op}
  BY DEF Update, Doing, AboutTrack, device
<1>2. /\ op.path \in Own(ad) /\ op.song \in Wanted /\ op.path \in DOMAIN ad.tracks
      /\ ad.tracks[op.path].song = op.song /\ ad.tracks[op.path].managed
  BY <1>1, OperationFacts DEF IInv, PlanSound, Own, Separate
<1>3. /\ ~LacksCover(op.song, op.path) /\ ~Misplaced(op.song, op.path)
      /\ quiet >= 2 => ~OtherCodec(op.song, op.path)
  BY <1>1 DEF PlanFits
<1>4. op.path.at \in Layouts[op.song]
  BY <1>1 DEF HInv
<1>5. /\ OnlyMoves(op.path, op.path) /\ Brought(op, op.path)
      /\ ad'.tracks[op.path].tag = ad.tracks[op.path].tag
      /\ ad'.pendingMoves = ad.pendingMoves
  BY UpdateRecorded
<1>. QED BY <1>1, <1>2, <1>3, <1>4, <1>5
         DEF Settles, Brought, LacksCover, OtherCodec, Misplaced

\* A relocation: nothing is in its way.
LEMMA RelocateSettles ==
  ASSUME LayoutsApart, TInv, IInv, Separate, HInv, TracksApart, PlanFits,
         NEW op \in plan, Relocate(op)
  PROVE  Settles(op, op.path, Target(op))
<1> DEFINE home == Home(op.song, op.path.ext)
           new == Target(op)
<1>1. /\ op.kind = "relocate" /\ AboutTrack(op) /\ op \in Ready /\ disk' = disk
      /\ source' = source /\ nextMove' = nextMove /\ quiet' = quiet /\ plan' = plan \ {op}
  BY DEF Relocate, Doing, AboutTrack, device
<1>2. /\ op.path \in Own(ad) /\ op.song \in Wanted /\ op.path \in DOMAIN ad.tracks
      /\ ad.tracks[op.path].song = op.song /\ ad.tracks[op.path].managed
      /\ ad.allocatedPaths = DOMAIN ad.tracks
  BY <1>1, OperationFacts DEF IInv, PlanSound, Own, Separate
<1>3. /\ ~LacksCover(op.song, op.path) /\ op.path # home
      /\ quiet >= 2 => ~OtherCodec(op.song, op.path)
  BY <1>1 DEF PlanFits, Misplaced
<1>4. home.at = source[op.song].at /\ home.ext = op.path.ext
  BY DEF Home, HomePath
<1>5. home \notin DOMAIN ad.tracks
  <2> SUFFICES ASSUME home \in DOMAIN ad.tracks PROVE FALSE
    OBVIOUS
  <2>1. home \in Own(ad) /\ ad.tracks[home].song = op.song
    BY <1>2, <1>4, PlaceIsOwn
  <2>. QED BY <1>2, <1>3, <2>1 DEF TracksApart
<1>6. Target(op) = home
  BY <1>1, <1>2, <1>5 DEF Target, Deduplicate
<1>7. /\ OnlyMoves(op.path, new) /\ Brought(op, new) /\ new.at = source[op.song].at
      /\ ad'.tracks[new].tag = ad.tracks[op.path].tag
      /\ ad'.pendingMoves = Append(ad.pendingMoves, [from |-> op.path, to |-> new])
  BY RelocateRecorded
<1>8. new.ext = op.path.ext /\ new = Home(op.song, new.ext)
  BY <1>4, <1>6
<1>9. new.at \in Layouts[op.song]
  BY <1>2, <1>7 DEF HInv, Laid, Wanted
<1> HIDE DEF new, home
<1>. QED BY <1>1, <1>2, <1>3, <1>7, <1>8, <1>9
         DEF Settles, Brought, LacksCover, OtherCodec, new

\* An add: nothing is in its way either.
LEMMA AddSettles ==
  ASSUME LayoutsApart, TInv, IInv, HInv, TracksApart, PlanFits, NEW op \in plan, Add(op)
  PROVE  Settles(op, Target(op), Target(op))
<1> DEFINE new == Target(op)
<1>1. /\ op.kind = "add" /\ ~AboutTrack(op) /\ op \in Ready
      /\ source' = source /\ nextMove' = nextMove /\ quiet' = quiet /\ plan' = plan \ {op}
  BY DEF Add, Doing, AboutTrack
<1>2. op.song \in Wanted /\ ad.allocatedPaths = DOMAIN ad.tracks
  BY <1>1, OperationFacts
<1>3. /\ op.path = Home(op.song, source[op.song].ext)
      /\ \A p \in Own(ad) : ad.tracks[p].song # op.song
  BY <1>1 DEF PlanFits
<1>4. op.path.at = source[op.song].at /\ op.path.ext = source[op.song].ext
  BY <1>3 DEF Home, HomePath
<1>5. op.path \notin DOMAIN ad.tracks
  BY <1>2, <1>3, <1>4, PlaceIsOwn
<1>6. Target(op) = op.path
  BY <1>1, <1>2, <1>5 DEF Target, Deduplicate
<1>7. /\ new \notin DOMAIN ad.tracks /\ OnlyMoves(new, new)
      /\ ad'.tracks[new] = [song |-> op.song, meta |-> source[op.song].meta,
                            tag |-> "synced", managed |-> TRUE]
      /\ ad'.pendingMoves = ad.pendingMoves
      /\ disk' = Put(disk, new, Copy(op.song, source[op.song].meta))
  BY AddRecorded
<1>8. DOMAIN disk' = DOMAIN disk \cup {new}
  BY <1>7 DEF Put
<1>9. new.at \in Layouts[op.song]
  BY <1>1, <1>6 DEF HInv
<1>10. new = Home(op.song, new.ext) /\ new.ext = source[op.song].ext
  BY <1>3, <1>4, <1>6
<1> HIDE DEF new
<1>. QED BY <1>1, <1>2, <1>3, <1>7, <1>8, <1>9, <1>10 DEF Settles, new

\* A replacement of a file that is in its place stays there.
LEMMA UpgradeStaysHome ==
  ASSUME LayoutsApart, TInv, IInv, AllKnown, Separate, HInv, TracksApart, OnRecord, Running,
         NEW op \in plan, op.kind = "upgrade", ~Misplaced(op.song, op.path)
  PROVE  UpgradeTarget(op) = Home(op.song, source[op.song].ext)
<1> DEFINE ext == source[op.song].ext
           home == Home(op.song, ext)
<1>1. /\ AboutTrack(op) /\ op.song \in Wanted /\ op.path \in Own(ad)
      /\ ad.tracks[op.path].song = op.song /\ ad.allocatedPaths = DOMAIN ad.tracks
  BY OperationFacts DEF AboutTrack, IInv, PlanSound, Own, Separate
<1>2. op.path = Home(op.song, op.path.ext)
  BY DEF Misplaced
<1>3. [op.path EXCEPT !.ext = ext] = home /\ home.at = source[op.song].at /\ home.ext = ext
  BY <1>2 DEF Home, HomePath
<1>4. CASE op.path.ext = ext
  BY <1>2, <1>4 DEF UpgradeTarget, ReplacementPath
<1>5. CASE op.path.ext # ext
  <2>1. ~(home \in DOMAIN ad.tracks)
    <3> SUFFICES ASSUME home \in DOMAIN ad.tracks PROVE FALSE
      OBVIOUS
    <3>1. home \in Own(ad) /\ ad.tracks[home].song = op.song
      BY <1>1, <1>3, PlaceIsOwn
    <3>2. home = op.path
      BY <1>1, <3>1 DEF TracksApart
    <3>. QED BY <1>3, <1>5, <3>2
  <2>2. ~ToMove(home)
    <3> SUFFICES ASSUME ToMove(home) PROVE FALSE
      OBVIOUS
    <3>1. PICK i \in nextMove..Len(ad.pendingMoves) : From(i) = home
      BY DEF ToMove, From
    <3>2. i \in 1..Len(ad.pendingMoves)
      BY <3>1, MovesAreTyped DEF TInv, ProcessTyped
    <3>3. PICK s \in Songs : From(i).at \in Layouts[s] /\ MoveTo(i).at \in Layouts[s]
      BY <3>2 DEF HInv, From, MoveTo
    <3>4. op.song \in Songs /\ home.at \in Layouts[op.song]
      BY <1>1, <1>3, SourceFacts DEF TInv, HInv, Laid, Wanted
    <3>5. s = op.song
      BY <3>1, <3>3, <3>4 DEF LayoutsApart
    <3>6. MoveTo(i) \in Own(ad)
      BY <3>2, MovesLeaveTracks
    <3>7. ad.tracks[MoveTo(i)].song = op.song
      BY <3>3, <3>4, <3>5, <3>6 DEF TracksApart, LayoutsApart
    <3>8. MoveTo(i) = op.path
      BY <1>1, <3>6, <3>7 DEF TracksApart
    <3>. QED BY <1>1, <3>2, <3>8, MovesElsewhere
  <2>3. home \notin ad.allocatedPaths \cup DOMAIN disk
    BY <1>1, <2>1, <2>2 DEF OnRecord
  <2> HIDE DEF home
  <2>4. ReplacementPath(op.path, ext, ad.allocatedPaths \cup DOMAIN disk) = home
    BY <1>3, <1>5, <2>3 DEF ReplacementPath
  <2>. QED BY <2>4 DEF UpgradeTarget, home
<1>. QED BY <1>4, <1>5

\* A replacement, where the old file was.
LEMMA UpgradeSettles ==
  ASSUME LayoutsApart, TInv, IInv, AllKnown, Separate, HInv, TracksApart, OnRecord, PlanFits,
         Running, NEW op \in plan, Upgrade(op)
  PROVE  Settles(op, op.path, Target(op))
<1> DEFINE new == Target(op)
<1>1. /\ op.kind = "upgrade" /\ AboutTrack(op) /\ op \in Ready
      /\ source' = source /\ nextMove' = nextMove /\ quiet' = quiet /\ plan' = plan \ {op}
      /\ Target(op) = UpgradeTarget(op)
  BY DEF Upgrade, Doing, AboutTrack, Target
<1>2. /\ op.path \in Own(ad) /\ op.song \in Wanted /\ op.path \in DOMAIN ad.tracks
      /\ ad.tracks[op.path].song = op.song /\ ad.tracks[op.path].managed
      /\ op.path \in Paths /\ source[op.song].ext \in Exts
  BY <1>1, OperationFacts DEF IInv, PlanSound, Own, Separate
<1>3. new.ext = source[op.song].ext
  BY <1>1, <1>2, ReplacementHasExt DEF UpgradeTarget
<1>4. /\ new.at = op.path.at /\ OnlyMoves(op.path, new) /\ Brought(op, new)
      /\ ad'.tracks[new].tag = "synced"
      /\ ad'.pendingMoves = ad.pendingMoves
  BY UpgradeRecorded
<1>5. op.path.at \in Layouts[op.song]
  BY <1>1 DEF HInv
<1>6. quiet >= 2 => new = Home(op.song, new.ext)
  <2>1. quiet >= 2 => ~Misplaced(op.song, op.path)
    BY <1>1 DEF PlanFits
  <2>. QED BY <1>1, <1>3, <2>1, UpgradeStaysHome
<1>7. \E files \in {disk, Without(disk, op.path)} :
        /\ disk' = Put(files, new, Copy(op.song, source[op.song].meta))
        /\ op.path = new \/ files = Without(disk, op.path)
  BY <1>1 DEF Upgrade, Replaced
<1> HIDE DEF new
<1>8. /\ new \in DOMAIN disk' /\ DOMAIN disk \ {op.path} \subseteq DOMAIN disk'
      /\ DOMAIN disk' \subseteq DOMAIN disk \cup {new}
      /\ op.path = new \/ op.path \notin DOMAIN disk'
  BY <1>7 DEF Put, Without
<1>. QED BY <1>1, <1>2, <1>3, <1>4, <1>5, <1>6, <1>8 DEF Settles, Brought, new

\* An operation that is done: songs still have one track each, at their places.
LEMMA TracksStayApart ==
  ASSUME TracksApart, Separate, AllKnown, TInv, IInv, NEW op \in plan,
         Execute(op), NEW old, NEW new, Settles(op, old, new)
  PROVE  TracksApart'
<1>1. /\ new = old \/ new \notin DOMAIN ad.tracks
      /\ DOMAIN ad'.tracks = (DOMAIN ad.tracks \ {old}) \cup {new}
      /\ \A p \in DOMAIN ad.tracks \ {old} : ad'.tracks[p] = ad.tracks[p]
      /\ ad'.managedFiles \subseteq ad.managedFiles \cup {new}
  BY DEF Settles, OnlyMoves, SameEntry
<1>2. /\ ad'.tracks[new].song = op.song /\ ad'.tracks[new].managed /\ op.song \in Wanted
      /\ new.at \in Layouts[op.song] /\ source' = source /\ Wanted' = Wanted
      /\ op.song \in Songs
  BY SourceFacts DEF Settles, Wanted, TInv
<1>3. ASSUME NEW p \in DOMAIN ad'.tracks, p # new
      PROVE  p \in DOMAIN ad.tracks \ {old} /\ ad'.tracks[p] = ad.tracks[p]
  BY <1>1, <1>3
<1>4. new \in Own(ad)'
  BY <1>1, <1>2 DEF Own
<1>5. \A p \in Own(ad)' : p = new \/ (p \in Own(ad) /\ p \in DOMAIN ad.tracks \ {old})
  BY <1>3 DEF Own
<1>6. \A p \in Own(ad) \ {old} : ad.tracks[p].song # op.song
  BY DEF Settles, TracksApart
<1>7. ASSUME NEW p \in Own(ad)', NEW q \in Own(ad)', ad'.tracks[p].song = ad'.tracks[q].song
      PROVE  p = q
  BY <1>1, <1>2, <1>5, <1>6, <1>7 DEF TracksApart
<1>8. ASSUME NEW p \in Own(ad)', NEW q \in DOMAIN ad'.tracks,
             ad'.tracks[p].song = ad'.tracks[q].song, ad'.tracks[p].song \notin Wanted
      PROVE  p = q
  <2>1. p # new /\ q # new /\ p \in DOMAIN ad'.tracks
    BY <1>2, <1>8 DEF Own
  <2>. QED BY <1>3, <1>5, <1>8, <2>1 DEF TracksApart
<1>9. DOMAIN ad'.tracks \cap ad'.managedFiles \subseteq Own(ad)'
  <2> SUFFICES ASSUME NEW p \in DOMAIN ad'.tracks, p \in ad'.managedFiles, p # new
               PROVE  p \in Own(ad)'
    BY <1>4
  <2>1. p \in DOMAIN ad.tracks /\ p \in ad.managedFiles /\ ad'.tracks[p] = ad.tracks[p]
    BY <1>1, <1>3
  <2>2. p \in Own(ad)
    BY <2>1 DEF TracksApart
  <2>. QED BY <2>1, <2>2 DEF Own
<1>10. \A p \in Own(ad)' : ad'.tracks[p].song \in Songs /\ p.at \in Layouts[ad'.tracks[p].song]
  BY <1>1, <1>2, <1>5 DEF TracksApart
<1>11. ASSUME NEW s \in Wanted, NEW p \in DOMAIN ad'.tracks, p.at = source[s].at
       PROVE  p \in Own(ad)'
  <2>1. CASE p # new
    <3>1. p \in DOMAIN ad.tracks /\ ad'.tracks[p] = ad.tracks[p]
      BY <1>3, <2>1
    <3>2. p \in Own(ad)
      BY <1>11, <3>1 DEF TracksApart
    <3>. QED BY <3>1, <3>2 DEF Own
  <2>. QED BY <1>4, <2>1
<1>12. ASSUME NEW i \in 1..Len(ad'.pendingMoves) PROVE ad'.tracks[MoveTo(i)'].song \in Wanted
  <2>1. CASE i \in 1..Len(ad.pendingMoves) /\ MoveTo(i)' = MoveTo(i)
    <3>1. /\ MoveTo(i) \in DOMAIN ad.tracks /\ ad.tracks[MoveTo(i)].song \in Wanted
          /\ AboutTrack(op) => MoveTo(i) # op.path
      BY <2>1, MovesElsewhere DEF TracksApart
    <3>2. MoveTo(i) # old
      BY <3>1 DEF Settles
    <3>. QED BY <1>1, <2>1, <3>1, <3>2
  <2>2. CASE MoveTo(i)' = new
    BY <1>2, <2>2
  <2>3. \/ i \in 1..Len(ad.pendingMoves) /\ ad'.pendingMoves[i] = ad.pendingMoves[i]
        \/ Relocate(op) /\ ad'.pendingMoves[i] = [from |-> op.path, to |-> Target(op)]
    BY DoingMoves
  <2>4. Relocate(op) => new = Target(op)
    <3>1. CASE Relocate(op)
      <4>1. OnlyMoves(op.path, Target(op)) /\ Target(op) \notin DOMAIN ad.tracks
        BY <3>1, RelocateRecorded
      <4>2. old = op.path
        BY <3>1 DEF Settles, Relocate, Doing, AboutTrack
      <4>. QED BY <1>1, <4>1, <4>2 DEF OnlyMoves
    <3>. QED BY <3>1
  <2>. QED BY <2>1, <2>2, <2>3, <2>4 DEF MoveTo
<1>. QED BY <1>2, <1>7, <1>8, <1>9, <1>10, <1>11, <1>12 DEF TracksApart

\* What is planned for the other songs is as it was.
LEMMA PlanStillFits ==
  ASSUME PlanFits, TInv, IInv, NEW op \in plan,
         NEW old, NEW new, op.kind # "remove", Settles(op, old, new)
  PROVE  PlanFits' /\ \A o \in plan : o.kind # "remove"
<1>1. /\ DOMAIN ad'.tracks = (DOMAIN ad.tracks \ {old}) \cup {new}
      /\ \A p \in DOMAIN ad.tracks \ {old} : ad'.tracks[p] = ad.tracks[p]
      /\ ad'.tracks[new].song = op.song
  BY DEF Settles, OnlyMoves, SameEntry
<1>2. /\ source' = source /\ Wanted' = Wanted /\ quiet' = quiet /\ plan' = plan \ {op}
      /\ op \in Ready
  BY DEF Settles, Wanted
<1>3. \A o \in plan : o.kind # "remove"
  <2> SUFFICES ASSUME NEW o \in plan, o.kind = "remove" PROVE FALSE
    OBVIOUS
  <2>1. OpTyped(op) /\ Priority(op) <= Priority(o)
    BY <1>2 DEF Ready, TInv, ProcessTyped
  <2>. QED BY <2>1 DEF Priority, OpTyped
<1>4. \A s, ext : Home(s, ext)' = Home(s, ext)
  BY <1>2 DEF Home
<1>5. ASSUME NEW o \in plan', o.kind = "add", NEW p \in Own(ad)'
      PROVE  ad'.tracks[p].song # o.song
  <2>1. CASE p = new
    BY <1>1, <1>2, <1>3, <1>5, <2>1 DEF PlanFits
  <2>2. CASE p # new
    <3>1. p \in DOMAIN ad.tracks \ {old} /\ ad'.tracks[p] = ad.tracks[p] /\ p \in Own(ad)
      BY <1>1, <2>2 DEF Own
    <3>. QED BY <1>2, <1>5, <3>1 DEF PlanFits
  <2>. QED BY <2>1, <2>2
<1>6. ASSUME NEW o \in plan', o.kind \in {"update", "relocate"}
      PROVE  /\ ~LacksCover(o.song, o.path)'
             /\ Misplaced(o.song, o.path)' <=> o.kind = "relocate"
             /\ quiet >= 2 => ~OtherCodec(o.song, o.path)'
  <2>1. o \in plan /\ o # op /\ AboutTrack(o)
    BY <1>2, <1>6 DEF AboutTrack
  <2>2. o.path \in DOMAIN ad.tracks
    BY <2>1, OperationFacts
  <2>3. o.path # old
    BY <2>1, <2>2 DEF Settles, IInv, PlanSound
  <2>4. ad'.tracks[o.path] = ad.tracks[o.path]
    BY <1>1, <2>2, <2>3
  <2>. QED BY <1>2, <1>4, <1>6, <2>1, <2>4 DEF PlanFits, LacksCover, OtherCodec, Misplaced
<1>7. \A o \in plan' : o.kind = "add" => o.path = Home(o.song, source[o.song].ext)
  BY <1>2 DEF PlanFits
<1>8. /\ \A o, a \in plan' :
           o.kind # "remove" /\ a.kind # "remove" /\ o.song = a.song => o = a
      /\ quiet >= 2 => \A o \in plan' : o.kind = "upgrade" => ~Misplaced(o.song, o.path)'
      /\ \A o \in plan' : o.kind # "remove"
  BY <1>2, <1>3, <1>4 DEF PlanFits, Misplaced
<1>. QED BY <1>2, <1>3, <1>4, <1>5, <1>6, <1>7, <1>8 DEF PlanFits

\* The song of the operation has its track, and the other songs have lost nothing.
LEMMA SettlesOnItsWay ==
  ASSUME OnItsWay, PlanFits, Separate, AllKnown, TInv, IInv, NEW op \in plan,
         NEW old, NEW new, op.kind # "remove", Settles(op, old, new)
  PROVE  OnItsWay'
<1>1. /\ DOMAIN ad'.tracks = (DOMAIN ad.tracks \ {old}) \cup {new}
      /\ \A p \in DOMAIN ad.tracks \ {old} : ad'.tracks[p] = ad.tracks[p]
      /\ ad'.tracks[new].song = op.song /\ ad'.tracks[new].managed
      /\ ad'.tracks[new].meta = source[op.song].meta /\ op.song \in Wanted
  BY DEF Settles, OnlyMoves, SameEntry
<1>2. /\ source' = source /\ Wanted' = Wanted /\ quiet' = quiet /\ plan' = plan \ {op}
      /\ nextMove' = nextMove
  BY DEF Settles, Wanted
<1>3. \A o \in plan : o.kind # "remove"
  BY PlanStillFits
<1>4. \A s, ext : Home(s, ext)' = Home(s, ext)
  BY <1>2 DEF Home
<1>5. \A p \in Own(ad)' :
        p = new \/ (p \in DOMAIN ad.tracks \ {old} /\ p \in Own(ad) /\ ad'.tracks[p] = ad.tracks[p])
  BY <1>1 DEF Own
<1>6. Right(op.song, new)'
  <2>1. new \in Own(ad)'
    BY <1>1 DEF Own
  <2>2. ~LacksCover(op.song, new)'
    BY <1>2 DEF Settles, LacksCover
  <2>3. /\ ~OtherCodec(op.song, new)' \/ ~Misplaced(op.song, new)'
        /\ quiet >= 2 => ~OtherCodec(op.song, new)' /\ ~Misplaced(op.song, new)'
    BY <1>2, <1>4 DEF Settles, Misplaced, OtherCodec
  <2>. QED BY <1>1, <1>2, <2>1, <2>2, <2>3 DEF Right
<1>7. ASSUME NEW s \in Wanted
      PROVE  PlannedFor(s)' \/ \E p \in DOMAIN ad'.tracks : Right(s, p)'
  <2>1. CASE s = op.song
    BY <1>1, <1>6, <2>1
  <2>2. CASE s # op.song /\ PlannedFor(s)
    BY <1>2, <2>2 DEF PlannedFor
  <2>3. ASSUME s # op.song, NEW p \in DOMAIN ad.tracks, Right(s, p)
        PROVE  \E q \in DOMAIN ad'.tracks : Right(s, q)'
    <3>1. p # old
      BY <2>3 DEF Right, Settles
    <3>2. p \in DOMAIN ad'.tracks /\ ad'.tracks[p] = ad.tracks[p]
      BY <1>1, <3>1
    <3>3. Right(s, p)'
      BY <1>2, <1>4, <2>3, <3>2 DEF Right, LacksCover, OtherCodec, Misplaced, Own
    <3>. QED BY <3>2, <3>3
  <2>. QED BY <2>1, <2>2, <2>3 DEF OnItsWay
<1>8. ASSUME Delete, NEW p \in Own(ad)', p \in DOMAIN disk'
      PROVE  ad'.tracks[p].song \in Wanted
  <2>1. CASE p # new
    <3>1. p \in Own(ad) /\ ad'.tracks[p] = ad.tracks[p] /\ p \in DOMAIN disk
      BY <1>5, <1>8, <2>1 DEF Settles
    <3>2. ~ToRemove(ad.tracks[p].song)
      BY <1>3 DEF ToRemove
    <3>. QED BY <1>8, <3>1, <3>2 DEF OnItsWay
  <2>. QED BY <1>1, <2>1
<1>9. ASSUME NEW p \in Own(ad)', ad'.tracks[p].song \in Wanted PROVE Present(p)'
  <2>1. /\ Len(ad.pendingMoves) \in Nat /\ nextMove \in 1..(Len(ad.pendingMoves) + 1)
        /\ ad.pendingMoves \in Seq(Moves)
    BY MovesAreTyped DEF TInv, ProcessTyped, Adapters
  <2>2. /\ Len(ad'.pendingMoves) \in Nat /\ Len(ad'.pendingMoves) >= Len(ad.pendingMoves)
        /\ \A i \in 1..Len(ad.pendingMoves) : ad'.pendingMoves[i] = ad.pendingMoves[i]
    <3>1. CASE ad'.pendingMoves = ad.pendingMoves
      BY <2>1, <3>1
    <3>2. CASE ad'.pendingMoves = Append(ad.pendingMoves, [from |-> old, to |-> new])
      BY <2>1, <3>2
    <3>. QED BY <3>1, <3>2 DEF Settles
  <2>3. ASSUME NEW q \in DOMAIN ad.tracks \ {old}, Present(q) PROVE Present(q)'
    <3>1. CASE q \in DOMAIN disk
      BY <2>3, <3>1 DEF Present, Settles
    <3>2. ASSUME NEW i \in nextMove..Len(ad.pendingMoves), MoveTo(i) = q,
                 From(i) \in DOMAIN disk
          PROVE  Present(q)'
      <4>1. i \in nextMove'..Len(ad'.pendingMoves) /\ i \in 1..Len(ad.pendingMoves)
        BY <1>2, <2>1, <2>2, <3>2
      <4>2. MoveTo(i)' = q /\ From(i)' = From(i)
        BY <2>2, <3>2, <4>1 DEF MoveTo, From
      <4>3. AboutTrack(op) => From(i) # old
        BY <4>1, MovesElsewhere DEF Settles
      <4>4. From(i) \in DOMAIN disk'
        <5>1. CASE AboutTrack(op)
          BY <3>2, <4>3, <5>1 DEF Settles
        <5>2. CASE ~AboutTrack(op)
          <6>1. op.kind # "update" /\ old = new
            BY <5>2 DEF AboutTrack, Settles
          <6>2. new \in DOMAIN disk'
            BY <5>2, <6>1 DEF Settles
          <6>. QED BY <3>2, <6>1, <6>2 DEF Settles
        <5>. QED BY <5>1, <5>2
      <4>. QED BY <4>1, <4>2, <4>4 DEF Present
    <3>. QED BY <2>3, <3>1, <3>2 DEF Present
  <2>4. CASE p # new
    <3>1. p \in DOMAIN ad.tracks \ {old} /\ p \in Own(ad) /\ ad'.tracks[p] = ad.tracks[p]
      BY <1>5, <2>4
    <3>. QED BY <1>2, <1>9, <2>3, <3>1 DEF OnItsWay
  <2>5. CASE p = new /\ new \in DOMAIN disk'
    BY <2>5 DEF Present
  <2>6. ASSUME AboutTrack(op), NEW i \in nextMove..Len(ad.pendingMoves) PROVE MoveTo(i) # old
    <3>1. i \in 1..Len(ad.pendingMoves)
      BY <2>1
    <3>. QED BY <2>6, <3>1, MovesElsewhere DEF Settles
  <2>7. AboutTrack(op) => old \in DOMAIN disk
    <3>1. AboutTrack(op) => Present(old)
      BY DEF Settles, OnItsWay
    <3>. QED BY <2>6, <3>1 DEF Present
  <2>8. CASE p = new /\ op.kind = "update" /\ old = new
    <3>1. new \in DOMAIN disk'
      BY <1>1, <2>7, <2>8 DEF AboutTrack, Settles
    <3>. QED BY <2>8, <3>1 DEF Present
  <2>9. CASE p = new /\ AboutTrack(op) /\ disk' = disk /\
             ad'.pendingMoves = Append(ad.pendingMoves, [from |-> old, to |-> new])
    <3>1. PICK last : last = Len(ad.pendingMoves) + 1
      OBVIOUS
    <3>2. PICK move : move = [from |-> old, to |-> new]
      OBVIOUS
    <3>3. Len(ad'.pendingMoves) = last /\ ad'.pendingMoves[last] = move
      BY <2>1, <2>9, <3>1, <3>2
    <3>4. MoveTo(last)' = new /\ From(last)' = old /\ last \in nextMove'..Len(ad'.pendingMoves)
      BY <1>2, <2>1, <3>1, <3>2, <3>3 DEF MoveTo, From
    <3>. QED BY <2>7, <2>9, <3>4 DEF Present
  <2>. QED BY <2>4, <2>5, <2>8, <2>9 DEF Settles
<1>. QED BY <1>2, <1>7, <1>8, <1>9 DEF OnItsWay

\* A path that a track leaves has no file any more, or one that is to be moved.
LEMMA SettlesOnRecord ==
  ASSUME OnRecord, TInv, NEW op \in plan, NEW old, NEW new, Settles(op, old, new)
  PROVE  OnRecord'
<1>1. /\ DOMAIN ad'.tracks = (DOMAIN ad.tracks \ {old}) \cup {new} /\ nextMove' = nextMove
      /\ DOMAIN disk' \subseteq DOMAIN disk \cup {new}
  BY DEF Settles, OnlyMoves
<1>2. /\ Len(ad.pendingMoves) \in Nat /\ nextMove \in 1..(Len(ad.pendingMoves) + 1)
      /\ ad.pendingMoves \in Seq(Moves)
  BY MovesAreTyped DEF TInv, ProcessTyped, Adapters
<1>3. CASE ad'.pendingMoves = ad.pendingMoves /\ (old = new \/ old \notin DOMAIN disk')
  BY <1>1, <1>3 DEF OnRecord, ToMove
<1>4. CASE ad'.pendingMoves = Append(ad.pendingMoves, [from |-> old, to |-> new])
  <2>1. PICK last : last = Len(ad.pendingMoves) + 1
    OBVIOUS
  <2>2. PICK move : move = [from |-> old, to |-> new]
    OBVIOUS
  <2>3. /\ Len(ad'.pendingMoves) = last /\ ad'.pendingMoves[last] = move
        /\ \A i \in 1..Len(ad.pendingMoves) : ad'.pendingMoves[i] = ad.pendingMoves[i]
    BY <1>2, <1>4, <2>1, <2>2
  <2>4. last \in nextMove'..Len(ad'.pendingMoves) /\ ad'.pendingMoves[last].from = old
    BY <1>1, <1>2, <2>1, <2>2, <2>3
  <2>5. ToMove(old)'
    BY <2>4 DEF ToMove
  <2>6. ASSUME NEW p, ToMove(p) PROVE ToMove(p)'
    <3>1. PICK i \in nextMove..Len(ad.pendingMoves) : ad.pendingMoves[i].from = p
      BY <2>6 DEF ToMove
    <3>2. i \in nextMove'..Len(ad'.pendingMoves) /\ ad'.pendingMoves[i].from = p
      BY <1>1, <1>2, <2>1, <2>3, <3>1
    <3>. QED BY <3>2 DEF ToMove
  <2>. QED BY <1>1, <2>5, <2>6 DEF OnRecord
<1>. QED BY <1>3, <1>4 DEF Settles

\* A removal takes the file of a song that is not wanted, before anything else is done.
LEMMA RemoveOnItsWay ==
  ASSUME TracksApart, OnRecord, PlanFits, OnItsWay, TInv, NEW op \in plan, Remove(op)
  PROVE  TracksApart' /\ OnRecord' /\ PlanFits' /\ OnItsWay'
<1>1. /\ op.kind = "remove" /\ ad' = ad /\ source' = source /\ nextMove' = nextMove
      /\ quiet' = quiet /\ plan' = plan \ {op}
  BY DEF Remove, Doing
<1>2. PICK gone \in DOMAIN ad.tracks :
        ad.tracks[gone].song = op.song /\ disk' = Without(disk, gone)
  BY DEF Remove
<1>3. op.song \notin Wanted /\ ad.pendingMoves = <<>> /\ nextMove..Len(ad.pendingMoves) = {}
  <2>1. op.song \notin Wanted /\ ad.pendingMoves = <<>> /\ Len(ad.pendingMoves) = 0
    BY <1>1 DEF PlanFits
  <2>2. nextMove = 1
    BY <2>1 DEF TInv, ProcessTyped
  <2>. QED BY <2>1, <2>2
<1>4. DOMAIN disk' = DOMAIN disk \ {gone}
  BY <1>2 DEF Without
<1>5. TracksApart'
  BY <1>1 DEF TracksApart, Own, Wanted, MoveTo
<1>6. PlanFits'
  BY <1>1 DEF PlanFits, Own, Wanted, LacksCover, OtherCodec, Misplaced, Home
<1>7. ASSUME NEW s \in Wanted
      PROVE  PlannedFor(s)' \/ \E p \in DOMAIN ad'.tracks : Right(s, p)'
  <2>1. PlannedFor(s) => PlannedFor(s)'
    BY <1>1 DEF PlannedFor
  <2>2. \A p : Right(s, p) => Right(s, p)'
    BY <1>1 DEF Right, Own, LacksCover, OtherCodec, Misplaced, Home
  <2>. QED BY <1>1, <2>1, <2>2 DEF OnItsWay
<1>8. ASSUME Delete, NEW p \in Own(ad) \cap DOMAIN disk', ad.tracks[p].song \notin Wanted
      PROVE  \E o \in plan' : o.kind = "remove" /\ o.song = ad.tracks[p].song
  <2>1. PICK o \in plan : o.kind = "remove" /\ o.song = ad.tracks[p].song
    BY <1>4, <1>8 DEF OnItsWay, ToRemove
  <2>2. o # op
    BY <1>2, <1>4, <1>8, <2>1 DEF TracksApart
  <2>. QED BY <1>1, <2>1, <2>2
<1>9. ASSUME NEW p \in Own(ad), ad.tracks[p].song \in Wanted PROVE p \in DOMAIN disk'
  <2>1. p \in DOMAIN disk
    BY <1>3, <1>9 DEF OnItsWay, Present
  <2>. QED BY <1>2, <1>3, <1>4, <1>9, <2>1
<1>10. Wanted' = Wanted /\ Own(ad)' = Own(ad) /\ ad'.tracks = ad.tracks
  BY <1>1 DEF Wanted, Own
<1>11. OnItsWay'
  BY <1>7, <1>8, <1>9, <1>10 DEF OnItsWay, Present, ToRemove
<1>12. OnRecord'
  BY <1>1, <1>4 DEF OnRecord, ToMove
<1>. QED BY <1>5, <1>6, <1>11, <1>12

\* A save takes every file to where its track is.
LEMMA FlushKeepsPresent ==
  ASSUME LayoutsApart, TracksApart, Separate, AllKnown, HInv, TInv, Running,
         FlushMove \/ FlushMovesEnd, NEW p \in Own(ad), Present(p)
  PROVE  Present(p)'
<1>1. /\ Len(ad.pendingMoves) \in Nat /\ nextMove \in Nat /\ nextMove >= 1
  BY MovesAreTyped DEF TInv, ProcessTyped
<1>2. CASE FlushMove
  <2> DEFINE n == nextMove
             move == ad.pendingMoves[n]
  <2>1. /\ ad' = ad /\ n' = n + 1 /\ disk' = Renamed(disk, move)
        /\ n \in 1..Len(ad.pendingMoves)
    BY <1>2, FlushMoveEffect DEF FlushMove
  <2>2. move.from = From(n) /\ move.to = MoveTo(n)
    BY DEF From, MoveTo
  <2>3. From(n) \notin Own(ad)
    BY <2>1, MovesLeaveTracks
  <2> HIDE DEF move, n
  <2>4. /\ DOMAIN disk \ {From(n)} \subseteq DOMAIN disk'
        /\ From(n) \in DOMAIN disk => MoveTo(n) \in DOMAIN disk'
    BY <2>1, <2>2 DEF Renamed, Rekey, Put, Without
  <2>5. CASE p \in DOMAIN disk
    <3>1. p \in DOMAIN disk'
      BY <2>3, <2>4, <2>5
    <3>. QED BY <3>1 DEF Present
  <2>6. ASSUME NEW i \in n..Len(ad.pendingMoves), MoveTo(i) = p, From(i) \in DOMAIN disk
        PROVE  Present(p)'
    <3>1. CASE i = n
      BY <2>4, <2>6, <3>1 DEF Present
    <3>2. CASE i # n
      <4>1. From(i) # From(n)
        BY <1>1, <2>1, <2>6, <3>2 DEF Separate, n
      <4>2. From(i) \in DOMAIN disk' /\ i \in n'..Len(ad'.pendingMoves)
        BY <1>1, <2>1, <2>4, <2>6, <3>2, <4>1 DEF n
      <4>3. MoveTo(i)' = p /\ From(i)' = From(i)
        BY <2>1, <2>6 DEF MoveTo, From
      <4>. QED BY <4>2, <4>3 DEF Present, n
    <3>. QED BY <3>1, <3>2
  <2>. QED BY <2>5, <2>6 DEF Present, n
<1>3. CASE FlushMovesEnd
  <2>1. disk' = disk /\ nextMove > Len(ad.pendingMoves)
    BY <1>3 DEF FlushMovesEnd, device
  <2>2. nextMove..Len(ad.pendingMoves) = {}
    BY <1>1, <2>1
  <2>. QED BY <2>1, <2>2 DEF Present
<1>. QED BY <1>2, <1>3

\* What a save moves, it moves to its track.
LEMMA SavingOnRecord ==
  ASSUME OnRecord, AllKnown, TInv, Save \/ FinalSave, ~SaveThrows, Running'
  PROVE  OnRecord'
<1>1. ad'.tracks = ad.tracks
  BY SavingRecorded
<1>2. CASE FlushMove
  <2>1. ad.pendingMoves[nextMove].to \in DOMAIN ad.tracks
    BY <1>2, FlushMoveEffect DEF AllKnown, Reserved, Listed
  <2>. QED BY <1>1, <1>2, <2>1, FlushMoveEffect DEF OnRecord
<1>3. CASE FlushMovesEnd
  <2>1. disk' = disk /\ nextMove > Len(ad.pendingMoves)
    BY <1>3 DEF FlushMovesEnd, device
  <2>2. nextMove..Len(ad.pendingMoves) = {}
    BY <2>1, MovesAreTyped DEF TInv, ProcessTyped
  <2>. QED BY <1>1, <2>1, <2>2 DEF OnRecord, ToMove
<1>4. CASE FlushTags \/ FlushSidecarWrites \/ FlushSidecarDeletes \/ WriteManifest \/ FinalSave
  <2>1. DOMAIN disk' = DOMAIN disk
    BY <1>4 DEF FlushTags, FlushSidecarWrites, FlushSidecarDeletes, WriteManifest, FinalSave,
                Tagged, device
  <2>2. nextMove' = nextMove
    BY <1>4 DEF FlushTags, FlushSidecarWrites, FlushSidecarDeletes, WriteManifest, FinalSave
  <2>3. ad'.pendingMoves = ad.pendingMoves
    <3>1. CASE FlushTags
      <4>1. Untaggable = {}
        BY <3>1 DEF FlushTags
      <4>2. ad' = [ad EXCEPT !.pendingTagWrites = NoEntries]
        BY <3>1, <4>1 DEF FlushTags
      <4>. QED BY <4>2
    <3>2. CASE FlushSidecarWrites
      <4>1. ad' = [ad EXCEPT !.pendingSidecarWrites = {}]
        BY <3>2 DEF FlushSidecarWrites
      <4>. QED BY <4>1
    <3>3. CASE FlushSidecarDeletes
      <4>1. ad' = [ad EXCEPT !.pendingSidecarDeletes = {}, !.managedCovers = @ \ Abandoned]
        BY <3>3 DEF FlushSidecarDeletes
      <4>. QED BY <4>1
    <3>4. CASE WriteManifest
      BY <3>4 DEF WriteManifest, Running, Saving
    <3>5. CASE FinalSave
      BY <3>5 DEF FinalSave
    <3>. QED BY <1>4, <3>1, <3>2, <3>3, <3>4, <3>5
  <2>. QED BY <1>1, <2>1, <2>2, <2>3 DEF OnRecord, ToMove
<1>. QED BY <1>2, <1>3, <1>4 DEF Save

\* A save that goes well takes nothing away from what a sync has achieved.
LEMMA SavingKeepsPInv ==
  ASSUME LayoutsApart, TInv, CInv, NInv, GInv, HInv, PInv,
         Save \/ FinalSave, Running', ~failed', quiet' >= 1
  PROVE  TracksApart' /\ OnRecord' /\ PlanFits' /\ OnItsWay'
<1>1. /\ Running /\ ad'.tracks = ad.tracks /\ ad'.managedFiles = ad.managedFiles
      /\ ad'.pendingMoves \in {ad.pendingMoves, <<>>}
  BY SavingRecorded
<1>2. ~SaveThrows
  BY DEF SaveThrows
<1>3. /\ plan' = plan /\ source' = source /\ quiet' = quiet /\ ~failed
      /\ disk' = disk \/ FlushMove \/ FlushTags
  BY <1>2 DEF Save, FlushMove, FlushMovesEnd, FlushTags, FlushSidecarWrites,
              FlushSidecarDeletes, WriteManifest, FinalSave, Stage, device
<1>4. TracksApart /\ OnRecord /\ PlanFits /\ OnItsWay /\ Separate /\ AllKnown
  BY <1>1, <1>3 DEF PInv, GInv, NInv
<1>5. Wanted' = Wanted /\ Own(ad)' = Own(ad)
  BY <1>1, <1>3 DEF Wanted, Own
<1>6. /\ \A s, p : LacksCover(s, p)' <=> LacksCover(s, p)
      /\ \A s, p : OtherCodec(s, p)' <=> OtherCodec(s, p)
      /\ \A s, p : Misplaced(s, p)' <=> Misplaced(s, p)
  <2>1. \A s, p : LacksCover(s, p)' <=> LacksCover(s, p)
    BY <1>1 DEF LacksCover
  <2>2. \A s, p : OtherCodec(s, p)' <=> OtherCodec(s, p)
    BY <1>1, <1>3 DEF OtherCodec
  <2>3. \A s, p : Misplaced(s, p)' <=> Misplaced(s, p)
    BY <1>3 DEF Misplaced, Home
  <2>. QED BY <2>1, <2>2, <2>3
<1>7. \A s, ext : Home(s, ext)' = Home(s, ext)
  BY <1>3 DEF Home
<1>8. ASSUME NEW i \in 1..Len(ad'.pendingMoves)
      PROVE  i \in 1..Len(ad.pendingMoves) /\ MoveTo(i)' = MoveTo(i)
  <2>1. CASE ad'.pendingMoves = ad.pendingMoves
    BY <1>8, <2>1 DEF MoveTo
  <2>2. CASE ad'.pendingMoves = <<>>
    <3>1. 1..Len(ad'.pendingMoves) = {}
      BY <2>2
    <3>. QED BY <1>8, <3>1
  <2>. QED BY <1>1, <2>1, <2>2
<1>9. TracksApart'
  BY <1>1, <1>3, <1>4, <1>5, <1>8 DEF TracksApart
<1>10. PlanFits'
  BY <1>1, <1>3, <1>4, <1>5, <1>6, <1>7 DEF PlanFits
<1>11. ASSUME NEW s \in Wanted
       PROVE  PlannedFor(s)' \/ \E p \in DOMAIN ad'.tracks : Right(s, p)'
  <2>1. PlannedFor(s) => PlannedFor(s)'
    BY <1>3 DEF PlannedFor
  <2>2. \A p : Right(s, p) => Right(s, p)'
    BY <1>1, <1>3, <1>5, <1>6 DEF Right
  <2>. QED BY <1>1, <1>4, <2>1, <2>2 DEF OnItsWay
<1>12. ASSUME NEW p \in Own(ad), Present(p) PROVE Present(p)'
  <2>1. CASE FlushMove \/ FlushMovesEnd
    BY <1>1, <1>4, <1>12, <2>1, FlushKeepsPresent
  <2>2. CASE ~FlushMove /\ ~FlushMovesEnd
    <3>1. DOMAIN disk' = DOMAIN disk
      BY <1>3, <2>2 DEF FlushTags, Tagged
    <3>2. CASE FlushTags
      <4>1. Untaggable = {}
        BY <1>2, <3>2 DEF FlushTags
      <4>2. ad' = [ad EXCEPT !.pendingTagWrites = NoEntries] /\ nextMove' = nextMove
        BY <3>2, <4>1 DEF FlushTags
      <4>3. ad'.pendingMoves = ad.pendingMoves
        BY <4>2
      <4>. QED BY <1>12, <3>1, <4>2, <4>3 DEF Present, MoveTo, From
    <3>3. CASE FlushSidecarWrites
      <4>1. ad' = [ad EXCEPT !.pendingSidecarWrites = {}] /\ nextMove' = nextMove
        BY <3>3 DEF FlushSidecarWrites
      <4>2. ad'.pendingMoves = ad.pendingMoves
        BY <4>1
      <4>. QED BY <1>12, <3>1, <4>1, <4>2 DEF Present, MoveTo, From
    <3>4. CASE FlushSidecarDeletes
      <4>1. /\ ad' = [ad EXCEPT !.pendingSidecarDeletes = {}, !.managedCovers = @ \ Abandoned]
            /\ nextMove' = nextMove
        BY <3>4 DEF FlushSidecarDeletes
      <4>2. ad'.pendingMoves = ad.pendingMoves
        BY <4>1
      <4>. QED BY <1>12, <3>1, <4>1, <4>2 DEF Present, MoveTo, From
    <3>5. CASE WriteManifest
      <4>1. ~final
        BY <3>5 DEF WriteManifest, Running, Saving
      <4>2. ad' = ad /\ nextMove' = nextMove
        BY <3>5, <4>1 DEF WriteManifest
      <4>. QED BY <1>12, <3>1, <4>2 DEF Present, MoveTo, From
    <3>6. CASE FinalSave
      <4>1. ad' = ad /\ nextMove' = nextMove
        BY <3>6 DEF FinalSave
      <4>. QED BY <1>12, <3>1, <4>1 DEF Present, MoveTo, From
    <3>. QED BY <2>2, <3>2, <3>3, <3>4, <3>5, <3>6 DEF Save
  <2>. QED BY <2>1, <2>2
<1>13. ASSUME Delete, NEW p \in Own(ad) \cap DOMAIN disk', ad.tracks[p].song \notin Wanted
       PROVE  ToRemove(ad.tracks[p].song)
  <2>1. p \in DOMAIN disk
    <3>1. CASE FlushMove
      <4>1. p # MoveTo(nextMove)
        <5>1. nextMove \in 1..Len(ad.pendingMoves)
          BY <3>1, FlushMoveEffect
        <5>. QED BY <1>4, <1>13, <5>1 DEF TracksApart
      <4>. QED BY <1>13, <3>1, <4>1, FlushMoveEffect DEF MoveTo
    <3>2. CASE disk' = disk \/ FlushTags
      BY <1>13, <3>2 DEF FlushTags, Tagged
    <3>. QED BY <1>3, <3>1, <3>2
  <2>. QED BY <1>4, <1>13, <2>1 DEF OnItsWay
<1>14. \A s : ToRemove(s)' <=> ToRemove(s)
  BY <1>3 DEF ToRemove
<1>15. OnItsWay'
  BY <1>1, <1>4, <1>5, <1>11, <1>12, <1>13, <1>14 DEF OnItsWay
<1>16. OnRecord'
  BY <1>2, <1>4, SavingOnRecord
<1>. QED BY <1>9, <1>10, <1>15, <1>16

\* An operation that is done without an error.
LEMMA DoingKeepsPInv ==
  ASSUME LayoutsApart, TInv, IInv, NInv, GInv, HInv, PInv, NEW op \in plan,
         Execute(op), ~failed', quiet' >= 1
  PROVE  TracksApart' /\ OnRecord' /\ PlanFits' /\ OnItsWay'
<1>1. phase = "executing" /\ ~failed /\ quiet' = quiet
  BY DEF Execute, Remove, Update, Relocate, Add, Upgrade, Doing
<1>2. TracksApart /\ OnRecord /\ PlanFits /\ OnItsWay /\ Separate /\ AllKnown /\ Running
  BY <1>1 DEF PInv, GInv, NInv, Running
<1>3. CASE Remove(op)
  BY <1>2, <1>3, RemoveOnItsWay
<1>4. CASE ~Remove(op)
  <2>1. \E old, new : Settles(op, old, new)
    BY <1>2, <1>4, UpdateSettles, RelocateSettles, AddSettles, UpgradeSettles DEF Execute
  <2>2. PICK old, new : Settles(op, old, new)
    BY <2>1
  <2>3. op.kind # "remove"
    BY <1>4 DEF Execute, Update, Relocate, Add, Upgrade, Doing
  <2>. QED BY <1>2, <2>2, <2>3, TracksStayApart, PlanStillFits, SettlesOnItsWay,
              SettlesOnRecord
<1>. QED BY <1>3, <1>4

\* While a sync of a tidy device goes well, every wanted song comes to what it is to be.
LEMMA NextPInv ==
  ASSUME LayoutsApart, OpenIsFresh, TInv, IInv, CInv, NInv, GInv, FInv, HInv, PInv, DInv,
         [Next]_vars
  PROVE  PInv'
<1> SUFFICES ASSUME Running', ~failed', quiet' >= 1
             PROVE  TracksApart' /\ OnRecord' /\ PlanFits' /\ OnItsWay'
  BY DEF PInv
<1>1. CASE Start
  <2>1. phase = "open" /\ quiet' = quiet
    BY <1>1 DEF Start
  <2>2. OnRecord'
    BY <1>1, FreshFacts DEF OnRecord
  <2>. QED BY <1>1, <2>1, <2>2, StartIsApart, StartFits, StartIsOnItsWay DEF DInv
<1>2. \A op \in plan : Execute(op) => TracksApart' /\ OnRecord' /\ PlanFits' /\ OnItsWay'
  BY DoingKeepsPInv
<1>3. CASE Save \/ FinalSave
  BY <1>3, SavingKeepsPInv
<1>4. CASE UNCHANGED vars
  BY <1>4 DEF PInv, Running, TracksApart, OnRecord, PlanFits, OnItsWay, Right, Present,
              PlannedFor, ToRemove, Own, Wanted, LacksCover, OtherCodec, Misplaced, Home,
              From, MoveTo, ToMove, vars, device, process
<1>5. /\ ~SaveFails /\ ~Interrupt
      /\ \A op \in plan : ~AddFails(op) /\ ~UpgradeLeavesOld(op)
  BY DEF SaveFails, FlushMoveFails, FlushTagsFails, FlushSidecarWritesFails,
         FlushSidecarDeletesFails, WriteManifestFails, SaveThrows, Interrupt, AddFails,
         UpgradeLeavesOld
<1>6. ~Open /\ ~Settle /\ ~Refuse /\ ~Crash /\ ~Change
  BY DEF Open, Settle, Refuse, Crash, Change, Running, Saving
<1>. QED BY <1>1, <1>2, <1>3, <1>4, <1>5, <1>6 DEF Next, Run, Trouble

\* A manifest that a sync of a tidy device ends with, when all went well.
LEMMA ManifestSyncs ==
  ASSUME TInv, IInv, CInv, SInv, PInv, WriteManifest, final, ~failed, quiet >= 1
  PROVE  OnceSynced' /\ (quiet >= 2 => TwiceSynced')
<1>1. /\ phase = "manifest" /\ Running /\ DOMAIN ad.pendingTagWrites = {} /\ Truthful
      /\ TracksApart /\ OnItsWay
  BY DEF SInv, PInv, Doomed, WriteManifest, Running, Saving
<1>2. plan = {}
  BY DEF IInv
<1>3. ad.pendingMoves = <<>> /\ nextMove = 1
  BY <1>1 DEF CInv, Saving, TInv, ProcessTyped
<1>4. nextMove..Len(ad.pendingMoves) = {}
  BY <1>3
<1>5. /\ disk' = disk /\ source' = source /\ quiet' = quiet
      /\ manifest'.files = ad.managedFiles
  BY DEF WriteManifest
<1>6. \A s, ext : Home(s, ext)' = Home(s, ext)
  BY <1>5 DEF Home
<1>7. ASSUME NEW p \in DOMAIN ad.tracks \cap DOMAIN disk
      PROVE  /\ disk[p].song = ad.tracks[p].song /\ disk[p].meta = ad.tracks[p].meta
             /\ disk[p].tag = ad.tracks[p].tag
  <2>1. Agrees(disk[p], ad, p)
    BY <1>1, <1>4 DEF Truthful, ToMove
  <2>2. Pending(ad, p) = [meta |-> Keep, tag |-> Keep]
    BY <1>1 DEF Pending
  <2>. QED BY <2>1, <2>2 DEF Agrees
<1>8. ASSUME NEW s \in Wanted
      PROVE  \E p \in DOMAIN disk :
               /\ UpToDate(s, p)' /\ (RightForm(s, p)' \/ RightPlace(s, p)')
               /\ quiet >= 2 => RightForm(s, p)' /\ RightPlace(s, p)'
  <2>1. PICK p \in DOMAIN ad.tracks : Right(s, p)
    BY <1>1, <1>2 DEF OnItsWay, PlannedFor
  <2>2. p \in DOMAIN disk
    BY <1>1, <1>4, <2>1 DEF OnItsWay, Present, Right
  <2>3. p \in ad.managedFiles
    BY <2>1 DEF Right, Own, IInv, Sound, Balanced
  <2>4. UpToDate(s, p)'
    BY <1>5, <1>7, <2>1, <2>2, <2>3 DEF UpToDate, Right, LacksCover
  <2>5. /\ ~OtherCodec(s, p) => RightForm(s, p)'
        /\ ~Misplaced(s, p) => RightPlace(s, p)'
    BY <1>5, <1>6, <1>7, <2>2 DEF OtherCodec, RightForm, Misplaced, RightPlace
  <2>. QED BY <2>1, <2>2, <2>4, <2>5 DEF Right
<1>9. ASSUME Delete, NEW p \in DOMAIN disk \cap ad.managedFiles PROVE disk[p].song \in Wanted
  <2>1. p \in DOMAIN ad.tracks
    BY <1>1, <1>4, <1>9 DEF Truthful, ToMove
  <2>2. p \in Own(ad)
    BY <1>1, <1>9, <2>1 DEF TracksApart
  <2>3. ad.tracks[p].song \in Wanted
    BY <1>1, <1>2, <1>9, <2>2 DEF OnItsWay, ToRemove
  <2>. QED BY <1>7, <1>9, <2>1, <2>3
<1>. QED BY <1>5, <1>6, <1>8, <1>9 DEF OnceSynced, TwiceSynced, Wanted

\* A diff of a tidy device that finds nothing to do.
LEMMA SettledTwice ==
  ASSUME OpenIsFresh, Settle
  PROVE  OnceSynced' /\ TwiceSynced'
<1>1. /\ phase = "open" /\ disk' = disk /\ manifest' = manifest /\ source' = source
  BY DEF Settle, device
<1>2. PICK kept \in Matchings : Operations(kept) = {}
  BY DEF Settle
<1>3. /\ \A p \in DOMAIN disk :
           /\ ad.tracks[p].song = disk[p].song /\ ad.tracks[p].meta = disk[p].meta
           /\ ad.tracks[p].tag = disk[p].tag
      /\ DeviceItems = DOMAIN disk \cap manifest.files
  BY <1>1, OpenFacts
<1>4. ASSUME NEW s \in Wanted
      PROVE  \E p \in DOMAIN disk : UpToDate(s, p) /\ RightForm(s, p) /\ RightPlace(s, p)
  <2>1. s \in Matched
    <3>1. Additions = {}
      BY <1>2 DEF Operations
    <3>. QED BY <3>1 DEF Additions
  <2>2. PICK p : p = kept[s]
    OBVIOUS
  <2>3. p \in DOMAIN disk /\ p \in manifest.files /\ disk[p].song = s
    <3>1. p \in ItemsOf(s)
      BY <2>1, <2>2 DEF Matchings
    <3>. QED BY <1>3, <3>1 DEF ItemsOf
  <2>4. OperationFor(s, p) = {}
    <3>1. ChangesOf(s, p) = {}
      BY <1>2, <2>1, <2>2 DEF Operations
    <3>. QED BY <3>1 DEF ChangesOf
  <2>5. ~LacksCover(s, p) /\ ~OtherCodec(s, p) /\ ~Misplaced(s, p) /\ ~Outdated(s, p)
    BY <2>4 DEF OperationFor, NeedsFile
  <2>6. UpToDate(s, p) /\ RightForm(s, p)
    BY <1>3, <2>3, <2>5 DEF UpToDate, RightForm, LacksCover, OtherCodec, Outdated
  <2>. QED BY <2>3, <2>5, <2>6 DEF Misplaced, RightPlace
<1>5. ASSUME Delete, NEW p \in DOMAIN disk \cap manifest.files PROVE disk[p].song \in Wanted
  <2>1. Removals(kept) = {}
    BY <1>2 DEF Operations
  <2>2. PICK s \in Matched : p = kept[s]
    <3> SUFFICES ASSUME \A s \in Matched : p # kept[s] PROVE FALSE
      OBVIOUS
    <3>1. [kind |-> "remove", song |-> ad.tracks[p].song, path |-> p] \in Removals(kept)
      BY <1>3, <1>5 DEF Removals
    <3>. QED BY <2>1, <3>1
  <2>3. p \in ItemsOf(s)
    <3>1. kept \in [Matched -> DeviceItems] /\ \A m \in Matched : kept[m] \in ItemsOf(m)
      BY DEF Matchings
    <3>. QED BY <2>2, <3>1
  <2>4. s \in Wanted
    BY <2>2 DEF Matched
  <2>. QED BY <1>3, <2>3, <2>4 DEF ItemsOf
<1>6. OnceSynced /\ TwiceSynced
  BY <1>4, <1>5 DEF OnceSynced, TwiceSynced
<1>. QED BY <1>1, <1>6 DEF OnceSynced, TwiceSynced, UpToDate, RightForm, RightPlace, Wanted,
                          Home

\* A tidy device is not refused.
LEMMA TidyIsNotRefused ==
  ASSUME OpenIsFresh, phase = "open", Tidy
  PROVE  ~Refuse
<1> SUFFICES ASSUME NEW kept \in Matchings, Collisions(Operations(kept)) # {} PROVE FALSE
  BY DEF Refuse
<1>1. ad.allocatedPaths = DOMAIN disk /\ ad.managedFiles = manifest.files
  BY OpenFacts
<1>2. PICK op \in Operations(kept) : op.kind = "add" /\ op.path \in DOMAIN disk \ manifest.files
  BY <1>1 DEF Collisions
<1>3. op.song \in Wanted /\ op.path = Home(op.song, source[op.song].ext)
  BY <1>2, Planned DEF AboutTrack
<1>4. op.path.at = source[op.song].at
  BY <1>3 DEF Home, HomePath
<1>. QED BY <1>2, <1>3, <1>4 DEF Tidy, NoClash

\* How a sync of a tidy device ends, and how the next one begins.
LEMMA RestSteps ==
  ASSUME [Next]_vars, phase' \in Idle \cup {"open"}, quiet' >= 1
  PROVE  \/ Open \/ Settle \/ Refuse \/ UNCHANGED vars
         \/ WriteManifest /\ final /\ ~failed /\ quiet' = quiet
<1>1. ~SaveThrows /\ ~SaveFails /\ ~Interrupt /\ ~Crash /\ ~Change
  <2>1. quiet' # 0
    OBVIOUS
  <2>. QED BY <2>1 DEF SaveFails, FlushMoveFails, FlushTagsFails, FlushSidecarWritesFails,
                       FlushSidecarDeletesFails, WriteManifestFails, SaveThrows, Interrupt,
                       Crash, Change
<1>2. \A op \in plan : ~Execute(op) /\ ~AddFails(op) /\ ~UpgradeLeavesOld(op)
  <2>1. \A op, kind : ~Doing(op, kind)
    BY DEF Doing, Idle
  <2>. QED BY <2>1 DEF Execute, Remove, Update, Relocate, Add, Upgrade, UpgradeLeavesOld,
                       AddFails, Idle
<1>3. ~Start /\ ~FinalSave
  BY DEF Start, FinalSave, Idle
<1>4. Save => WriteManifest
  BY <1>1 DEF Save, FlushMove, FlushMovesEnd, FlushTags, FlushSidecarWrites,
              FlushSidecarDeletes, Stage, Idle
<1>5. WriteManifest => final /\ ~failed /\ quiet' = quiet
  BY DEF WriteManifest, Idle
<1>. QED BY <1>1, <1>2, <1>3, <1>4, <1>5 DEF Next, Run, Trouble

\* What one sync of a tidy device achieves, and two, is there until something happens.
LEMMA NextDInv ==
  OpenIsFresh /\ TInv /\ IInv /\ CInv /\ SInv /\ PInv /\ DInv /\ [Next]_vars => DInv'
<1> SUFFICES ASSUME OpenIsFresh, TInv, IInv, CInv, SInv, PInv, DInv, [Next]_vars PROVE DInv'
  OBVIOUS
<1>1. quiet \in 0..3 /\ quiet' \in 0..3
  BY FlagsStep DEF TInv, FlagsTyped
<1>2. CASE Open /\ quiet' >= 1
  <2>1. /\ phase \in Idle /\ phase' = "open"
        /\ disk' = disk /\ manifest' = manifest /\ source' = source
        /\ Tidy /\ quiet' = IF quiet = 3 THEN 3 ELSE quiet + 1
    BY <1>2 DEF Open, device
  <2>2. Tidy' /\ (OnceSynced => OnceSynced') /\ (TwiceSynced => TwiceSynced')
    BY <2>1 DEF Tidy, NoClash, OnceSynced, TwiceSynced, UpToDate, RightForm, RightPlace,
                Wanted, Home
  <2>3. (quiet' >= 2 => quiet >= 1) /\ (quiet' >= 3 => quiet >= 2)
    BY <1>1, <2>1
  <2>4. (quiet' >= 2 => OnceSynced') /\ (quiet' >= 3 => TwiceSynced')
    BY <2>1, <2>2, <2>3 DEF DInv
  <2>. QED BY <2>1, <2>2, <2>4 DEF DInv, Idle
<1>3. CASE Settle
  <2>1. phase' = "settled"
    BY <1>3 DEF Settle
  <2>. QED BY <1>3, <2>1, SettledTwice DEF DInv
<1>4. CASE Refuse /\ quiet' >= 1
  <2>1. phase = "open" /\ quiet' = quiet
    BY <1>4 DEF Refuse
  <2>. QED BY <1>4, <2>1, TidyIsNotRefused DEF DInv
<1>5. CASE WriteManifest /\ final /\ ~failed /\ quiet' = quiet /\ quiet' >= 1
  <2>1. OnceSynced' /\ (quiet' >= 2 => TwiceSynced')
    BY <1>5, ManifestSyncs
  <2>2. phase' = "closed"
    BY <1>5 DEF WriteManifest
  <2>. QED BY <2>1, <2>2 DEF DInv
<1>6. CASE UNCHANGED vars
  BY <1>6 DEF DInv, Idle, Tidy, NoClash, OnceSynced, TwiceSynced, UpToDate, RightForm,
              RightPlace, Wanted, Home, vars, device, process
<1>7. CASE phase' \notin Idle \cup {"open"}
  BY <1>7 DEF DInv
<1>8. CASE ~(quiet' >= 1)
  <2>1. quiet' = 0
    BY <1>1, <1>8
  <2>2. ~(0 >= 1) /\ ~(0 >= 2) /\ ~(0 >= 3)
    OBVIOUS
  <2>. QED BY <2>1, <2>2 DEF DInv
<1>9. CASE phase' \in Idle \cup {"open"} /\ quiet' >= 1
  <2>1. \/ Open \/ Settle \/ Refuse \/ UNCHANGED vars
        \/ WriteManifest /\ final /\ ~failed /\ quiet' = quiet
    BY <1>9, RestSteps
  <2>. QED BY <1>2, <1>3, <1>4, <1>5, <1>6, <1>9, <2>1
<1>. QED BY <1>7, <1>8, <1>9

\* A device on which two syncs went well, and that is still tidy.
LEMMA NothingLeftToDo ==
  ASSUME OpenIsFresh, phase = "open", Tidy, TwiceSynced, NEW kept \in Matchings
  PROVE  Operations(kept) = {}
<1>1. /\ \A p \in DOMAIN disk :
           /\ ad.tracks[p].song = disk[p].song /\ ad.tracks[p].meta = disk[p].meta
           /\ ad.tracks[p].tag = disk[p].tag
      /\ DeviceItems = DOMAIN disk \cap manifest.files
  BY OpenFacts
<1>2. ASSUME NEW s \in Wanted
      PROVE  s \in Matched /\ OperationFor(s, kept[s]) = {}
  <2>1. PICK p \in DOMAIN disk : UpToDate(s, p) /\ RightForm(s, p) /\ RightPlace(s, p)
    BY DEF TwiceSynced
  <2>2. s \in Matched /\ p = kept[s]
    BY <2>1, KeptIsOnly DEF UpToDate
  <2>3. ~NeedsFile(s, p) /\ ~Misplaced(s, p) /\ ~Outdated(s, p)
    BY <1>1, <2>1 DEF UpToDate, RightForm, RightPlace, NeedsFile, LacksCover, OtherCodec,
                      Misplaced, Outdated
  <2>. QED BY <2>2, <2>3 DEF OperationFor
<1>3. Additions = {}
  BY <1>2 DEF Additions
<1>4. ASSUME NEW s \in Matched PROVE ChangesOf(s, kept[s]) = {}
  BY <1>2 DEF ChangesOf, Matched
<1>5. ASSUME Delete, NEW p \in DeviceItems PROVE \E s \in Matched : p = kept[s]
  <2>1. disk[p].song \in Wanted
    BY <1>1, <1>5 DEF TwiceSynced, OnceSynced
  <2>. QED BY <1>1, <2>1, KeptIsOnly
<1>6. Removals(kept) = {}
  BY <1>5 DEF Removals
<1>. QED BY <1>3, <1>4, <1>6 DEF Operations

(***************************************************************************)
(* Syncs come to rest: after two syncs of a tidy device in which nothing   *)
(* went wrong and after which nothing was changed, the third one, if the   *)
(* device is still tidy, has nothing to do. The first one may replace a    *)
(* file in an old place, which the second one then moves, or bring tags    *)
(* and place up to date and leave a new codec to the second one, which     *)
(* then finds the place free; no sync makes work for the next one for      *)
(* ever. Layouts that share a place would let two songs push each other    *)
(* out of it.                                                              *)
(***************************************************************************)
THEOREM SyncsSettle ==
  ASSUME LayoutsApart
  PROVE  Spec => []TwoSyncsSettle
<1> DEFINE Invs == OpenIsFresh /\ CInv /\ NInv /\ GInv /\ SInv /\ PInv /\ DInv
<1>1. Init => Invs
  BY DEF Init, OpenIsFresh, CInv, NInv, GInv, SInv, PInv, DInv, Running, Saving
<1>2. Invs /\ TInv /\ IInv /\ FInv /\ HInv /\ [Next]_vars => Invs'
  BY FreshStep, NextCInv, NextNInv, NextGInv, NextSInv, NextPInv, NextDInv
<1>3. Invs => TwoSyncsSettle
  BY NothingLeftToDo DEF TwoSyncsSettle, DInv
<1> HIDE DEF Invs
<1>. QED BY <1>1, <1>2, <1>3, TInvHolds, IInvHolds, FInvHolds, HInvHolds, PTL DEF Spec

=============================================================================
