--------------------------- MODULE MCMassStorage ---------------------------
(***************************************************************************)
(* MassStorageSync with two songs and a file of the user's. The first song *)
(* can be moved to another album directory, where the user's file has the  *)
(* name it would get; the second one shares its first directory.           *)
(***************************************************************************)
EXTENDS MassStorageSync

CONSTANTS s1, s2, l1, l2, l3, d1, d2, m4a, flac

MCDirOf == [l \in {l1, l2, l3} |-> IF l = l2 THEN d2 ELSE d1]

\* No place is offered to both songs.
MCLayouts == [s \in {s1, s2} |-> IF s = s1 THEN {l1, l2} ELSE {l3}]

\* Both songs may get the first place.
MCSharedLayouts == [s \in {s1, s2} |-> IF s = s1 THEN {l1, l2} ELSE {l1}]

MCUserFiles == {HomePath(l2, m4a)}
MCNoUserFiles == {}

=============================================================================
