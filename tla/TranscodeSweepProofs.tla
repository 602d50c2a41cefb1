------------------------ MODULE TranscodeSweepProofs ------------------------
(***************************************************************************)
(* Theorems about TranscodeSweep, for any sessions and grace periods.      *)
(***************************************************************************)
EXTENDS TranscodeSweep, TLAPS

-----------------------------------------------------------------------------
(* The inductive invariant.                                                *)

\* What a session's directory may be, in full: a function, not only the ages
\* of what is in it.
Dirs == UNION {[D -> Ages] : D \in SUBSET Entries}

Typed ==
  /\ step \in [Sessions -> {"new", "made", "marked", "gone"}]
  /\ reused \in SUBSET Sessions
  /\ tmp \in [Sessions -> Dirs]
  /\ sweep \in {"idle", "looking", "planned"}
  /\ toLook \in SUBSET Sessions /\ condemned \in SUBSET Sessions
  /\ debris \in SUBSET Sessions /\ resisted \in SUBSET Sessions
  /\ look \in [at : Sessions \cup {"nothing"}, seen : Ages, read : BOOLEAN,
               quiet : {0, OwnerlessGrace, UnverifiedGrace}]
  /\ fooled \in [Sessions -> SUBSET Excuse]

\* What there is of a directory tells how far its session is.
Contents(s) ==
  /\ DOMAIN tmp[s] # {} => Exists(s)
  /\ step[s] = "new" => DOMAIN tmp[s] = {}
  /\ step[s] = "made" => DOMAIN tmp[s] \subseteq {"dir"}
  /\ step[s] = "marked" /\ Exists(s) => "owner" \in DOMAIN tmp[s]
  /\ s \in reused => step[s] = "gone"

\* The sweep: what it lists, looks at or condemns was there as it began, and
\* of a running session it still is.
Watched(s) == s \in toLook \cup condemned \/ Looked(s)

Stages ==
  /\ look # NoLook => sweep = "looking" /\ look.at \in Sessions
  /\ sweep = "planned" => toLook = {}
  /\ sweep = "idle" => condemned = {} /\ toLook = {} /\ debris = {} /\ resisted = {}

Listed(s) == Watched(s) => step[s] # "new" /\ (Running(s) => Exists(s))

\* Whatever untouched time could deceive the sweep has been recorded.
Recorded(s) ==
  sweep # "idle" /\ Running(s) /\ Exists(s) =>
    /\ step[s] = "made" /\ tmp[s]["dir"] >= OwnerlessGrace => "slow to mark" \in fooled[s]
    /\ (\A e \in DOMAIN tmp[s] : tmp[s][e] >= UnverifiedGrace) => "idle" \in fooled[s]

\* The directory is not younger than the newest of its mtime as it was read and
\* of what is in it, or an output went under the sweep's eyes.
SeenWell(s) ==
  "under the eyes" \in fooled[s] \/ tmp[s]["dir"] >= look.seen
    \/ \E e \in DOMAIN tmp[s] \ {"dir"} : tmp[s]["dir"] >= tmp[s][e]

\* A running session that was found unmarked is unmarked still, or was marked
\* while it was looked at; one that was found marked has been misjudged.
SeenRunning(s) ==
  Looked(s) /\ Running(s) =>
    /\ SeenWell(s)
    /\ step[s] = "made" => tmp[s]["dir"] = look.seen
    /\ look.read =>
         \/ /\ look.quiet = OwnerlessGrace
            /\ step[s] = "marked" /\ tmp[s]["owner"] >= OwnerlessGrace
                 => "slow look" \in fooled[s]
         \/ /\ look.quiet = UnverifiedGrace /\ step[s] = "marked"
            /\ "misjudged" \in fooled[s]

Excused(s) ==
  \/ fooled[s] \cap {"slow to mark", "slow look"} # {}
  \/ "misjudged" \in fooled[s] /\ fooled[s] \cap {"idle", "under the eyes"} # {}

Spared(s) == Running(s) /\ (s \in condemned \/ ~Exists(s)) => Excused(s)

\* What has to be removed is on its way to that.
Clearing(s) ==
  s \in debris =>
    /\ step[s] = "gone"
    /\ Exists(s) =>
         /\ "owner" \in DOMAIN tmp[s]
         /\ s \in toLook \cup condemned \cup resisted \cup reused \/ Looked(s)
         /\ Looked(s) /\ look.read /\ s \notin reused => look.quiet = 0

Inv(s) ==
  Contents(s) /\ Listed(s) /\ Recorded(s) /\ SeenRunning(s) /\ Spared(s) /\ Clearing(s)

IInv == Typed /\ Stages /\ \A s \in Sessions : Inv(s)

-----------------------------------------------------------------------------
(* Directories.                                                            *)

LEMMA Graces ==
  /\ OwnerlessGrace \in Nat /\ UnverifiedGrace \in Nat
  /\ 0 < OwnerlessGrace /\ OwnerlessGrace < UnverifiedGrace
  /\ Ages = 0 .. UnverifiedGrace /\ 0 \in Ages
BY SweepAssumption DEF Ages

\* What was touched just now is younger than any grace.
LEMMA Fresh == \A x : x = 0 => ~(x >= OwnerlessGrace) /\ ~(x >= UnverifiedGrace)
BY Graces

\* What a directory is.
LEMMA DirFacts ==
  ASSUME NEW f \in Dirs
  PROVE  DOMAIN f \in SUBSET Entries /\ \A e \in DOMAIN f : f[e] \in Ages
BY DEF Dirs

\* What writing some entries makes of the directories.
LEMMA TouchedFacts ==
  ASSUME Typed, NEW s \in Sessions, NEW entries \in SUBSET Entries
  PROVE  /\ Touched(s, entries) \in [Sessions -> Dirs]
         /\ \A r \in Sessions : r # s => Touched(s, entries)[r] = tmp[r]
         /\ DOMAIN Touched(s, entries)[s] = DOMAIN tmp[s] \cup entries
         /\ \A e \in DOMAIN tmp[s] \cup entries :
              Touched(s, entries)[s][e] = IF e \in entries THEN 0 ELSE tmp[s][e]
<1> DEFINE D == DOMAIN tmp[s] \cup entries
           f == [e \in D |-> IF e \in entries THEN 0 ELSE tmp[s][e]]
<1>1. tmp \in [Sessions -> Dirs] /\ tmp[s] \in Dirs
  BY DEF Typed
<1>2. D \in SUBSET Entries /\ \A e \in DOMAIN tmp[s] : tmp[s][e] \in Ages
  BY <1>1, DirFacts
<1>3. f \in [D -> Ages]
  BY <1>2, Graces
<1>4. f \in Dirs
  <2>. HIDE DEF f, D
  <2>. QED BY <1>2, <1>3 DEF Dirs
<1>5. Touched(s, entries) = [tmp EXCEPT ![s] = f]
  BY DEF Touched
<1>6. DOMAIN f = D /\ \A e \in D : f[e] = IF e \in entries THEN 0 ELSE tmp[s][e]
  OBVIOUS
<1>7. /\ Touched(s, entries) \in [Sessions -> Dirs]
      /\ Touched(s, entries)[s] = f
      /\ \A r \in Sessions : r # s => Touched(s, entries)[r] = tmp[r]
  <2>. HIDE DEF f, D
  <2>. QED BY <1>1, <1>4, <1>5
<1>. QED BY <1>6, <1>7

\* And what removing one does.
LEMMA WithoutFacts ==
  ASSUME Typed, NEW s \in Sessions, NEW entry \in Entries \ {"dir"}
  PROVE  /\ Without(s, entry) \in [Sessions -> Dirs]
         /\ \A r \in Sessions : r # s => Without(s, entry)[r] = tmp[r]
         /\ DOMAIN Without(s, entry)[s] = (DOMAIN tmp[s] \cup {"dir"}) \ {entry}
         /\ \A e \in (DOMAIN tmp[s] \cup {"dir"}) \ {entry} :
              Without(s, entry)[s][e] = IF e = "dir" THEN 0 ELSE tmp[s][e]
<1> DEFINE t == Touched(s, {"dir"})
           D == DOMAIN t[s] \ {entry}
           f == [e \in D |-> t[s][e]]
<1>1. /\ t \in [Sessions -> Dirs] /\ t[s] \in Dirs
      /\ \A r \in Sessions : r # s => t[r] = tmp[r]
      /\ DOMAIN t[s] = DOMAIN tmp[s] \cup {"dir"}
      /\ \A e \in DOMAIN tmp[s] \cup {"dir"} :
           t[s][e] = IF e = "dir" THEN 0 ELSE tmp[s][e]
  <2>1. {"dir"} \in SUBSET Entries
    BY DEF Entries
  <2>. QED BY <2>1, TouchedFacts
<1>2. Without(s, entry) = [t EXCEPT ![s] = f]
  BY DEF Without
<1>. HIDE DEF t
<1>3. D \in SUBSET Entries /\ \A e \in DOMAIN t[s] : t[s][e] \in Ages
  BY <1>1, DirFacts
<1>4. f \in [D -> Ages]
  BY <1>3
<1>5. DOMAIN f = D /\ \A e \in D : f[e] = t[s][e]
  OBVIOUS
<1>6. f \in Dirs
  <2>. HIDE DEF f, D
  <2>. QED BY <1>3, <1>4 DEF Dirs
<1>7. /\ Without(s, entry) \in [Sessions -> Dirs]
      /\ Without(s, entry)[s] = f
      /\ \A r \in Sessions : r # s => Without(s, entry)[r] = t[r]
  <2>. HIDE DEF f, D
  <2>. QED BY <1>1, <1>2, <1>6
<1>. QED BY <1>1, <1>5, <1>7

\* A directory that is gone.
LEMMA RemovedFacts == Removed \in Dirs /\ DOMAIN Removed = {}
<1>1. Removed \in [{} -> Ages]
  BY DEF Removed
<1>. QED BY <1>1 DEF Dirs, Removed

\* The youngest of a directory's entries, and of what the sweep looks at.
LEMMA MinOfNat ==
  ASSUME NEW S, S \in SUBSET Nat, \E x \in S : \A y \in S : x <= y
  PROVE  Min(S) \in S /\ \A y \in S : Min(S) <= y
BY DEF Min

LEMMA MinOfDir ==
  ASSUME NEW f \in Dirs, NEW D \in SUBSET DOMAIN f, NEW extra \in SUBSET Ages,
         extra = {} \/ \E a \in Ages : extra = {a},
         D # {} \/ extra # {}
  PROVE  LET S == extra \cup {f[e] : e \in D}
         IN  Min(S) \in S /\ \A y \in S : Min(S) <= y
<1> DEFINE S == extra \cup {f[e] : e \in D}
<1>1. S \in SUBSET Nat /\ S # {}
  <2>1. \A e \in D : f[e] \in Nat
    BY DirFacts, Graces
  <2>2. extra \in SUBSET Nat
    BY Graces
  <2>. QED BY <2>1, <2>2
<1>2. D \in SUBSET {"dir", "owner", "output"} /\ \A e \in D : f[e] \in Nat
  BY DirFacts, Graces DEF Entries
<1>3. \E x \in S : \A y \in S : x <= y
  <2>1. D = {} \/ \E d \in D : \A e \in D : f[d] <= f[e]
    BY <1>2
  <2>2. CASE D = {}
    BY <1>1, <2>2, Graces
  <2>3. CASE D # {}
    <3>1. PICK d \in D : \A e \in D : f[d] <= f[e]
      BY <2>1, <2>3
    <3>2. CASE extra = {}
      BY <3>1, <3>2
    <3>3. CASE extra # {}
      <4>1. PICK a \in Ages : extra = {a}
        BY <3>3
      <4>2. a \in Nat /\ f[d] \in Nat
        BY <1>2, <4>1, Graces
      <4>3. CASE a <= f[d]
        BY <1>2, <3>1, <4>1, <4>2, <4>3
      <4>4. CASE f[d] <= a
        BY <1>2, <3>1, <4>1, <4>2, <4>4
      <4>. QED BY <4>2, <4>3, <4>4
    <3>. QED BY <3>2, <3>3
  <2>. QED BY <2>2, <2>3
<1>. HIDE DEF S
<1>4. Min(S) \in S /\ \A y \in S : Min(S) <= y
  BY <1>1, <1>3, MinOfNat
<1>. QED BY <1>4 DEF S

\* How long a directory has been untouched is how old its youngest entry is.
LEMMA UntouchedFacts ==
  ASSUME Typed, NEW s \in Sessions, Exists(s)
  PROVE  /\ Untouched(s) \in Nat
         /\ \A e \in DOMAIN tmp[s] : Untouched(s) <= tmp[s][e]
         /\ \E e \in DOMAIN tmp[s] : Untouched(s) = tmp[s][e]
<1> DEFINE f == tmp[s]
           S == {} \cup {f[e] : e \in DOMAIN f}
<1>1. f \in Dirs
  BY DEF Typed
<1>2. DOMAIN f # {}
  BY DEF Exists
<1>3. \A e \in DOMAIN f : f[e] \in Nat
  BY <1>1, DirFacts, Graces
<1>4. Min(S) \in S /\ \A y \in S : Min(S) <= y
  <2>. HIDE DEF f
  <2>. QED BY <1>1, <1>2, MinOfDir
<1>5. Untouched(s) = Min(S)
  BY DEF Untouched
<1>. QED BY <1>3, <1>4, <1>5

\* And what the sweep takes for the last touch, from the mtime it has read.
LEMMA LastTouchedFacts ==
  ASSUME Typed, NEW s \in Sessions
  PROVE  /\ LastTouched(s) \in Nat
         /\ LastTouched(s) <= look.seen
         /\ \A e \in DOMAIN tmp[s] \ {"dir"} : LastTouched(s) <= tmp[s][e]
<1> DEFINE f == tmp[s]
           D == DOMAIN f \ {"dir"}
           S == {look.seen} \cup {f[e] : e \in D}
<1>1. f \in Dirs /\ look.seen \in Ages
  BY DEF Typed
<1>2. (\A e \in DOMAIN f : f[e] \in Nat) /\ look.seen \in Nat
  BY <1>1, DirFacts, Graces
<1>3. Min(S) \in S /\ \A y \in S : Min(S) <= y
  <2>1. D \in SUBSET DOMAIN f /\ {look.seen} \in SUBSET Ages
    BY <1>1
  <2>. HIDE DEF f, D
  <2>. QED BY <1>1, <2>1, MinOfDir
<1>4. LastTouched(s) = Min(S)
  BY DEF LastTouched
<1>. QED BY <1>2, <1>3, <1>4

-----------------------------------------------------------------------------
(* What the sessions do.                                                   *)

\* A session to which nothing happens, while the sweep stands still.
LEMMA SameSession ==
  ASSUME NEW r, Inv(r),
         UNCHANGED <<step[r], tmp[r], fooled[r], sweepVars>>,
         r \in reused' <=> r \in reused
  PROVE  Inv(r)'
<1>1. /\ Running(r)' = Running(r) /\ Exists(r)' = Exists(r) /\ Looked(r)' = Looked(r)
      /\ Watched(r)' = Watched(r) /\ Excused(r)' = Excused(r) /\ SeenWell(r)' = SeenWell(r)
  BY DEF Running, Exists, Looked, Watched, Excused, SeenWell, sweepVars
<1>. USE <1>1 DEF Inv, sweepVars
<1>2. Contents(r)'
  BY DEF Contents
<1>3. Listed(r)'
  BY DEF Listed
<1>4. Recorded(r)'
  BY DEF Recorded
<1>5. SeenRunning(r)'
  BY DEF SeenRunning
<1>6. Spared(r)'
  BY DEF Spared
<1>7. Clearing(r)'
  BY DEF Clearing
<1>. QED BY <1>2, <1>3, <1>4, <1>5, <1>6, <1>7

\* A session that goes one step further.
LEMMA BecomesFacts ==
  ASSUME Typed, NEW s \in Sessions, NEW n \in {"new", "made", "marked", "gone"},
         Becomes(s, n)
  PROVE  /\ step' \in [Sessions -> {"new", "made", "marked", "gone"}]
         /\ step'[s] = n
         /\ \A r \in Sessions : r # s => step'[r] = step[r]
         /\ reused' = reused
BY DEF Becomes, Typed

\* A session that starts: nothing of it was there to be listed.
LEMMA MakeDirInv ==
  ASSUME Typed, NEW s \in Sessions, Inv(s), MakeDir(s)
  PROVE  /\ step' \in [Sessions -> {"new", "made", "marked", "gone"}]
         /\ tmp' \in [Sessions -> Dirs]
         /\ \A r \in Sessions : r # s => UNCHANGED <<step[r], tmp[r]>>
         /\ UNCHANGED <<reused, fooled, sweepVars>>
         /\ Inv(s)'
<1>1. /\ step[s] = "new" /\ Becomes(s, "made") /\ tmp' = Touched(s, {"dir"})
      /\ UNCHANGED <<sweepVars, fooled>>
  BY DEF MakeDir
<1>2. /\ step' \in [Sessions -> {"new", "made", "marked", "gone"}]
      /\ step'[s] = "made" /\ reused' = reused
      /\ \A r \in Sessions : r # s => step'[r] = step[r]
  BY <1>1, BecomesFacts
<1>3. /\ tmp' \in [Sessions -> Dirs]
      /\ \A r \in Sessions : r # s => tmp'[r] = tmp[r]
      /\ DOMAIN tmp'[s] = {"dir"} /\ tmp'[s]["dir"] = 0
  <2>1. {"dir"} \in SUBSET Entries /\ DOMAIN tmp[s] = {}
    BY <1>1 DEF Entries, Inv, Contents
  <2>. QED BY <1>1, <2>1, TouchedFacts
<1>4. /\ ~Watched(s)' /\ ~Looked(s)' /\ s \notin condemned' /\ s \notin debris'
      /\ s \notin reused'
  BY <1>1, <1>2 DEF Inv, Listed, Clearing, Contents, Watched, Looked, sweepVars
<1>5. Exists(s)'
  BY <1>3 DEF Exists
<1>6. Contents(s)'
  BY <1>2, <1>3, <1>4, <1>5 DEF Contents
<1>7. Listed(s)'
  BY <1>4 DEF Listed
<1>8. Recorded(s)'
  BY <1>3, Fresh DEF Recorded
<1>9. SeenRunning(s)'
  BY <1>4 DEF SeenRunning
<1>10. Spared(s)'
  BY <1>4, <1>5 DEF Spared
<1>11. Clearing(s)'
  BY <1>4 DEF Clearing
<1>12. Inv(s)'
  BY <1>6, <1>7, <1>8, <1>9, <1>10, <1>11 DEF Inv
<1>. QED BY <1>1, <1>2, <1>3, <1>12

\* The mark is younger than any grace; if the sweep looks, it may have missed it.
LEMMA WriteOwnershipInv ==
  ASSUME Typed, NEW s \in Sessions, Inv(s), WriteOwnership(s)
  PROVE  /\ step' \in [Sessions -> {"new", "made", "marked", "gone"}]
         /\ tmp' \in [Sessions -> Dirs]
         /\ \A r \in Sessions : r # s => UNCHANGED <<step[r], tmp[r]>>
         /\ UNCHANGED <<reused, fooled, sweepVars>>
         /\ Inv(s)'
<1>1. /\ step[s] = "made" /\ Exists(s) /\ Becomes(s, "marked")
      /\ tmp' = Touched(s, {"dir", "owner"})
      /\ UNCHANGED <<sweepVars, fooled>>
  BY DEF WriteOwnership
<1>2. /\ step' \in [Sessions -> {"new", "made", "marked", "gone"}]
      /\ step'[s] = "marked" /\ reused' = reused
      /\ \A r \in Sessions : r # s => step'[r] = step[r]
  BY <1>1, BecomesFacts
<1>3. /\ tmp' \in [Sessions -> Dirs]
      /\ \A r \in Sessions : r # s => tmp'[r] = tmp[r]
      /\ DOMAIN tmp'[s] = {"dir", "owner"}
      /\ tmp'[s]["dir"] = 0 /\ tmp'[s]["owner"] = 0
  <2>1. {"dir", "owner"} \in SUBSET Entries /\ DOMAIN tmp[s] \subseteq {"dir"}
    BY <1>1 DEF Entries, Inv, Contents
  <2>. QED BY <1>1, <2>1, TouchedFacts
<1>4. /\ UNCHANGED <<toLook, condemned, look, debris, resisted, sweep>>
      /\ Watched(s)' = Watched(s) /\ Looked(s)' = Looked(s) /\ Excused(s)' = Excused(s)
  BY <1>1 DEF Watched, Looked, Excused, sweepVars
<1>5. Exists(s)' /\ Running(s) /\ Running(s)'
  BY <1>1, <1>2, <1>3 DEF Exists, Running
<1>6. Contents(s)' /\ Listed(s)' /\ Spared(s)' /\ Clearing(s)'
  BY <1>1, <1>2, <1>3, <1>4, <1>5 DEF Inv, Contents, Listed, Spared, Clearing
<1>7. Recorded(s)'
  BY <1>2, <1>3, Fresh DEF Recorded
<1>8. SeenRunning(s)'
  <2>1. SeenWell(s)'
    <3>1. "owner" \in DOMAIN tmp'[s] \ {"dir"}
      BY <1>3
    <3>2. tmp'[s]["dir"] >= tmp'[s]["owner"]
      BY <1>3
    <3>. QED BY <3>1, <3>2 DEF SeenWell
  <2>2. Looked(s) /\ look.read => look.quiet = OwnerlessGrace
    BY <1>1, <1>5 DEF Inv, SeenRunning
  <2>. QED BY <1>2, <1>3, <1>4, <2>1, <2>2, Fresh DEF SeenRunning
<1>. QED BY <1>1, <1>2, <1>3, <1>6, <1>7, <1>8 DEF Inv

\* An output that is started or written on is younger than any grace.
LEMMA OutputInv ==
  ASSUME Typed, NEW s \in Sessions, Inv(s), StartOutput(s) \/ GrowOutput(s)
  PROVE  /\ tmp' \in [Sessions -> Dirs]
         /\ \A r \in Sessions : r # s => UNCHANGED tmp[r]
         /\ UNCHANGED <<step, reused, fooled, sweepVars>>
         /\ Inv(s)'
<1>1. UNCHANGED <<step, reused, sweepVars, fooled>>
  BY DEF StartOutput, GrowOutput, sessionVars
<1>2. step[s] = "marked" /\ Exists(s)
  BY DEF StartOutput, GrowOutput, Running, Inv, Contents
<1>3. /\ tmp' \in [Sessions -> Dirs]
      /\ \A r \in Sessions : r # s => tmp'[r] = tmp[r]
      /\ DOMAIN tmp'[s] = DOMAIN tmp[s] \cup {"output"}
      /\ \/ tmp'[s]["dir"] = 0
         \/ tmp'[s]["dir"] = tmp[s]["dir"]
      /\ tmp'[s]["output"] = 0
      /\ tmp'[s]["owner"] = tmp[s]["owner"]
  <2>1. PICK entries \in SUBSET Entries :
          /\ entries \in {{"output"}, {"dir", "output"}}
          /\ tmp' = Touched(s, entries)
    BY DEF StartOutput, GrowOutput, Entries
  <2>2. "dir" \in DOMAIN tmp[s] /\ "owner" \in DOMAIN tmp[s]
    BY <1>2 DEF Exists, Inv, Contents
  <2>. QED BY <2>1, <2>2, TouchedFacts
<1>4. /\ UNCHANGED <<toLook, condemned, look, debris, resisted, sweep>>
      /\ Watched(s)' = Watched(s) /\ Looked(s)' = Looked(s) /\ Excused(s)' = Excused(s)
      /\ Running(s)' = Running(s)
  BY <1>1 DEF Watched, Looked, Excused, Running, sweepVars
<1>5. Exists(s)' /\ Running(s)
  BY <1>2, <1>3 DEF Exists, Running
<1>6. Contents(s)' /\ Listed(s)' /\ Spared(s)' /\ Clearing(s)'
  BY <1>1, <1>2, <1>3, <1>4, <1>5 DEF Inv, Contents, Listed, Spared, Clearing
<1>7. Recorded(s)'
  BY <1>1, <1>2, <1>3, Fresh DEF Recorded
<1>8. SeenRunning(s)'
  <2>1. SeenWell(s)'
    <3>1. tmp'[s]["dir"] \in Nat
      <4>1. tmp'[s] \in Dirs /\ "dir" \in DOMAIN tmp'[s]
        BY <1>3, <1>5 DEF Exists
      <4>. QED BY <4>1, DirFacts, Graces
    <3>2. "output" \in DOMAIN tmp'[s] \ {"dir"} /\ tmp'[s]["dir"] >= tmp'[s]["output"]
      BY <1>3, <3>1
    <3>. QED BY <3>2 DEF SeenWell
  <2>. QED BY <1>1, <1>2, <1>3, <1>4, <2>1 DEF Inv, SeenRunning
<1>. QED BY <1>1, <1>3, <1>6, <1>7, <1>8 DEF Inv

\* An output that is renamed or removed under the sweep's eyes is recorded.
LEMMA EndOutputInv ==
  ASSUME Typed, NEW s \in Sessions, Inv(s), RenameOutput(s) \/ RemoveOutput(s)
  PROVE  /\ tmp' \in [Sessions -> Dirs]
         /\ fooled' \in [Sessions -> SUBSET Excuse]
         /\ \A r \in Sessions : r # s => UNCHANGED <<tmp[r], fooled[r]>>
         /\ UNCHANGED <<step, reused, sweepVars>>
         /\ Inv(s)'
<1>1. /\ "output" \in DOMAIN tmp[s] /\ Running(s)
      /\ Deceives(s, "under the eyes", Looked(s))
      /\ UNCHANGED <<step, reused, sweepVars>>
  BY DEF RenameOutput, RemoveOutput, EndOutput, sessionVars
<1>2. /\ fooled' \in [Sessions -> SUBSET Excuse]
      /\ \A r \in Sessions : r # s => fooled'[r] = fooled[r]
      /\ fooled[s] \subseteq fooled'[s]
      /\ Looked(s) => "under the eyes" \in fooled'[s]
  <2>1. "under the eyes" \in Excuse
    BY DEF Excuse
  <2>. QED BY <1>1, <2>1 DEF Deceives, Typed
<1>3. step[s] = "marked" /\ "dir" \in DOMAIN tmp[s] /\ "owner" \in DOMAIN tmp[s]
  BY <1>1 DEF Inv, Contents, Running, Exists
<1>4. /\ tmp' \in [Sessions -> Dirs]
      /\ \A r \in Sessions : r # s => tmp'[r] = tmp[r]
      /\ "dir" \in DOMAIN tmp'[s] /\ "owner" \in DOMAIN tmp'[s]
      /\ tmp'[s]["dir"] = 0 /\ tmp'[s]["owner"] = tmp[s]["owner"]
  <2>1. CASE RenameOutput(s)
    <3>1. {"dir"} \in SUBSET Entries /\ tmp' = Touched(s, {"dir"})
      BY <2>1 DEF RenameOutput, Entries
    <3>. QED BY <1>3, <3>1, TouchedFacts
  <2>2. CASE RemoveOutput(s)
    <3>1. "output" \in Entries \ {"dir"} /\ tmp' = Without(s, "output")
      BY <2>2 DEF RemoveOutput, Entries
    <3>. QED BY <1>3, <3>1, WithoutFacts
  <2>. QED BY <2>1, <2>2
<1>5. /\ UNCHANGED <<toLook, condemned, look, debris, resisted, sweep>>
      /\ Watched(s)' = Watched(s) /\ Looked(s)' = Looked(s) /\ (Excused(s) => Excused(s)')
      /\ Running(s)' = Running(s)
  BY <1>1, <1>2 DEF Watched, Looked, Excused, Running, sweepVars
<1>6. Exists(s)' /\ Exists(s)
  BY <1>3, <1>4 DEF Exists
<1>7. Contents(s)' /\ Listed(s)' /\ Spared(s)' /\ Clearing(s)'
  BY <1>1, <1>3, <1>4, <1>5, <1>6 DEF Inv, Contents, Listed, Spared, Clearing
<1>8. Recorded(s)'
  BY <1>1, <1>3, <1>4, Fresh DEF Recorded
<1>9. SeenRunning(s)'
  BY <1>1, <1>2, <1>3, <1>4, <1>5 DEF Inv, SeenRunning, SeenWell
<1>. QED BY <1>1, <1>2, <1>4, <1>7, <1>8, <1>9 DEF Inv

\* The end of a session, in order or not, and what becomes of its process id.
LEMMA GoneInv ==
  ASSUME Typed, NEW s \in Sessions, Inv(s), Finish(s) \/ Die(s)
  PROVE  /\ step' \in [Sessions -> {"new", "made", "marked", "gone"}]
         /\ tmp' \in [Sessions -> Dirs]
         /\ fooled' \in [Sessions -> SUBSET Excuse]
         /\ \A r \in Sessions : r # s => UNCHANGED <<step[r], tmp[r], fooled[r]>>
         /\ UNCHANGED <<reused, sweepVars>>
         /\ Inv(s)'
<1>1. /\ Running(s) /\ Becomes(s, "gone") /\ fooled' = [fooled EXCEPT ![s] = {}]
      /\ UNCHANGED sweepVars
      /\ tmp' = tmp \/ tmp' = [tmp EXCEPT ![s] = Removed]
  BY DEF Finish, Die, Gone
<1>2. /\ step' \in [Sessions -> {"new", "made", "marked", "gone"}]
      /\ step'[s] = "gone" /\ reused' = reused
      /\ \A r \in Sessions : r # s => step'[r] = step[r]
  BY <1>1, BecomesFacts
<1>3. /\ fooled' \in [Sessions -> SUBSET Excuse]
      /\ \A r \in Sessions : r # s => fooled'[r] = fooled[r]
  BY <1>1 DEF Typed
<1>4. /\ tmp' \in [Sessions -> Dirs]
      /\ \A r \in Sessions : r # s => tmp'[r] = tmp[r]
      /\ tmp'[s] = tmp[s] \/ tmp'[s] = Removed
  BY <1>1, RemovedFacts DEF Typed
<1>5. DOMAIN tmp'[s] # {} => Exists(s)'
  BY <1>4, RemovedFacts DEF Exists, Inv, Contents
<1>6. s \notin debris /\ UNCHANGED debris /\ ~Running(s)'
  BY <1>1, <1>2 DEF Inv, Clearing, Running, sweepVars
<1>7. Contents(s)'
  BY <1>2, <1>5 DEF Contents
<1>8. Listed(s)' /\ Recorded(s)' /\ SeenRunning(s)' /\ Spared(s)' /\ Clearing(s)'
  BY <1>2, <1>6 DEF Listed, Recorded, SeenRunning, Spared, Clearing
<1>. QED BY <1>1, <1>2, <1>3, <1>4, <1>7, <1>8 DEF Inv

LEMMA ReuseInv ==
  ASSUME Typed, NEW s \in Sessions, Inv(s), Reuse(s)
  PROVE  /\ reused' \in SUBSET Sessions
         /\ \A r \in Sessions : r # s => (r \in reused' <=> r \in reused)
         /\ UNCHANGED <<step, tmp, fooled, sweepVars>>
         /\ Inv(s)'
<1>1. /\ step[s] = "gone" /\ reused' = reused \cup {s}
      /\ UNCHANGED <<step, tmp, fooled, sweepVars>>
  BY DEF Reuse
<1>2. ~Running(s)' /\ UNCHANGED <<toLook, condemned, look, debris, resisted, sweep, Exists(s)>>
  BY <1>1 DEF Running, sweepVars, Exists
<1>3. Contents(s)' /\ Listed(s)' /\ Recorded(s)' /\ SeenRunning(s)' /\ Spared(s)' /\ Clearing(s)'
  BY <1>1, <1>2
     DEF Inv, Contents, Listed, Recorded, SeenRunning, Spared, Clearing, Looked
<1>. QED BY <1>1, <1>3 DEF Inv, Typed

LEMMA SessionInv ==
  ASSUME IInv, NEW s \in Sessions, Session(s)
  PROVE  IInv'
<1>. USE DEF IInv
<1>1. CASE MakeDir(s) \/ WriteOwnership(s)
  <2>1. /\ step' \in [Sessions -> {"new", "made", "marked", "gone"}]
        /\ tmp' \in [Sessions -> Dirs]
        /\ \A r \in Sessions : r # s => UNCHANGED <<step[r], tmp[r]>>
        /\ UNCHANGED <<reused, fooled, sweepVars>>
        /\ Inv(s)'
    BY <1>1, MakeDirInv, WriteOwnershipInv
  <2>2. \A r \in Sessions : Inv(r)'
    BY <2>1, SameSession
  <2>. QED BY <2>1, <2>2 DEF Typed, Stages, sweepVars
<1>2. CASE StartOutput(s) \/ GrowOutput(s)
  <2>1. /\ tmp' \in [Sessions -> Dirs]
        /\ \A r \in Sessions : r # s => UNCHANGED tmp[r]
        /\ UNCHANGED <<step, reused, fooled, sweepVars>>
        /\ Inv(s)'
    BY <1>2, OutputInv
  <2>2. \A r \in Sessions : Inv(r)'
    BY <2>1, SameSession
  <2>. QED BY <2>1, <2>2 DEF Typed, Stages, sweepVars
<1>3. CASE RenameOutput(s) \/ RemoveOutput(s)
  <2>1. /\ tmp' \in [Sessions -> Dirs]
        /\ fooled' \in [Sessions -> SUBSET Excuse]
        /\ \A r \in Sessions : r # s => UNCHANGED <<tmp[r], fooled[r]>>
        /\ UNCHANGED <<step, reused, sweepVars>>
        /\ Inv(s)'
    BY <1>3, EndOutputInv
  <2>2. \A r \in Sessions : Inv(r)'
    BY <2>1, SameSession
  <2>. QED BY <2>1, <2>2 DEF Typed, Stages, sweepVars
<1>4. CASE Finish(s) \/ Die(s)
  <2>1. /\ step' \in [Sessions -> {"new", "made", "marked", "gone"}]
        /\ tmp' \in [Sessions -> Dirs]
        /\ fooled' \in [Sessions -> SUBSET Excuse]
        /\ \A r \in Sessions : r # s => UNCHANGED <<step[r], tmp[r], fooled[r]>>
        /\ UNCHANGED <<reused, sweepVars>>
        /\ Inv(s)'
    BY <1>4, GoneInv
  <2>2. \A r \in Sessions : Inv(r)'
    BY <2>1, SameSession
  <2>. QED BY <2>1, <2>2 DEF Typed, Stages, sweepVars
<1>5. CASE Reuse(s)
  <2>1. /\ reused' \in SUBSET Sessions
        /\ \A r \in Sessions : r # s => (r \in reused' <=> r \in reused)
        /\ UNCHANGED <<step, tmp, fooled, sweepVars>>
        /\ Inv(s)'
    BY <1>5, ReuseInv
  <2>2. \A r \in Sessions : Inv(r)'
    BY <2>1, SameSession
  <2>. QED BY <2>1, <2>2 DEF Typed, Stages, sweepVars
<1>. QED BY <1>1, <1>2, <1>3, <1>4, <1>5 DEF Session

-----------------------------------------------------------------------------
(* Time passes.                                                            *)

LEMMA OlderFacts ==
  ASSUME NEW a \in Ages
  PROVE  /\ Older(a) \in Ages
         /\ a <= Older(a) /\ Older(a) <= a + 1
         /\ \A b \in Ages : a <= b => Older(a) <= Older(b)
BY Graces DEF Older

\* Everything there is gets older, and no look overtakes its directory.
LEMMA TickInv == IInv /\ Tick => IInv'
<1>. SUFFICES ASSUME IInv, Tick PROVE IInv'
  OBVIOUS
<1>1. /\ UNCHANGED <<step, reused, sweep, toLook, condemned, debris, resisted>>
      /\ look' = [look EXCEPT !.seen = IF look = NoLook THEN 0 ELSE Older(@)]
  BY DEF Tick, sessionVars
<1>2. /\ tmp' \in [Sessions -> Dirs]
      /\ \A s \in Sessions : /\ DOMAIN tmp'[s] = DOMAIN tmp[s]
                             /\ \A e \in DOMAIN tmp[s] : tmp'[s][e] = Older(tmp[s][e])
  <2>1. \A s \in Sessions : /\ DOMAIN tmp[s] \in SUBSET Entries
                            /\ \A e \in DOMAIN tmp[s] : Older(tmp[s][e]) \in Ages
    BY DirFacts, OlderFacts DEF IInv, Typed
  <2>2. \A s \in Sessions : [e \in DOMAIN tmp[s] |-> Older(tmp[s][e])] \in Dirs
    BY <2>1 DEF Dirs
  <2>3. tmp' = [s \in Sessions |-> [e \in DOMAIN tmp[s] |-> Older(tmp[s][e])]]
    BY DEF Tick
  <2>. QED BY <2>2, <2>3
<1>3. /\ fooled' \in [Sessions -> SUBSET Excuse]
      /\ \A s \in Sessions :
           /\ fooled[s] \subseteq fooled'[s]
           /\ sweep # "idle" /\ Running(s) /\ Exists(s) =>
                /\ Idle(s, Untouched(s) + 1) \subseteq fooled'[s]
                /\ LookedAtSlowly(s) => "slow look" \in fooled'[s]
  <2>1. \A s \in Sessions : Idle(s, Untouched(s) + 1) \in SUBSET Excuse
    BY DEF Idle, Excuse
  <2>2. fooled' = [s \in Sessions |-> fooled[s] \cup
                     IF sweep # "idle" /\ Running(s) /\ Exists(s)
                     THEN Idle(s, Untouched(s) + 1)
                            \cup (IF LookedAtSlowly(s) THEN {"slow look"} ELSE {})
                     ELSE {}]
    BY DEF Tick
  <2>3. fooled \in [Sessions -> SUBSET Excuse] /\ "slow look" \in Excuse
    BY DEF IInv, Typed, Excuse
  <2>4. \A s \in Sessions :
          fooled'[s] = fooled[s] \cup
                     IF sweep # "idle" /\ Running(s) /\ Exists(s)
                     THEN Idle(s, Untouched(s) + 1)
                            \cup (IF LookedAtSlowly(s) THEN {"slow look"} ELSE {})
                     ELSE {}
    BY <2>2
  <2>5. \A s \in Sessions : fooled'[s] \in SUBSET Excuse
    BY <2>1, <2>3, <2>4
  <2>6. fooled' \in [Sessions -> SUBSET Excuse]
    BY <2>2, <2>5
  <2>. QED BY <2>4, <2>6
<1>4. /\ look.at' = look.at /\ look.read' = look.read /\ look.quiet' = look.quiet
      /\ look.seen' = (IF look = NoLook THEN 0 ELSE Older(look.seen))
      /\ look' \in [at : Sessions \cup {"nothing"}, seen : Ages, read : BOOLEAN,
                    quiet : {0, OwnerlessGrace, UnverifiedGrace}]
      /\ look = NoLook => look' = NoLook
  <2>1. look \in [at : Sessions \cup {"nothing"}, seen : Ages, read : BOOLEAN,
                  quiet : {0, OwnerlessGrace, UnverifiedGrace}]
    BY DEF IInv, Typed
  <2> DEFINE v == IF look = NoLook THEN 0 ELSE Older(look.seen)
  <2>2. v \in Ages
    BY <2>1, OlderFacts, Graces
  <2>3. look' = [look EXCEPT !.seen = v]
    BY <1>1
  <2>4. look = NoLook => v = 0
    OBVIOUS
  <2>5. look.seen' = v
    <3>. HIDE DEF v
    <3>. QED BY <2>1, <2>3
  <2>6. /\ look.at' = look.at /\ look.read' = look.read /\ look.quiet' = look.quiet
        /\ look' \in [at : Sessions \cup {"nothing"}, seen : Ages, read : BOOLEAN,
                      quiet : {0, OwnerlessGrace, UnverifiedGrace}]
    <3>. HIDE DEF v
    <3>. QED BY <2>1, <2>2, <2>3
  <2>7. look = NoLook => look' = NoLook
    <3>. HIDE DEF v
    <3>1. look = NoLook => look' = [NoLook EXCEPT !.seen = 0]
      BY <2>3, <2>4
    <3>2. [NoLook EXCEPT !.seen = 0] = NoLook
      BY DEF NoLook
    <3>. QED BY <3>1, <3>2
  <2>. QED BY <2>5, <2>6, <2>7
<1>5. Typed'
  BY <1>1, <1>2, <1>3, <1>4 DEF IInv, Typed
<1>6. Stages'
  BY <1>1, <1>4 DEF IInv, Stages
<1>7. ASSUME NEW s \in Sessions PROVE Inv(s)'
  <2>1. /\ Inv(s) /\ tmp[s] \in Dirs
        /\ \A e \in DOMAIN tmp[s] : tmp[s][e] \in Ages /\ tmp'[s][e] = Older(tmp[s][e])
    BY <1>2, DirFacts DEF IInv, Typed
  <2>2. /\ Running(s)' = Running(s) /\ Exists(s)' = Exists(s) /\ Looked(s)' = Looked(s)
        /\ Watched(s)' = Watched(s) /\ (Excused(s) => Excused(s)')
    BY <1>1, <1>2, <1>3, <1>4 DEF Running, Exists, Looked, Watched, Excused
  <2>3. Contents(s)' /\ Listed(s)' /\ Spared(s)' /\ Clearing(s)'
    BY <1>1, <1>2, <1>4, <2>1, <2>2 DEF Inv, Contents, Listed, Spared, Clearing
  <2>4. Recorded(s)'
    <3>. SUFFICES ASSUME sweep # "idle", Running(s), Exists(s)
                  PROVE  /\ step[s] = "made" /\ tmp'[s]["dir"] >= OwnerlessGrace
                              => "slow to mark" \in fooled'[s]
                         /\ (\A e \in DOMAIN tmp[s] : tmp'[s][e] >= UnverifiedGrace)
                              => "idle" \in fooled'[s]
      BY <1>1, <1>2, <2>2 DEF Recorded
    <3>1. /\ Untouched(s) \in Nat
          /\ \E e \in DOMAIN tmp[s] : Untouched(s) = tmp[s][e]
          /\ Idle(s, Untouched(s) + 1) \subseteq fooled'[s]
      BY <1>3, UntouchedFacts DEF IInv
    <3>2. PICK e \in DOMAIN tmp[s] : Untouched(s) = tmp[s][e]
      BY <3>1
    <3>3. tmp'[s][e] <= Untouched(s) + 1 /\ tmp'[s][e] \in Nat
      <4>1. tmp[s][e] \in Ages /\ tmp'[s][e] = Older(tmp[s][e])
        BY <2>1
      <4>2. Older(tmp[s][e]) \in Ages /\ Older(tmp[s][e]) <= tmp[s][e] + 1
        BY <4>1, OlderFacts
      <4>. QED BY <3>2, <4>1, <4>2, Graces
    <3>4. ASSUME step[s] = "made", tmp'[s]["dir"] >= OwnerlessGrace
          PROVE  "slow to mark" \in fooled'[s]
      <4>1. e = "dir"
        BY <2>1, <3>2, <3>4 DEF Inv, Contents
      <4>2. Untouched(s) + 1 >= OwnerlessGrace
        BY <3>1, <3>3, <3>4, <4>1, Graces
      <4>. QED BY <3>1, <3>4, <4>2 DEF Idle
    <3>5. ASSUME \A d \in DOMAIN tmp[s] : tmp'[s][d] >= UnverifiedGrace
          PROVE  "idle" \in fooled'[s]
      <4>1. Untouched(s) + 1 >= UnverifiedGrace
        BY <3>1, <3>2, <3>3, <3>5, Graces
      <4>. QED BY <3>1, <4>1 DEF Idle
    <3>. QED BY <3>4, <3>5
  <2>5. SeenRunning(s)'
    <3>. SUFFICES ASSUME Looked(s), Running(s)
                  PROVE  SeenRunning(s)'
      BY <2>2 DEF SeenRunning
    <3>1. look # NoLook /\ sweep # "idle"
      BY SweepAssumption DEF Looked, NoLook, IInv, Stages
    <3>2. Exists(s) /\ "dir" \in DOMAIN tmp[s]
      BY <2>1 DEF Inv, Listed, Watched, Exists
    <3>3. look.seen \in Ages /\ look.seen' = Older(look.seen)
      BY <1>4, <3>1 DEF IInv, Typed
    <3>4. tmp[s]["dir"] \in Ages /\ tmp'[s]["dir"] = Older(tmp[s]["dir"])
      BY <2>1, <3>2
    <3>5. SeenWell(s)'
      <4>1. CASE "under the eyes" \in fooled[s]
        BY <1>3, <4>1 DEF SeenWell
      <4>2. CASE tmp[s]["dir"] >= look.seen
        <5>1. look.seen <= tmp[s]["dir"]
          BY <3>3, <3>4, <4>2, Graces
        <5>2. Older(look.seen) <= Older(tmp[s]["dir"])
          BY <3>3, <3>4, <5>1, OlderFacts
        <5>3. tmp'[s]["dir"] >= look.seen'
          BY <3>3, <3>4, <5>2, OlderFacts, Graces
        <5>. QED BY <5>3 DEF SeenWell
      <4>3. CASE \E e \in DOMAIN tmp[s] \ {"dir"} : tmp[s]["dir"] >= tmp[s][e]
        <5>1. PICK e \in DOMAIN tmp[s] \ {"dir"} : tmp[s]["dir"] >= tmp[s][e]
          BY <4>3
        <5>2. tmp[s][e] \in Ages /\ tmp'[s][e] = Older(tmp[s][e]) /\ tmp[s][e] <= tmp[s]["dir"]
          BY <2>1, <3>4, <5>1, Graces
        <5>3. Older(tmp[s][e]) <= Older(tmp[s]["dir"])
          BY <3>4, <5>2, OlderFacts
        <5>4. tmp'[s]["dir"] >= tmp'[s][e]
          BY <3>4, <5>2, <5>3, OlderFacts, Graces
        <5>. QED BY <1>2, <5>1, <5>4 DEF SeenWell
      <4>. QED BY <2>1, <4>1, <4>2, <4>3 DEF Inv, SeenRunning, SeenWell
    <3>6. step[s] = "made" => tmp'[s]["dir"] = look.seen'
      BY <2>1, <3>3, <3>4 DEF Inv, SeenRunning
    <3>7. ASSUME look.read, look.quiet = OwnerlessGrace, step[s] = "marked",
                 tmp'[s]["owner"] >= OwnerlessGrace
          PROVE  "slow look" \in fooled'[s]
      <4>1. "owner" \in DOMAIN tmp[s]
        BY <2>1, <3>2, <3>7 DEF Inv, Contents
      <4>2. tmp[s]["owner"] \in Ages /\ tmp'[s]["owner"] = Older(tmp[s]["owner"])
        BY <2>1, <4>1
      <4>3. tmp[s]["owner"] + 1 >= OwnerlessGrace
        <5>1. /\ Older(tmp[s]["owner"]) \in Ages
              /\ Older(tmp[s]["owner"]) <= tmp[s]["owner"] + 1
          BY <4>2, OlderFacts
        <5>. QED BY <3>7, <4>2, <5>1, Graces
      <4>4. LookedAtSlowly(s)
        BY <3>7, <4>3 DEF LookedAtSlowly
      <4>. QED BY <1>3, <3>1, <3>2, <4>4
    <3>. QED BY <1>1, <1>3, <1>4, <2>1, <2>2, <3>5, <3>6, <3>7 DEF Inv, SeenRunning
  <2>. QED BY <2>3, <2>4, <2>5 DEF Inv
<1>. QED BY <1>5, <1>6, <1>7 DEF IInv

-----------------------------------------------------------------------------
(* What the sweep does.                                                    *)

LEMMA NothingLooked ==
  /\ \A s \in Sessions : Looked(s) => look # NoLook
  /\ \A s \in Sessions : Looked(s)' => look' # NoLook
BY SweepAssumption DEF Looked, NoLook

\* A session that the sweep's step is not about.
LEMMA SameWatch ==
  ASSUME NEW r, Inv(r),
         UNCHANGED <<step[r], tmp[r], fooled[r], reused, debris>>,
         r \in toLook' <=> r \in toLook, r \in condemned' <=> r \in condemned,
         r \in resisted' <=> r \in resisted,
         sweep' # "idle" => sweep # "idle",
         look' = look \/ (~Looked(r) /\ ~Looked(r)')
  PROVE  Inv(r)'
<1>1. /\ Running(r)' = Running(r) /\ Exists(r)' = Exists(r) /\ Looked(r)' = Looked(r)
      /\ Watched(r)' = Watched(r) /\ Excused(r)' = Excused(r)
  BY DEF Running, Exists, Looked, Watched, Excused
<1>. USE <1>1 DEF Inv
<1>2. Contents(r)'
  BY DEF Contents
<1>3. Listed(r)'
  BY DEF Listed
<1>4. Recorded(r)'
  BY DEF Recorded
<1>5. SeenRunning(r)'
  BY DEF SeenRunning, SeenWell
<1>6. Spared(r)'
  BY DEF Spared
<1>7. Clearing(r)'
  BY DEF Clearing
<1>. QED BY <1>2, <1>3, <1>4, <1>5, <1>6, <1>7

\* What is there as the sweep begins is listed, and what may deceive it noted.
LEMMA StartSweepInv == IInv /\ StartSweep => IInv'
<1>. SUFFICES ASSUME IInv, StartSweep PROVE IInv'
  OBVIOUS
<1>1. /\ sweep = "idle" /\ sweep' = "looking" /\ toLook' = {s \in Sessions : Exists(s)}
      /\ debris' = {s \in Sessions : step[s] = "gone" /\ s \notin reused
                                       /\ "owner" \in DOMAIN tmp[s]}
      /\ UNCHANGED <<step, reused, tmp, look, condemned, resisted>>
      /\ condemned = {} /\ look = NoLook
  BY DEF StartSweep, sessionVars, IInv, Stages
<1>2. /\ fooled' \in [Sessions -> SUBSET Excuse]
      /\ \A s \in Sessions :
           /\ fooled[s] \subseteq fooled'[s]
           /\ Running(s) /\ Exists(s) => Idle(s, Untouched(s)) \subseteq fooled'[s]
  <2>1. \A s \in Sessions : Idle(s, Untouched(s)) \in SUBSET Excuse
    BY DEF Idle, Excuse
  <2>2. fooled' = [s \in Sessions |->
          fooled[s] \cup IF Running(s) /\ Exists(s) THEN Idle(s, Untouched(s)) ELSE {}]
    BY DEF StartSweep
  <2>3. \A s \in Sessions :
          fooled'[s] = fooled[s] \cup IF Running(s) /\ Exists(s) THEN Idle(s, Untouched(s)) ELSE {}
    BY <2>2
  <2>4. \A s \in Sessions : fooled'[s] \in SUBSET Excuse
    BY <2>1, <2>3 DEF IInv, Typed
  <2>. QED BY <2>2, <2>3, <2>4
<1>3. Typed'
  BY <1>1, <1>2 DEF IInv, Typed
<1>4. Stages'
  BY <1>1 DEF Stages
<1>5. ASSUME NEW s \in Sessions PROVE Inv(s)'
  <2>1. Inv(s)
    BY DEF IInv
  <2>2. /\ Running(s)' = Running(s) /\ Exists(s)' = Exists(s) /\ (Excused(s) => Excused(s)')
        /\ ~Looked(s)' /\ (Watched(s)' <=> Exists(s))
    BY <1>1, <1>2, NothingLooked DEF Running, Exists, Excused, Watched
  <2>3. Contents(s)' /\ Spared(s)'
    BY <1>1, <2>1, <2>2 DEF Inv, Contents, Spared
  <2>4. Listed(s)'
    BY <1>1, <2>1, <2>2 DEF Inv, Contents, Listed, Exists
  <2>5. Recorded(s)'
    <3>. SUFFICES ASSUME Running(s), Exists(s)
                  PROVE  /\ step[s] = "made" /\ tmp[s]["dir"] >= OwnerlessGrace
                              => "slow to mark" \in fooled'[s]
                         /\ (\A e \in DOMAIN tmp[s] : tmp[s][e] >= UnverifiedGrace)
                              => "idle" \in fooled'[s]
      BY <1>1, <2>2 DEF Recorded
    <3>1. PICK e \in DOMAIN tmp[s] : Untouched(s) = tmp[s][e]
      BY UntouchedFacts DEF IInv
    <3>2. Idle(s, Untouched(s)) \subseteq fooled'[s]
      BY <1>2
    <3>3. step[s] = "made" => e = "dir"
      BY <2>1, <3>1 DEF Inv, Contents
    <3>. QED BY <3>1, <3>2, <3>3 DEF Idle
  <2>6. SeenRunning(s)'
    BY <2>2 DEF SeenRunning
  <2>7. Clearing(s)'
    BY <1>1, <2>2 DEF Clearing, Exists
  <2>. QED BY <2>3, <2>4, <2>5, <2>6, <2>7 DEF Inv
<1>. QED BY <1>3, <1>4, <1>5 DEF IInv

LEMMA EndLookInv == IInv /\ EndLook => IInv'
<1>. SUFFICES ASSUME IInv, EndLook PROVE IInv'
  OBVIOUS
<1>1. /\ sweep = "looking" /\ toLook = {} /\ look = NoLook /\ sweep' = "planned"
      /\ UNCHANGED <<step, reused, tmp, toLook, look, condemned, debris, resisted, fooled>>
  BY DEF EndLook, sessionVars
<1>2. Typed' /\ Stages'
  BY <1>1 DEF IInv, Typed, Stages
<1>3. \A s \in Sessions : Inv(s)'
  BY <1>1, SameWatch DEF IInv
<1>. QED BY <1>2, <1>3 DEF IInv

\* Nothing is left on a list when a sync is over, carried out or not.
LEMMA OverInv == IInv /\ (Skip \/ EndSweep) => IInv'
<1>. SUFFICES ASSUME IInv, Skip \/ EndSweep PROVE IInv'
  OBVIOUS
<1>1. /\ sweep = "planned" /\ sweep' = "idle" /\ condemned' = {} /\ debris' = {}
      /\ resisted' = {} /\ toLook = {} /\ look = NoLook
      /\ UNCHANGED <<step, reused, tmp, toLook, look>>
      /\ fooled' = [s \in Sessions |-> IF Robbed(s) THEN fooled[s] ELSE {}]
  BY DEF Skip, EndSweep, Over, sessionVars, IInv, Stages
<1>2. Typed' /\ Stages'
  BY <1>1 DEF IInv, Typed, Stages
<1>3. ASSUME NEW s \in Sessions PROVE Inv(s)'
  <2>1. Inv(s)
    BY DEF IInv
  <2>2. /\ Running(s)' = Running(s) /\ Exists(s)' = Exists(s)
        /\ ~Looked(s)' /\ ~Watched(s)'
        /\ Robbed(s) => (Excused(s) => Excused(s)')
    BY <1>1, NothingLooked DEF Running, Exists, Watched, Excused
  <2>3. Contents(s)' /\ Listed(s)' /\ Recorded(s)' /\ SeenRunning(s)' /\ Clearing(s)'
    BY <1>1, <2>1, <2>2 DEF Inv, Contents, Listed, Recorded, SeenRunning, Clearing
  <2>4. Spared(s)'
    BY <1>1, <2>1, <2>2 DEF Inv, Spared, Robbed
  <2>. QED BY <2>3, <2>4 DEF Inv
<1>. QED BY <1>2, <1>3 DEF IInv

\* A listed directory is looked at, from its own mtime on, if it is still there.
LEMMA StatDirInv == ASSUME IInv, NEW s \in Sessions, StatDir(s) PROVE IInv'
<1>1. /\ look = NoLook /\ s \in toLook /\ toLook' = toLook \ {s}
      /\ look' = IF Exists(s) THEN [at |-> s, seen |-> tmp[s]["dir"], read |-> FALSE, quiet |-> 0]
                              ELSE NoLook
      /\ UNCHANGED <<step, reused, tmp, sweep, condemned, debris, resisted, fooled>>
  BY DEF StatDir, LookOn, sessionVars
<1>2. Exists(s) => tmp[s]["dir"] \in Ages
  BY DirFacts DEF Exists, IInv, Typed
<1>3. NoLook \in [at : Sessions \cup {"nothing"}, seen : Ages, read : BOOLEAN,
                  quiet : {0, OwnerlessGrace, UnverifiedGrace}]
  BY Graces DEF NoLook
<1>4. Typed'
  BY <1>1, <1>2, <1>3 DEF IInv, Typed
<1>5. sweep = "looking"
  BY <1>1 DEF IInv, Stages, Typed
<1>6. Stages'
  BY <1>1, <1>5 DEF IInv, Stages
<1>7. \A r \in Sessions : ~Looked(r) /\ (Looked(r)' => r = s)
  BY <1>1, NothingLooked DEF Looked
<1>8. \A r \in Sessions : r # s => Inv(r)'
  BY <1>1, <1>7, SameWatch DEF IInv
<1>9. Inv(s)'
  <2>1. Inv(s) /\ Watched(s) /\ (Looked(s)' => Exists(s))
    BY <1>1, NothingLooked DEF IInv, Watched
  <2>2. /\ Running(s)' = Running(s) /\ Exists(s)' = Exists(s) /\ Excused(s)' = Excused(s)
    BY <1>1 DEF Running, Exists, Excused
  <2>3. Contents(s)' /\ Listed(s)' /\ Recorded(s)' /\ Spared(s)'
    BY <1>1, <2>1, <2>2 DEF Inv, Contents, Listed, Recorded, Spared
  <2>4. SeenRunning(s)'
    <3>. SUFFICES ASSUME Looked(s)' PROVE SeenRunning(s)'
      BY DEF SeenRunning
    <3>1. /\ look' = [at |-> s, seen |-> tmp[s]["dir"], read |-> FALSE, quiet |-> 0]
          /\ tmp[s]["dir"] \in Nat
      BY <1>1, <1>2, <2>1, Graces
    <3>2. look.seen' = tmp'[s]["dir"] /\ look.read' = FALSE
      BY <1>1, <3>1
    <3>3. tmp'[s]["dir"] >= look.seen'
      BY <1>1, <3>1, <3>2
    <3>4. SeenWell(s)'
      BY <3>3 DEF SeenWell
    <3>. QED BY <3>2, <3>4 DEF SeenRunning
  <2>5. Clearing(s)'
    <3>1. Exists(s) => Looked(s)' /\ look.read' = FALSE
      BY <1>1 DEF Looked
    <3>. QED BY <1>1, <2>1, <2>2, <3>1 DEF Inv, Clearing
  <2>. QED BY <2>3, <2>4, <2>5 DEF Inv
<1>. QED BY <1>4, <1>6, <1>8, <1>9 DEF IInv

\* What the mark says of the owner, and how long nothing may have been touched.
LEMMA ReadOwnerInv == ASSUME IInv, NEW s \in Sessions, ReadOwner(s) PROVE IInv'
<1>1. /\ Looked(s) /\ ~look.read
      /\ UNCHANGED <<step, reused, tmp, sweep, toLook, condemned, debris, resisted>>
  BY DEF ReadOwner, LookOn, sessionVars
<1>2. /\ fooled' \in [Sessions -> SUBSET Excuse]
      /\ \A r \in Sessions : r # s => fooled'[r] = fooled[r]
      /\ fooled[s] \subseteq fooled'[s]
  <2>1. "misjudged" \in Excuse
    BY DEF Excuse
  <2>2. fooled' = fooled \/ \E more \in SUBSET {"misjudged"} :
                               fooled' = [fooled EXCEPT ![s] = @ \cup more]
    BY DEF ReadOwner, Deceives
  <2>3. fooled \in [Sessions -> SUBSET Excuse]
    BY DEF IInv, Typed
  <2>4. CASE \E more \in SUBSET {"misjudged"} : fooled' = [fooled EXCEPT ![s] = @ \cup more]
    <3>1. PICK more \in SUBSET {"misjudged"} : fooled' = [fooled EXCEPT ![s] = @ \cup more]
      BY <2>4
    <3>2. fooled[s] \cup more \in SUBSET Excuse
      BY <2>1, <2>3
    <3>. QED BY <2>3, <3>1, <3>2
  <2>. QED BY <2>2, <2>3, <2>4
<1>3. \/ /\ "owner" \notin DOMAIN tmp[s]
         /\ look' = [look EXCEPT !.read = TRUE, !.quiet = OwnerlessGrace]
      \/ /\ Running(s) /\ "owner" \in DOMAIN tmp[s]
         /\ look' = [look EXCEPT !.read = TRUE, !.quiet = UnverifiedGrace]
         /\ "misjudged" \in fooled'[s]
      \/ /\ ~Running(s) /\ "owner" \in DOMAIN tmp[s] /\ s \in reused
         /\ look' = [look EXCEPT !.read = TRUE, !.quiet = UnverifiedGrace]
      \/ ~Running(s) /\ look' = [look EXCEPT !.read = TRUE, !.quiet = 0]
      \/ Running(s) /\ look' = NoLook
  <2>1. CASE "owner" \notin DOMAIN tmp[s]
    BY <2>1 DEF ReadOwner, LookOn
  <2>2. CASE "owner" \in DOMAIN tmp[s]
    <3>1. PICK verdict \in Verdicts(s) :
            /\ look' = IF verdict = "alive" THEN NoLook
                       ELSE [look EXCEPT !.read = TRUE, !.quiet = RequiredQuiet(verdict)]
            /\ Deceives(s, "misjudged", Running(s) /\ verdict = "unknown")
      BY <2>2 DEF ReadOwner, LookOn
    <3>2. CASE Running(s)
      <4>1. verdict \in {"alive", "unknown"}
        BY <3>1, <3>2 DEF Verdicts
      <4>2. verdict = "unknown" => "misjudged" \in fooled'[s]
        BY <3>1, <3>2 DEF Deceives, IInv, Typed
      <4>. QED BY <2>2, <3>1, <3>2, <4>1, <4>2 DEF RequiredQuiet
    <3>3. CASE ~Running(s) /\ s \in reused
      <4>1. step[s] = "gone"
        BY <3>3 DEF IInv, Inv, Contents
      <4>2. verdict = "unknown"
        BY <3>1, <3>3, <4>1 DEF Verdicts
      <4>. QED BY <2>2, <3>1, <3>3, <4>2 DEF RequiredQuiet
    <3>4. CASE ~Running(s) /\ s \notin reused
      <4>1. verdict = "dead"
        BY <3>1, <3>4 DEF Verdicts
      <4>. QED BY <3>1, <3>4, <4>1 DEF RequiredQuiet
    <3>. QED BY <3>2, <3>3, <3>4
  <2>. QED BY <2>1, <2>2
<1> DEFINE Looks == [at : Sessions \cup {"nothing"}, seen : Ages, read : BOOLEAN,
                     quiet : {0, OwnerlessGrace, UnverifiedGrace}]
<1>4. /\ look \in Looks /\ NoLook \in Looks
      /\ \/ look' = NoLook /\ Running(s)
         \/ /\ look' \in Looks /\ look.at' = s /\ look.seen' = look.seen
            /\ look.read' = TRUE
  <2>1. look \in Looks /\ look.at = s
    BY <1>1 DEF IInv, Typed, Looked
  <2>2. NoLook \in Looks
    BY Graces DEF NoLook
  <2>3. CASE \E q \in {0, OwnerlessGrace, UnverifiedGrace} :
               look' = [look EXCEPT !.read = TRUE, !.quiet = q]
    BY <2>1, <2>2, <2>3
  <2>. QED BY <1>3, <2>1, <2>2, <2>3
<1>5. look # NoLook /\ sweep = "looking"
  BY <1>1, NothingLooked DEF IInv, Stages
<1>6. Typed'
  BY <1>1, <1>2, <1>4 DEF IInv, Typed
<1>7. Stages'
  BY <1>1, <1>4, <1>5 DEF IInv, Stages
<1>8. \A r \in Sessions : r # s => Inv(r)'
  <2>1. \A r \in Sessions : r # s => ~Looked(r) /\ ~Looked(r)'
    BY <1>1, <1>4, SweepAssumption DEF Looked, NoLook
  <2>. QED BY <1>1, <1>2, <2>1, SameWatch DEF IInv
<1>9. Inv(s)'
  <2>1. Inv(s) /\ Watched(s)
    BY <1>1 DEF IInv, Watched
  <2>2. /\ Running(s)' = Running(s) /\ Exists(s)' = Exists(s) /\ (Excused(s) => Excused(s)')
        /\ (Running(s) => Exists(s)) /\ step[s] # "new"
    BY <1>1, <1>2, <2>1 DEF Running, Exists, Excused, Inv, Listed
  <2>3. Contents(s)' /\ Listed(s)' /\ Recorded(s)' /\ Spared(s)'
    BY <1>1, <1>2, <2>1, <2>2 DEF Inv, Contents, Listed, Recorded, Spared
  <2>4. SeenRunning(s)'
    <3>. SUFFICES ASSUME Running(s), look' # NoLook PROVE SeenRunning(s)'
      BY <2>2, NothingLooked DEF SeenRunning
    <3>1. SeenWell(s)' /\ (step'[s] = "made" => tmp'[s]["dir"] = look.seen')
      BY <1>1, <1>2, <1>4, <2>1 DEF Inv, SeenRunning, SeenWell
    <3>2. \/ look.quiet' = OwnerlessGrace /\ step[s] # "marked"
          \/ look.quiet' = UnverifiedGrace /\ step[s] = "marked" /\ "misjudged" \in fooled'[s]
      <4>1. step[s] = "marked" <=> "owner" \in DOMAIN tmp[s]
        BY <2>1, <2>2 DEF Inv, Contents, Running
      <4>. QED BY <1>3, <1>4, <4>1
    <3>. QED BY <1>1, <3>1, <3>2 DEF SeenRunning
  <2>5. Clearing(s)'
    <3>1. s \in debris /\ Exists(s) =>
            ~Running(s) /\ "owner" \in DOMAIN tmp[s]
      BY <2>1 DEF Inv, Clearing, Running
    <3>2. s \in debris /\ Exists(s) => Looked(s)' /\ (s \notin reused => look.quiet' = 0)
      <4>1. CASE s \in debris /\ Exists(s)
        <5>1. ~Running(s) /\ "owner" \in DOMAIN tmp[s]
          BY <3>1, <4>1
        <5>2. look.at' = s
          BY <1>4, <5>1
        <5>3. s \in reused \/ look' = [look EXCEPT !.read = TRUE, !.quiet = 0]
          BY <1>3, <5>1
        <5>4. s \in reused \/ look.quiet' = 0
          BY <1>1, <5>3 DEF IInv, Typed
        <5>. QED BY <5>2, <5>4 DEF Looked
      <4>. QED BY <4>1
    <3>. QED BY <1>1, <2>1, <2>2, <3>1, <3>2 DEF Inv, Clearing
  <2>. QED BY <2>3, <2>4, <2>5 DEF Inv
<1>. QED BY <1>6, <1>7, <1>8, <1>9 DEF IInv

\* The decision: whoever still runs has deceived the sweep, and what has to be
\* removed is condemned.
LEMMA LookInsideInv == ASSUME IInv, NEW s \in Sessions, LookInside(s) PROVE IInv'
<1>1. /\ Looked(s) /\ look.read /\ look' = NoLook
      /\ condemned' = IF LastTouched(s) >= look.quiet THEN condemned \cup {s} ELSE condemned
      /\ UNCHANGED <<step, reused, tmp, sweep, toLook, debris, resisted, fooled>>
  BY DEF LookInside, LookOn, sessionVars
<1>2. look # NoLook /\ sweep = "looking"
  BY <1>1, NothingLooked DEF IInv, Stages
<1>3. NoLook \in [at : Sessions \cup {"nothing"}, seen : Ages, read : BOOLEAN,
                  quiet : {0, OwnerlessGrace, UnverifiedGrace}]
  BY Graces DEF NoLook
<1>4. Typed' /\ Stages'
  BY <1>1, <1>2, <1>3 DEF IInv, Typed, Stages
<1>5. \A r \in Sessions : r # s => Inv(r)'
  <2>1. \A r \in Sessions : r # s => ~Looked(r) /\ ~Looked(r)'
    BY <1>1, NothingLooked DEF Looked
  <2>. QED BY <1>1, <2>1, SameWatch DEF IInv
<1>6. Inv(s)'
  <2>1. /\ Inv(s) /\ Watched(s) /\ ~Looked(s)'
        /\ Running(s)' = Running(s) /\ Exists(s)' = Exists(s) /\ Excused(s)' = Excused(s)
    BY <1>1, NothingLooked DEF IInv, Watched, Running, Exists, Excused
  <2>2. Contents(s)' /\ Listed(s)' /\ Recorded(s)' /\ SeenRunning(s)'
    BY <1>1, <2>1 DEF Inv, Contents, Listed, Recorded, SeenRunning
  <2>3. /\ LastTouched(s) \in Nat /\ LastTouched(s) <= look.seen
        /\ \A e \in DOMAIN tmp[s] \ {"dir"} : LastTouched(s) <= tmp[s][e]
        /\ look.seen \in Nat
        /\ \A e \in DOMAIN tmp[s] : tmp[s][e] \in Nat
    BY LastTouchedFacts, DirFacts, Graces DEF IInv, Typed
  <2>4. ASSUME Running(s), LastTouched(s) >= look.quiet PROVE Excused(s)
    <3>1. Exists(s) /\ "dir" \in DOMAIN tmp[s]
      BY <2>1, <2>4 DEF Inv, Listed, Exists
    <3>2. CASE /\ look.quiet = OwnerlessGrace
               /\ step[s] = "marked" /\ tmp[s]["owner"] >= OwnerlessGrace
                    => "slow look" \in fooled[s]
      <4>. DEFINE last == LastTouched(s)
      <4>0. /\ last \in Nat /\ look.seen \in Nat /\ OwnerlessGrace \in Nat
            /\ OwnerlessGrace <= last /\ last <= look.seen
        <5>1. look.quiet = OwnerlessGrace
          BY <3>2
        <5>2. last >= look.quiet /\ last \in Nat /\ last <= look.seen /\ look.seen \in Nat
          BY <2>3, <2>4
        <5>. HIDE DEF last
        <5>. QED BY <5>1, <5>2, Graces
      <4>1. CASE step[s] = "made"
        <5>1. tmp[s]["dir"] = look.seen
          BY <1>1, <2>1, <2>4, <4>1 DEF Inv, SeenRunning
        <5>2. tmp[s]["dir"] >= OwnerlessGrace
          BY <4>0, <5>1
        <5>. QED BY <1>2, <2>1, <2>4, <3>1, <4>1, <5>2 DEF Inv, Recorded, Excused
      <4>2. CASE step[s] = "marked"
        <5>1. "owner" \in DOMAIN tmp[s] \ {"dir"}
          BY <2>1, <3>1, <4>2 DEF Inv, Contents
        <5>2. tmp[s]["owner"] \in Nat /\ LastTouched(s) <= tmp[s]["owner"]
          BY <2>3, <5>1
        <5>3. tmp[s]["owner"] >= OwnerlessGrace
          BY <4>0, <5>2
        <5>. QED BY <3>2, <4>2, <5>3 DEF Excused
      <4>. QED BY <2>4, <4>1, <4>2 DEF Running
    <3>3. CASE look.quiet = UnverifiedGrace /\ "misjudged" \in fooled[s]
      <4>1. CASE "under the eyes" \in fooled[s]
        BY <3>3, <4>1 DEF Excused
      <4>2. CASE "under the eyes" \notin fooled[s]
        <5>1. tmp[s]["dir"] >= LastTouched(s)
          <6>1. \/ tmp[s]["dir"] >= look.seen
                \/ \E e \in DOMAIN tmp[s] \ {"dir"} : tmp[s]["dir"] >= tmp[s][e]
            BY <1>1, <2>1, <2>4, <4>2 DEF Inv, SeenRunning, SeenWell
          <6>. QED BY <2>3, <3>1, <6>1
        <5>2. \A e \in DOMAIN tmp[s] : tmp[s][e] >= UnverifiedGrace
          BY <2>3, <2>4, <3>1, <3>3, <5>1, Graces
        <5>3. "idle" \in fooled[s]
          BY <1>2, <2>1, <2>4, <3>1, <5>2 DEF Inv, Recorded
        <5>. QED BY <3>3, <5>3 DEF Excused
      <4>. QED BY <4>1, <4>2
    <3>. QED BY <1>1, <2>1, <2>4, <3>2, <3>3 DEF Inv, SeenRunning
  <2>5. Spared(s)'
    BY <1>1, <2>1, <2>4 DEF Inv, Spared
  <2>6. Clearing(s)'
    <3>1. s \in debris /\ Exists(s) /\ s \notin reused => s \in condemned'
      <4>1. s \in debris /\ Exists(s) /\ s \notin reused => look.quiet = 0
        BY <1>1, <2>1 DEF Inv, Clearing
      <4>2. look.quiet = 0 => LastTouched(s) >= look.quiet
        BY <2>3
      <4>. QED BY <1>1, <4>1, <4>2
    <3>. QED BY <1>1, <2>1, <3>1 DEF Inv, Clearing
  <2>. QED BY <2>2, <2>5, <2>6 DEF Inv
<1>. QED BY <1>4, <1>5, <1>6 DEF IInv

\* Only what is condemned is removed.
LEMMA RemoveInv == ASSUME IInv, NEW s \in Sessions, Remove(s) PROVE IInv'
<1>1. /\ sweep = "planned" /\ s \in condemned /\ condemned' = condemned \ {s}
      /\ \/ tmp' = [tmp EXCEPT ![s] = Removed] /\ resisted' = resisted
         \/ tmp' = tmp /\ resisted' = resisted \cup {s}
      /\ UNCHANGED <<step, reused, sweep, toLook, look, debris, fooled>>
  BY DEF Remove, sessionVars
<1>2. look = NoLook /\ toLook = {}
  BY <1>1 DEF IInv, Stages
<1>3. /\ tmp' \in [Sessions -> Dirs]
      /\ \A r \in Sessions : r # s => tmp'[r] = tmp[r]
      /\ \/ tmp'[s] = Removed
         \/ tmp'[s] = tmp[s] /\ s \in resisted'
  BY <1>1, RemovedFacts DEF IInv, Typed
<1>4. Typed' /\ Stages'
  BY <1>1, <1>2, <1>3 DEF IInv, Typed, Stages
<1>5. \A r \in Sessions : r # s => Inv(r)'
  BY <1>1, <1>3, SameWatch DEF IInv
<1>6. Inv(s)'
  <2>1. /\ Inv(s) /\ ~Looked(s)' /\ ~Watched(s)'
        /\ Running(s)' = Running(s) /\ Excused(s)' = Excused(s)
        /\ step[s] # "new"
    BY <1>1, <1>2, NothingLooked DEF IInv, Inv, Listed, Watched, Running, Excused
  <2>2. /\ DOMAIN tmp'[s] # {} => Exists(s)' /\ tmp'[s] = tmp[s]
        /\ Exists(s)' => tmp'[s] = tmp[s] /\ s \in resisted' /\ Exists(s)
    BY <1>3, <2>1, RemovedFacts DEF Exists, Inv, Contents
  <2>3. Contents(s)' /\ Listed(s)' /\ SeenRunning(s)'
    BY <1>1, <2>1, <2>2 DEF Inv, Contents, Listed, SeenRunning
  <2>4. Recorded(s)'
    BY <1>1, <2>1, <2>2 DEF Inv, Recorded
  <2>5. Spared(s)'
    BY <1>1, <2>1 DEF Inv, Spared
  <2>6. Clearing(s)'
    BY <1>1, <2>1, <2>2 DEF Inv, Clearing
  <2>. QED BY <2>3, <2>4, <2>5, <2>6 DEF Inv
<1>. QED BY <1>4, <1>5, <1>6 DEF IInv

-----------------------------------------------------------------------------
(* The theorems.                                                           *)

LEMMA InitInv == Init => IInv
<1>. SUFFICES ASSUME Init PROVE IInv
  OBVIOUS
<1>1. NoLook \in [at : Sessions \cup {"nothing"}, seen : Ages, read : BOOLEAN,
                  quiet : {0, OwnerlessGrace, UnverifiedGrace}]
  BY Graces DEF NoLook
<1>2. Typed
  BY <1>1, RemovedFacts DEF Init, Typed
<1>3. Stages
  BY DEF Init, Stages
<1>4. ASSUME NEW s \in Sessions PROVE Inv(s)
  <2>1. step[s] = "new" /\ DOMAIN tmp[s] = {} /\ ~Looked(s) /\ ~Watched(s) /\ ~Running(s)
        /\ s \notin debris /\ s \notin reused
    BY RemovedFacts, NothingLooked DEF Init, Watched, Running
  <2>. QED BY <2>1 DEF Inv, Contents, Listed, Recorded, SeenRunning, Spared, Clearing
<1>. QED BY <1>2, <1>3, <1>4 DEF IInv

LEMMA NextInv == IInv /\ [Next]_vars => IInv'
<1>. SUFFICES ASSUME IInv, [Next]_vars PROVE IInv'
  OBVIOUS
<1>1. CASE Sweep
  BY <1>1, StartSweepInv, EndLookInv, OverInv, StatDirInv, ReadOwnerInv, LookInsideInv, RemoveInv
     DEF Sweep
<1>2. CASE Tick
  BY <1>2, TickInv
<1>3. CASE \E s \in Sessions : Session(s)
  BY <1>3, SessionInv
<1>4. CASE UNCHANGED vars
  <2>1. UNCHANGED <<step, reused, tmp, sweep, toLook, look, condemned, debris, resisted, fooled>>
    BY <1>4 DEF vars, sessionVars, sweepVars
  <2>2. Typed' /\ Stages'
    BY <2>1 DEF IInv, Typed, Stages
  <2>3. \A s \in Sessions : Inv(s)'
    BY <2>1, SameWatch DEF IInv
  <2>. QED BY <2>2, <2>3 DEF IInv
<1>. QED BY <1>1, <1>2, <1>3, <1>4 DEF Next

LEMMA Invariant == Spec => []IInv
BY InitInv, NextInv, PTL DEF Spec

\* The values of all variables stay in their sets, nothing is in a directory
\* that does not exist, and a sync that is over keeps no list.
THEOREM SweepTypeCorrect == Spec => []SweepTypeOK
<1>1. IInv => SweepTypeOK
  <2>. SUFFICES ASSUME IInv PROVE SweepTypeOK
    OBVIOUS
  <2>1. ASSUME NEW s \in Sessions
        PROVE  /\ DOMAIN tmp[s] \subseteq Entries
               /\ \A e \in DOMAIN tmp[s] : tmp[s][e] \in Ages
               /\ tmp[s] # Removed => Exists(s)
               /\ fooled[s] \subseteq Excuse
    <3>1. tmp[s] \in Dirs /\ fooled[s] \in SUBSET Excuse
      BY DEF IInv, Typed
    <3>2. DOMAIN tmp[s] = {} => tmp[s] = Removed
      BY <3>1 DEF Dirs, Removed
    <3>. QED BY <3>1, <3>2, DirFacts DEF IInv, Inv, Contents
  <2>2. reused \subseteq {s \in Sessions : step[s] = "gone"}
    BY DEF IInv, Typed, Inv, Contents
  <2>3. look # NoLook => sweep = "looking" /\ look.at \in Sessions /\ look.seen \in Ages
    BY DEF IInv, Typed, Stages
  <2>4. UNION {toLook, condemned, debris, resisted} \subseteq Sessions
    BY DEF IInv, Typed
  <2>. QED BY <2>1, <2>2, <2>3, <2>4 DEF IInv, Typed, Stages, SweepTypeOK
<1>. QED BY <1>1, Invariant, PTL

\* A running session loses its directory only if it touched nothing for a grace
\* period, before it was marked or during one look, or was misjudged and either
\* idle for the second grace period or busy under the eyes of the sweep: for
\* any number of sessions and any grace periods, the first below the second.
THEOREM SweepSparesRunning == Spec => []RunningSpared
<1>1. IInv => RunningSpared
  BY DEF IInv, Inv, Spared, Excused, RunningSpared, Robbed
<1>. QED BY <1>1, Invariant, PTL

\* A sync that carries out its plan leaves no marked directory whose owner was
\* gone when it began, unless the removal failed or the process id was taken.
THEOREM SweepClears == Spec => NextSweepClears
<1>1. IInv /\ [Next]_vars =>
        [EndSweep => \A s \in debris : Exists(s) => s \in resisted \cup reused]_vars
  <2>. SUFFICES ASSUME IInv, EndSweep, NEW s \in debris, Exists(s)
                PROVE  s \in resisted \cup reused
    OBVIOUS
  <2>1. s \in Sessions /\ condemned = {} /\ toLook = {} /\ look = NoLook
    BY DEF EndSweep, Over, IInv, Typed, Stages
  <2>2. ~Looked(s)
    BY <2>1, NothingLooked
  <2>. QED BY <2>1, <2>2 DEF IInv, Inv, Clearing
<1>. QED BY <1>1, Invariant, PTL DEF Spec, NextSweepClears

=============================================================================
