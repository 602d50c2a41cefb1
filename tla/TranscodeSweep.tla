--------------------------- MODULE TranscodeSweep ---------------------------
(***************************************************************************)
(* Temporary directories of running syncs, and the sweep by which a sync   *)
(* clears away those of syncs that were killed                             *)
(* (podkit-core/src/diagnostics/scanners/transcode-tmp-walker.ts,          *)
(* sync/engine/pre-sync-sweep.ts). A session is one sync process; it makes *)
(* its directory, marks it with its process id in .owner, lets FFmpeg      *)
(* write outputs in it and removes it (sync/music/pipeline.ts). The sweep  *)
(* looks at all directories at the start of a sync and removes the         *)
(* abandoned ones when the plan is carried out, if that ever happens.      *)
(*                                                                         *)
(* Time is ticks. An entry of the file system is known by its age, the     *)
(* ticks since its mtime; ages beyond every grace period are alike.        *)
(***************************************************************************)
EXTENDS Naturals, FiniteSetsExt

CONSTANTS
  Sessions,
  OwnerlessGrace,    \* how long an unmarked directory must be untouched
  UnverifiedGrace    \* and one whose owner may or may not be running

ASSUME SweepAssumption ==
  /\ OwnerlessGrace \in Nat \ {0}
  /\ UnverifiedGrace \in Nat
  /\ OwnerlessGrace < UnverifiedGrace
  /\ "nothing" \notin Sessions

VARIABLES
  step,       \* session |-> "new", "made" (no .owner yet), "marked" or "gone"
  reused,     \* sessions that are gone and whose process id is another's now
  tmp,        \* session |-> what exists of its directory: entry |-> age
  sweep,      \* the sweeping sync: "idle", "looking" or "planned"
  toLook,     \* directories that it has listed and not looked at
  look,       \* the directory it is looking at, see NoLook
  condemned,  \* directories that it is going to remove
  debris,     \* history: those that it has to remove, as it began
  resisted,   \* history: those that could not be removed
  fooled      \* history: see Excuse

sessionVars == <<step, reused>>
sweepVars == <<sweep, toLook, look, condemned, debris, resisted>>
vars == <<sessionVars, tmp, sweepVars, fooled>>

\* "dir" is the directory itself.
Entries == {"dir", "owner", "output"}
Ages == 0..UnverifiedGrace
Removed == [e \in {} |-> 0]
Exists(s) == "dir" \in DOMAIN tmp[s]

\* The walk has read the directory's mtime, `seen` ticks old by now; then it
\* reads .owner, which says how long nothing may have been touched.
NoLook == [at |-> "nothing", seen |-> 0, read |-> FALSE, quiet |-> 0]

Running(s) == step[s] \in {"made", "marked"}

Robbed(s) == Running(s) /\ ~Exists(s)

Init ==
  /\ step = [s \in Sessions |-> "new"]
  /\ reused = {}
  /\ tmp = [s \in Sessions |-> Removed]
  /\ sweep = "idle"
  /\ toLook = {}
  /\ look = NoLook
  /\ condemned = {}
  /\ debris = {}
  /\ resisted = {}
  /\ fooled = [s \in Sessions |-> {}]

-----------------------------------------------------------------------------
(* A session.                                                              *)

Becomes(s, next) == step' = [step EXCEPT ![s] = next] /\ UNCHANGED reused

\* These entries of the session's directory are written now.
Touched(s, entries) ==
  [tmp EXCEPT ![s] = [e \in DOMAIN @ \cup entries |-> IF e \in entries THEN 0 ELSE @[e]]]

Without(s, entry) ==
  [Touched(s, {"dir"}) EXCEPT ![s] = [e \in DOMAIN @ \ {entry} |-> @[e]]]

Looked(s) == look.at = s

\* What may deceive this sweep about a running session: it touched nothing for
\* a grace period, before it was marked, while it was looked at or at all; its
\* process was misjudged; or what it did under the eyes of the sweep left no
\* trace that is looked for.
Excuse == {"slow to mark", "slow look", "idle", "misjudged", "under the eyes"}

Deceives(s, excuse, holds) ==
  fooled' = [fooled EXCEPT ![s] = @ \cup (IF holds THEN {excuse} ELSE {})]

MakeDir(s) ==
  /\ step[s] = "new"
  /\ Becomes(s, "made")
  /\ tmp' = Touched(s, {"dir"})
  /\ UNCHANGED <<sweepVars, fooled>>

\* writeOwnership: a temp file, renamed. It fails if the directory is gone,
\* which ends the sync.
WriteOwnership(s) ==
  /\ step[s] = "made"
  /\ Exists(s)
  /\ Becomes(s, "marked")
  /\ tmp' = Touched(s, {"dir", "owner"})
  /\ UNCHANGED <<sweepVars, fooled>>

StartOutput(s) ==
  /\ step[s] = "marked"
  /\ Exists(s)
  /\ tmp' = Touched(s, {"dir", "output"})
  /\ UNCHANGED <<sessionVars, sweepVars, fooled>>

\* FFmpeg writes on: the directory's own mtime stays.
GrowOutput(s) ==
  /\ "output" \in DOMAIN tmp[s]
  /\ Running(s)
  /\ tmp' = Touched(s, {"output"})
  /\ UNCHANGED <<sessionVars, sweepVars, fooled>>

\* An output changes its name or goes.
EndOutput(s) ==
  /\ "output" \in DOMAIN tmp[s]
  /\ Running(s)
  /\ Deceives(s, "under the eyes", Looked(s))
  /\ UNCHANGED <<sessionVars, sweepVars>>

\* Done, it is renamed to its final name.
RenameOutput(s) == EndOutput(s) /\ tmp' = Touched(s, {"dir"})

\* Copied to the device, it is removed.
RemoveOutput(s) == EndOutput(s) /\ tmp' = Without(s, "output")

Gone(s) ==
  /\ Running(s)
  /\ Becomes(s, "gone")
  /\ fooled' = [fooled EXCEPT ![s] = {}]
  /\ UNCHANGED sweepVars

\* The finally block, after success, failure or interrupt.
Finish(s) ==
  /\ Gone(s)
  /\ tmp' = [tmp EXCEPT ![s] = Removed]

\* Killed; or the removal fails, which is ignored.
Die(s) == Gone(s) /\ UNCHANGED tmp

\* Another process gets the process id.
Reuse(s) ==
  /\ step[s] = "gone"
  /\ Exists(s)
  /\ s \notin reused
  /\ reused' = reused \cup {s}
  /\ UNCHANGED <<step, tmp, sweepVars, fooled>>

Session(s) ==
  \/ MakeDir(s) \/ WriteOwnership(s) \/ StartOutput(s) \/ GrowOutput(s)
  \/ RenameOutput(s) \/ RemoveOutput(s) \/ Finish(s) \/ Die(s) \/ Reuse(s)

Older(age) == IF age = UnverifiedGrace THEN age ELSE age + 1

\* How long nothing in the directory has been touched.
Untouched(s) == Min({tmp[s][e] : e \in DOMAIN tmp[s]})

\* The sweep found no mark, and still looks when the mark is a grace old.
LookedAtSlowly(s) ==
  /\ Looked(s)
  /\ look.quiet = OwnerlessGrace
  /\ step[s] = "marked"
  /\ tmp[s]["owner"] + 1 >= OwnerlessGrace

Idle(s, ticks) ==
  (IF step[s] = "made" /\ ticks >= OwnerlessGrace THEN {"slow to mark"} ELSE {})
  \cup (IF ticks >= UnverifiedGrace THEN {"idle"} ELSE {})

Tick ==
  /\ tmp' = [s \in Sessions |-> [e \in DOMAIN tmp[s] |-> Older(tmp[s][e])]]
  /\ look' = [look EXCEPT !.seen = IF look = NoLook THEN 0 ELSE Older(@)]
  /\ fooled' = [s \in Sessions |-> fooled[s] \cup
       IF sweep # "idle" /\ Running(s) /\ Exists(s)
       THEN Idle(s, Untouched(s) + 1)
              \cup (IF LookedAtSlowly(s) THEN {"slow look"} ELSE {})
       ELSE {}]
  /\ UNCHANGED <<sessionVars, sweep, toLook, condemned, debris, resisted>>

-----------------------------------------------------------------------------
(* The sweep.                                                              *)

\* readdir of the temp directory.
StartSweep ==
  /\ sweep = "idle"
  /\ sweep' = "looking"
  /\ toLook' = {s \in Sessions : Exists(s)}
  /\ debris' = {s \in Sessions : step[s] = "gone" /\ s \notin reused
                                   /\ "owner" \in DOMAIN tmp[s]}
  /\ fooled' = [s \in Sessions |->
       fooled[s] \cup IF Running(s) /\ Exists(s) THEN Idle(s, Untouched(s)) ELSE {}]
  /\ UNCHANGED <<sessionVars, tmp, look, condemned, resisted>>

LookOn(next) ==
  /\ look' = next
  /\ UNCHANGED <<sessionVars, tmp, sweep, debris, resisted>>

\* The directory's own mtime is read first.
StatDir(s) ==
  /\ look = NoLook
  /\ s \in toLook
  /\ toLook' = toLook \ {s}
  /\ LookOn(IF Exists(s) THEN [at |-> s, seen |-> tmp[s]["dir"], read |-> FALSE, quiet |-> 0]
                         ELSE NoLook)
  /\ UNCHANGED <<condemned, fooled>>

\* probeLiveness: a running process may be misjudged, by a clock that was set
\* or a ps that fails; a process id that is free proves the owner gone.
Verdicts(s) ==
  CASE Running(s) -> {"alive", "unknown"}
    [] step[s] = "gone" /\ s \in reused -> {"unknown"}
    [] OTHER -> {"dead"}

\* Faulty RequiredQuiet: a dead owner's directory waits like any other.
RequiredQuietAlways(verdict) == UnverifiedGrace

RequiredQuiet(verdict) == IF verdict = "dead" THEN 0 ELSE UnverifiedGrace

ReadOwner(s) ==
  /\ Looked(s)
  /\ ~look.read
  /\ \/ /\ "owner" \notin DOMAIN tmp[s]
        /\ LookOn([look EXCEPT !.read = TRUE, !.quiet = OwnerlessGrace])
        /\ UNCHANGED fooled
     \/ /\ "owner" \in DOMAIN tmp[s]
        /\ \E verdict \in Verdicts(s) :
             /\ LookOn(IF verdict = "alive" THEN NoLook
                       ELSE [look EXCEPT !.read = TRUE, !.quiet = RequiredQuiet(verdict)])
             /\ Deceives(s, "misjudged", Running(s) /\ verdict = "unknown")
  /\ UNCHANGED <<toLook, condemned>>

\* Faulty LastTouched: what FFmpeg writes is not looked at.
LastTouchedOfDir(s) == look.seen

\* The newest mtime: the directory's, as it was read, and of what is in it.
LastTouched(s) == Min({look.seen} \cup {tmp[s][e] : e \in DOMAIN tmp[s] \ {"dir"}})

\* dirStats and the decision.
LookInside(s) ==
  /\ Looked(s)
  /\ look.read
  /\ condemned' = IF LastTouched(s) >= look.quiet THEN condemned \cup {s} ELSE condemned
  /\ LookOn(NoLook)
  /\ UNCHANGED <<toLook, fooled>>

\* The collection is read, compared and planned.
EndLook ==
  /\ sweep = "looking"
  /\ toLook = {}
  /\ look = NoLook
  /\ sweep' = "planned"
  /\ UNCHANGED <<sessionVars, tmp, toLook, look, condemned, debris, resisted, fooled>>

Over ==
  /\ sweep = "planned"
  /\ sweep' = "idle"
  /\ debris' = {}
  /\ resisted' = {}
  /\ fooled' = [s \in Sessions |-> IF Robbed(s) THEN fooled[s] ELSE {}]
  /\ UNCHANGED <<sessionVars, tmp, toLook, look>>

\* Faulty Skip: the next sync removes what this one found.
SkipKeepsList == Over /\ UNCHANGED condemned

\* Nothing is removed by a dry run, nor by a sync that is refused, interrupted
\* or finds nothing to do.
Skip == Over /\ condemned' = {}

\* runPreliminariesPreFlight, path by path.
Remove(s) ==
  /\ sweep = "planned"
  /\ s \in condemned
  /\ condemned' = condemned \ {s}
  /\ \/ tmp' = [tmp EXCEPT ![s] = Removed] /\ UNCHANGED resisted
     \/ resisted' = resisted \cup {s} /\ UNCHANGED tmp
  /\ UNCHANGED <<sessionVars, sweep, toLook, look, debris, fooled>>

EndSweep == Over /\ condemned = {} /\ UNCHANGED condemned

Sweep ==
  \/ StartSweep \/ EndLook \/ Skip \/ EndSweep
  \/ \E s \in Sessions : StatDir(s) \/ ReadOwner(s) \/ LookInside(s) \/ Remove(s)

Next == Sweep \/ Tick \/ \E s \in Sessions : Session(s)

Spec == Init /\ [][Next]_vars

-----------------------------------------------------------------------------
(* Properties.                                                             *)

\* Nothing is in a directory that does not exist, only a session that is gone
\* has lost its process id, and the walk keeps no list from the sync before.
SweepTypeOK ==
  /\ step \in [Sessions -> {"new", "made", "marked", "gone"}]
  /\ reused \subseteq {s \in Sessions : step[s] = "gone"}
  /\ \A s \in Sessions :
       /\ DOMAIN tmp[s] \subseteq Entries
       /\ \A e \in DOMAIN tmp[s] : tmp[s][e] \in Ages
       /\ tmp[s] # Removed => Exists(s)
       /\ fooled[s] \subseteq Excuse
  /\ sweep \in {"idle", "looking", "planned"}
  /\ UNION {toLook, condemned, debris, resisted} \subseteq Sessions
  /\ look # NoLook => sweep = "looking" /\ look.at \in Sessions /\ look.seen \in Ages
  /\ sweep = "idle" => condemned = {} /\ toLook = {}

\* "A false 'dead' deletes a running sync's output directory"
\* (transcode-tmp-walker.ts:15). A running session loses its directory only
\* if nothing in it was touched for the first grace period, unmarked or between
\* two reads of one look, or if it was misjudged and touched nothing for the
\* second, however looks, marks, outputs and the delay until the removal
\* interleave. One hole is left: as the directory's mtime is read before what
\* is in it, an output that is renamed or removed in between goes unnoticed.
RunningSpared ==
  \A s \in Sessions : Robbed(s) =>
    \/ fooled[s] \cap {"slow to mark", "slow look"} # {}
    \/ "misjudged" \in fooled[s] /\ fooled[s] \cap {"idle", "under the eyes"} # {}

\* "A killed session's leftovers are still cleared by the very next sync"
\* (transcode-tmp-walker.ts:32): a sync that gets to carry out its plan leaves
\* no marked directory whose owner was gone when it began, unless it could
\* not be removed, whatever was touched last and when.
NextSweepClears ==
  [][ EndSweep => \A s \in debris : Exists(s) => s \in resisted \cup reused ]_vars
=============================================================================
