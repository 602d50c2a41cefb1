----------------------------- MODULE QualitySync -----------------------------
(***************************************************************************)
(* The quality of one song over any number of syncs, while its file in the *)
(* collection is replaced and the configuration edited in between: what is *)
(* made of the file when it is added (sync/music/classifier.ts), what a    *)
(* later sync finds to be wrong with the copy on the device (the bounds of *)
(* sync/engine/upgrades.ts and the passes of sync/music/handler.ts), which *)
(* file replaces it, and what its sync tag then says (sync/music/transfer, *)
(* metadata/sync-tags.ts).                                                 *)
(*                                                                         *)
(* The device is a mass-storage player: a copy's file type is its file     *)
(* name's extension, read at the start of every sync. A sync may be killed *)
(* between writing a file and writing its tag.                             *)
(***************************************************************************)
EXTENDS LossyReduction, Sequences

CONSTANTS
  Files,     \* what the song's file may be: [codec, bitrate], 0: unknown
  Configs,   \* [quality, lossy, axis, encoding, custom], custom 0: not set
  Plays,     \* codecs that the device plays
  Stack      \* the lossless codecs wanted, as far as the device plays them

Lossless == {"flac", "alac", "wav"}
Lossy == {"aac", "mp3", "opus", "vorbis"}
Codecs == Lossless \cup Lossy
Presets == {"high", "medium", "low"}

ASSUME QualityAssumption ==
  /\ Files \subseteq [codec : Codecs, bitrate : Nat]
  /\ Configs \subseteq
       [quality : Presets \cup {"max"}, lossy : {"aac", "mp3", "opus"} \cap Plays,
        axis : {"convert", "preserve"}, encoding : {"vbr", "cbr"}, custom : Nat]
  /\ Plays \subseteq Codecs
  /\ Stack \in Seq({"source", "flac", "alac"})

VARIABLES
  file,     \* the song's file in the collection
  config,   \* the user's configuration
  copy,     \* the file on the device: [codec, bitrate, type], see Nothing
  tag,      \* its sync tag: [quality, encoding, bitrate, codec], see NoTag
  last,     \* history: what happened last
  written   \* history: the tag was written together with the file

vars == <<file, config, copy, tag, last, written>>

Nothing == [codec |-> "none", bitrate |-> 0, type |-> "none"]
NoTag == [quality |-> "none", encoding |-> "none", bitrate |-> 0, codec |-> "none"]

\* Ways of calling sync: without a flag, and with each of the three that
\* reach the quality of a track.
Flags == {"plain", "force-transcode", "force-sync-tags", "force-sync-tags-transcode"}

-----------------------------------------------------------------------------
(* What a configuration asks for. *)

\* AAC_PRESETS, OPUS_PRESETS, MP3_PRESETS.
Nominal(codec, quality) ==
  CASE quality = "high" -> IF codec = "opus" THEN 160 ELSE 256
    [] quality = "medium" -> IF codec = "opus" THEN 128 ELSE 192
    [] OTHER -> IF codec = "opus" THEN 96 ELSE 128

Resolved(c) ==
  CASE c.quality # "max" -> c.quality
    [] c.quality = "max" /\ Stack # <<>> -> "lossless"
    [] OTHER -> "high"

\* presetBitrate. The cap of a lossless preset is the estimate for ALAC.
Cap(c) ==
  CASE c.custom # 0 -> c.custom
    [] c.custom = 0 /\ Resolved(c) = "lossless" -> 900
    [] OTHER -> Nominal(c.lossy, Resolved(c))

Tier(quality) ==
  CASE quality = "low" -> 0 [] quality = "medium" -> 1
    [] quality = "high" -> 2 [] OTHER -> 3

-----------------------------------------------------------------------------
(* What is made of a file. *)

CopyIt == [kind |-> "copy"]

\* override 0: the preset's own bitrate.
Transcode(name, codec, override) ==
  [kind |-> "transcode", name |-> name, codec |-> codec, override |-> override]

ToLossy(c, override) == Transcode(Resolved(c), c.lossy, override)

\* The first lossless codec wanted that the device gets: the file's own, if it
\* is played, or another; failing all, a lossy file of high quality.
ToLossless(src, c) ==
  LET fits == {i \in DOMAIN Stack :
                 Stack[i] = "source" => src.codec \in {"flac", "alac"} \cap Plays}
      first == CHOOSE i \in fits : \A j \in fits : i <= j
  IN  CASE fits = {} -> Transcode("high", c.lossy, c.custom)
        [] fits # {} /\ Stack[first] = "source" -> CopyIt
        [] OTHER -> Transcode("lossless", Stack[first], 0)

\* The seam's answer for a file with a known bitrate; a file whose bitrate is
\* not known is never encoded blindly.
LossyAction(src, c) ==
  LET played == src.codec \in Plays
      answer == IF played THEN Reduced(src.bitrate, Cap(c), c.axis, Tolerance)
                          ELSE Forced(src, c.lossy, Cap(c), c.axis)
  IN  IF src.bitrate = 0
      THEN IF played THEN CopyIt ELSE ToLossy(c, c.custom)
      ELSE IF answer = AsItIs THEN CopyIt ELSE ToLossy(c, answer)

\* computeClassification.
Classify(src, c) ==
  CASE src.codec \in Lossy -> LossyAction(src, c)
    [] src.codec \in Lossless /\ Resolved(c) # "lossless" -> ToLossy(c, c.custom)
    [] src.codec \in Lossless \cap Plays /\ Resolved(c) = "lossless" -> CopyIt
    [] OTHER -> ToLossless(src, c)

Extension(codec) ==
  CASE codec \in {"aac", "alac"} -> "m4a" [] codec = "vorbis" -> "ogg" [] OTHER -> codec

\* Faulty Made: a file is named after the codec that is in it.
MadeNamed(src, action) ==
  LET codec == IF action.kind = "copy" THEN src.codec ELSE action.codec
  IN  [codec |-> codec, bitrate |-> src.bitrate, type |-> codec]

\* buildTranscodePreset: any lossless preset but FLAC's is encoded as ALAC. The
\* file is named after the codec that the preset asks for.
Made(src, action) ==
  CASE action.kind = "copy" ->
         [codec |-> src.codec, bitrate |-> src.bitrate, type |-> Extension(src.codec)]
    [] action.kind = "transcode" /\ action.name = "lossless" ->
         [codec |-> IF action.codec = "flac" THEN "flac" ELSE "alac",
          bitrate |-> 0, type |-> Extension(action.codec)]
    [] OTHER ->
         [codec |-> action.codec,
          bitrate |-> IF action.override # 0 THEN action.override
                      ELSE Nominal(action.codec, action.name),
          type |-> Extension(action.codec)]

-----------------------------------------------------------------------------
(* What a tag says. A tag is merged into the one before it, so a field that   *)
(* the new one does not speak of keeps its value.                             *)

\* Faulty AudioTag: a bitrate that is not given is left as it was.
AudioTagKeepingBitrate(before, c, name, codec, bitrate) ==
  [quality  |-> name,
   encoding |-> IF name = "lossless" THEN before.encoding ELSE c.encoding,
   bitrate  |-> IF name = "lossless" \/ bitrate = 0 THEN before.bitrate ELSE bitrate,
   codec    |-> codec]

\* buildAudioSyncTag. A lossless one clears the bitrate, but not the encoding.
AudioTag(before, c, name, codec, bitrate) ==
  [quality  |-> name,
   encoding |-> IF name = "lossless" THEN before.encoding ELSE c.encoding,
   bitrate  |-> IF name = "lossless" THEN 0 ELSE bitrate,
   codec    |-> codec]

\* buildCopySyncTag.
CopyTag(before, src) ==
  [quality  |-> "copy", encoding |-> "none",
   bitrate  |-> IF src.bitrate = 0 THEN before.bitrate ELSE src.bitrate,
   codec    |-> src.codec]

\* buildSyncTagForPreset, and the copy tags of transferToDevice.
TagOf(before, src, c, action) ==
  IF action.kind = "copy"
  THEN CopyTag(before, src)
  ELSE AudioTag(before, c, action.name, action.codec,
                IF action.override # 0 THEN action.override ELSE c.custom)

-----------------------------------------------------------------------------
(* What a sync finds to be wrong with the copy on the device.                 *)

Tagged == tag # NoTag

SourceLossless == file.codec \in Lossless

\* By the extension: an ALAC file, an .m4a, does not look lossless.
TypeLossless == copy.type \in {"flac", "wav"}

\* isDeviceCopyLossless asks the tag first.
CopyLossless ==
  \/ tag.quality = "lossless"
  \/ tag.quality \in {"copy", "none"} /\ TypeLossless

\* classifySourceBound: a lossy source that was replaced by a worse one.
SourceDown ==
  /\ file.codec \in Lossy
  /\ tag.bitrate > 0
  /\ file.bitrate > 0
  /\ 100 * file.bitrate < tag.bitrate * (100 - Tolerance)

\* The ways of leaving a pass: the track stays for the passes that follow; its
\* file is replaced; its tag alone is written.
Leave == [kind |-> "leave"]
Retag(new) == [kind |-> "retag", tag |-> new]
Renew == Classify(file, config)

\* resolveUpgradeAction: encode the lossy source again, at a bitrate.
ReEncode(bitrate) ==
  IF Resolved(config) = "lossless" THEN Renew ELSE ToLossy(config, bitrate)

\* detectUpdates: a lossless source whose copy is lossy, unless it is an .m4a.
SourcePass(flag) ==
  IF /\ SourceLossless
     /\ \/ ~TypeLossless /\ copy.type # "m4a"
        \/ flag = "force-transcode"
  THEN Renew
  ELSE Leave

\* Faulty Bound: a copy within the tolerance is held to the cap.
BoundExact == Reduced(tag.bitrate, Cap(config), config.axis, 0)

\* Faulty Bound: what podkit encoded may be over the cap as well.
BoundLoose == Reduced(tag.bitrate, Cap(config), config.axis, Tolerance)

\* classifyLossyDeviceBound: what the tag says of the bitrate, against the cap.
Bound ==
  Reduced(tag.bitrate, Cap(config), config.axis,
          IF tag.quality = "copy" THEN Tolerance ELSE 0)

BelowRaisedCap ==
  tag.quality \in Presets /\ Tier(tag.quality) < Tier(Resolved(config))

LossyPreset(flag) ==
  LET crossing == Resolved(config) # "lossless" /\ CopyLossless
      over == tag.bitrate # 0 /\ Bound # AsItIs
      lifted == /\ flag = "force-transcode"
                /\ tag.bitrate # 0
                /\ BelowRaisedCap
                /\ file.bitrate > tag.bitrate
  IN  CASE ~SourceDown /\ crossing -> Renew
        [] ~SourceDown /\ ~crossing /\ over -> ReEncode(Bound)
        [] ~SourceDown /\ ~crossing /\ ~over /\ lifted ->
             ReEncode(Lesser(file.bitrate, Cap(config)))
        [] OTHER -> Leave

Encoding(t) == IF t.encoding = "none" THEN "vbr" ELSE t.encoding

\* syncTagMatchesConfig, which leaves the codec to the codec pass.
Matches(t, expected) ==
  /\ t.quality = expected.quality
  /\ Encoding(t) = Encoding(expected)
  /\ t.bitrate = expected.bitrate

LosslessPreset ==
  LET inSync ==
        IF Tagged /\ Renew # CopyIt
        THEN Matches(tag, TagOf(NoTag, file, config, Renew))
        ELSE Resolved(config) = "lossless" => TypeLossless
      crossing == Resolved(config) # "lossless" /\ CopyLossless
  IN  IF \/ tag.quality = "copy" /\ Renew = CopyIt
         \/ inSync /\ ~crossing
      THEN Leave
      ELSE Renew

\* Faulty PresetPass: a lossy source is not compared with the copy first.
PresetPassFollowingSource(flag) ==
  CASE SourceLossless -> LosslessPreset
    [] ~SourceLossless /\ SourceDown -> ReEncode(file.bitrate)
    [] OTHER -> LossyPreset(flag)

\* postProcessPresetChanges.
PresetPass(flag) == IF SourceLossless THEN LosslessPreset ELSE LossyPreset(flag)

\* postProcessCodecChanges.
CodecPass ==
  IF Tagged /\ Renew # CopyIt /\ tag.codec # Renew.codec THEN Renew ELSE Leave

\* postProcessSyncTagsTranscode: a track without a tag is adopted.
AdoptPass(flag) ==
  IF flag # "force-sync-tags-transcode" \/ Tagged THEN Leave
  ELSE CASE SourceLossless -> Renew
         [] ~SourceLossless /\ file.bitrate = 0 -> ReEncode(Cap(config))
         [] OTHER ->
              IF LossyAction(file, config) = CopyIt
              THEN Retag(CopyTag(NoTag, file))
              ELSE ReEncode(LossyAction(file, config).override)

\* postProcessSyncTags: the tag that the configuration would write.
TagPass(flag) ==
  IF flag = "force-sync-tags" /\ SourceLossless
  THEN Retag(AudioTag(tag, config, Resolved(config), config.lossy, config.custom))
  ELSE Leave

\* A pass sees only what the passes before it left.
Before(first, second) == IF first # Leave THEN first ELSE second

\* postProcessDiff, after detectUpdates.
Decision(flag) ==
  Before(SourcePass(flag), Before(PresetPass(flag), Before(CodecPass,
    Before(AdoptPass(flag), TagPass(flag)))))

-----------------------------------------------------------------------------

Init ==
  /\ file \in Files
  /\ config \in Configs
  /\ copy = Nothing
  /\ tag = NoTag
  /\ last = "start"
  /\ written = FALSE

\* The user replaces the file.
ChangeFile ==
  /\ file' \in Files \ {file}
  /\ last' = "change"
  /\ UNCHANGED <<config, copy, tag, written>>

ChangeConfig ==
  /\ config' \in Configs \ {config}
  /\ last' = "change"
  /\ UNCHANGED <<file, copy, tag, written>>

Add(flag) ==
  /\ copy = Nothing
  /\ copy' = Made(file, Renew)
  /\ tag' = TagOf(NoTag, file, config, Renew)
  /\ written' = TRUE
  /\ last' = flag
  /\ UNCHANGED <<file, config>>

KeepCopy(flag) ==
  /\ copy # Nothing
  /\ Decision(flag) = Leave
  /\ last' = flag
  /\ UNCHANGED <<file, config, copy, tag, written>>

WriteTag(flag) ==
  /\ copy # Nothing
  /\ Decision(flag).kind = "retag"
  /\ tag' = Decision(flag).tag
  /\ written' = FALSE
  /\ last' = flag
  /\ UNCHANGED <<file, config, copy>>

Replacing(flag) ==
  /\ copy # Nothing
  /\ Decision(flag).kind \in {"copy", "transcode"}
  /\ copy' = Made(file, Decision(flag))
  /\ UNCHANGED <<file, config>>

Replace(flag) ==
  /\ Replacing(flag)
  /\ tag' = TagOf(tag, file, config, Decision(flag))
  /\ written' = TRUE
  /\ last' = flag

\* The sync is killed before the save: the new file, under the path of the old
\* one, has no tag yet.
ReplaceKilled(flag) ==
  /\ Replacing(flag)
  /\ copy'.type = copy.type
  /\ tag' = NoTag
  /\ written' = FALSE
  /\ last' = "killed"

Sync(flag) == Add(flag) \/ KeepCopy(flag) \/ WriteTag(flag) \/ Replace(flag)

Next ==
  \/ ChangeFile
  \/ ChangeConfig
  \/ \E flag \in Flags : Sync(flag) \/ ReplaceKilled(flag)

Spec == Init /\ [][Next]_vars

-----------------------------------------------------------------------------

Copies == [codec : Codecs, bitrate : Nat, type : {Extension(c) : c \in Codecs}]

Tags == [quality : Presets \cup {"copy", "lossless"}, encoding : {"none", "vbr", "cbr"},
         bitrate : Nat, codec : Codecs]

\* A copy has a type, a tag is whole, and only a copy has one.
QualityTypeOK ==
  /\ file \in Files
  /\ config \in Configs
  /\ copy \in {Nothing} \cup Copies
  /\ tag \in {NoTag} \cup Tags
  /\ last \in Flags \cup {"start", "change", "killed"}
  /\ written \in BOOLEAN
  /\ Tagged => copy # Nothing
  /\ written => Tagged

\* The copies that each sync makes anew: the lossy ones of a lossless source
\* that are not .m4a, lossless ones whose tag kept `cbr`, and those of a file
\* with no known bitrate whose tag kept the bitrate of an earlier one.
MadeAnewEveryTime ==
  \/ SourceLossless /\ ~TypeLossless /\ copy.type # "m4a"
  \/ SourceLossless /\ tag.quality = "lossless" /\ tag.encoding = "cbr"
  \/ file.bitrate = 0 /\ tag.bitrate # 0

\* ADR-023, "running sync twice with no source change produces no work on the
\* second run": whatever the files, settings and syncs before, a sync that ran
\* to its end leaves nothing for a plain one to do, but for the copies above,
\* for tags that --force-sync-tags wrote over, and for a copy that
\* --force-transcode lifted above the device's maximum, which the next plain
\* sync enforces.
NoWorkTwice ==
  /\ last \in Flags \ {"force-sync-tags"}
  /\ ~MadeAnewEveryTime
  /\ ~(last = "force-transcode" /\ OverDeviceMax(tag.bitrate))
  => Decision("plain") = Leave

\* The same without exception, of two plain syncs.
TwiceChangesNothing == last = "plain" => Decision("plain") = Leave

\* What decides every later sync is the tag and not the file: a tag written
\* with its file has the file's bitrate and codec, but for the lossy files that
\* a lossless preset encodes as ALAC.
RecordedIsReal ==
  written =>
    /\ copy.bitrate # 0 => tag.bitrate \in {0, copy.bitrate}
    /\ tag.codec = copy.codec \/ (tag.quality = "lossless" /\ copy.codec = "alac")

\* A quality setting is a ceiling: once a plain sync has run, a copy that is to
\* be reduced is within the tolerance of the cap, or at it if podkit encoded it,
\* whichever files and caps came before. Out of reach are copies with no
\* recorded bitrate, and better ones than the source is now; a copied ALAC file
\* whose bitrate is within the cap passes for a lossy one.
CeilingHolds ==
  /\ last = "plain"
  /\ written
  /\ config.axis = "convert"
  /\ Resolved(config) # "lossless"
  /\ tag.bitrate # 0 \/ SourceLossless
  /\ ~SourceDown
  => /\ copy.codec \in Lossy \/ (copy.codec = "alac" /\ tag.quality = "copy")
     /\ 100 * copy.bitrate <=
          Cap(config) * (100 + IF tag.quality = "copy" THEN Tolerance ELSE 0)

\* A plain sync replaces a lossy file of a lossy source, where its bitrate is
\* known, by one of the same codec only to make it smaller or to take the
\* source as it is, and never when the source got worse.
KeepsBetterCopy ==
  [][ /\ \E flag \in Flags : flag = "plain" /\ Replacing(flag)
      /\ written
      /\ ~SourceLossless
      /\ copy.codec \in Lossy
      /\ copy.bitrate # 0
      /\ copy'.codec = copy.codec
      => /\ copy'.bitrate < copy.bitrate \/ copy' = Made(file, CopyIt)
         /\ ~SourceDown ]_vars

\* The device plays what it is given.
PlaysWhatItGets == copy # Nothing => copy.codec \in Plays
=============================================================================
