---------------------------- MODULE QualityProofs ----------------------------
(***************************************************************************)
(* What holds of the quality of a song on every device, whatever the       *)
(* tolerance, the files and the configurations: no answer of the seam is   *)
(* over a limit, a tag tells what is in its file, and a plain sync does    *)
(* not encode a lossy song again but to make it smaller.                   *)
(***************************************************************************)
EXTENDS QualitySync, WellFoundedInduction, TLAPS

-----------------------------------------------------------------------------
(* The seam. *)

\* The effective cap is a bitrate within both limits.
LEMMA EffectiveCapBounded ==
  ASSUME NEW cap \in Nat \ {0}
  PROVE  /\ EffectiveCap(cap) \in Nat \ {0}
         /\ EffectiveCap(cap) <= cap
         /\ DeviceMax # 0 => EffectiveCap(cap) <= DeviceMax
  BY ReductionAssumption DEF EffectiveCap, Lesser

\* A file that is played is brought down within both limits, and only down
\* (resolveLossyReduction, the rows of a device-native source).
THEOREM ReducedGoesDown ==
  ASSUME NEW bitrate \in Nat, NEW cap \in Nat \ {0}, NEW axis, NEW tolerance \in 0..99
  PROVE  LET answer == Reduced(bitrate, cap, axis, tolerance)
         IN  /\ answer \in Nat
             /\ answer # AsItIs =>
                  /\ answer < bitrate
                  /\ answer <= cap
                  /\ DeviceMax # 0 => answer <= DeviceMax
<1> DEFINE eff == EffectiveCap(cap)
<1>1. /\ eff \in Nat \ {0}
      /\ eff <= cap
      /\ DeviceMax # 0 => eff <= DeviceMax
  BY EffectiveCapBounded
<1>2. ASSUME OverDeviceMax(bitrate)
      PROVE  eff < bitrate
  BY <1>1, <1>2, ReductionAssumption DEF OverDeviceMax
<1>3. ASSUME AboveBand(bitrate, cap, tolerance)
      PROVE  eff < bitrate
  <2> HIDE DEF eff
  <2>1. eff * tolerance \in Nat
    BY <1>1
  <2>2. 100 * bitrate > eff * 100 + eff * tolerance
    BY <1>1, <1>3 DEF AboveBand, eff
  <2> QED
    BY <1>1, <2>1, <2>2
<1> QED
  BY <1>1, <1>2, <1>3 DEF Reduced, AsItIs

\* The bitrate that matches a file's quality in another codec is not 0.
LEMMA QualityMatchedPositive ==
  ASSUME NEW bitrate \in Nat \ {0}, NEW from, NEW to
  PROVE  QualityMatched(bitrate, from, to) \in Nat \ {0}
<1> DEFINE f == Efficiency(from)
           t == Efficiency(to)
<1>1. /\ f \in {75, 90, 100, 130}
      /\ t \in {75, 90, 100, 130}
  BY DEF Efficiency
<1> HIDE DEF f, t
<1>2. 2 * bitrate * t >= 150
  BY <1>1
<1>3. (2 * bitrate * t + f) \div (2 * f) \in Nat \ {0}
  BY <1>1, <1>2
<1> QED
  BY <1>3 DEF QualityMatched, f, t

\* A file that has to be encoded gets a bitrate within both limits (the rows of
\* an incompatible source).
THEOREM ForcedIsCapped ==
  ASSUME NEW src \in Files, src.bitrate # 0, NEW target, NEW cap \in Nat \ {0}, NEW axis
  PROVE  LET answer == Forced(src, target, cap, axis)
         IN  /\ answer \in Nat \ {0}
             /\ answer <= cap
             /\ DeviceMax # 0 => answer <= DeviceMax
<1>1. src.bitrate \in Nat \ {0}
  BY QualityAssumption
<1>2. QualityMatched(src.bitrate, src.codec, target) \in Nat \ {0}
  BY <1>1, QualityMatchedPositive
<1>3. /\ EffectiveCap(cap) \in Nat \ {0}
      /\ EffectiveCap(cap) <= cap
      /\ DeviceMax # 0 => EffectiveCap(cap) <= DeviceMax
  BY EffectiveCapBounded
<1> QED
  BY <1>1, <1>2, <1>3, ReductionAssumption DEF Forced, Lesser

-----------------------------------------------------------------------------
(* What can be made of a file. *)

Targets == {"aac", "mp3", "opus", "flac", "alac"}

\* Ways of making a copy under a configuration: a lossy encode has the codec
\* that is configured, and a bitrate of its own wherever a custom one is set.
Action(a, c) ==
  \/ a = CopyIt
  \/ \E name \in Presets \cup {"lossless"}, codec \in Targets, override \in Nat :
       /\ a = Transcode(name, codec, override)
       /\ name # "lossless" =>
            /\ codec = c.lossy
            /\ override = 0 => c.custom = 0

\* What is made of a lossy file is never FLAC.
LossyMade(a, c) == a = CopyIt \/ (Action(a, c) /\ a.codec \in Lossy)

\* A set of indices has a first one.
LEMMA FirstIndex ==
  ASSUME NEW S \in SUBSET Nat, S # {}
  PROVE  LET first == CHOOSE i \in S : \A j \in S : i <= j IN first \in S
<1>1. IsWellFoundedOn(OpToRel(<, Nat), Nat)
  BY NatLessThanWellFounded
<1>2. \E i \in S : \A j \in S : ~ (<<j, i>> \in OpToRel(<, Nat))
  <2> DEFINE R == OpToRel(<, Nat)
  <2> HIDE DEF R
  <2> QED
    BY <1>1, WFMin DEF R
<1>3. \E i \in S : \A j \in S : i <= j
  <2>1. ASSUME NEW i \in Nat, NEW j \in Nat, j < i
        PROVE  <<j, i>> \in OpToRel(<, Nat)
    BY <2>1 DEF OpToRel
  <2>2. PICK i \in S : \A j \in S : ~ (<<j, i>> \in OpToRel(<, Nat))
    BY <1>2
  <2> DEFINE R == OpToRel(<, Nat)
  <2>3. ASSUME NEW j \in S
        PROVE  ~ (j < i)
    <3> HIDE DEF R
    <3> QED
      BY <2>1, <2>2 DEF R
  <2> QED
    BY <2>3
<1> QED
  BY <1>3

LEMMA ConfigFacts ==
  ASSUME NEW c \in Configs
  PROVE  /\ c.lossy \in {"aac", "mp3", "opus"}
         /\ c.encoding \in {"vbr", "cbr"}
         /\ c.custom \in Nat
         /\ Resolved(c) \in Presets \cup {"lossless"}
         /\ Cap(c) \in Nat \ {0}
<1>1. /\ c.lossy \in {"aac", "mp3", "opus"}
      /\ c.encoding \in {"vbr", "cbr"}
      /\ c.custom \in Nat
      /\ c.quality \in Presets \cup {"max"}
  BY QualityAssumption
<1>2. Resolved(c) \in Presets \cup {"lossless"}
  BY <1>1 DEF Resolved, Presets
<1>3. Nominal(c.lossy, Resolved(c)) \in Nat \ {0}
  BY DEF Nominal
<1> QED
  BY <1>1, <1>2, <1>3 DEF Cap

LEMMA FileFacts ==
  ASSUME NEW src \in Files
  PROVE  src.codec \in Codecs /\ src.bitrate \in Nat
  BY QualityAssumption

\* Encoding to lossy, at a bitrate or as the configuration says.
LEMMA ToLossyIsAction ==
  ASSUME NEW c \in Configs, NEW override \in Nat, override = 0 => c.custom = 0
  PROVE  Action(ToLossy(c, override), c) /\ LossyMade(ToLossy(c, override), c)
<1>1. Resolved(c) \in Presets \cup {"lossless"} /\ c.lossy \in {"aac", "mp3", "opus"}
  BY ConfigFacts
<1>2. Action(ToLossy(c, override), c)
  BY <1>1 DEF Action, ToLossy, Targets
<1> QED
  BY <1>1, <1>2 DEF LossyMade, ToLossy, Transcode, Lossy

LEMMA LossyActionIsAction ==
  ASSUME NEW src \in Files, NEW c \in Configs
  PROVE  LossyMade(LossyAction(src, c), c)
<1>1. src.bitrate \in Nat /\ c.custom \in Nat /\ Cap(c) \in Nat \ {0}
  BY ConfigFacts, FileFacts
<1>2. CASE src.bitrate = 0
  BY <1>1, <1>2, ToLossyIsAction DEF LossyAction, LossyMade
<1>3. CASE src.bitrate # 0
  <2> DEFINE answer == IF src.codec \in Plays
                       THEN Reduced(src.bitrate, Cap(c), c.axis, Tolerance)
                       ELSE Forced(src, c.lossy, Cap(c), c.axis)
  <2>1. Reduced(src.bitrate, Cap(c), c.axis, Tolerance) \in Nat
    BY <1>1, ReducedGoesDown, ReductionAssumption
  <2>2. Forced(src, c.lossy, Cap(c), c.axis) \in Nat
    BY <1>1, <1>3, ForcedIsCapped
  <2>3. answer \in Nat
    BY <2>1, <2>2
  <2>4. LossyAction(src, c) = IF answer = AsItIs THEN CopyIt ELSE ToLossy(c, answer)
    BY <1>3 DEF LossyAction
  <2> HIDE DEF answer
  <2> QED
    BY <2>3, <2>4, ToLossyIsAction DEF AsItIs, LossyMade
<1> QED
  BY <1>2, <1>3

LEMMA ClassifyIsAction ==
  ASSUME NEW src \in Files, NEW c \in Configs
  PROVE  /\ Action(Classify(src, c), c)
         /\ src.codec \in Lossy => LossyMade(Classify(src, c), c)
<1>1. src.codec \in Codecs /\ c.custom \in Nat /\ c.lossy \in {"aac", "mp3", "opus"}
  BY ConfigFacts, FileFacts
<1>2. CASE src.codec \in Lossy
  <2>1. Classify(src, c) = LossyAction(src, c)
    BY <1>2 DEF Classify, Lossy, Lossless
  <2> QED
    BY <2>1, LossyActionIsAction DEF LossyMade, Action
<1>3. CASE src.codec \in Lossless
  <2>1. src.codec \notin Lossy
    BY <1>3 DEF Lossy, Lossless
  <2>2. Classify(src, c) \in {ToLossy(c, c.custom), CopyIt, ToLossless(src, c)}
    BY <1>3, <2>1 DEF Classify
  <2>3. Action(ToLossless(src, c), c)
    <3> DEFINE fits == {i \in DOMAIN Stack :
                          Stack[i] = "source" => src.codec \in {"flac", "alac"} \cap Plays}
               first == CHOOSE i \in fits : \A j \in fits : i <= j
    <3>1. CASE fits = {}
      BY <1>1, <3>1 DEF ToLossless, Action, Presets, Targets
    <3>2. CASE fits # {} /\ Stack[first] = "source"
      BY <3>2 DEF ToLossless, Action
    <3>3. CASE fits # {} /\ Stack[first] # "source"
      <4>1. ToLossless(src, c) = Transcode("lossless", Stack[first], 0)
        BY <3>3 DEF ToLossless
      <4>2. fits \in SUBSET Nat
        <5>1. Stack \in Seq({"source", "flac", "alac"})
          BY QualityAssumption
        <5> QED
          BY <5>1
      <4>3. first \in DOMAIN Stack
        <5> HIDE DEF fits
        <5>1. first \in fits
          BY <3>3, <4>2, FirstIndex
        <5> QED
          BY <5>1 DEF fits
      <4>4. Stack[first] \in {"flac", "alac"}
        <5> HIDE DEF first
        <5> QED
          BY <3>3, <4>3, QualityAssumption
      <4> QED
        BY <4>1, <4>4 DEF Action, Targets
    <3> QED
      BY <3>1, <3>2, <3>3
  <2>4. Action(ToLossy(c, c.custom), c)
    BY <1>1, ToLossyIsAction
  <2> QED
    BY <2>1, <2>2, <2>3, <2>4 DEF Action
<1> QED
  BY <1>1, <1>2, <1>3 DEF Codecs

-----------------------------------------------------------------------------
(* What a file and the tag that is written with it say. *)

\* A tag tells the bitrate, if it has one, and the codec of its file, unless a
\* lossless preset made ALAC of a lossy song; a lossless tag is on a lossless
\* file, that of a preset on a lossy one, which has the preset's bitrate if the
\* tag tells none, and a file that was copied is named after its codec.
Faithful(made, told) ==
  /\ made.bitrate # 0 => told.bitrate \in {0, made.bitrate}
  /\ told.codec = made.codec \/ (told.quality = "lossless" /\ made.codec = "alac")
  /\ told.quality = "lossless" => made.codec \in {"alac", "flac"}
  /\ told.quality = "copy" => made.type = Extension(made.codec)
  /\ told.quality \in Presets =>
       /\ made.codec \in Lossy
       /\ told.bitrate = 0 => made.bitrate = Nominal(made.codec, told.quality)

LEMMA MadeFaithful ==
  ASSUME NEW src \in Files, NEW c \in Configs, NEW a, Action(a, c),
         NEW before \in {NoTag} \cup Tags
  PROVE  /\ Made(src, a) \in Copies
         /\ TagOf(before, src, c, a) \in Tags
         /\ Faithful(Made(src, a), TagOf(before, src, c, a))
<1>1. /\ src.codec \in Codecs
      /\ src.bitrate \in Nat
      /\ c.custom \in Nat
      /\ c.encoding \in {"vbr", "cbr"}
      /\ c.lossy \in {"aac", "mp3", "opus"}
  BY ConfigFacts, FileFacts
<1>2. before.bitrate \in Nat /\ before.encoding \in {"none", "vbr", "cbr"}
  BY DEF NoTag, Tags
<1>3. CASE a = CopyIt
  <2>1. Made(src, a) =
          [codec |-> src.codec, bitrate |-> src.bitrate, type |-> Extension(src.codec)]
    BY <1>3 DEF Made, CopyIt
  <2>2. TagOf(before, src, c, a) = CopyTag(before, src)
    BY <1>3 DEF TagOf, CopyIt
  <2> QED
    BY <1>1, <1>2, <2>1, <2>2 DEF CopyTag, Faithful, Copies, Tags, Presets
<1>4. ASSUME NEW name \in Presets \cup {"lossless"}, NEW codec \in Targets,
             NEW override \in Nat,
             a = Transcode(name, codec, override),
             name # "lossless" => codec = c.lossy /\ (override = 0 => c.custom = 0)
      PROVE  /\ Made(src, a) \in Copies
             /\ TagOf(before, src, c, a) \in Tags
             /\ Faithful(Made(src, a), TagOf(before, src, c, a))
  <2>1. codec \in Codecs
    BY DEF Targets, Codecs, Lossy, Lossless
  <2>2. CASE name = "lossless"
    <3>1. Made(src, a) = [codec |-> IF codec = "flac" THEN "flac" ELSE "alac",
                          bitrate |-> 0, type |-> Extension(codec)]
      BY <1>4, <2>2 DEF Made, Transcode
    <3>2. TagOf(before, src, c, a) =
            [quality |-> "lossless", encoding |-> before.encoding, bitrate |-> 0,
             codec |-> codec]
      BY <1>4, <2>2 DEF TagOf, AudioTag, Transcode
    <3>3. Made(src, a).codec \in {"flac", "alac"}
      BY <3>1
    <3>4. Made(src, a) \in Copies
      BY <2>1, <3>1, <3>3 DEF Copies, Codecs, Lossless
    <3>5. TagOf(before, src, c, a) \in Tags
      BY <1>2, <2>1, <3>2 DEF Tags
    <3>6. codec = Made(src, a).codec \/ Made(src, a).codec = "alac"
      BY <3>1
    <3> QED
      BY <3>1, <3>2, <3>3, <3>4, <3>5, <3>6 DEF Faithful, Presets
  <2>3. CASE name # "lossless"
    <3>1. Nominal(codec, name) \in Nat /\ codec \in Lossy
      BY <1>1, <1>4, <2>3 DEF Nominal, Lossy
    <3>2. Made(src, a) =
            [codec |-> codec,
             bitrate |-> IF override # 0 THEN override ELSE Nominal(codec, name),
             type |-> Extension(codec)]
      BY <1>4, <2>3 DEF Made, Transcode
    <3>3. TagOf(before, src, c, a) =
            [quality |-> name, encoding |-> c.encoding,
             bitrate |-> IF override # 0 THEN override ELSE c.custom, codec |-> codec]
      BY <1>4, <2>3 DEF TagOf, AudioTag, Transcode
    <3> QED
      BY <1>1, <1>4, <2>1, <2>3, <3>1, <3>2, <3>3 DEF Faithful, Copies, Tags, Presets
  <2> QED
    BY <2>2, <2>3
<1> QED
  BY <1>3, <1>4 DEF Action

-----------------------------------------------------------------------------
(* What a sync decides. *)

LEMMA ReEncodeIsAction ==
  ASSUME file \in Files, config \in Configs,
         NEW bitrate \in Nat, bitrate = 0 => config.custom = 0
  PROVE  Action(ReEncode(bitrate), config)
  BY ToLossyIsAction, ClassifyIsAction DEF ReEncode, Renew

LEMMA BoundGoesDown ==
  ASSUME QualityTypeOK
  PROVE  /\ Bound \in Nat
         /\ Bound # AsItIs => Bound < tag.bitrate
<1>1. tag.bitrate \in Nat
  BY DEF QualityTypeOK, NoTag, Tags
<1>2. Cap(config) \in Nat \ {0}
  BY ConfigFacts DEF QualityTypeOK
<1>3. (IF tag.quality = "copy" THEN Tolerance ELSE 0) \in 0..99
  BY ReductionAssumption
<1> QED
  BY <1>1, <1>2, <1>3, ReducedGoesDown DEF Bound

LEMMA LossyPresetDecides ==
  ASSUME QualityTypeOK, NEW flag
  PROVE  LossyPreset(flag) = Leave \/ Action(LossyPreset(flag), config)
<1> DEFINE lift == Lesser(file.bitrate, Cap(config))
<1>1. Action(Renew, config)
  BY ClassifyIsAction DEF Renew, QualityTypeOK
<1>2. Bound # AsItIs => Action(ReEncode(Bound), config)
  BY BoundGoesDown, ReEncodeIsAction DEF QualityTypeOK, AsItIs
<1>3. file.bitrate > tag.bitrate => Action(ReEncode(lift), config)
  <2>1. file.bitrate \in Nat /\ Cap(config) \in Nat \ {0} /\ tag.bitrate \in Nat
    BY FileFacts, ConfigFacts DEF QualityTypeOK, NoTag, Tags
  <2>2. file.bitrate > tag.bitrate => lift \in Nat \ {0}
    BY <2>1 DEF Lesser
  <2> HIDE DEF lift
  <2> QED
    BY <2>2, ReEncodeIsAction DEF QualityTypeOK
<1> HIDE DEF lift
<1> QED
  BY <1>1, <1>2, <1>3 DEF LossyPreset, lift

LEMMA AdoptPassDecides ==
  ASSUME QualityTypeOK, NEW flag
  PROVE  \/ AdoptPass(flag) = Leave
         \/ Action(AdoptPass(flag), config)
         \/ AdoptPass(flag) = Retag(CopyTag(NoTag, file))
<1> DEFINE made == LossyAction(file, config)
<1>1. Action(Renew, config)
  BY ClassifyIsAction DEF Renew, QualityTypeOK
<1>2. Action(ReEncode(Cap(config)), config)
  BY ConfigFacts, ReEncodeIsAction DEF QualityTypeOK
<1>3. made # CopyIt => Action(ReEncode(made.override), config)
  <2> SUFFICES ASSUME made # CopyIt
               PROVE  Action(ReEncode(made.override), config)
    OBVIOUS
  <2>1. Action(made, config)
    BY LossyActionIsAction DEF LossyMade, QualityTypeOK
  <2>2. PICK name \in Presets \cup {"lossless"}, codec \in Targets, override \in Nat :
          /\ made = Transcode(name, codec, override)
          /\ name # "lossless" => (override = 0 => config.custom = 0)
    BY <2>1 DEF Action
  <2>3. made.override = override /\ made.name = name
    BY <2>2 DEF Transcode
  <2>4. CASE Resolved(config) = "lossless"
    BY <1>1, <2>4 DEF ReEncode
  <2>5. CASE Resolved(config) # "lossless"
    <3>1. name = Resolved(config)
      BY <2>2, <2>3 DEF LossyAction, ToLossy, Transcode, CopyIt
    <3> QED
      BY <2>2, <2>3, <2>5, <3>1, ReEncodeIsAction DEF QualityTypeOK
  <2> QED
    BY <2>4, <2>5
<1> HIDE DEF made
<1> QED
  BY <1>1, <1>2, <1>3 DEF AdoptPass, made

\* A sync leaves the copy, makes a new one, or writes a tag that is whole.
LEMMA DecisionDecides ==
  ASSUME QualityTypeOK, NEW flag
  PROVE  \/ Decision(flag) = Leave
         \/ Action(Decision(flag), config)
         \/ Decision(flag).kind = "retag" /\ Decision(flag).tag \in Tags
<1> DEFINE Fine(d) == \/ d = Leave
                      \/ Action(d, config)
                      \/ d.kind = "retag" /\ d.tag \in Tags
<1>1. Action(Renew, config)
  BY ClassifyIsAction DEF Renew, QualityTypeOK
<1>2. Fine(SourcePass(flag))
  BY <1>1 DEF SourcePass
<1>3. Fine(PresetPass(flag))
  BY <1>1, LossyPresetDecides DEF PresetPass, LosslessPreset
<1>4. Fine(CodecPass)
  BY <1>1 DEF CodecPass
<1>5. Fine(AdoptPass(flag))
  <2>1. CopyTag(NoTag, file) \in Tags
    BY FileFacts DEF CopyTag, NoTag, Tags, QualityTypeOK
  <2> QED
    BY <2>1, AdoptPassDecides DEF Retag
<1>6. Fine(TagPass(flag))
  <2>1. /\ config.lossy \in Codecs
        /\ config.encoding \in {"vbr", "cbr"}
        /\ config.custom \in Nat
        /\ Resolved(config) \in Presets \cup {"lossless"}
    BY ConfigFacts DEF QualityTypeOK, Codecs, Lossy
  <2>2. tag.encoding \in {"none", "vbr", "cbr"}
    BY DEF QualityTypeOK, NoTag, Tags
  <2>3. AudioTag(tag, config, Resolved(config), config.lossy, config.custom) \in Tags
    BY <2>1, <2>2 DEF AudioTag, Tags
  <2> QED
    BY <2>3 DEF TagPass, Retag
<1> QED
  BY <1>2, <1>3, <1>4, <1>5, <1>6 DEF Decision, Before

-----------------------------------------------------------------------------
(* The inductive invariant. RecordedIsReal alone does not tell a file whose   *)
(* tag calls it lossless, or a copy whose name says FLAC, from a lossy one.   *)

IInv == QualityTypeOK /\ (written => Faithful(copy, tag))

LEMMA Initially == Init => IInv
  BY DEF Init, IInv, QualityTypeOK, Flags, Tagged

LEMMA Stepwise == IInv /\ [Next]_vars => IInv'
<1> SUFFICES ASSUME IInv, [Next]_vars
             PROVE  IInv'
  OBVIOUS
<1> USE DEF IInv
<1>1. tag \in {NoTag} \cup Tags /\ NoTag \in {NoTag} \cup Tags
  BY DEF QualityTypeOK
<1>2. \A t \in Tags : t # NoTag
  BY DEF Tags, NoTag, Presets
<1>3. \A co \in Copies : co # Nothing
  BY DEF Copies, Nothing, Codecs, Lossy, Lossless
<1>4. CASE ChangeFile
  BY <1>4 DEF ChangeFile, QualityTypeOK, Tagged
<1>5. CASE ChangeConfig
  BY <1>5 DEF ChangeConfig, QualityTypeOK, Tagged
<1>6. ASSUME NEW flag \in Flags, Add(flag)
      PROVE  IInv'
  <2>1. Action(Renew, config)
    BY ClassifyIsAction DEF Renew, QualityTypeOK
  <2>2. copy' \in Copies /\ tag' \in Tags /\ Faithful(copy', tag')
    BY <1>1, <1>6, <2>1, MadeFaithful DEF Add, QualityTypeOK
  <2> QED
    BY <1>2, <1>3, <1>6, <2>2 DEF Add, QualityTypeOK, Tagged
<1>7. ASSUME NEW flag \in Flags, KeepCopy(flag)
      PROVE  IInv'
  BY <1>7 DEF KeepCopy, QualityTypeOK, Tagged
<1>8. ASSUME NEW flag \in Flags, WriteTag(flag)
      PROVE  IInv'
  <2>1. tag' \in Tags
    <3>1. ~Action(Decision(flag), config)
      BY <1>8 DEF WriteTag, Action, CopyIt, Transcode
    <3>2. Decision(flag) # Leave
      BY <1>8 DEF WriteTag, Leave
    <3> QED
      BY <1>8, <3>1, <3>2, DecisionDecides DEF WriteTag
  <2> QED
    BY <1>8, <2>1 DEF WriteTag, QualityTypeOK, Tagged
<1>9. ASSUME NEW flag \in Flags, Replacing(flag)
      PROVE  Action(Decision(flag), config) /\ copy' \in Copies
  <2>1. Action(Decision(flag), config)
    BY <1>9, DecisionDecides DEF Replacing, Leave
  <2> QED
    BY <1>1, <1>9, <2>1, MadeFaithful DEF Replacing, QualityTypeOK
<1>10. ASSUME NEW flag \in Flags, Replace(flag)
       PROVE  IInv'
  <2>1. copy' \in Copies /\ tag' \in Tags /\ Faithful(copy', tag')
    BY <1>1, <1>9, <1>10, MadeFaithful DEF Replace, Replacing, QualityTypeOK
  <2> QED
    BY <1>2, <1>3, <1>10, <2>1 DEF Replace, Replacing, QualityTypeOK, Tagged
<1>11. ASSUME NEW flag \in Flags, ReplaceKilled(flag)
       PROVE  IInv'
  BY <1>3, <1>9, <1>11 DEF ReplaceKilled, Replacing, QualityTypeOK, Tagged
<1>12. CASE UNCHANGED vars
  BY <1>12 DEF vars, QualityTypeOK, Tagged
<1> QED
  BY <1>4, <1>5, <1>6, <1>7, <1>8, <1>10, <1>11, <1>12 DEF Next, Sync

LEMMA Invariant == Spec => []IInv
  BY Initially, Stepwise, PTL DEF Spec

\* Type correctness: no sequence of files, settings and syncs leads to a copy
\* or a tag that is not one.
THEOREM QualityTyped == Spec => []QualityTypeOK
<1>1. IInv => QualityTypeOK
  BY DEF IInv
<1> QED
  BY <1>1, Invariant, PTL

\* A tag written with its file tells the truth about it, so that a later sync,
\* which believes the tag, decides about the file that is there.
THEOREM TagsTellTheTruth == Spec => []RecordedIsReal
<1>1. IInv => RecordedIsReal
  BY DEF IInv, RecordedIsReal, Faithful
<1> QED
  BY <1>1, Invariant, PTL

-----------------------------------------------------------------------------

\* What is encoded of a lossy song has the preset that is configured.
LEMMA LossyRenewal ==
  ASSUME file \in Files, config \in Configs, file.codec \in Lossy, Renew # CopyIt
  PROVE  \E codec \in Lossy, override \in Nat :
           Renew = Transcode(Resolved(config), codec, override)
<1>1. Renew = LossyAction(file, config)
  BY DEF Renew, Classify, Lossy, Lossless
<1>2. Action(Renew, config) /\ Renew.codec \in Lossy
  BY <1>1, LossyActionIsAction DEF LossyMade
<1>3. Renew.name = Resolved(config)
  BY <1>1 DEF LossyAction, ToLossy, Transcode, CopyIt
<1> QED
  BY <1>2, <1>3 DEF Action, Transcode

\* The replacement of a lossy copy of a lossy song, in the terms of
\* KeepsBetterCopy.
LEMMA BetterCopyStays ==
  ASSUME IInv, Replacing("plain"), written, ~SourceLossless,
         copy.codec \in Lossy, copy.bitrate # 0, copy'.codec = copy.codec
  PROVE  /\ copy'.bitrate < copy.bitrate \/ copy' = Made(file, CopyIt)
         /\ ~SourceDown
<1> DEFINE d == Decision("plain")
<1>1. /\ file \in Files
      /\ config \in Configs
      /\ file.codec \in Lossy
  BY FileFacts DEF IInv, QualityTypeOK, SourceLossless, Codecs
<1>2. /\ tag \in Tags
      /\ tag.codec = copy.codec
      /\ tag.bitrate \in {0, copy.bitrate}
      /\ tag.quality # "lossless"
      /\ tag.quality = "copy" => copy.type = Extension(copy.codec)
  BY DEF IInv, QualityTypeOK, Tagged, Faithful, Lossy
<1>3. ~CopyLossless
  <2>1. tag.quality # "none"
    BY <1>2 DEF Tags, Presets
  <2>2. Extension(copy.codec) \notin {"flac", "wav"}
    BY DEF Extension, Lossy
  <2> QED
    BY <1>2, <2>1, <2>2 DEF CopyLossless, TypeLossless
<1>4. copy' = Made(file, d) /\ d # Leave
  BY DEF Replacing, Leave
<1>5. d = Before(LossyPreset("plain"), CodecPass)
  <2>1. SourcePass("plain") = Leave /\ TagPass("plain") = Leave
    BY DEF SourcePass, TagPass
  <2>2. AdoptPass("plain") = Leave
    BY DEF AdoptPass
  <2>3. PresetPass("plain") = LossyPreset("plain")
    BY DEF PresetPass
  <2> QED
    BY <2>1, <2>2, <2>3 DEF Decision, Before
<1> HIDE DEF d
\* Encoding to a lossless preset makes ALAC, which the copy is not.
<1>6. ASSUME d = Renew, Renew # CopyIt
      PROVE  Resolved(config) # "lossless" /\ Renew.codec = copy.codec
  <2>1. PICK codec \in Lossy, override \in Nat :
          Renew = Transcode(Resolved(config), codec, override)
    BY <1>1, <1>6, LossyRenewal
  <2>2. copy'.codec = IF Resolved(config) = "lossless" THEN "alac" ELSE codec
    BY <1>4, <1>6, <2>1 DEF Made, Transcode, Lossy
  <2> QED
    BY <2>1, <2>2 DEF Transcode, Lossy
<1>7. CASE LossyPreset("plain") = Leave
  <2>1. d = CodecPass /\ CodecPass # Leave
    BY <1>4, <1>5, <1>7 DEF Before
  <2>2. d = Renew /\ Renew # CopyIt /\ tag.codec # Renew.codec
    BY <2>1 DEF CodecPass
  <2> QED
    BY <1>2, <1>6, <2>2
<1>8. CASE LossyPreset("plain") # Leave
  <2>1. d = ReEncode(Bound) /\ Bound # AsItIs /\ tag.bitrate # 0 /\ ~SourceDown
    BY <1>3, <1>5, <1>8 DEF Before, LossyPreset
  <2>2. Bound \in Nat /\ Bound < tag.bitrate
    BY <2>1, BoundGoesDown DEF IInv
  <2>3. CASE Resolved(config) = "lossless"
    <3>1. d = Renew
      BY <2>1, <2>3 DEF ReEncode
    <3>2. Renew = CopyIt
      BY <1>6, <2>3, <3>1
    <3> QED
      BY <1>4, <2>1, <3>1, <3>2
  <2>4. CASE Resolved(config) # "lossless"
    <3>1. d = Transcode(Resolved(config), config.lossy, Bound)
      BY <2>1, <2>4 DEF ReEncode, ToLossy
    <3>2. copy'.bitrate = Bound
      BY <1>4, <2>1, <2>4, <3>1 DEF Made, Transcode, AsItIs
    <3> QED
      BY <1>2, <2>1, <2>2, <3>2
  <2> QED
    BY <2>3, <2>4
<1> QED
  BY <1>7, <1>8

\* A plain sync never re-encodes a lossy song at or above the bitrate that the
\* device has, nor follows its source down, for every device and tolerance.
THEOREM BetterCopyKept == Spec => KeepsBetterCopy
<1>1. IInv =>
        [ /\ \E flag \in Flags : flag = "plain" /\ Replacing(flag)
          /\ written
          /\ ~SourceLossless
          /\ copy.codec \in Lossy
          /\ copy.bitrate # 0
          /\ copy'.codec = copy.codec
          => /\ copy'.bitrate < copy.bitrate \/ copy' = Made(file, CopyIt)
             /\ ~SourceDown ]_vars
  BY BetterCopyStays
<1> QED
  BY <1>1, Invariant, PTL DEF KeepsBetterCopy

-----------------------------------------------------------------------------
(* The ceiling. *)

\* What CeilingHolds asks of a copy and its tag.
Within(made, told) ==
  /\ made.codec \in Lossy \/ (made.codec = "alac" /\ told.quality = "copy")
  /\ 100 * made.bitrate <=
       Cap(config) * (100 + IF told.quality = "copy" THEN Tolerance ELSE 0)

\* What is encoded at a bitrate under the cap, or at the preset's own, is within.
LEMMA EncodedWithin ==
  ASSUME NEW src, NEW before, NEW bitrate \in Nat,
         config \in Configs, Resolved(config) # "lossless",
         bitrate <= Cap(config), bitrate = 0 => config.custom = 0
  PROVE  Within(Made(src, ToLossy(config, bitrate)),
                TagOf(before, src, config, ToLossy(config, bitrate)))
<1> DEFINE made == Made(src, ToLossy(config, bitrate))
           told == TagOf(before, src, config, ToLossy(config, bitrate))
<1>1. Resolved(config) \in Presets /\ config.lossy \in Lossy /\ Cap(config) \in Nat
  BY ConfigFacts DEF Lossy
<1>2. /\ made.codec = config.lossy
      /\ made.bitrate = IF bitrate # 0 THEN bitrate ELSE Nominal(config.lossy, Resolved(config))
  BY <1>1 DEF Made, ToLossy, Transcode
<1>3. told.quality = Resolved(config)
  BY <1>1 DEF TagOf, AudioTag, ToLossy, Transcode
<1>4. bitrate = 0 => Nominal(config.lossy, Resolved(config)) = Cap(config)
  BY DEF Cap
<1>5. made.bitrate \in Nat /\ made.bitrate <= Cap(config)
  BY <1>1, <1>2, <1>4
<1>6. told.quality # "copy"
  BY <1>1, <1>3 DEF Presets
<1> HIDE DEF made, told
<1>7. 100 * made.bitrate <= Cap(config) * (100 + 0)
  BY <1>1, <1>5
<1> QED
  BY <1>1, <1>2, <1>6, <1>7 DEF Within, made, told

\* A bitrate that is left as it is, is within the tolerance.
LEMMA AsItIsWithin ==
  ASSUME NEW bitrate \in Nat, NEW cap \in Nat \ {0}, NEW tolerance \in 0..99,
         Reduced(bitrate, cap, "convert", tolerance) = AsItIs
  PROVE  100 * bitrate <= cap * (100 + tolerance)
<1> DEFINE eff == EffectiveCap(cap)
<1>1. eff \in Nat \ {0} /\ eff <= cap
  BY EffectiveCapBounded
<1>2. ~AboveBand(bitrate, cap, tolerance)
  BY <1>1 DEF Reduced, AsItIs
<1> HIDE DEF eff
<1>3. 100 * bitrate <= eff * (100 + tolerance)
  BY <1>1, <1>2 DEF AboveBand, eff
<1>4. PICK more \in Nat : cap = eff + more
  BY <1>1
<1>5. cap * (100 + tolerance) = eff * (100 + tolerance) + more * (100 + tolerance)
  BY <1>1, <1>4
<1>6. more * (100 + tolerance) >= 0
  BY <1>4
<1> QED
  BY <1>1, <1>3, <1>5, <1>6

\* What is made of a file anew is within.
LEMMA RenewedWithin ==
  ASSUME file \in Files, config \in Configs, NEW before,
         config.axis = "convert", Resolved(config) # "lossless"
  PROVE  Within(Made(file, Renew), TagOf(before, file, config, Renew))
<1>1. /\ file.codec \in Codecs /\ file.bitrate \in Nat
      /\ config.custom \in Nat /\ Cap(config) \in Nat \ {0}
      /\ Tolerance \in 0..99
  BY FileFacts, ConfigFacts, ReductionAssumption
<1>2. Within(Made(file, ToLossy(config, config.custom)),
             TagOf(before, file, config, ToLossy(config, config.custom)))
  <2>1. config.custom <= Cap(config)
    BY <1>1 DEF Cap
  <2> QED
    BY <1>1, <2>1, EncodedWithin
<1>3. CASE file.codec \in Lossless
  <2>1. Renew = ToLossy(config, config.custom)
    BY <1>3 DEF Renew, Classify, Lossless, Lossy
  <2> QED
    BY <1>2, <2>1
<1>4. CASE file.codec \in Lossy
  <2>1. Renew = LossyAction(file, config)
    BY <1>4 DEF Renew, Classify, Lossless, Lossy
  <2>2. ASSUME 100 * file.bitrate <= Cap(config) * (100 + Tolerance)
        PROVE  Within(Made(file, CopyIt), TagOf(before, file, config, CopyIt))
    <3>1. Made(file, CopyIt).codec = file.codec /\ Made(file, CopyIt).bitrate = file.bitrate
      BY DEF Made, CopyIt
    <3>2. TagOf(before, file, config, CopyIt).quality = "copy"
      BY DEF TagOf, CopyIt, CopyTag
    <3> QED
      BY <1>4, <2>2, <3>1, <3>2 DEF Within
  <2>3. CASE file.bitrate = 0
    <3>1. LossyAction(file, config) \in {CopyIt, ToLossy(config, config.custom)}
      BY <2>3 DEF LossyAction
    <3>2. 100 * file.bitrate <= Cap(config) * (100 + Tolerance)
      <4>1. Cap(config) * (100 + Tolerance) \in Nat
        BY <1>1
      <4> QED
        BY <2>3, <4>1
    <3> QED
      BY <1>2, <2>1, <2>2, <3>1, <3>2
  <2>4. CASE file.bitrate # 0
    <3> DEFINE down == Reduced(file.bitrate, Cap(config), config.axis, Tolerance)
               forced == Forced(file, config.lossy, Cap(config), config.axis)
    <3>1. down \in Nat /\ (down # AsItIs => down <= Cap(config))
      BY <1>1, ReducedGoesDown
    <3>2. forced \in Nat \ {0} /\ forced <= Cap(config)
      BY <1>1, <2>4, ForcedIsCapped
    <3>3. down = AsItIs => 100 * file.bitrate <= Cap(config) * (100 + Tolerance)
      BY <1>1, AsItIsWithin
    <3>4. LossyAction(file, config) =
            IF (IF file.codec \in Plays THEN down ELSE forced) = AsItIs
            THEN CopyIt
            ELSE ToLossy(config, IF file.codec \in Plays THEN down ELSE forced)
      BY <2>4 DEF LossyAction
    <3> HIDE DEF down, forced
    <3>5. CASE file.codec \in Plays /\ down = AsItIs
      BY <2>1, <2>2, <3>3, <3>4, <3>5
    <3>6. CASE file.codec \in Plays /\ down # AsItIs
      BY <2>1, <3>1, <3>4, <3>6, EncodedWithin DEF AsItIs
    <3>7. CASE file.codec \notin Plays
      BY <2>1, <3>2, <3>4, <3>7, EncodedWithin DEF AsItIs
    <3> QED
      BY <3>5, <3>6, <3>7
  <2> QED
    BY <2>3, <2>4
<1> QED
  BY <1>1, <1>3, <1>4 DEF Codecs

\* What a plain sync replaces a copy by is made anew or brought down.
LEMMA PlainDecides ==
  ASSUME QualityTypeOK, Decision("plain").kind \in {"copy", "transcode"}
  PROVE  \/ Decision("plain") = Renew
         \/ /\ Bound # AsItIs
            /\ Decision("plain") = ToLossy(config, Bound)
<1> DEFINE Fine(d) == \/ d = Leave
                      \/ d = Renew
                      \/ Bound # AsItIs /\ d = ToLossy(config, Bound)
<1>1. Fine(SourcePass("plain")) /\ Fine(CodecPass)
  BY DEF SourcePass, CodecPass
<1>2. AdoptPass("plain") = Leave /\ TagPass("plain") = Leave
  BY DEF AdoptPass, TagPass
<1>3. Fine(PresetPass("plain"))
  <2>1. Fine(LosslessPreset)
    BY DEF LosslessPreset
  <2>2. Fine(LossyPreset("plain"))
    BY DEF LossyPreset, ReEncode
  <2> QED
    BY <2>1, <2>2 DEF PresetPass
<1>4. Decision("plain") # Leave
  BY DEF Leave
<1> QED
  BY <1>1, <1>2, <1>3, <1>4 DEF Decision, Before

\* What a plain sync leaves is within, if the tag tells it.
LEMMA LeftWithin ==
  ASSUME IInv, written, Decision("plain") = Leave,
         config.axis = "convert", Resolved(config) # "lossless",
         tag.bitrate # 0 \/ SourceLossless, ~SourceDown
  PROVE  Within(copy, tag)
<1>1. /\ file \in Files /\ config \in Configs /\ Faithful(copy, tag) /\ tag \in Tags
      /\ copy \in Copies
  <2>1. Tagged /\ copy # Nothing
    BY DEF IInv, QualityTypeOK
  <2> QED
    BY <2>1 DEF IInv, QualityTypeOK, Tagged
<1>2. /\ Cap(config) \in Nat \ {0} /\ config.custom \in Nat
      /\ Tolerance \in 0..99 /\ tag.bitrate \in Nat /\ copy.bitrate \in Nat
      /\ tag.quality \in Presets \cup {"copy", "lossless"}
  BY <1>1, ConfigFacts, ReductionAssumption DEF Tags, Copies
<1>3. PresetPass("plain") = Leave /\ CodecPass = Leave
  BY DEF Decision, Before
<1>4. Renew # Leave /\ \A bitrate : ToLossy(config, bitrate) # Leave
  <2>1. Action(Renew, config)
    BY <1>1, ClassifyIsAction DEF Renew
  <2> QED
    BY <2>1 DEF Action, Leave, CopyIt, Transcode, ToLossy
<1>5. CASE SourceLossless
  <2>1. Renew = ToLossy(config, config.custom)
    BY <1>5 DEF Renew, Classify, SourceLossless, Lossless, Lossy
  <2>2. Renew # CopyIt /\ Renew.codec = config.lossy
    BY <2>1 DEF ToLossy, Transcode, CopyIt
  <2>3. Matches(tag, TagOf(NoTag, file, config, Renew))
    <3>1. Tagged
      BY DEF IInv, QualityTypeOK
    <3> QED
      BY <1>3, <1>4, <1>5, <2>2, <3>1 DEF PresetPass, LosslessPreset
  <2>4. /\ tag.quality = Resolved(config)
        /\ tag.bitrate = config.custom
    BY <2>1, <2>3 DEF Matches, TagOf, AudioTag, ToLossy, Transcode
  <2>5. tag.codec = config.lossy
    <3>1. Tagged
      BY DEF IInv, QualityTypeOK
    <3> QED
      BY <1>3, <1>4, <2>2, <3>1 DEF CodecPass
  <2>6. tag.quality \in Presets /\ tag.quality # "copy" /\ tag.quality # "lossless"
    BY <1>2, <2>4, ConfigFacts, <1>1 DEF Presets
  <2>7. copy.codec \in Lossy /\ copy.codec = config.lossy
    BY <1>1, <2>5, <2>6 DEF Faithful
  <2>8. copy.bitrate <= Cap(config)
    <3>1. CASE config.custom = 0
      <4>1. copy.bitrate = Nominal(config.lossy, Resolved(config))
        BY <1>1, <2>4, <2>6, <2>7, <3>1 DEF Faithful
      <4> QED
        BY <1>2, <3>1, <4>1 DEF Cap
    <3>2. CASE config.custom # 0
      <4>1. copy.bitrate \in {0, config.custom} /\ Cap(config) = config.custom
        BY <1>1, <2>4, <3>2 DEF Faithful, Cap
      <4> QED
        BY <1>2, <4>1
    <3> QED
      BY <3>1, <3>2
  <2>9. 100 * copy.bitrate <= Cap(config) * (100 + 0)
    BY <1>2, <2>8
  <2> QED
    BY <2>6, <2>7, <2>9 DEF Within
<1>6. CASE ~SourceLossless
  <2>1. LossyPreset("plain") = Leave
    BY <1>3, <1>6 DEF PresetPass
  <2>2. ~CopyLossless /\ Bound = AsItIs
    BY <1>4, <1>6, <2>1 DEF LossyPreset, ReEncode
  <2>3. copy.codec \in Lossy \/ (copy.codec = "alac" /\ tag.quality = "copy")
    <3>1. CASE tag.quality \in Presets
      BY <1>1, <3>1 DEF Faithful
    <3>2. CASE tag.quality = "copy"
      <4>1. copy.type \notin {"flac", "wav"} /\ copy.type = Extension(copy.codec)
        BY <1>1, <2>2, <3>2 DEF CopyLossless, TypeLossless, Faithful
      <4>2. copy.codec \in Codecs
        BY <1>1 DEF Copies
      <4> QED
        BY <3>2, <4>1, <4>2 DEF Extension, Codecs, Lossless, Lossy
    <3> QED
      BY <1>2, <2>2, <3>1, <3>2 DEF CopyLossless
  <2>4. 100 * tag.bitrate <=
          Cap(config) * (100 + IF tag.quality = "copy" THEN Tolerance ELSE 0)
    <3>1. (IF tag.quality = "copy" THEN Tolerance ELSE 0) \in 0..99
      BY <1>2
    <3> QED
      BY <1>2, <2>2, <3>1, AsItIsWithin DEF Bound
  <2>5. copy.bitrate <= tag.bitrate
    BY <1>1, <1>2, <1>6 DEF Faithful
  <2>6. 100 * copy.bitrate <= 100 * tag.bitrate
    BY <1>2, <2>5
  <2> DEFINE band == Cap(config) * (100 + IF tag.quality = "copy" THEN Tolerance ELSE 0)
  <2>7. band \in Nat
    BY <1>2
  <2> HIDE DEF band
  <2>8. 100 * copy.bitrate <= band
    BY <1>2, <2>4, <2>6, <2>7 DEF band
  <2> QED
    BY <2>3, <2>8 DEF Within, band
<1> QED
  BY <1>5, <1>6

LEMMA CeilingStep ==
  ASSUME IInv, CeilingHolds, [Next]_vars PROVE CeilingHolds'
<1>1. CASE UNCHANGED vars
  BY <1>1 DEF vars, CeilingHolds, SourceLossless, SourceDown
<1> SUFFICES ASSUME last' = "plain", written', config'.axis = "convert",
                    Resolved(config') # "lossless", tag'.bitrate # 0 \/ SourceLossless',
                    ~SourceDown', ~UNCHANGED vars
             PROVE  /\ copy'.codec \in Lossy \/ (copy'.codec = "alac" /\ tag'.quality = "copy")
                    /\ 100 * copy'.bitrate <=
                         Cap(config') * (100 + IF tag'.quality = "copy" THEN Tolerance ELSE 0)
  BY <1>1 DEF CeilingHolds
<1>2. file' = file /\ config' = config /\ Sync("plain")
  BY DEF Next, ChangeFile, ChangeConfig, Sync, Add, KeepCopy, WriteTag, Replace, Replacing,
         ReplaceKilled
<1>3. file \in Files /\ config \in Configs /\ QualityTypeOK
  BY DEF IInv, QualityTypeOK
<1>4. CASE Add("plain")
  <2>1. Within(copy', tag')
    BY <1>2, <1>3, <1>4, RenewedWithin DEF Add
  <2> QED
    BY <1>2, <2>1 DEF Within
<1>5. CASE KeepCopy("plain")
  <2>1. copy' = copy /\ tag' = tag /\ written /\ Decision("plain") = Leave
    BY <1>5 DEF KeepCopy
  <2>2. (tag.bitrate # 0 \/ SourceLossless) /\ ~SourceDown
    BY <1>2, <2>1 DEF SourceLossless, SourceDown
  <2>3. Within(copy, tag)
    BY <1>2, <2>1, <2>2, LeftWithin
  <2> QED
    BY <1>2, <2>1, <2>3 DEF Within
<1>6. CASE WriteTag("plain")
  BY <1>6 DEF WriteTag
<1>7. CASE Replace("plain")
  <2> DEFINE d == Decision("plain")
  <2>1. copy' = Made(file, d) /\ tag' = TagOf(tag, file, config, d)
    BY <1>7 DEF Replace, Replacing
  <2>2. d = Renew \/ (Bound # AsItIs /\ d = ToLossy(config, Bound))
    BY <1>3, <1>7, PlainDecides DEF Replace, Replacing
  <2> HIDE DEF d
  <2>3. CASE d = Renew
    <3>1. Within(copy', tag')
      BY <1>2, <1>3, <2>1, <2>3, RenewedWithin
    <3> QED
      BY <1>2, <3>1 DEF Within
  <2>4. CASE Bound # AsItIs /\ d = ToLossy(config, Bound)
    <3>1. Bound \in Nat /\ Bound <= Cap(config)
      <4>1. tag.bitrate \in Nat /\ Cap(config) \in Nat \ {0}
        BY <1>3, ConfigFacts DEF QualityTypeOK, NoTag, Tags
      <4>2. (IF tag.quality = "copy" THEN Tolerance ELSE 0) \in 0..99
        BY ReductionAssumption
      <4> QED
        BY <2>4, <4>1, <4>2, ReducedGoesDown DEF Bound
    <3>2. Within(copy', tag')
      BY <1>2, <1>3, <2>1, <2>4, <3>1, EncodedWithin DEF AsItIs
    <3> QED
      BY <1>2, <3>2 DEF Within
  <2> QED
    BY <2>2, <2>3, <2>4
<1> QED
  BY <1>2, <1>4, <1>5, <1>6, <1>7 DEF Sync

\* After every plain sync a copy that is to be reduced is within the cap, or
\* the tolerance above it if it was copied, for every file, setting, device and
\* history of syncs.
THEOREM CeilingEnforced == Spec => []CeilingHolds
<1>1. Init => CeilingHolds
  BY DEF Init, CeilingHolds
<1>2. IInv /\ CeilingHolds /\ [Next]_vars => CeilingHolds'
  BY CeilingStep
<1> QED
  BY <1>1, <1>2, Invariant, PTL DEF Spec

-----------------------------------------------------------------------------
(* Nothing twice. *)

\* Without a flag the last two passes do nothing, and nothing is lifted.
LEMMA PlainPasses ==
  /\ SourcePass("plain") = Leave
  /\ PresetPass("plain") = Leave
  /\ CodecPass = Leave
  => Decision("plain") = Leave
  BY DEF Decision, Before, AdoptPass, TagPass

\* When a plain sync leaves the copy of a lossy song.
LEMMA LossySettles ==
  /\ ~SourceLossless
  /\ Resolved(config) = "lossless" \/ ~CopyLossless
  /\ tag.bitrate = 0 \/ Bound = AsItIs
  /\ Renew = CopyIt \/ tag.codec = Renew.codec
  => Decision("plain") = Leave
<1> SUFFICES ASSUME ~SourceLossless,
                    Resolved(config) = "lossless" \/ ~CopyLossless,
                    tag.bitrate = 0 \/ Bound = AsItIs,
                    Renew = CopyIt \/ tag.codec = Renew.codec
             PROVE  Decision("plain") = Leave
  OBVIOUS
<1>1. SourcePass("plain") = Leave
  BY DEF SourcePass
<1>2. PresetPass("plain") = Leave
  BY DEF PresetPass, LossyPreset
<1>3. CodecPass = Leave
  BY DEF CodecPass
<1> QED
  BY <1>1, <1>2, <1>3, PlainPasses

\* When one leaves that of a lossless song.
LEMMA LosslessSettles ==
  /\ SourceLossless
  /\ ~MadeAnewEveryTime
  /\ LosslessPreset = Leave
  /\ Renew = CopyIt \/ tag.codec = Renew.codec
  => Decision("plain") = Leave
<1> SUFFICES ASSUME SourceLossless, ~MadeAnewEveryTime, LosslessPreset = Leave,
                    Renew = CopyIt \/ tag.codec = Renew.codec
             PROVE  Decision("plain") = Leave
  OBVIOUS
<1>1. SourcePass("plain") = Leave
  BY DEF SourcePass, MadeAnewEveryTime
<1>2. PresetPass("plain") = Leave
  BY DEF PresetPass
<1>3. CodecPass = Leave
  BY DEF CodecPass
<1> QED
  BY <1>1, <1>2, <1>3, PlainPasses

\* Bitrates within both limits, and those that are left as they are.
LEMMA UnderCapStays ==
  ASSUME NEW bitrate \in Nat, NEW cap \in Nat \ {0}, NEW axis,
         bitrate <= EffectiveCap(cap)
  PROVE  Reduced(bitrate, cap, axis, 0) = AsItIs
<1> DEFINE eff == EffectiveCap(cap)
<1>1. eff \in Nat \ {0} /\ (DeviceMax # 0 => eff <= DeviceMax)
  BY EffectiveCapBounded
<1>2. ~OverDeviceMax(bitrate)
  BY <1>1, ReductionAssumption DEF OverDeviceMax
<1> HIDE DEF eff
<1>3. ~(100 * bitrate > eff * (100 + 0))
  BY <1>1 DEF eff
<1>4. ~AboveBand(bitrate, cap, 0)
  BY <1>3 DEF AboveBand, eff
<1> QED
  BY <1>2, <1>4 DEF Reduced

\* The ways in which a sync leaves a copy behind that it has made or kept.
\* First: a lossy song was encoded at a bitrate under both limits.
JustEncoded ==
  /\ file \in Files /\ config \in Configs
  /\ ~SourceLossless
  /\ Resolved(config) # "lossless"
  /\ \E before \in {NoTag} \cup Tags, bitrate \in Nat :
       /\ bitrate <= EffectiveCap(Cap(config))
       /\ bitrate = 0 => config.custom = 0
       /\ copy = Made(file, ToLossy(config, bitrate))
       /\ tag = TagOf(before, file, config, ToLossy(config, bitrate))

\* Second: a file was made anew.
JustRenewed ==
  /\ file \in Files /\ config \in Configs
  /\ ~MadeAnewEveryTime
  /\ \E before \in {NoTag} \cup Tags :
       /\ copy = Made(file, Renew)
       /\ tag = TagOf(before, file, config, Renew)

\* Third: an untagged copy was adopted as a copy of its source.
JustAdopted ==
  /\ file \in Files /\ config \in Configs
  /\ ~SourceLossless
  /\ file.bitrate # 0
  /\ LossyAction(file, config) = CopyIt
  /\ Resolved(config) = "lossless" \/ ~TypeLossless
  /\ tag = CopyTag(NoTag, file)

\* A lossy song is copied, or encoded to the codec that is configured.
LEMMA LossyRenew ==
  ASSUME file \in Files, config \in Configs, ~SourceLossless
  PROVE  /\ file.codec \in Lossy
         /\ Renew = LossyAction(file, config)
         /\ Renew = CopyIt \/ Renew.codec = config.lossy
         /\ Renew = CopyIt =>
              file.bitrate = 0
                \/ Reduced(file.bitrate, Cap(config), config.axis, Tolerance) = AsItIs
         /\ Renew # CopyIt /\ file.bitrate # 0 =>
              \E bitrate \in Nat \ {0} : /\ bitrate <= EffectiveCap(Cap(config))
                                         /\ Renew = ToLossy(config, bitrate)
         /\ Renew # CopyIt /\ file.bitrate = 0 => Renew = ToLossy(config, config.custom)
<1>1. /\ file.codec \in Lossy /\ file.bitrate \in Nat
      /\ Cap(config) \in Nat \ {0} /\ Tolerance \in 0..99
  BY FileFacts, ConfigFacts, ReductionAssumption DEF SourceLossless, Codecs
<1>2. Renew = LossyAction(file, config)
  BY <1>1 DEF Renew, Classify, Lossy, Lossless
<1>3. CASE file.bitrate = 0
  <2>1. LossyAction(file, config) \in {CopyIt, ToLossy(config, config.custom)}
    BY <1>3 DEF LossyAction
  <2> QED
    BY <1>1, <1>2, <1>3, <2>1 DEF ToLossy, Transcode
<1>4. CASE file.bitrate # 0
  <2> DEFINE down == Reduced(file.bitrate, Cap(config), config.axis, Tolerance)
             forced == Forced(file, config.lossy, Cap(config), config.axis)
             answer == IF file.codec \in Plays THEN down ELSE forced
  <2>1. down # AsItIs => down = EffectiveCap(Cap(config))
    BY DEF Reduced
  <2>2. EffectiveCap(Cap(config)) \in Nat \ {0}
    BY <1>1, EffectiveCapBounded
  <2>3. forced \in Nat \ {0} /\ forced <= EffectiveCap(Cap(config))
    <3>1. forced \in Nat \ {0}
      BY <1>1, <1>4, ForcedIsCapped
    <3>2. QualityMatched(file.bitrate, file.codec, config.lossy) \in Nat
      BY <1>1, <1>4, QualityMatchedPositive
    <3> QED
      BY <1>1, <2>2, <3>1, <3>2 DEF Forced, Lesser
  <2>4. LossyAction(file, config) = IF answer = AsItIs THEN CopyIt ELSE ToLossy(config, answer)
    BY <1>4 DEF LossyAction
  <2>5. /\ answer = AsItIs => down = AsItIs
        /\ answer # AsItIs => answer \in Nat \ {0} /\ answer <= EffectiveCap(Cap(config))
    BY <2>1, <2>2, <2>3 DEF AsItIs
  <2> HIDE DEF answer
  <2>6. \A bitrate : ToLossy(config, bitrate) # CopyIt
                       /\ ToLossy(config, bitrate).codec = config.lossy
    BY DEF ToLossy, Transcode, CopyIt
  <2>7. CASE answer = AsItIs
    BY <1>1, <1>2, <1>4, <2>4, <2>5, <2>7
  <2>8. CASE answer # AsItIs
    BY <1>1, <1>2, <1>4, <2>4, <2>5, <2>6, <2>8
  <2> QED
    BY <2>7, <2>8
<1> QED
  BY <1>3, <1>4

LEMMA EncodedSettles == JustEncoded => Decision("plain") = Leave
<1> SUFFICES ASSUME JustEncoded PROVE Decision("plain") = Leave
  OBVIOUS
<1>1. file \in Files /\ config \in Configs /\ ~SourceLossless /\ Resolved(config) # "lossless"
  BY DEF JustEncoded
<1>2. PICK before \in {NoTag} \cup Tags, bitrate \in Nat :
        /\ bitrate <= EffectiveCap(Cap(config))
        /\ bitrate = 0 => config.custom = 0
        /\ tag = TagOf(before, file, config, ToLossy(config, bitrate))
  BY DEF JustEncoded
<1>3. Resolved(config) \in Presets /\ Cap(config) \in Nat \ {0}
  BY <1>1, ConfigFacts
<1>4. tag = [quality |-> Resolved(config), encoding |-> config.encoding,
             bitrate |-> bitrate, codec |-> config.lossy]
  BY <1>1, <1>2 DEF TagOf, AudioTag, ToLossy, Transcode
<1>5. ~CopyLossless
  BY <1>3, <1>4 DEF CopyLossless, Presets
<1>6. Bound = AsItIs
  <2>1. Bound = Reduced(bitrate, Cap(config), config.axis, 0)
    BY <1>3, <1>4 DEF Bound, Presets
  <2> QED
    BY <1>2, <1>3, <2>1, UnderCapStays
<1>7. Renew = CopyIt \/ tag.codec = Renew.codec
  BY <1>1, <1>4, LossyRenew
<1> QED
  BY <1>1, <1>5, <1>6, <1>7, LossySettles

LEMMA AdoptedSettles == JustAdopted => Decision("plain") = Leave
<1> SUFFICES ASSUME JustAdopted PROVE Decision("plain") = Leave
  OBVIOUS
<1>1. /\ file \in Files /\ config \in Configs /\ ~SourceLossless /\ file.bitrate # 0
      /\ Renew = CopyIt
  BY LossyRenew DEF JustAdopted
<1>2. tag.quality = "copy" /\ tag.bitrate = file.bitrate
  BY <1>1 DEF JustAdopted, CopyTag
<1>3. Resolved(config) = "lossless" \/ ~CopyLossless
  BY <1>2 DEF JustAdopted, CopyLossless
<1>4. Bound = AsItIs
  BY <1>1, <1>2, LossyRenew DEF Bound
<1> QED
  BY <1>1, <1>3, <1>4, LossySettles

LEMMA RenewedSettles == JustRenewed => Decision("plain") = Leave
<1> SUFFICES ASSUME JustRenewed PROVE Decision("plain") = Leave
  OBVIOUS
<1>1. file \in Files /\ config \in Configs /\ ~MadeAnewEveryTime
  BY DEF JustRenewed
<1>2. PICK before \in {NoTag} \cup Tags :
        copy = Made(file, Renew) /\ tag = TagOf(before, file, config, Renew)
  BY DEF JustRenewed
<1>3. /\ Resolved(config) \in Presets \cup {"lossless"} /\ config.custom \in Nat
      /\ config.lossy \in {"aac", "mp3", "opus"} /\ file.codec \in Codecs
      /\ before.encoding \in {"none", "vbr", "cbr"}
  BY <1>1, ConfigFacts, FileFacts DEF NoTag, Tags
<1>4. CASE Renew = CopyIt
  <2>1. /\ copy.type = Extension(file.codec)
        /\ tag.quality = "copy"
        /\ file.bitrate # 0 => tag.bitrate = file.bitrate
    BY <1>2, <1>4 DEF Made, TagOf, CopyTag, CopyIt
  <2>2. CASE SourceLossless
    <3>1. LosslessPreset = Leave
      BY <1>4, <2>1 DEF LosslessPreset
    <3> QED
      BY <1>1, <1>4, <2>2, <3>1, LosslessSettles
  <2>3. CASE ~SourceLossless
    <3>1. ~CopyLossless
      <4>1. Extension(file.codec) \notin {"flac", "wav"}
        BY <1>3, <2>3 DEF SourceLossless, Codecs, Lossless, Lossy, Extension
      <4> QED
        BY <2>1, <4>1 DEF CopyLossless, TypeLossless
    <3>2. tag.bitrate = 0 \/ Bound = AsItIs
      <4>1. CASE file.bitrate = 0
        BY <1>1, <4>1 DEF MadeAnewEveryTime
      <4>2. CASE file.bitrate # 0
        BY <1>1, <1>4, <2>1, <2>3, <4>2, LossyRenew DEF Bound
      <4> QED
        BY <4>1, <4>2
    <3> QED
      BY <1>4, <2>3, <3>1, <3>2, LossySettles
  <2> QED
    BY <2>2, <2>3
<1>5. CASE Renew # CopyIt /\ ~SourceLossless /\ Resolved(config) # "lossless"
  <2>1. CASE file.bitrate # 0
    <3>1. PICK bitrate \in Nat \ {0} : /\ bitrate <= EffectiveCap(Cap(config))
                                      /\ Renew = ToLossy(config, bitrate)
      BY <1>1, <1>5, <2>1, LossyRenew
    <3>2. JustEncoded
      BY <1>1, <1>2, <1>5, <3>1 DEF JustEncoded
    <3> QED
      BY <3>2, EncodedSettles
  <2>2. CASE file.bitrate = 0
    <3>1. Renew = ToLossy(config, config.custom)
      BY <1>1, <1>5, <2>2, LossyRenew
    <3>2. tag.bitrate = config.custom
      BY <1>2, <1>5, <3>1 DEF TagOf, AudioTag, ToLossy, Transcode
    <3>3. config.custom = 0
      BY <1>1, <2>2, <3>2 DEF MadeAnewEveryTime
    <3>4. 0 <= EffectiveCap(Cap(config))
      BY <1>1, ConfigFacts, EffectiveCapBounded
    <3>5. JustEncoded
      BY <1>1, <1>2, <1>5, <3>1, <3>3, <3>4 DEF JustEncoded
    <3> QED
      BY <3>5, EncodedSettles
  <2> QED
    BY <2>1, <2>2
<1>6. CASE Renew # CopyIt /\ ~SourceLossless /\ Resolved(config) = "lossless"
  <2>1. PICK bitrate : Renew = ToLossy(config, bitrate)
    BY <1>1, <1>6, LossyRenew
  <2>2. tag.bitrate = 0 /\ tag.codec = Renew.codec
    BY <1>2, <1>6, <2>1 DEF TagOf, AudioTag, ToLossy, Transcode
  <2> QED
    BY <1>6, <2>2, LossySettles
<1>7. CASE Renew # CopyIt /\ SourceLossless
  <2>1. PICK name \in Presets \cup {"lossless"}, codec \in Targets, override \in Nat :
          Renew = Transcode(name, codec, override)
    BY <1>1, <1>7, ClassifyIsAction DEF Renew, Action
  <2>2. Resolved(config) # "lossless" => name = Resolved(config)
    <3>1. ASSUME Resolved(config) # "lossless"
          PROVE  Renew = Transcode(Resolved(config), config.lossy, config.custom)
      BY <1>7, <3>1 DEF Renew, Classify, ToLossy, SourceLossless, Lossless, Lossy
    <3> QED
      BY <2>1, <3>1 DEF Transcode
  <2>3. \A b : TagOf(b, file, config, Renew) =
          [quality |-> name,
           encoding |-> IF name = "lossless" THEN b.encoding ELSE config.encoding,
           bitrate |-> IF name = "lossless" THEN 0
                       ELSE IF override # 0 THEN override ELSE config.custom,
           codec |-> codec]
    BY <2>1 DEF TagOf, AudioTag, Transcode
  <2>4. tag.quality = name /\ tag.codec = Renew.codec
    <3>1. tag = TagOf(before, file, config, Renew)
      BY <1>2
    <3>2. tag.quality = name /\ tag.codec = codec
      BY <2>3, <3>1
    <3>3. Renew.codec = codec
      BY <2>1 DEF Transcode
    <3> QED
      BY <3>2, <3>3
  <2>5. Tagged
    BY <2>4 DEF Tagged, NoTag, Presets
  <2>6. Matches(tag, TagOf(NoTag, file, config, Renew))
    <3>1. CASE name = "lossless"
      <4>1. tag.encoding = before.encoding /\ tag.encoding # "cbr"
        BY <1>1, <1>2, <1>7, <2>3, <2>4, <3>1 DEF MadeAnewEveryTime
      <4>2. Encoding(tag) = "vbr"
        BY <1>3, <4>1 DEF Encoding
      <4>3. Encoding(TagOf(NoTag, file, config, Renew)) = "vbr"
        BY <2>3, <3>1 DEF Encoding, NoTag
      <4> QED
        BY <1>2, <2>3, <3>1, <4>2, <4>3 DEF Matches
    <3>2. CASE name # "lossless"
      BY <1>2, <2>3, <3>2 DEF Matches, Encoding
    <3> QED
      BY <3>1, <3>2
  <2>7. ~(Resolved(config) # "lossless" /\ CopyLossless)
    BY <1>3, <2>2, <2>4 DEF CopyLossless, Presets
  <2>8. LosslessPreset = Leave
    BY <1>7, <2>5, <2>6, <2>7 DEF LosslessPreset
  <2> QED
    BY <1>1, <1>7, <2>4, <2>8, LosslessSettles
<1> QED
  BY <1>4, <1>5, <1>6, <1>7

\* What a sync with a flag leaves, a plain one leaves.
LEMMA FlagsAskForMore ==
  ASSUME IInv, NEW flag, Decision(flag) = Leave
  PROVE  Decision("plain") = Leave
<1>1. SourcePass(flag) = Leave /\ PresetPass(flag) = Leave /\ CodecPass = Leave
  BY DEF Decision, Before
<1>2. Renew # Leave /\ \A bitrate : ReEncode(bitrate) # Leave
  <2>1. Action(Renew, config)
    BY ClassifyIsAction DEF Renew, IInv, QualityTypeOK
  <2> QED
    BY <2>1 DEF Action, Leave, CopyIt, Transcode, ToLossy, ReEncode
<1>3. SourcePass("plain") = Leave
  BY <1>1, <1>2 DEF SourcePass
<1>4. PresetPass("plain") = Leave
  BY <1>1, <1>2 DEF PresetPass, LossyPreset
<1> QED
  BY <1>1, <1>3, <1>4, PlainPasses

\* What a sync replaces a copy by is made anew; or a lossy song is encoded, at
\* the cap, at its own bitrate if that is lifted, or at the cap since its own
\* is not known.
LEMMA ReplacementFacts ==
  ASSUME IInv, NEW flag, Decision(flag).kind \in {"copy", "transcode"}
  PROVE  \/ Decision(flag) = Renew
         \/ /\ ~SourceLossless
            /\ Resolved(config) # "lossless"
            /\ \E bitrate \in Nat \ {0} :
                 /\ Decision(flag) = ToLossy(config, bitrate)
                 /\ bitrate <= Cap(config)
                 /\ \/ bitrate <= EffectiveCap(Cap(config))
                    \/ flag = "force-transcode"
                    \/ file.bitrate = 0
<1> DEFINE Encoded(d) ==
             /\ ~SourceLossless
             /\ Resolved(config) # "lossless"
             /\ \E bitrate \in Nat \ {0} :
                  /\ d = ToLossy(config, bitrate)
                  /\ bitrate <= Cap(config)
                  /\ \/ bitrate <= EffectiveCap(Cap(config))
                     \/ flag = "force-transcode"
                     \/ file.bitrate = 0
           Fine(d) == d \in {Leave, Renew} \/ Encoded(d) \/ d.kind = "retag"
<1>1. /\ file \in Files /\ config \in Configs /\ file.bitrate \in Nat /\ tag.bitrate \in Nat
      /\ Cap(config) \in Nat \ {0} /\ EffectiveCap(Cap(config)) \in Nat \ {0}
      /\ EffectiveCap(Cap(config)) <= Cap(config)
  BY FileFacts, ConfigFacts, EffectiveCapBounded DEF IInv, QualityTypeOK, NoTag, Tags
<1>2. Fine(SourcePass(flag)) /\ Fine(CodecPass)
  BY DEF SourcePass, CodecPass
<1>3. Fine(TagPass(flag))
  BY DEF TagPass, Retag
<1>4. Fine(PresetPass(flag))
  <2>1. Fine(LosslessPreset)
    BY DEF LosslessPreset
  <2>2. ASSUME ~SourceLossless, Bound # AsItIs
        PROVE  ReEncode(Bound) = Renew \/ Encoded(ReEncode(Bound))
    <3>1. Bound = EffectiveCap(Cap(config))
      BY <2>2 DEF Bound, Reduced
    <3> QED
      BY <1>1, <2>2, <3>1 DEF ReEncode
  <2>3. ASSUME ~SourceLossless, flag = "force-transcode", file.bitrate > tag.bitrate
        PROVE  \/ ReEncode(Lesser(file.bitrate, Cap(config))) = Renew
               \/ Encoded(ReEncode(Lesser(file.bitrate, Cap(config))))
    <3> DEFINE lift == Lesser(file.bitrate, Cap(config))
    <3>1. lift \in Nat \ {0} /\ lift <= Cap(config)
      BY <1>1, <2>3 DEF Lesser
    <3> HIDE DEF lift
    <3>2. ReEncode(lift) = Renew \/ Encoded(ReEncode(lift))
      BY <2>3, <3>1 DEF ReEncode
    <3> QED
      BY <3>2 DEF lift
  <2>4. ~SourceLossless => Fine(LossyPreset(flag))
    <3> HIDE DEF Encoded
    <3> QED
      BY <2>2, <2>3 DEF LossyPreset
  <2> QED
    BY <2>1, <2>4 DEF PresetPass
<1>5. Fine(AdoptPass(flag))
  <2>1. ASSUME ~SourceLossless, file.bitrate = 0
        PROVE  ReEncode(Cap(config)) = Renew \/ Encoded(ReEncode(Cap(config)))
    BY <1>1, <2>1 DEF ReEncode
  <2>2. ASSUME ~SourceLossless, file.bitrate # 0, LossyAction(file, config) # CopyIt
        PROVE  ReEncode(LossyAction(file, config).override) = Renew
    <3>1. PICK bitrate : Renew = ToLossy(config, bitrate) /\ Renew = LossyAction(file, config)
      BY <1>1, <2>2, LossyRenew
    <3>2. LossyAction(file, config).override = bitrate
      BY <3>1 DEF ToLossy, Transcode
    <3> QED
      BY <3>1, <3>2 DEF ReEncode
  <2> HIDE DEF Encoded
  <2> QED
    BY <2>1, <2>2 DEF AdoptPass, Retag
<1>6. Fine(Decision(flag))
  <2> HIDE DEF Encoded
  <2> QED
    BY <1>2, <1>3, <1>4, <1>5 DEF Decision, Before
<1> QED
  BY <1>6 DEF Leave

\* A tag alone is written only when an untagged copy is adopted, or by force.
LEMMA AdoptionFacts ==
  ASSUME IInv, NEW flag, flag # "force-sync-tags", Decision(flag).kind = "retag"
  PROVE  /\ ~SourceLossless
         /\ file.bitrate # 0
         /\ LossyAction(file, config) = CopyIt
         /\ Resolved(config) = "lossless" \/ ~TypeLossless
         /\ Decision(flag) = Retag(CopyTag(NoTag, file))
<1>1. /\ file \in Files /\ config \in Configs
      /\ Action(Renew, config)
      /\ \A bitrate : ReEncode(bitrate) \in {Renew, ToLossy(config, bitrate)}
  BY ClassifyIsAction DEF IInv, QualityTypeOK, Renew, ReEncode
<1>2. /\ Renew.kind # "retag" /\ Leave.kind # "retag" /\ Renew # Leave
      /\ \A bitrate : ReEncode(bitrate).kind # "retag" /\ ReEncode(bitrate) # Leave
  BY <1>1 DEF Action, CopyIt, Transcode, ToLossy, Leave
<1>3. /\ SourcePass(flag).kind # "retag"
      /\ PresetPass(flag).kind # "retag"
      /\ CodecPass.kind # "retag"
  BY <1>2 DEF SourcePass, PresetPass, LosslessPreset, LossyPreset, CodecPass
<1>4. TagPass(flag) = Leave
  BY DEF TagPass
<1>5. Decision(flag) = AdoptPass(flag) /\ PresetPass(flag) = Leave
  BY <1>2, <1>3, <1>4 DEF Decision, Before
<1>6. /\ ~Tagged /\ ~SourceLossless /\ file.bitrate # 0
      /\ LossyAction(file, config) = CopyIt
      /\ AdoptPass(flag) = Retag(CopyTag(NoTag, file))
  BY <1>2, <1>5 DEF AdoptPass
<1>7. Resolved(config) = "lossless" \/ ~TypeLossless
  <2>1. tag = NoTag
    BY <1>6 DEF Tagged
  <2>2. ~SourceDown /\ (CopyLossless <=> TypeLossless)
    BY <2>1 DEF SourceDown, CopyLossless, NoTag
  <2>3. LossyPreset(flag) = Leave
    BY <1>5, <1>6 DEF PresetPass
  <2> QED
    BY <1>2, <2>2, <2>3 DEF LossyPreset
<1> QED
  BY <1>5, <1>6, <1>7

\* A sync that ran to its end is in one of the ways above.
LEMMA NothingTwiceStep ==
  ASSUME IInv, NoWorkTwice, [Next]_vars,
         (Decision("plain") = Leave)' \/ ~(JustEncoded \/ JustRenewed \/ JustAdopted)'
  PROVE  NoWorkTwice'
<1>1. CASE UNCHANGED vars
  BY <1>1 DEF vars, NoWorkTwice, MadeAnewEveryTime, SourceLossless, TypeLossless, Decision,
              SourcePass, PresetPass, CodecPass, AdoptPass, TagPass, LosslessPreset,
              LossyPreset, Tagged, CopyLossless, SourceDown, Renew, ReEncode, Bound,
              BelowRaisedCap
<1> SUFFICES ASSUME last' \in Flags \ {"force-sync-tags"},
                    ~MadeAnewEveryTime',
                    ~(last' = "force-transcode" /\ OverDeviceMax(tag'.bitrate)),
                    ~UNCHANGED vars
             PROVE  (Decision("plain") = Leave)'
  BY <1>1 DEF NoWorkTwice
<1>2. PICK flag \in Flags \ {"force-sync-tags"} : last' = flag /\ Sync(flag)
  BY DEF Next, ChangeFile, ChangeConfig, ReplaceKilled, Flags, Sync, Add, KeepCopy, WriteTag,
         Replace
<1>3. file' = file /\ config' = config
  BY <1>2 DEF Sync, Add, KeepCopy, WriteTag, Replace, Replacing
<1>4. /\ file \in Files /\ config \in Configs /\ tag \in {NoTag} \cup Tags
      /\ NoTag \in {NoTag} \cup Tags
  BY DEF IInv, QualityTypeOK
<1>5. /\ Renew' = Renew
      /\ SourceLossless' = SourceLossless
      /\ \A bitrate : ToLossy(config', bitrate) = ToLossy(config, bitrate)
  BY <1>3 DEF Renew, SourceLossless
<1>6. CASE Add(flag)
  <2>1. copy' = Made(file', Renew') /\ tag' = TagOf(NoTag, file', config', Renew')
    BY <1>3, <1>5, <1>6 DEF Add
  <2>2. JustRenewed'
    BY <1>3, <1>4, <2>1 DEF JustRenewed
  <2> QED
    BY <2>2
<1>7. CASE KeepCopy(flag)
  <2>1. copy' = copy /\ tag' = tag /\ Decision(flag) = Leave
    BY <1>7 DEF KeepCopy
  <2>2. Decision("plain") = Leave
    BY <2>1, FlagsAskForMore
  <2>3. Decision("plain")' = Decision("plain")
    BY <1>3, <2>1 DEF SourceLossless, TypeLossless, Decision,
              SourcePass, PresetPass, CodecPass, AdoptPass, TagPass, LosslessPreset,
              LossyPreset, Tagged, CopyLossless, SourceDown, Renew, ReEncode, Bound,
              BelowRaisedCap
  <2> QED
    BY <2>2, <2>3
<1>8. CASE WriteTag(flag)
  <2>1. /\ copy' = copy /\ tag' = Decision(flag).tag
        /\ Decision(flag).kind = "retag"
    BY <1>8 DEF WriteTag
  <2>2. /\ ~SourceLossless
        /\ file.bitrate # 0
        /\ LossyAction(file, config) = CopyIt
        /\ Resolved(config) = "lossless" \/ ~TypeLossless
        /\ Decision(flag) = Retag(CopyTag(NoTag, file))
    BY <1>2, <2>1, AdoptionFacts
  <2>3. tag' = CopyTag(NoTag, file') /\ TypeLossless' = TypeLossless
    BY <1>3, <2>1, <2>2 DEF Retag, TypeLossless
  <2>4. JustAdopted'
    BY <1>3, <1>4, <1>5, <2>2, <2>3 DEF JustAdopted
  <2> QED
    BY <2>4
<1>9. CASE Replace(flag)
  <2>1. /\ copy' = Made(file, Decision(flag))
        /\ tag' = TagOf(tag, file, config, Decision(flag))
        /\ Decision(flag).kind \in {"copy", "transcode"}
    BY <1>9 DEF Replace, Replacing
  <2>2. CASE Decision(flag) = Renew
    <3>1. JustRenewed'
      BY <1>3, <1>4, <1>5, <2>1, <2>2 DEF JustRenewed
    <3> QED
      BY <3>1
  <2>3. ASSUME NEW bitrate \in Nat \ {0},
               ~SourceLossless,
               Resolved(config) # "lossless",
               Decision(flag) = ToLossy(config, bitrate),
               bitrate <= Cap(config),
               \/ bitrate <= EffectiveCap(Cap(config))
               \/ flag = "force-transcode"
               \/ file.bitrate = 0
        PROVE  JustEncoded'
    <3>1. tag'.bitrate = bitrate
      BY <2>1, <2>3 DEF TagOf, AudioTag, ToLossy, Transcode
    <3>2. file.bitrate # 0
      BY <1>3, <3>1 DEF MadeAnewEveryTime
    <3>3. bitrate <= EffectiveCap(Cap(config))
      <4>1. CASE flag = "force-transcode"
        <5>1. DeviceMax = 0 \/ bitrate <= DeviceMax
          BY <1>2, <3>1, <4>1, ReductionAssumption DEF OverDeviceMax
        <5>2. Cap(config) \in Nat
          BY <1>4, ConfigFacts
        <5> QED
          BY <2>3, <5>1, <5>2, ReductionAssumption DEF EffectiveCap, Lesser
      <4> QED
        BY <2>3, <3>2, <4>1
    <3>4. copy' = Made(file', ToLossy(config', bitrate))
          /\ tag' = TagOf(tag, file', config', ToLossy(config', bitrate))
      BY <1>3, <2>1, <2>3
    <3> QED
      BY <1>3, <1>4, <1>5, <2>3, <3>3, <3>4 DEF JustEncoded
  <2> QED
    BY <2>1, <2>2, <2>3, ReplacementFacts
<1> QED
  BY <1>2, <1>6, <1>7, <1>8, <1>9 DEF Sync

\* Whatever the files, the settings, the device and the syncs before, a sync
\* that ran to its end leaves nothing for a plain one to do, but for the copies
\* and tags that NoWorkTwice names.
THEOREM NothingTwice == Spec => []NoWorkTwice
<1>1. Init => NoWorkTwice
  BY DEF Init, NoWorkTwice, Flags
<1>2. JustEncoded \/ JustRenewed \/ JustAdopted => Decision("plain") = Leave
  BY EncodedSettles, RenewedSettles, AdoptedSettles
<1>3. (JustEncoded \/ JustRenewed \/ JustAdopted)' => (Decision("plain") = Leave)'
  BY <1>2, PTL
<1>4. IInv /\ NoWorkTwice /\ [Next]_vars => NoWorkTwice'
  BY <1>3, NothingTwiceStep
<1> QED
  BY <1>1, <1>4, Invariant, PTL DEF Spec
=============================================================================
