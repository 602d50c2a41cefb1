--------------------------- MODULE LossyReduction ---------------------------
(***************************************************************************)
(* resolveLossyReduction (podkit-core/src/sync/engine/lossy-reduction.ts): *)
(* whether a lossy file is copied or encoded, and at which bitrate.        *)
(* Adding a track, looking at it again and adopting it all ask here.       *)
(* Bitrates are in kbps; the code's fractions are percentages.             *)
(***************************************************************************)
EXTENDS Integers

CONSTANTS
  DeviceMax,   \* the highest bitrate the device takes, 0 if it declares none
  Tolerance    \* a copy may be over the cap by this many percent

ASSUME ReductionAssumption ==
  /\ DeviceMax \in Nat
  /\ Tolerance \in 0..99

Lesser(a, b) == IF a < b THEN a ELSE b

\* CODEC_EFFICIENCY in percent; any other codec counts as AAC.
Efficiency(codec) ==
  CASE codec = "opus" -> 75
    [] codec = "vorbis" -> 90
    [] codec = "mp3" -> 130
    [] OTHER -> 100

EffectiveCap(cap) == IF DeviceMax = 0 THEN cap ELSE Lesser(cap, DeviceMax)

OverDeviceMax(bitrate) == DeviceMax # 0 /\ bitrate > DeviceMax

AboveBand(bitrate, cap, tolerance) ==
  100 * bitrate > EffectiveCap(cap) * (100 + tolerance)

\* Math.round of the bitrate that sounds the same in another codec.
QualityMatched(bitrate, from, to) ==
  (2 * bitrate * Efficiency(to) + Efficiency(from)) \div (2 * Efficiency(from))

\* { action: 'copy' }
AsItIs == 0

\* A file that the device plays is left alone, or brought down to the cap.
Reduced(bitrate, cap, axis, tolerance) ==
  IF \/ OverDeviceMax(bitrate)
     \/ axis = "convert" /\ AboveBand(bitrate, cap, tolerance)
  THEN EffectiveCap(cap)
  ELSE AsItIs

\* A file that it does not play has to be encoded.
Forced(file, target, cap, axis) ==
  Lesser(IF axis = "convert" THEN file.bitrate
                             ELSE QualityMatched(file.bitrate, file.codec, target),
         EffectiveCap(cap))
=============================================================================
