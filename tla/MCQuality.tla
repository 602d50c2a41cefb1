------------------------------ MODULE MCQuality ------------------------------
(* One song in six guises, under every setting that reaches its quality.      *)
EXTENDS QualitySync

MCFiles == {[codec |-> "flac", bitrate |-> 900], [codec |-> "alac", bitrate |-> 240],
            [codec |-> "mp3", bitrate |-> 320], [codec |-> "mp3", bitrate |-> 150],
            [codec |-> "vorbis", bitrate |-> 192], [codec |-> "aac", bitrate |-> 0]}

\* A custom bitrate is set above the lowest preset, CBR with `reduce = always`.
MCConfigs ==
  {c \in [quality : {"max", "high", "low"}, lossy : {"aac", "mp3"},
          axis : {"convert", "preserve"}, encoding : {"vbr", "cbr"},
          custom : {0, 144}] :
     /\ c.custom # 0 => c.quality # "low"
     /\ c.encoding = "cbr" => c.axis = "convert"}

MCPlays == {"aac", "mp3", "alac"}
MCStack == <<"source", "alac">>

\* A player of lossy files only.
MCPlainPlays == {"aac", "mp3"}
MCPlainStack == <<"source">>
=============================================================================
