---------------------------- MODULE MCMediaRules ----------------------------
(***************************************************************************)
(* An instance of MediaRules for TLC: pixel formats whose names say their  *)
(* precision, say nothing of it, or mislead, in sources of every transfer  *)
(* function with no, one or two kinds of subtitles.                        *)
(***************************************************************************)
EXTENDS MediaRules, TLC

MCBits ==
    "yuv420p" :> 8 @@ "yuv420p10le" :> 10 @@ "yuv420p12le" :> 12 @@ "gray9le" :> 9
        @@ "nv12" :> 8 @@ "yuv410p" :> 8 @@ "yuv420p14le" :> 14 @@ "rgb48le" :> 16
        @@ "gray16le" :> 16

MCPixelFormats == DOMAIN MCBits

MCMarks ==
    [f \in MCPixelFormats |->
        CASE f = "yuv420p10le" -> {10}
          [] f = "yuv420p12le" -> {12}
          [] f = "gray9le" -> {9}
          [] f = "nv12" -> {12}
          [] f = "yuv410p" -> {10}
          [] f = "gray16le" -> {16}
          [] OTHER -> {}]

MCSubtitles == {<<>>, <<"text">>, <<"bitmap">>, <<"text", "bitmap">>, <<"bitmap", "text">>}

MCSources ==
    {v \in [pixFmt : MCPixelFormats, rawBits : BOOLEAN, transfer : Transfers, wide : BOOLEAN,
            subtitles : MCSubtitles] :
        /\ v.transfer \in HDRTransfers => v.pixFmt \notin {"nv12", "yuv410p", "gray9le"}
        /\ v.transfer = "bt2020-10" => v.wide}
=============================================================================
