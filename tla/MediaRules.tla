----------------------------- MODULE MediaRules -----------------------------
(***************************************************************************)
(* What a conversion may do to a picture: the rules by which a request and *)
(* what ffprobe reports of its source become arguments of ffmpeg           *)
(* (buildFFmpegArgs and its helpers in src/ex_app/main.go), and the check  *)
(* that the encoder did as it was told (src/ex_app/pixel_format.go).       *)
(*                                                                         *)
(* A job passes once through probe, build, encode and verify, the stages   *)
(* whose outcome Converter leaves open.  Of a pixel format the code sees   *)
(* the numbers in its name (Marks), ffmpeg the precision (Bits).  ffmpeg   *)
(* and ffprobe are external: ffmpeg converts to the format it was given or *)
(* silently to a coarser one, ffprobe reports bits_per_raw_sample truly or *)
(* not at all.  Sizes, bitrates, presets, audio and frame rates are left   *)
(* out: no property tells them apart.                                      *)
(***************************************************************************)
EXTENDS Naturals, Sequences, FiniteSetsExt

CONSTANTS
    PixelFormats,
    Marks,      \* which of 9, 10, 12 and 16 the name of a format contains
    Bits,       \* bits of a component in a format
    Sources     \* the videos there are

Eight == "yuv420p"
Ten == "yuv420p10le"
Twelve == "yuv420p12le"

Transfers == {"bt709", "bt2020-10", "smpte2084", "arib-std-b67"}
HDRTransfers == {"smpte2084", "arib-std-b67"}

\* A source has a pixel format, whose precision ffprobe reports or not, a
\* transfer function, other colour tags that name 2020 or not, and subtitle
\* streams.
VideoFile ==
    [pixFmt : PixelFormats, rawBits : BOOLEAN, transfer : Transfers, wide : BOOLEAN,
     subtitles : Seq({"text", "bitmap"})]

ASSUME FormatAssumption ==
    /\ {Eight, Ten, Twelve} \subseteq PixelFormats
    /\ Marks \in [PixelFormats -> SUBSET {9, 10, 12, 16}]
    /\ Bits \in [PixelFormats -> Nat]
    /\ Marks[Eight] = {} /\ Bits[Eight] = 8
    /\ Marks[Ten] = {10} /\ Bits[Ten] = 10
    /\ Marks[Twelve] = {12} /\ Bits[Twelve] = 12

ASSUME SourceAssumption == Sources \subseteq VideoFile

VARIABLES
    stage,   \* where the job is
    req,     \* its ConversionRequest
    source,  \* the video it converts
    info,    \* MediaInfo of the source
    plan,    \* what the arguments tell ffmpeg
    output   \* what ffmpeg has made

vars == <<stage, req, source, info, plan, output>>

Stages == {"probe", "build", "encode", "verify", "accepted", "refused"}

\* What validateRequest lets through, in the fields that matter here.
Requests ==
    [container : {"mp4", "mov", "mkv"}, videoCodec : {"h264", "h265", "av1", "copy"},
     hdrMode : {"sdr", "hdr", "copy"}, bitDepth : {"8", "10", "copy"}, subtitles : BOOLEAN]

Copies(r) == r.videoCodec = "copy"

-----------------------------------------------------------------------------
(***************************************************************************)
(* The rules.                                                              *)
(***************************************************************************)

\* bitDepthFromPixelFormat: the reported bits, else the greatest number the
\* name contains, else 8.
BitDepthFromPixelFormat(f, known) ==
    IF known THEN Bits[f] ELSE Max(Marks[f] \union {8})

\* Mutation of IsBitmapSubtitle: a name the list does not have.
IsBitmapSubtitle_Unknown(kind) == FALSE

\* isBitmapSubtitle, of the codec of a stream
IsBitmapSubtitle(kind) == kind = "bitmap"

\* probeMedia: the first video stream, and the first subtitle stream.
ProbeMedia(v) ==
    [bitDepth |-> BitDepthFromPixelFormat(v.pixFmt, v.rawBits),
     transfer |-> v.transfer,
     isHDR |-> v.transfer \in HDRTransfers \/ v.wide,
     bitmap |-> v.subtitles # <<>> /\ IsBitmapSubtitle(Head(v.subtitles))]

\* outputPixelFormat: the depth to produce ...
OutputDepth(r, i) ==
    CASE r.bitDepth = "8" -> 8
      [] r.bitDepth = "10" -> 10
      [] r.bitDepth = "copy" ->
            IF r.hdrMode = "hdr" /\ i.bitDepth < 10 THEN 10 ELSE i.bitDepth

\* ... which the encoder can produce or not ...
CanProduce(r, depth) == depth <= 10 \/ (depth <= 12 /\ r.videoCodec = "h265")

\* ... and the format that has it.
FormatOfDepth(depth) ==
    IF depth <= 8 THEN Eight ELSE IF depth <= 10 THEN Ten ELSE Twelve

\* hdrColorTags
HDRTransferTag(i) == IF i.transfer = "arib-std-b67" THEN "arib-std-b67" ELSE "smpte2084"

\* Mutation of TransferTag: the tags of the source stay on tone-mapped video.
TransferTag_KeepsHDR(r, i) == IF i.isHDR THEN HDRTransferTag(i) ELSE "none"

\* The -color_trc of buildFFmpegArgs, if there is one.
TransferTag(r, i) ==
    IF ~i.isHDR THEN "none" ELSE IF r.hdrMode = "sdr" THEN "bt709" ELSE HDRTransferTag(i)

\* The subtitle streams of the source are mapped ...
Mp4Family(r) == r.container \in {"mp4", "mov"}

MapsSubtitles(r, i) == r.subtitles /\ ~(Mp4Family(r) /\ i.bitmap)

\* ... and given a codec, in another place.
SubtitleCodec(r, i) ==
    CASE ~r.subtitles -> "drop"
      [] r.subtitles /\ r.container = "mkv" -> "copy"
      [] r.subtitles /\ Mp4Family(r) -> IF i.bitmap THEN "drop" ELSE "mov_text"

\* buildFFmpegArgs: stream copy leaves the picture alone, else pixel format,
\* filters to Rec. 709 and tags are chosen.
BuildFFmpegArgs(r, i) ==
    [pixFmt |-> IF Copies(r) THEN "none" ELSE FormatOfDepth(OutputDepth(r, i)),
     toRec709 |-> ~Copies(r) /\ i.isHDR /\ r.hdrMode = "sdr",
     tag |-> IF Copies(r) THEN "none" ELSE TransferTag(r, i),
     mapped |-> MapsSubtitles(r, i),
     subtitleCodec |-> SubtitleCodec(r, i)]

-----------------------------------------------------------------------------
Nothing == [made |-> FALSE]

Init ==
    /\ stage = "probe"
    /\ req \in Requests
    /\ source \in Sources
    /\ info = Nothing
    /\ plan = Nothing
    /\ output = Nothing

Refuse == stage' = "refused" /\ UNCHANGED <<req, source, info, plan, output>>

\* Mutation of Probe: an error of ffprobe leaves an empty MediaInfo.
Probe_IgnoresError ==
    /\ stage = "probe"
    /\ info' \in {ProbeMedia(source), Nothing}
    /\ stage' = "build"
    /\ UNCHANGED <<req, source, plan, output>>

Probe ==
    /\ stage = "probe"
    /\ info' = ProbeMedia(source)
    /\ stage' = "build"
    /\ UNCHANGED <<req, source, plan, output>>

Build ==
    /\ stage = "build"
    /\ Copies(req) \/ CanProduce(req, OutputDepth(req, info))
    /\ plan' = BuildFFmpegArgs(req, info)
    /\ stage' = "encode"
    /\ UNCHANGED <<req, source, info, output>>

\* "cannot preserve ...-bit video"
BuildRefused ==
    /\ stage = "build"
    /\ ~Copies(req)
    /\ ~CanProduce(req, OutputDepth(req, info))
    /\ Refuse

\* ffmpeg copies the stream, or converts it to the pixel format of the plan.
\* A build of it may take a coarser format and say nothing.
EncodeCopy ==
    /\ stage = "encode"
    /\ Copies(req)
    /\ output' = [pixFmt |-> source.pixFmt, rawBits |-> source.rawBits,
                  pixels |-> source.transfer, tag |-> source.transfer]
    /\ stage' = "verify"
    /\ UNCHANGED <<req, source, info, plan>>

Encode ==
    /\ stage = "encode"
    /\ ~Copies(req)
    /\ \E f \in {Eight, Ten, Twelve}, known \in BOOLEAN :
          LET pixels == IF plan.toRec709 THEN "bt709" ELSE source.transfer
          IN  /\ Bits[f] <= Bits[plan.pixFmt]
              /\ output' = [pixFmt |-> f, rawBits |-> known, pixels |-> pixels,
                            tag |-> IF plan.tag = "none" THEN pixels ELSE plan.tag]
    /\ stage' = "verify"
    /\ UNCHANGED <<req, source, info, plan>>

\* ffprobe or ffmpeg fails.
Fails == stage \in {"probe", "encode"} /\ Refuse

\* verifyOutputBitDepth: the format is computed again, the output is probed.
ExpectedDepth == BitDepthFromPixelFormat(FormatOfDepth(OutputDepth(req, info)), FALSE)
ActualDepth == BitDepthFromPixelFormat(output.pixFmt, output.rawBits)

\* Mutation of Verified: whatever the encoder made is taken.
Verified_Always == TRUE

Verified == Copies(req) \/ ActualDepth = ExpectedDepth

VerifyOk ==
    /\ stage = "verify"
    /\ Verified
    /\ stage' = "accepted"
    /\ UNCHANGED <<req, source, info, plan, output>>

\* A wrong depth, or an output that cannot be probed.
VerifyFailed == stage = "verify" /\ ~Copies(req) /\ Refuse

Over == stage \in {"accepted", "refused"} /\ UNCHANGED vars

Next == Probe \/ Build \/ BuildRefused \/ EncodeCopy \/ Encode \/ Fails
            \/ VerifyOk \/ VerifyFailed \/ Over

Spec == Init /\ [][Next]_vars

-----------------------------------------------------------------------------
(***************************************************************************)
(* Properties.  What is accepted is uploaded, and then its original may be *)
(* deleted.                                                                *)
(***************************************************************************)
Infos ==
    [bitDepth : Nat, transfer : Transfers, isHDR : BOOLEAN, bitmap : BOOLEAN]

Plans ==
    [pixFmt : {"none", Eight, Ten, Twelve}, toRec709 : BOOLEAN, tag : {"none"} \union Transfers,
     mapped : BOOLEAN, subtitleCodec : {"drop", "copy", "mov_text"}]

Outputs ==
    [pixFmt : PixelFormats, rawBits : BOOLEAN, pixels : Transfers, tag : Transfers]

\* Types, stage by stage: nothing is used before it was made.
TypeOK ==
    /\ stage \in Stages
    /\ req \in Requests
    /\ source \in Sources
    /\ IF stage \in {"build", "encode", "verify", "accepted"} THEN info \in Infos
                                                              ELSE info \in Infos \union {Nothing}
    /\ IF stage \in {"encode", "verify", "accepted"} THEN plan \in Plans
                                                     ELSE plan \in Plans \union {Nothing}
    /\ IF stage \in {"verify", "accepted"} THEN output \in Outputs
                                           ELSE output \in Outputs \union {Nothing}

Reencoded == stage = "accepted" /\ ~Copies(req)

DemandedDepth ==
    CASE req.bitDepth = "8" -> 8
      [] req.bitDepth = "10" -> 10
      [] req.bitDepth = "copy" -> info.bitDepth

\* Accepted video has the precision that was asked for, or that the service
\* read of the source, and ten bits or more when HDR is to be kept: also when
\* the encoder silently lowers it ("Some FFmpeg builds ...", pixel_format.go).
AcceptedKeepsDepth ==
    Reencoded => /\ Bits[output.pixFmt] >= DemandedDepth
                 /\ req.hdrMode = "hdr" /\ req.bitDepth = "copy" => Bits[output.pixFmt] >= 10

\* The transfer function an output is tagged with is that of its pixels, for
\* every source that is SDR or has one of the two HDR transfer functions.
\* (A wide-gamut source of another transfer function is taken for HDR and
\* tagged smpte2084 by hdrColorTags, unless it is converted to Rec. 709.)
TagsMatchPixels ==
    stage = "accepted" /\ (source.transfer \in HDRTransfers \/ ~source.wide)
        => output.tag = output.pixels

\* Which streams are mapped and how they are encoded is decided in two places
\* of buildFFmpegArgs.  Together they keep the subtitles that were asked for
\* wherever the container can hold them, and never ask ffmpeg to make text of
\* bitmaps ("to avoid ffmpeg crash in MP4", main_test.go) - when all subtitle
\* streams are of the kind of the first, the only one that is probed.
OneKind(s) == \A n \in 1..Len(s) : s[n] = s[1]
Keeps(p) == p.mapped /\ p.subtitleCodec # "drop"

SubtitlesSurvive ==
    stage = "encode" /\ req.subtitles /\ source.subtitles # <<>> /\ OneKind(source.subtitles)
        => Keeps(plan) <=> (Mp4Family(req) => source.subtitles[1] = "text")

\* "The original bit-depth option preserves source precision" (README).
\* Code: a name without 9, 10, 12 or 16 in it is taken for 8 bits.
SourcePrecision ==
    Reencoded /\ req.bitDepth = "copy" => Bits[output.pixFmt] >= Bits[source.pixFmt]
=============================================================================
