-------------------------- MODULE MediaRulesProofs --------------------------
(***************************************************************************)
(* Proofs about MediaRules, for all pixel formats, whatever their names    *)
(* contain, and all sources: accepted video has the depth demanded, its    *)
(* tag fits its pixels, and subtitles survive where they can.              *)
(***************************************************************************)
EXTENDS MediaRules, TLAPS

\* What the job knows is what probe and build computed.
Computed ==
    /\ stage \in {"build", "encode", "verify", "accepted"} => info = ProbeMedia(source)
    /\ stage \in {"encode", "verify", "accepted"} =>
          /\ plan = BuildFFmpegArgs(req, info)
          /\ Copies(req) \/ CanProduce(req, OutputDepth(req, info))

\* What ffmpeg made follows the plan, but for its depth.
Encoded ==
    stage \in {"verify", "accepted"} =>
        IF Copies(req)
        THEN output.tag = output.pixels
        ELSE LET pixels == IF plan.toRec709 THEN "bt709" ELSE source.transfer
             IN  /\ output.pixFmt \in {Eight, Ten, Twelve}
                 /\ output.pixels = pixels
                 /\ output.tag = IF plan.tag = "none" THEN pixels ELSE plan.tag

IInv ==
    /\ TypeOK
    /\ Computed
    /\ Encoded
    /\ stage = "accepted" => Verified

-----------------------------------------------------------------------------
(***************************************************************************)
(* The rules.                                                              *)
(***************************************************************************)

\* The depth read from a name is one of the five the code knows, and at
\* least every number the name contains.
LEMMA GreatestMark ==
    ASSUME NEW S \in SUBSET {8, 9, 10, 12, 16}, 8 \in S
    PROVE  Max(S) \in S /\ \A n \in S : n <= Max(S)
<1>1. \E m \in S : \A n \in S : m >= n
    <2>1. CASE 16 \in S
        BY <2>1
    <2>2. CASE 16 \notin S /\ 12 \in S
        BY <2>2
    <2>3. CASE 16 \notin S /\ 12 \notin S /\ 10 \in S
        BY <2>3
    <2>4. CASE 16 \notin S /\ 12 \notin S /\ 10 \notin S /\ 9 \in S
        BY <2>4
    <2>5. CASE 16 \notin S /\ 12 \notin S /\ 10 \notin S /\ 9 \notin S
        BY <2>5
    <2> QED
        BY <2>1, <2>2, <2>3, <2>4, <2>5
<1>2. Max(S) \in S /\ \A n \in S : Max(S) >= n
    BY <1>1, Zenon DEF Max
<1> QED
    BY <1>2

\* bitDepthFromPixelFormat returns a number for every format.
LEMMA DepthIsNumber ==
    ASSUME NEW f \in PixelFormats, NEW known \in BOOLEAN
    PROVE  BitDepthFromPixelFormat(f, known) \in Nat
<1>1. CASE known
    BY <1>1, FormatAssumption DEF BitDepthFromPixelFormat
<1>2. CASE ~known
    <2> DEFINE S == Marks[f] \union {8}
    <2>1. S \in SUBSET {8, 9, 10, 12, 16} /\ 8 \in S
        BY FormatAssumption
    <2>2. Max(S) \in S
        BY <2>1, GreatestMark
    <2> QED
        BY <1>2, <2>1, <2>2 DEF BitDepthFromPixelFormat
<1> QED
    BY <1>1, <1>2

\* Of the three formats the service asks for, it reads the depth ffmpeg
\* gives them, reported or not.
LEMMA OwnFormatsRead ==
    ASSUME NEW f \in {Eight, Ten, Twelve}, NEW known \in BOOLEAN
    PROVE  BitDepthFromPixelFormat(f, known) = Bits[f]
<1>1. CASE known
    BY <1>1 DEF BitDepthFromPixelFormat
<1>2. CASE ~known
    <2> DEFINE S == Marks[f] \union {8}
    <2>1. S \in SUBSET {8, 9, 10, 12, 16} /\ 8 \in S
        BY FormatAssumption
    <2>2. Max(S) \in S /\ \A n \in S : n <= Max(S)
        BY <2>1, GreatestMark
    <2>3. Bits[f] \in S /\ S \subseteq {8, Bits[f]} /\ Bits[f] \in {8, 10, 12}
        BY FormatAssumption
    <2>4. Max(S) = Bits[f]
        BY <2>2, <2>3
    <2> QED
        BY <1>2, <2>4 DEF BitDepthFromPixelFormat
<1> QED
    BY <1>1, <1>2

\* The format chosen for a depth that can be produced has it.
LEMMA FormatHasDepth ==
    ASSUME NEW r \in Requests, NEW depth \in Nat, CanProduce(r, depth)
    PROVE  /\ FormatOfDepth(depth) \in {Eight, Ten, Twelve}
           /\ Bits[FormatOfDepth(depth)] >= depth
BY FormatAssumption DEF CanProduce, FormatOfDepth

\* outputPixelFormat never aims below what was demanded.
LEMMA OutputDepthDemanded ==
    ASSUME NEW r \in Requests, NEW i \in Infos
    PROVE  /\ OutputDepth(r, i) \in Nat
           /\ r.bitDepth = "8" => OutputDepth(r, i) = 8
           /\ r.bitDepth = "10" => OutputDepth(r, i) = 10
           /\ r.bitDepth = "copy" =>
                 /\ OutputDepth(r, i) >= i.bitDepth
                 /\ r.hdrMode = "hdr" => OutputDepth(r, i) >= 10
<1>1. r.bitDepth \in {"8", "10", "copy"}
    BY DEF Requests
<1>2. i.bitDepth \in Nat
    BY DEF Infos
<1> QED
    BY <1>1, <1>2 DEF OutputDepth

LEMMA ProbeTyped ==
    ASSUME NEW v \in Sources
    PROVE  ProbeMedia(v) \in Infos
<1>1. v.pixFmt \in PixelFormats /\ v.rawBits \in BOOLEAN /\ v.transfer \in Transfers
    BY SourceAssumption DEF VideoFile
<1>2. BitDepthFromPixelFormat(v.pixFmt, v.rawBits) \in Nat
    BY <1>1, DepthIsNumber
<1> QED
    BY <1>1, <1>2 DEF ProbeMedia, Infos

LEMMA PlanTyped ==
    ASSUME NEW r \in Requests, NEW i \in Infos
    PROVE  BuildFFmpegArgs(r, i) \in Plans
<1>1. HDRTransferTag(i) \in Transfers
    BY DEF HDRTransferTag, Transfers
<1>2. TransferTag(r, i) \in {"none"} \union Transfers
    BY <1>1 DEF TransferTag, Transfers
<1>3. SubtitleCodec(r, i) \in {"drop", "copy", "mov_text"}
    BY DEF SubtitleCodec, Requests, Mp4Family
<1>4. MapsSubtitles(r, i) \in BOOLEAN
    BY DEF MapsSubtitles, Requests
<1>5. FormatOfDepth(OutputDepth(r, i)) \in {"none", Eight, Ten, Twelve}
    BY DEF FormatOfDepth
<1> DEFINE a == BuildFFmpegArgs(r, i)
<1>6. /\ (IF Copies(r) THEN "none" ELSE FormatOfDepth(OutputDepth(r, i)))
             \in {"none", Eight, Ten, Twelve}
      /\ (~Copies(r) /\ i.isHDR /\ r.hdrMode = "sdr") \in BOOLEAN
      /\ (IF Copies(r) THEN "none" ELSE TransferTag(r, i)) \in {"none"} \union Transfers
    BY <1>2, <1>5
<1> QED
    BY <1>3, <1>4, <1>6 DEF BuildFFmpegArgs, Plans

-----------------------------------------------------------------------------
(***************************************************************************)
(* The invariant.                                                          *)
(***************************************************************************)
LEMMA InitOK == Init => IInv
BY DEF Init, IInv, TypeOK, Stages, Computed, Encoded

LEMMA RefuseOK ==
    ASSUME TypeOK, stage # "refused", Refuse
    PROVE  IInv'
BY DEF TypeOK, Refuse, IInv, Computed, Encoded, Stages

LEMMA StepOK == IInv /\ [Next]_vars => IInv'
<1> SUFFICES ASSUME IInv, [Next]_vars PROVE IInv'
    OBVIOUS
<1> USE DEF Stages
<1>1. TypeOK
    BY DEF IInv
<1>2. CASE Probe
    <2>1. info' \in Infos
        BY <1>1, <1>2, ProbeTyped DEF Probe, TypeOK
    <2> QED
        BY <1>1, <1>2, <2>1 DEF Probe, IInv, TypeOK, Computed, Encoded
<1>3. CASE Build
    <2>1. req \in Requests /\ info \in Infos
        BY <1>1, <1>3 DEF Build, TypeOK
    <2>2. plan' \in Plans
        BY <1>3, <2>1, PlanTyped DEF Build
    <2>3. TypeOK'
        BY <1>1, <1>3, <2>1, <2>2 DEF Build, TypeOK
    <2>4. Computed'
        BY <1>3 DEF Build, IInv, Computed
    <2> QED
        BY <1>3, <2>3, <2>4 DEF Build, IInv, Encoded
<1>4. CASE BuildRefused
    BY <1>1, <1>4, RefuseOK DEF BuildRefused
<1>5. CASE EncodeCopy
    <2>1. source \in VideoFile
        BY <1>1, SourceAssumption DEF TypeOK
    <2>2. output' \in Outputs /\ output'.tag = output'.pixels
        BY <1>5, <2>1 DEF EncodeCopy, VideoFile, Outputs
    <2>3. TypeOK'
        BY <1>1, <1>5, <2>2 DEF EncodeCopy, TypeOK
    <2>4. Computed'
        BY <1>5 DEF EncodeCopy, IInv, Computed
    <2> QED
        BY <1>5, <2>2, <2>3, <2>4 DEF EncodeCopy, IInv, Encoded
<1>6. CASE Encode
    <2> DEFINE pixels == IF plan.toRec709 THEN "bt709" ELSE source.transfer
               tag == IF plan.tag = "none" THEN pixels ELSE plan.tag
    <2>1. source.transfer \in Transfers /\ plan \in Plans
        BY <1>1, <1>6, SourceAssumption DEF TypeOK, VideoFile, Encode
    <2>2. pixels \in Transfers /\ tag \in Transfers
        BY <2>1 DEF Plans, Transfers
    <2>3. PICK f \in {Eight, Ten, Twelve}, known \in BOOLEAN :
              output' = [pixFmt |-> f, rawBits |-> known, pixels |-> pixels, tag |-> tag]
        BY <1>6 DEF Encode
    <2>4. f \in PixelFormats
        BY FormatAssumption
    <2>5. output' \in Outputs
        BY <2>2, <2>3, <2>4 DEF Outputs
    <2>6. TypeOK'
        BY <1>1, <1>6, <2>5 DEF Encode, TypeOK
    <2>7. Computed'
        BY <1>6 DEF Encode, IInv, Computed
    <2>8. Encoded'
        BY <1>6, <2>3 DEF Encode, Encoded, Copies
    <2> QED
        BY <1>6, <2>6, <2>7, <2>8 DEF Encode, IInv
<1>7. CASE Fails
    BY <1>1, <1>7, RefuseOK DEF Fails
<1>8. CASE VerifyOk
    <2>1. TypeOK' /\ Computed' /\ Encoded'
        BY <1>1, <1>8 DEF VerifyOk, IInv, TypeOK, Computed, Encoded
    <2>2. Verified'
        BY <1>8 DEF VerifyOk, Verified, ActualDepth, ExpectedDepth
    <2> QED
        BY <2>1, <2>2 DEF IInv
<1>9. CASE VerifyFailed
    BY <1>1, <1>9, RefuseOK DEF VerifyFailed
<1>10. CASE UNCHANGED vars
    BY <1>10 DEF vars, IInv, TypeOK, Computed, Encoded, Verified, ActualDepth, ExpectedDepth
<1> QED
    BY <1>2, <1>3, <1>4, <1>5, <1>6, <1>7, <1>8, <1>9, <1>10 DEF Next, Over

THEOREM Invariant == Spec => []IInv
BY InitOK, StepOK, PTL DEF Spec

-----------------------------------------------------------------------------
(***************************************************************************)
(* What follows from it.                                                   *)
(***************************************************************************)

\* Nothing is used before it was made, and every depth is a number.
THEOREM TypeCorrect == Spec => []TypeOK
<1>1. IInv => TypeOK
    BY DEF IInv
<1> QED
    BY <1>1, Invariant, PTL

\* The check of the output works for every encoder: whichever of the three
\* formats it took, accepted video has the depth that was demanded.
THEOREM DepthCorrect == Spec => []AcceptedKeepsDepth
<1>1. IInv => AcceptedKeepsDepth
    <2> SUFFICES ASSUME IInv, Reencoded
                 PROVE  /\ Bits[output.pixFmt] >= DemandedDepth
                        /\ req.hdrMode = "hdr" /\ req.bitDepth = "copy"
                              => Bits[output.pixFmt] >= 10
        BY DEF AcceptedKeepsDepth
    <2> DEFINE depth == OutputDepth(req, info)
    <2>1. req \in Requests /\ info \in Infos /\ output \in Outputs
        BY DEF IInv, TypeOK, Reencoded
    <2>2. depth \in Nat /\ CanProduce(req, depth)
        BY <2>1, OutputDepthDemanded DEF IInv, Computed, Reencoded
    <2>3. /\ FormatOfDepth(depth) \in {Eight, Ten, Twelve}
          /\ Bits[FormatOfDepth(depth)] >= depth
        BY <2>1, <2>2, FormatHasDepth
    <2>4. output.pixFmt \in {Eight, Ten, Twelve} /\ output.rawBits \in BOOLEAN
        BY <2>1 DEF IInv, Encoded, Reencoded, Outputs
    <2>5. ActualDepth = ExpectedDepth
        BY DEF IInv, Verified, Reencoded
    <2>6. Bits[output.pixFmt] = Bits[FormatOfDepth(depth)]
        BY <2>3, <2>4, <2>5, OwnFormatsRead DEF ActualDepth, ExpectedDepth
    <2>7. Bits[output.pixFmt] >= depth
        BY <2>3, <2>6
    <2>8. Bits[output.pixFmt] \in Nat /\ info.bitDepth \in Nat
        BY <2>1, FormatAssumption DEF Outputs, Infos
    <2>9. req.bitDepth \in {"8", "10", "copy"}
        BY <2>1 DEF Requests
    <2>10. depth >= DemandedDepth /\ DemandedDepth \in Nat
        BY <2>1, <2>2, <2>8, <2>9, OutputDepthDemanded DEF DemandedDepth
    <2>11. req.hdrMode = "hdr" /\ req.bitDepth = "copy" => depth >= 10
        BY <2>1, OutputDepthDemanded
    <2> HIDE DEF depth
    <2> QED
        BY <2>2, <2>7, <2>8, <2>10, <2>11
<1> QED
    BY <1>1, Invariant, PTL

\* What SourcePrecision says of every source, and the code does not do for all
\* (run MediaPrecision), it does for those whose depth is not underestimated,
\* because ffprobe reports it or the format has it in its name.
DepthIsRead == BitDepthFromPixelFormat(source.pixFmt, source.rawBits) >= Bits[source.pixFmt]

THEOREM PrecisionKept == Spec => [](DepthIsRead => SourcePrecision)
<1>1. IInv /\ AcceptedKeepsDepth => (DepthIsRead => SourcePrecision)
    <2> SUFFICES ASSUME IInv, AcceptedKeepsDepth, DepthIsRead, Reencoded, req.bitDepth = "copy"
                 PROVE  Bits[output.pixFmt] >= Bits[source.pixFmt]
        BY DEF SourcePrecision
    <2>1. info = ProbeMedia(source)
        BY DEF IInv, Computed, Reencoded
    <2>2. info.bitDepth = BitDepthFromPixelFormat(source.pixFmt, source.rawBits)
        BY <2>1, Zenon DEF ProbeMedia
    <2>3. Bits[output.pixFmt] >= info.bitDepth
        BY DEF AcceptedKeepsDepth, DemandedDepth
    <2>4. source \in VideoFile /\ output \in Outputs /\ info \in Infos
        BY SourceAssumption DEF IInv, TypeOK, Reencoded
    <2>5. Bits[output.pixFmt] \in Nat /\ Bits[source.pixFmt] \in Nat /\ info.bitDepth \in Nat
        BY <2>4, FormatAssumption DEF Outputs, VideoFile, Infos
    <2> QED
        BY <2>2, <2>3, <2>5 DEF DepthIsRead
<1> QED
    BY <1>1, Invariant, DepthCorrect, PTL

\* The tag of an accepted output fits its pixels: tone mapping and tags are
\* decided by the same condition, and stream copy changes neither.
THEOREM TagsCorrect == Spec => []TagsMatchPixels
<1>1. IInv => TagsMatchPixels
    <2> SUFFICES ASSUME IInv, stage = "accepted",
                        source.transfer \in HDRTransfers \/ ~source.wide
                 PROVE  output.tag = output.pixels
        BY DEF TagsMatchPixels
    <2>1. CASE Copies(req)
        BY <2>1 DEF IInv, Encoded
    <2>2. CASE ~Copies(req)
        <3> DEFINE pixels == IF plan.toRec709 THEN "bt709" ELSE source.transfer
        <3>1. /\ output.pixels = pixels
              /\ output.tag = IF plan.tag = "none" THEN pixels ELSE plan.tag
            BY <2>2 DEF IInv, Encoded
        <3>2. info = ProbeMedia(source) /\ plan = BuildFFmpegArgs(req, info)
            BY DEF IInv, Computed
        <3>3. /\ info.transfer = source.transfer
              /\ info.isHDR = (source.transfer \in HDRTransfers \/ source.wide)
            BY <3>2, Zenon DEF ProbeMedia
        <3>4. /\ plan.toRec709 = (~Copies(req) /\ info.isHDR /\ req.hdrMode = "sdr")
              /\ plan.tag = TransferTag(req, info)
            BY <2>2, <3>2, Zenon DEF BuildFFmpegArgs
        <3>5. info.isHDR <=> source.transfer \in HDRTransfers
            BY <3>3
        <3>6. plan.toRec709 <=> info.isHDR /\ req.hdrMode = "sdr"
            BY <2>2, <3>4
        <3> QED
            BY <3>1, <3>3, <3>4, <3>5, <3>6 DEF TransferTag, HDRTransferTag, HDRTransfers
    <2> QED
        BY <2>1, <2>2
<1> QED
    BY <1>1, Invariant, PTL

\* The two places of buildFFmpegArgs that decide about subtitles agree.
THEOREM SubtitlesCorrect == Spec => []SubtitlesSurvive
<1>1. IInv => SubtitlesSurvive
    <2> SUFFICES ASSUME IInv, stage = "encode", req.subtitles, source.subtitles # <<>>
                 PROVE  Keeps(plan) <=> (Mp4Family(req) => source.subtitles[1] = "text")
        BY DEF SubtitlesSurvive
    <2>1. req \in Requests /\ source \in VideoFile
        BY SourceAssumption DEF IInv, TypeOK
    <2>2. source.subtitles[1] \in {"text", "bitmap"}
        BY <2>1 DEF VideoFile
    <2>3. info = ProbeMedia(source)
        BY DEF IInv, Computed
    <2>4. plan.mapped = MapsSubtitles(req, info) /\ plan.subtitleCodec = SubtitleCodec(req, info)
        BY DEF IInv, Computed, BuildFFmpegArgs
    <2>5. req.container \in {"mp4", "mov", "mkv"}
        BY <2>1 DEF Requests
    <2>6. info.bitmap = (source.subtitles # <<>> /\ IsBitmapSubtitle(Head(source.subtitles)))
        BY <2>3, Zenon DEF ProbeMedia
    <2>7. source.subtitles \in Seq({"text", "bitmap"})
        BY <2>1 DEF VideoFile
    <2>8. Head(source.subtitles) = source.subtitles[1]
        BY <2>7
    <2>9. info.bitmap <=> source.subtitles[1] = "bitmap"
        BY <2>6, <2>8 DEF IsBitmapSubtitle
    <2> QED
        BY <2>2, <2>4, <2>5, <2>9 DEF Keeps, MapsSubtitles, SubtitleCodec, Mp4Family
<1> QED
    BY <1>1, Invariant, PTL
=============================================================================
