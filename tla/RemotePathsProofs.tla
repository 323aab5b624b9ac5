------------------------- MODULE RemotePathsProofs -------------------------
(***************************************************************************)
(* What the code makes of a path, proved of every path: cleaning goes      *)
(* segment by segment and changes nothing the second time, a file keeps    *)
(* its name, and the output is beside the source.  A path may have any     *)
(* length, so this is by induction: from the least number for which a      *)
(* claim fails.                                                            *)
(***************************************************************************)
EXTENDS RemotePaths, Integers, SequenceTheorems, WellFoundedInduction, TLAPS

LEMMA LeastNatural ==
    ASSUME NEW T \in SUBSET Nat, T # {}
    PROVE  \E n \in T : \A k \in T : n <= k
<1> DEFINE R == OpToRel(<, Nat)
<1>1. IsWellFoundedOn(R, Nat)
    BY NatLessThanWellFounded
<1>2. \E x \in T : \A y \in T : ~(<<y, x>> \in R)
    <2> HIDE DEF R
    <2> QED BY <1>1, WFMin
<1>3. \A x, y \in Nat : y < x => <<y, x>> \in R
    BY DEF OpToRel
<1> HIDE DEF R
<1>4. PICK x \in T : \A y \in T : ~(<<y, x>> \in R)
    BY <1>2
<1>5. ASSUME NEW y \in T
      PROVE  x <= y
    <2>1. x \in Nat /\ y \in Nat
        BY <1>4, <1>5
    <2>2. ~(y < x)
        BY <1>3, <1>4, <1>5, <2>1
    <2> QED
        BY <2>1, <2>2
<1> QED
    BY <1>4, <1>5

LEMMA Induct ==
    ASSUME NEW S \in SUBSET Nat, 0 \in S, \A n \in Nat : n \in S => n + 1 \in S
    PROVE  \A n \in Nat : n \in S
<1> SUFFICES ASSUME Nat \ S # {}
             PROVE  FALSE
    OBVIOUS
<1>1. PICK n \in Nat \ S : \A k \in Nat \ S : n <= k
    BY LeastNatural
<1>2. n - 1 \in Nat /\ n - 1 \in S /\ (n - 1) + 1 = n
    BY <1>1
<1> QED
    BY <1>1, <1>2

(***************************************************************************)
(* The function inside Clean.                                              *)
(***************************************************************************)

\* f holds what is left of the first n segments of p, for n up to m.
Cleans(f, p, m) == f = [n \in 0..m |-> IF n = 0 THEN <<>> ELSE Push(f[n - 1], p[n])]

LEMMA CleansExists ==
    ASSUME NEW p, NEW m \in Nat
    PROVE  \E f : Cleans(f, p, m)
<1> DEFINE S == {n \in Nat : \E f : Cleans(f, p, n)}
<1>1. 0 \in S
    <2> DEFINE f == [n \in 0..0 |-> <<>>]
    <2>1. f = [n \in 0..0 |-> IF n = 0 THEN <<>> ELSE Push(f[n - 1], p[n])]
        OBVIOUS
    <2> QED
        BY <2>1 DEF Cleans
<1>2. ASSUME NEW n \in Nat, n \in S
      PROVE  n + 1 \in S
    <2>1. PICK f : Cleans(f, p, n)
        BY <1>2
    <2> DEFINE g == [k \in 0..(n + 1) |-> IF k = n + 1 THEN Push(f[n], p[n + 1]) ELSE f[k]]
               h == [k \in 0..(n + 1) |-> IF k = 0 THEN <<>> ELSE Push(g[k - 1], p[k])]
    <2>2. ASSUME NEW k \in 0..(n + 1)
          PROVE  g[k] = h[k]
        <3>1. CASE k = n + 1
            <4>1. k # 0 /\ k - 1 = n /\ n \in 0..(n + 1) /\ n # n + 1
                BY <3>1
            <4>2. g[n] = f[n]
                BY <4>1
            <4> QED
                BY <3>1, <4>1, <4>2
        <3>2. CASE k # n + 1
            <4>1. k \in 0..n /\ g[k] = f[k]
                BY <3>2
            <4>2. f[k] = IF k = 0 THEN <<>> ELSE Push(f[k - 1], p[k])
                BY <2>1, <4>1 DEF Cleans
            <4>3. k # 0 => k - 1 \in 0..(n + 1) /\ k - 1 # n + 1
                BY <4>1
            <4>4. k # 0 => g[k - 1] = f[k - 1]
                BY <4>3
            <4> QED
                BY <4>1, <4>2, <4>4
        <3> QED
            BY <3>1, <3>2
    <2>3. g = h
        BY <2>2
    <2>4. Cleans(g, p, n + 1)
        BY <2>3 DEF Cleans
    <2> HIDE DEF g, h
    <2> QED
        BY <2>4
<1> HIDE DEF S
<1>3. \A n \in Nat : n \in S
    <2>1. S \in SUBSET Nat
        BY DEF S
    <2> QED
        BY <1>1, <1>2, <2>1, Induct
<1> QED
    BY <1>3 DEF S

\* What is left of a beginning does not depend on the rest.
LEMMA CleansAgree ==
    ASSUME NEW p, NEW q, NEW m \in Nat, NEW n \in Nat, m <= n,
           \A k \in 1..m : p[k] = q[k],
           NEW f, Cleans(f, p, m), NEW g, Cleans(g, q, n)
    PROVE  \A k \in 0..m : f[k] = g[k]
<1> DEFINE S == {k \in Nat : k <= m => f[k] = g[k]}
<1>1. 0 \in S
    <2>1. 0 \in 0..m /\ 0 \in 0..n
        OBVIOUS
    <2> QED
        BY <2>1 DEF Cleans
<1>2. ASSUME NEW k \in Nat, k \in S
      PROVE  k + 1 \in S
    <2> SUFFICES ASSUME k + 1 <= m
                 PROVE  f[k + 1] = g[k + 1]
        OBVIOUS
    <2>1. k + 1 \in 0..m /\ k + 1 \in 0..n /\ k + 1 # 0 /\ (k + 1) - 1 = k /\ k + 1 \in 1..m
        OBVIOUS
    <2>2. f[k + 1] = Push(f[k], p[k + 1])
        BY <2>1 DEF Cleans
    <2>3. g[k + 1] = Push(g[k], q[k + 1])
        BY <2>1 DEF Cleans
    <2>4. f[k] = g[k]
        BY <1>2
    <2> QED
        BY <2>1, <2>2, <2>3, <2>4
<1> HIDE DEF S
<1>3. \A k \in Nat : k \in S
    <2>1. S \in SUBSET Nat
        BY DEF S
    <2> QED
        BY <1>1, <1>2, <2>1, Induct
<1> QED
    BY <1>3 DEF S

LEMMA CleanIs ==
    ASSUME NEW p, Len(p) \in Nat
    PROVE  \E f : Cleans(f, p, Len(p)) /\ Clean(p) = f[Len(p)]
<1> DEFINE cleaned == CHOOSE f : f = [n \in 0..Len(p) |-> IF n = 0 THEN <<>> ELSE Push(f[n - 1], p[n])]
<1>1. \E f : f = [n \in 0..Len(p) |-> IF n = 0 THEN <<>> ELSE Push(f[n - 1], p[n])]
    BY CleansExists DEF Cleans
<1>2. cleaned = [n \in 0..Len(p) |-> IF n = 0 THEN <<>> ELSE Push(cleaned[n - 1], p[n])]
    BY <1>1
<1>3. Clean(p) = cleaned[Len(p)]
    BY DEF Clean
<1> HIDE DEF cleaned
<1> QED
    BY <1>2, <1>3 DEF Cleans

LEMMA CleanEmpty == Clean(<<>>) = <<>>
<1>1. Len(<<>>) = 0
    BY EmptySeq
<1>2. PICK f : Cleans(f, <<>>, 0) /\ Clean(<<>>) = f[0]
    BY <1>1, CleanIs
<1> QED
    BY <1>2 DEF Cleans

\* A path is cleaned segment by segment.
LEMMA CleanAppend ==
    ASSUME NEW S, NEW p \in Seq(S), NEW s \in S
    PROVE  Clean(Append(p, s)) = Push(Clean(p), s)
<1> DEFINE q == Append(p, s)
           m == Len(p)
<1>1. q \in Seq(S) /\ Len(q) = m + 1 /\ m \in Nat /\ q[m + 1] = s /\ \A i \in 1..m : p[i] = q[i]
    BY AppendProperties, LenProperties
<1> HIDE DEF q
<1>2. PICK f : Cleans(f, p, m) /\ Clean(p) = f[m]
    BY <1>1, CleanIs
<1> HIDE DEF m
<1>3. PICK g : Cleans(g, q, m + 1) /\ Clean(q) = g[m + 1]
    <2>1. Len(q) \in Nat
        BY <1>1
    <2> QED
        BY <1>1, <2>1, CleanIs
<1>4. f[m] = g[m]
    BY <1>1, <1>2, <1>3, CleansAgree
<1>5. g[m + 1] = Push(g[m], q[m + 1])
    <2>1. m + 1 \in 0..(m + 1) /\ m + 1 # 0 /\ (m + 1) - 1 = m
        BY <1>1
    <2> QED
        BY <1>3, <2>1 DEF Cleans
<1> QED
    BY <1>1, <1>2, <1>3, <1>4, <1>5 DEF q

(***************************************************************************)
(* Clean paths: of names only.                                             *)
(***************************************************************************)
Ordinary == Segments \ {Nothing, Here, Up}

LEMMA PathBy ==
    ASSUME NEW S, NEW T \in SUBSET Seq(S), <<>> \in T,
           \A p \in T, s \in S : Append(p, s) \in T
    PROVE  \A p \in Seq(S) : p \in T
<1> DEFINE L == {n \in Nat : \A p \in Seq(S) : Len(p) = n => p \in T}
<1>1. 0 \in L
    BY EmptySeq
<1>2. ASSUME NEW n \in Nat, n \in L
      PROVE  n + 1 \in L
    <2> SUFFICES ASSUME NEW p \in Seq(S), Len(p) = n + 1
                 PROVE  p \in T
        OBVIOUS
    <2>1. p # <<>>
        BY EmptySeq
    <2>2. PICK q \in Seq(S), s \in S : p = Append(q, s)
        BY <2>1, SequenceEmptyOrAppend
    <2>3. Len(p) = Len(q) + 1 /\ Len(q) \in Nat
        BY <2>2, AppendProperties, LenProperties
    <2>4. q \in T
        BY <1>2, <2>3
    <2> QED
        BY <2>2, <2>4
<1> HIDE DEF L
<1>3. \A n \in Nat : n \in L
    <2>1. L \in SUBSET Nat
        BY DEF L
    <2> QED
        BY <1>1, <1>2, <2>1, Induct
<1> QED
    BY <1>3, LenProperties DEF L

LEMMA FrontOfAppend ==
    ASSUME NEW S, NEW p \in Seq(S), NEW s \in S
    PROVE  Front(Append(p, s)) = p /\ Last(Append(p, s)) = s
<1> DEFINE q == Append(p, s)
<1>1. q \in Seq(S) /\ Len(q) = Len(p) + 1 /\ Len(p) \in Nat /\ q[Len(p) + 1] = s /\ \A i \in 1..Len(p) : q[i] = p[i]
    BY AppendProperties, LenProperties
<1> HIDE DEF q
<1>2. Last(q) = s
    BY <1>1 DEF Last
<1>3. /\ SubSeq(q, 1, Len(p)) \in Seq(S)
      /\ Len(SubSeq(q, 1, Len(p))) = Len(p)
      /\ \A i \in 1..Len(p) : SubSeq(q, 1, Len(p))[i] = p[i]
    <2>1. \A i \in 1..Len(p) : q[i] \in S
        BY <1>1, LenProperties
    <2>2. 1 \in Int /\ Len(p) \in Int
        BY <1>1
    <2>3. /\ SubSeq(q, 1, Len(p)) \in Seq(S)
          /\ Len(SubSeq(q, 1, Len(p))) = IF 1 <= Len(p) THEN Len(p) - 1 + 1 ELSE 0
          /\ \A i \in 1..(Len(p) - 1 + 1) : SubSeq(q, 1, Len(p))[i] = q[1 + i - 1]
        BY <2>1, <2>2, SubSeqProperties
    <2> QED
        BY <1>1, <2>3
<1>4. SubSeq(q, 1, Len(p)) = p
    BY <1>3, SeqEqual
<1>5. Front(q) = SubSeq(q, 1, Len(q) - 1)
    BY DEF Front
<1> QED
    BY <1>1, <1>2, <1>4, <1>5 DEF q

LEMMA PushOrdinary ==
    ASSUME NEW p \in Seq(Ordinary), NEW s \in Segments
    PROVE  Push(p, s) \in Seq(Ordinary) /\ (s \in Ordinary => Push(p, s) = Append(p, s))
<1>1. CASE s \in {Nothing, Here}
    BY <1>1 DEF Push, Ordinary
<1>2. CASE s = Up /\ s \notin {Nothing, Here}
    <2>1. <<>> \in Seq(Ordinary)
        BY EmptySeq
    <2>2. p # <<>> => Front(p) \in Seq(Ordinary)
        <3> SUFFICES ASSUME p # <<>>
                     PROVE  Front(p) \in Seq(Ordinary)
            OBVIOUS
        <3>1. PICK q \in Seq(Ordinary), r \in Ordinary : p = Append(q, r)
            BY SequenceEmptyOrAppend
        <3> QED
            BY <3>1, FrontOfAppend
    <2>3. s \notin Ordinary
        BY <1>2 DEF Ordinary
    <2> QED
        BY <1>2, <2>1, <2>2, <2>3 DEF Push
<1>3. CASE s \in Ordinary
    <2>1. Push(p, s) = Append(p, s)
        BY <1>3 DEF Push, Ordinary
    <2> QED
        BY <1>3, <2>1, AppendProperties
<1> QED
    BY <1>1, <1>2, <1>3 DEF Ordinary

LEMMA CleanOrdinary ==
    ASSUME NEW p \in Seq(Segments)
    PROVE  Clean(p) \in Seq(Ordinary)
<1> DEFINE T == {q \in Seq(Segments) : Clean(q) \in Seq(Ordinary)}
<1>1. <<>> \in T
    BY CleanEmpty, EmptySeq
<1>2. ASSUME NEW q \in T, NEW s \in Segments
      PROVE  Append(q, s) \in T
    <2>1. q \in Seq(Segments) /\ Clean(q) \in Seq(Ordinary)
        OBVIOUS
    <2>2. Clean(Append(q, s)) = Push(Clean(q), s)
        BY <2>1, CleanAppend
    <2>3. Push(Clean(q), s) \in Seq(Ordinary)
        BY <2>1, PushOrdinary
    <2>4. Append(q, s) \in Seq(Segments)
        BY <2>1, AppendProperties
    <2> QED
        BY <2>2, <2>3, <2>4
<1>3. T \in SUBSET Seq(Segments)
    OBVIOUS
<1> HIDE DEF T
<1>4. p \in T
    BY <1>1, <1>2, <1>3, PathBy
<1> QED
    BY <1>4 DEF T

LEMMA OrdinaryClean ==
    ASSUME NEW p \in Seq(Ordinary)
    PROVE  Clean(p) = p
<1> DEFINE T == {q \in Seq(Ordinary) : Clean(q) = q}
<1>1. <<>> \in T
    BY CleanEmpty, EmptySeq
<1>2. ASSUME NEW q \in T, NEW s \in Ordinary
      PROVE  Append(q, s) \in T
    <2>1. q \in Seq(Ordinary) /\ Clean(q) = q
        OBVIOUS
    <2>2. Clean(Append(q, s)) = Push(q, s)
        BY <2>1, CleanAppend
    <2>3. Push(q, s) = Append(q, s)
        BY <2>1, PushOrdinary DEF Ordinary
    <2>4. Append(q, s) \in Seq(Ordinary)
        BY <2>1, AppendProperties
    <2> QED
        BY <2>2, <2>3, <2>4
<1>3. T \in SUBSET Seq(Ordinary)
    OBVIOUS
<1> HIDE DEF T
<1>4. p \in T
    BY <1>1, <1>2, <1>3, PathBy
<1> QED
    BY <1>4 DEF T

\* path.Clean has nothing to do a second time: what cleanRemotePath receives
\* from buildRelativePath or buildRemoteOutputPath stays as it is.
THEOREM CleanIdempotent ==
    ASSUME NEW p \in Seq(Segments)
    PROVE  Clean(Clean(p)) = Clean(p)
BY CleanOrdinary, OrdinaryClean

(***************************************************************************)
(* Files: what a request is sent for, and where the output goes.           *)
(***************************************************************************)
LEMMA Unblank ==
    ASSUME NEW t \in {Nothing, Here, Up}
    PROVE  t.blank = FALSE
<1>1. Nothing.blank = FALSE
    BY DEF Nothing, Segment
<1>2. Here.blank = FALSE
    BY DEF Here, Segment
<1>3. Up.blank = FALSE
    BY DEF Up, Segment
<1> QED
    BY <1>1, <1>2, <1>3

LEMMA ExtensionsEmpty ==
    ASSUME NEW t \in {Nothing, Here, Up}
    PROVE  t.ext = ""
<1>1. Nothing.ext = ""
    BY DEF Nothing, Segment
<1>2. Here.ext = ""
    BY DEF Here, Segment
<1>3. Up.ext = ""
    BY DEF Up, Segment
<1> QED
    BY <1>1, <1>2, <1>3

\* What sanitizeFilename lets through, or puts in its place, with the suffix.
LEMMA ConvertedDiffers ==
    ASSUME NEW text \in STRING, Extends(text), Extends("video")
    PROVE  Converted(text) \in STRING \ {text}
BY DEF Extends, Converted, SanitizeFilename

LEMMA TrimmedTyped ==
    ASSUME NEW s \in Segments
    PROVE  /\ Trimmed(s) \in Segments
           /\ Trimmed(s).text = s.text
           /\ ~s.blank => Trimmed(s) = s
BY DEF Trimmed, Segments

LEMMA NamesOrdinary ==
    ASSUME NEW s, IsName(s)
    PROVE  /\ s \in Segments /\ s \in Ordinary
           /\ Trimmed(s) \in Ordinary /\ Trimmed(s).text = s.text
           /\ ~s.blank => Trimmed(s) = s
<1>1. s \in Segments /\ Trimmed(s) \notin {Nothing, Here, Up}
    BY DEF IsName
<1>2. Trimmed(s) \in Segments /\ Trimmed(s).text = s.text /\ (~s.blank => Trimmed(s) = s)
    BY <1>1, TrimmedTyped
<1>3. \A t \in {Nothing, Here, Up} : t.blank = FALSE
    BY Unblank
<1>4. s.blank = TRUE \/ Trimmed(s) = s
    BY <1>1, <1>2 DEF Segments
<1> QED
    BY <1>1, <1>2, <1>3, <1>4 DEF Ordinary

LEMMA TrimAppend ==
    ASSUME NEW p \in Seq(Segments), NEW s \in Segments
    PROVE  TrimSpace(Append(p, s)) = Append(p, Trimmed(s))
<1> DEFINE q == Append(p, s)
           r == Append(p, Trimmed(s))
           m == Len(p) + 1
<1>1. Trimmed(s) \in Segments
    BY TrimmedTyped
<1>2. /\ q \in Seq(Segments) /\ q # <<>> /\ Len(q) = m /\ q[m] = s
      /\ \A i \in 1..Len(p) : q[i] = p[i]
    BY AppendProperties
<1>3. /\ r \in Seq(Segments) /\ Len(r) = m /\ r[m] = Trimmed(s)
      /\ \A i \in 1..Len(p) : r[i] = p[i]
    BY <1>1, AppendProperties
<1>4. Len(p) \in Nat /\ m \in 1..m
    BY LenProperties
<1>5. TrimSpace(q) = [q EXCEPT ![m].blank = FALSE]
    BY <1>2 DEF TrimSpace
<1> HIDE DEF q, r
<1>6. TrimSpace(q) = [q EXCEPT ![m] = Trimmed(s)]
    BY <1>2, <1>5 DEF Trimmed
<1>7. /\ [q EXCEPT ![m] = Trimmed(s)] \in Seq(Segments)
      /\ Len([q EXCEPT ![m] = Trimmed(s)]) = m
      /\ \A j \in 1..m : [q EXCEPT ![m] = Trimmed(s)][j] = IF j = m THEN Trimmed(s) ELSE q[j]
    BY <1>1, <1>2, <1>4, ExceptSeq
<1>8. \A j \in 1..m : [q EXCEPT ![m] = Trimmed(s)][j] = r[j]
    BY <1>2, <1>3, <1>4, <1>7
<1>9. [q EXCEPT ![m] = Trimmed(s)] = r
    BY <1>3, <1>7, <1>8, SeqEqual
<1> QED
    BY <1>6, <1>9 DEF q, r

LEMMA TrimTyped ==
    ASSUME NEW p \in Seq(Segments)
    PROVE  /\ TrimSpace(p) \in Seq(Segments)
           /\ (\A n \in 1..Len(p) : ~p[n].blank) => TrimSpace(p) = p
<1>1. CASE p = <<>>
    BY <1>1 DEF TrimSpace
<1>2. CASE p # <<>>
    <2>1. PICK q \in Seq(Segments), s \in Segments : p = Append(q, s)
        BY <1>2, SequenceEmptyOrAppend
    <2>2. TrimSpace(p) = Append(q, Trimmed(s)) /\ Append(q, Trimmed(s)) \in Seq(Segments)
        BY <2>1, TrimAppend, TrimmedTyped, AppendProperties
    <2>3. Len(p) \in 1..Len(p) /\ p[Len(p)] = s
        BY <2>1, AppendProperties, LenProperties
    <2> QED
        BY <2>1, <2>2, <2>3, TrimmedTyped
<1> QED
    BY <1>1, <1>2

LEMMA CleanFile ==
    ASSUME NEW p \in Seq(Segments), NEW s \in Ordinary
    PROVE  Clean(Append(p, s)) = Append(Clean(p), s) /\ Clean(p) \in Seq(Ordinary)
<1>1. s \in Segments
    BY DEF Ordinary
<1> QED
    BY <1>1, CleanAppend, CleanOrdinary, PushOrdinary

LEMMA SentFor ==
    ASSUME NEW p \in Seq(Segments), NEW s \in Segments, Trimmed(s) \in Ordinary
    PROVE  /\ CleanRemotePath(Append(p, s)) \in {Append(Clean(p), Trimmed(s)), Refused}
           /\ Refused # Append(Clean(p), Trimmed(s))
<1>1. TrimSpace(Append(p, s)) = Append(p, Trimmed(s))
    BY TrimAppend
<1>2. Clean(Append(p, Trimmed(s))) = Append(Clean(p), Trimmed(s)) /\ Clean(p) \in Seq(Ordinary)
    BY CleanFile
<1>3. Append(Clean(p), Trimmed(s)) # <<>>
    BY <1>2, AppendProperties
<1> QED
    BY <1>1, <1>2, <1>3 DEF CleanRemotePath, Refused

\* A request for a file whose name does not end in a blank is sent for that
\* file, however its directory was written, or not sent at all.
THEOREM RequestsForTheFile ==
    ASSUME NEW p \in Seq(Segments), NEW s, IsName(s), ~s.blank
    PROVE  CleanRemotePath(Append(p, s)) \in {Clean(Append(p, s)), Refused}
<1>1. s \in Segments /\ s \in Ordinary /\ Trimmed(s) = s
    BY NamesOrdinary
<1> QED
    BY <1>1, SentFor, CleanFile

\* buildRelativePath cleans the directory and leaves the name.
THEOREM RelativePathKeepsName ==
    ASSUME NEW d \in Seq(Segments), NEW s, IsName(s)
    PROVE  BuildRelativePath(d, s) = Append(Clean(TrimSpace(d)), s)
<1> DEFINE c == Clean(TrimSpace(d))
<1>1. s \in Ordinary /\ s \in Segments
    BY NamesOrdinary
<1>2. c \in Seq(Ordinary) /\ Clean(c) = c
    BY TrimTyped, CleanOrdinary, CleanIdempotent
<1>3. c \in Seq(Segments)
    BY <1>2, SeqMonotonic DEF Ordinary
<1> HIDE DEF c
<1>4. Clean(Append(c, s)) = Append(c, s)
    BY <1>1, <1>2, <1>3, CleanFile
<1>5. BuildRelativePath(d, s) = IF c = <<>> THEN <<s>> ELSE Clean(Append(c, s))
    BY DEF BuildRelativePath, c
<1>6. c = <<>> => Append(c, s) = <<s>>
    BY <1>1
<1> QED
    BY <1>4, <1>5, <1>6 DEF c

\* The output is stored in the folder that the source was read from, and not
\* under the source's name.
THEOREM OutputBeside ==
    ASSUME NEW p \in Seq(Segments), NEW s, IsName(s), NEW c \in STRING, c # "",
           Extends(s.text), Extends("video"),
           CleanRemotePath(Append(p, s)) # Refused,
           CleanRemotePath(BuildRemoteOutputPath(Append(p, s), s, c)) # Refused
    PROVE  LET source == CleanRemotePath(Append(p, s))
               out == CleanRemotePath(BuildRemoteOutputPath(Append(p, s), s, c))
           IN  Front(out) = Front(source) /\ out # source
<1> DEFINE source == CleanRemotePath(Append(p, s))
           out == CleanRemotePath(BuildRemoteOutputPath(Append(p, s), s, c))
           name == Segment(Converted(s.text), c)
<1>1. s \in Segments /\ Trimmed(s) \in Ordinary /\ Trimmed(s).text = s.text
    BY NamesOrdinary
<1>2. source = Append(Clean(p), Trimmed(s))
    BY <1>1, SentFor
<1>3. Clean(p) \in Seq(Ordinary) /\ Clean(Clean(p)) = Clean(p)
    BY CleanOrdinary, CleanIdempotent
<1>4. Clean(p) \in Seq(Segments)
    BY <1>3, SeqMonotonic DEF Ordinary
<1>5. name \in Segments /\ Trimmed(name) = name /\ name \in Ordinary /\ name.text = Converted(s.text)
    <2>1. Converted(s.text) \in STRING
        BY <1>1, ConvertedDiffers DEF Segments
    <2>2. /\ name = [text |-> Converted(s.text), ext |-> c, blank |-> FALSE]
          /\ name.text = Converted(s.text) /\ name.ext = c /\ ~name.blank
        BY DEF Segment
    <2> HIDE DEF name
    <2>3. name \in Segments
        BY <2>1, <2>2 DEF Segments
    <2>4. Trimmed(name) = name
        BY <2>2, <2>3, TrimmedTyped
    <2>5. \A t \in {Nothing, Here, Up} : t.ext = ""
        BY ExtensionsEmpty
    <2> QED
        BY <2>2, <2>3, <2>4, <2>5 DEF Ordinary
<1>6. BuildRemoteOutputPath(Append(p, s), s, c) = Append(Clean(p), name)
    <2>1. Front(Append(p, s)) = p
        BY <1>1, FrontOfAppend
    <2> QED
        BY <2>1 DEF BuildRemoteOutputPath
<1> HIDE DEF name
<1>7. out = Append(Clean(p), name)
    BY <1>3, <1>4, <1>5, <1>6, SentFor
<1>8. Front(source) = Clean(p) /\ Last(source) = Trimmed(s)
    BY <1>1, <1>2, <1>3, FrontOfAppend
<1>9. Front(out) = Clean(p) /\ Last(out) = name
    <2> HIDE DEF out
    <2> QED
        BY <1>3, <1>5, <1>7, FrontOfAppend
<1>10. name # Trimmed(s)
    BY <1>1, <1>5, ConvertedDiffers DEF Segments
<1> QED
    BY <1>8, <1>9, <1>10
=============================================================================
