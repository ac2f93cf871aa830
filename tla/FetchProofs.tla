----------------------------- MODULE FetchProofs -----------------------------
(***************************************************************************)
(* Proofs about Robots and Fetch.  First the reader of a robots.txt, for   *)
(* files, tokens and paths of any length: a pattern matches what it        *)
(* describes, and the parser, the choice of the group and the verdict give *)
(* what the lines say.  Then the client, for any number of workers, pages, *)
(* hosts and retries, any robots.txt and any rate: what a host receives    *)
(* fits its rate and the delay it asked for, what one Get may send is      *)
(* bounded, and no page is asked for against a file that was read.         *)
(***************************************************************************)
EXTENDS Fetch, AggregateProofs

----------------------------------------------------------------------------
(* Patterns.                                                               *)

LengthsFold(segs, g) ==
  g = [s \in SUBSET DOMAIN segs |->
         IF s = {} THEN 0 ELSE g[s \ {Max(s)}] + Len(segs[Max(s)])]

\* The length of a pattern is a number.
LEMMA PatternLengthType ==
  ASSUME NEW p \in Pattern
  PROVE  PatternLength(p) \in Nat
<1> DEFINE segs == p.segs
           n == Len(segs)
           step == [d \in Nat \X Text |-> d[1] + Len(d[2])]
           g == CHOOSE h : LengthsFold(segs, h)
           t == [k \in 0..n |-> g[1..k]]
           S == {k \in 0..n : t[k] \in Nat}
<1>1. segs \in Seq(Text) /\ segs # <<>> /\ n \in Nat /\ n # 0
  BY DEF Pattern
<1>2. \A text \in Text : Len(text) \in Nat
  BY DEF Text
<1>3. LengthsFold(segs, g)
  <2>1. step \in [Nat \X Text -> Nat]
    BY <1>2
  <2>2. PICK h \in [SUBSET DOMAIN segs -> Nat] : FoldsBy(step, 0, segs, h)
    <3> HIDE DEF step, segs
    <3> QED
      BY <1>1, <2>1, FoldExists
  <2>3. ASSUME NEW s \in SUBSET DOMAIN segs, s # {}
        PROVE  h[s] = h[s \ {Max(s)}] + Len(segs[Max(s)])
    <3>1. Max(s) \in s
      <4>1. s \subseteq 0..n
        BY <1>1
      <4> QED
        BY <1>1, <2>3, <4>1, MaxIsGreatest
    <3>2. h[s \ {Max(s)}] \in Nat /\ segs[Max(s)] \in Text
      BY <1>1, <3>1
    <3>3. h[s] = step[<<h[s \ {Max(s)}], segs[Max(s)]>>]
      BY <2>2, <2>3 DEF FoldsBy
    <3> QED
      BY <3>2, <3>3
  <2>4. h[{}] = 0
    BY <2>2 DEF FoldsBy
  <2>5. h = [s \in SUBSET DOMAIN segs |->
               IF s = {} THEN 0 ELSE h[s \ {Max(s)}] + Len(segs[Max(s)])]
    <3> HIDE DEF step, segs
    <3> QED
      BY <2>2, <2>3, <2>4
  <2>6. LengthsFold(segs, h)
    BY <2>5 DEF LengthsFold
  <2> QED
    BY <2>6, Zenon
<1>4. FoldLeft(LAMBDA m, seg : m + Len(seg), 0, segs) = g[DOMAIN segs]
  BY DEF FoldLeft, MapThenFoldSet, LengthsFold
<1> HIDE DEF g, segs
<1>5. 0 \in S
  <2>1. g[{}] = 0
    BY <1>3 DEF LengthsFold
  <2> QED
    BY <1>1, <2>1
<1>6. ASSUME NEW k \in 1..n, k - 1 \in S PROVE k \in S
  <2>1. /\ 1..k \in SUBSET DOMAIN segs /\ 1..k # {} /\ Max(1..k) = k
        /\ (1..k) \ {k} = 1 .. k - 1 /\ k - 1 \in 0..n /\ segs[k] \in Text
    BY <1>1, Beginnings
  <2>2. g[1..k] = g[1 .. k - 1] + Len(segs[k])
    BY <1>3, <2>1 DEF LengthsFold
  <2> QED
    BY <1>1, <1>2, <1>6, <2>1, <2>2
<1>7. n \in S
  <2>1. n \in 0..n
    BY <1>1
  <2> HIDE DEF S, n
  <2> QED
    BY <1>1, <1>5, <1>6, <2>1, CountingUp
<1>8. g[DOMAIN segs] \in Nat
  BY <1>1, <1>7
<1>9. PatternLength(p) = g[DOMAIN segs] + n - 1 + IF p.anchored THEN 1 ELSE 0
  BY <1>4 DEF PatternLength, segs
<1> QED
  BY <1>1, <1>8, <1>9

----------------------------------------------------------------------------
(* What a pattern matches.                                                 *)

\* An occurrence, character by character.
LEMMA OccursByCharacter ==
  ASSUME NEW seg \in Text, NEW path \in Text, NEW i \in Nat
  PROVE  OccursAt(seg, path, i) <=>
           /\ i + Len(seg) <= Len(path)
           /\ \A j \in 1 .. Len(seg) : path[i + j] = seg[j]
<1> DEFINE part == SubSeq(path, i + 1, i + Len(seg))
<1>1. /\ Len(seg) \in Nat /\ Len(path) \in Nat
      /\ \A j \in 1 .. Len(path) : path[j] \in Character
  BY DEF Text
<1>2. ASSUME i + Len(seg) <= Len(path)
      PROVE  part = seg <=> \A j \in 1 .. Len(seg) : path[i + j] = seg[j]
  <2>1. \A j \in i + 1 .. i + Len(seg) : path[j] \in Character
    BY <1>1, <1>2
  <2>2. /\ part \in Seq(Character)
        /\ Len(part) = IF i + 1 <= i + Len(seg) THEN i + Len(seg) - (i + 1) + 1 ELSE 0
        /\ \A j \in 1 .. i + Len(seg) - (i + 1) + 1 : part[j] = path[i + 1 + j - 1]
    <3>1. i + 1 \in Int /\ i + Len(seg) \in Int
      BY <1>1
    <3> QED
      BY <2>1, <3>1, SubSeqProperties
  <2>3. Len(part) = Len(seg) /\ \A j \in 1 .. Len(seg) : part[j] = path[i + j]
    <3>1. Len(part) = Len(seg)
      BY <1>1, <2>2
    <3>2. ASSUME NEW j \in 1 .. Len(seg) PROVE part[j] = path[i + j]
      <4>1. j \in 1 .. i + Len(seg) - (i + 1) + 1 /\ i + 1 + j - 1 = i + j
        BY <1>1
      <4> HIDE DEF part
      <4> QED
        BY <2>2, <4>1
    <3> QED
      BY <3>1, <3>2
  <2> HIDE DEF part
  <2>4. (\A j \in 1 .. Len(seg) : path[i + j] = seg[j]) => part = seg
    BY <2>2, <2>3, SeqEqual DEF Text
  <2> QED
    BY <2>3, <2>4
<1> QED
  BY <1>2 DEF OccursAt

LEMMA PrefixIsAtStart ==
  ASSUME NEW seg \in Text, NEW path \in Text
  PROVE  IsPrefix(seg, path) <=> OccursAt(seg, path, 0)
<1>1. SubSeq(seg, 1, Len(seg)) = seg
  BY SubSeqFull DEF Text
<1>2. 0 + Len(seg) = Len(seg) /\ 0 + 1 = 1
  BY DEF Text
<1> QED
  BY <1>1, <1>2 DEF IsPrefix, OccursAt

LEMMA WholeIsThere ==
  ASSUME NEW seg \in Text, NEW path \in Text
  PROVE  path = seg <=> OccursAt(seg, path, 0) /\ Len(seg) = Len(path)
<1>1. Len(seg) \in Nat /\ Len(path) \in Nat
  BY DEF Text
<1>2. OccursAt(seg, path, 0) <=>
        Len(seg) <= Len(path) /\ \A j \in 1 .. Len(seg) : path[j] = seg[j]
  BY <1>1, OccursByCharacter
<1>3. Len(seg) = Len(path) /\ (\A j \in 1 .. Len(seg) : path[j] = seg[j]) => path = seg
  BY SeqEqual DEF Text
<1> QED
  BY <1>1, <1>2, <1>3

LEMMA ReverseOfText ==
  ASSUME NEW text \in Text
  PROVE  /\ Reverse(text) \in Text /\ Len(Reverse(text)) = Len(text)
         /\ \A j \in 1 .. Len(text) : Reverse(text)[j] = text[Len(text) - j + 1]
<1>1. Len(text) \in Nat /\ \A j \in 1 .. Len(text) : text[j] \in Character
  BY DEF Text
<1>2. \A j \in 1 .. Len(text) : text[Len(text) - j + 1] \in Character
  BY <1>1
<1>3. Reverse(text) \in Seq(Character)
  BY <1>1, <1>2 DEF Reverse
<1> QED
  BY <1>1, <1>3 DEF Reverse, Text

LEMMA SuffixIsAtEnd ==
  ASSUME NEW seg \in Text, NEW path \in Text, NEW pos \in 0 .. Len(path)
  PROVE  IsSuffix(seg, SubSeq(path, pos + 1, Len(path))) <=>
           /\ pos + Len(seg) <= Len(path)
           /\ OccursAt(seg, path, Len(path) - Len(seg))
<1> DEFINE rest == SubSeq(path, pos + 1, Len(path))
           m == Len(path) - pos
           n == Len(seg)
<1>1. /\ n \in Nat /\ Len(path) \in Nat /\ m \in Nat
      /\ \A j \in 1 .. Len(path) : path[j] \in Character
  BY DEF Text
<1>2. rest \in Text /\ Len(rest) = m /\ \A j \in 1..m : rest[j] = path[pos + j]
  <2>1. \A j \in pos + 1 .. Len(path) : path[j] \in Character
    BY <1>1
  <2>2. /\ rest \in Seq(Character)
        /\ Len(rest) = IF pos + 1 <= Len(path) THEN Len(path) - (pos + 1) + 1 ELSE 0
        /\ \A j \in 1 .. Len(path) - (pos + 1) + 1 : rest[j] = path[pos + 1 + j - 1]
    <3>1. pos + 1 \in Int /\ Len(path) \in Int
      BY <1>1
    <3> QED
      BY <2>1, <3>1, SubSeqProperties
  <2>3. Len(rest) = m
    BY <1>1, <2>2
  <2>4. ASSUME NEW j \in 1..m PROVE rest[j] = path[pos + j]
    <3>1. j \in 1 .. Len(path) - (pos + 1) + 1 /\ pos + 1 + j - 1 = pos + j
      BY <1>1
    <3> HIDE DEF rest
    <3> QED
      BY <2>2, <3>1
  <2> QED
    BY <2>2, <2>3, <2>4 DEF Text
<1> HIDE DEF rest
<1>3. IsSuffix(seg, rest) <=> OccursAt(Reverse(seg), Reverse(rest), 0)
  BY <1>2, ReverseOfText, PrefixIsAtStart DEF IsSuffix
<1>4. OccursAt(Reverse(seg), Reverse(rest), 0) <=>
        n <= m /\ \A j \in 1..n : Reverse(rest)[j] = Reverse(seg)[j]
  <2>1. /\ Reverse(seg) \in Text /\ Reverse(rest) \in Text
        /\ Len(Reverse(seg)) = n /\ Len(Reverse(rest)) = m
    BY <1>2, ReverseOfText
  <2>2. OccursAt(Reverse(seg), Reverse(rest), 0) <=>
          0 + n <= m /\ \A j \in 1..n : Reverse(rest)[0 + j] = Reverse(seg)[j]
    BY <2>1, OccursByCharacter
  <2> QED
    BY <1>1, <2>2
<1>5. ASSUME n <= m
      PROVE  (\A j \in 1..n : Reverse(rest)[j] = Reverse(seg)[j]) <=>
             (\A i \in 1..n : path[Len(path) - n + i] = seg[i])
  <2>1. ASSUME NEW j \in 1..n
        PROVE  Reverse(rest)[j] = path[Len(path) - j + 1] /\ Reverse(seg)[j] = seg[n - j + 1]
    <3>1. j \in 1..m /\ m - j + 1 \in 1..m /\ pos + (m - j + 1) = Len(path) - j + 1
      BY <1>1, <1>5
    <3>2. Reverse(rest)[j] = rest[m - j + 1]
      BY <1>2, <3>1, ReverseOfText
    <3>3. rest[m - j + 1] = path[pos + (m - j + 1)]
      BY <1>2, <3>1
    <3>4. Reverse(seg)[j] = seg[n - j + 1]
      BY ReverseOfText
    <3> QED
      BY <3>1, <3>2, <3>3, <3>4
  <2>2. ASSUME \A j \in 1..n : Reverse(rest)[j] = Reverse(seg)[j], NEW i \in 1..n
        PROVE  path[Len(path) - n + i] = seg[i]
    <3>1. /\ n - i + 1 \in 1..n /\ Len(path) - (n - i + 1) + 1 = Len(path) - n + i
          /\ n - (n - i + 1) + 1 = i
      BY <1>1
    <3> HIDE DEF n, m
    <3> QED
      BY <2>1, <2>2, <3>1
  <2>3. ASSUME \A i \in 1..n : path[Len(path) - n + i] = seg[i], NEW j \in 1..n
        PROVE  Reverse(rest)[j] = Reverse(seg)[j]
    <3>1. n - j + 1 \in 1..n /\ Len(path) - n + (n - j + 1) = Len(path) - j + 1
      BY <1>1
    <3> HIDE DEF n, m
    <3> QED
      BY <2>1, <2>3, <3>1
  <2> QED
    BY <2>2, <2>3
<1>6. n <= m =>
        (OccursAt(seg, path, Len(path) - n) <=> \A i \in 1..n : path[Len(path) - n + i] = seg[i])
  <2>1. ASSUME n <= m PROVE Len(path) - n \in Nat /\ (Len(path) - n) + n <= Len(path)
    BY <1>1, <2>1
  <2> QED
    BY <2>1, OccursByCharacter
<1>7. n <= m <=> pos + n <= Len(path)
  BY <1>1
<1> QED
  BY <1>3, <1>4, <1>5, <1>6, <1>7 DEF rest

EndFold(path, start, mids, g) ==
  g = [s \in SUBSET DOMAIN mids |->
         IF s = {} THEN start ELSE LeftmostEnd(mids[Max(s)], path, g[s \ {Max(s)}])]

Ends(path) == -1 .. Len(path)

\* Where the leftmost occurrence of a segment ends.
LEMMA LeftmostEndIs ==
  ASSUME NEW seg \in Text, NEW path \in Text, NEW pos \in Ends(path)
  PROVE  /\ LeftmostEnd(seg, path, pos) \in Ends(path)
         /\ pos = NoMatch => LeftmostEnd(seg, path, pos) = NoMatch
         /\ LeftmostEnd(seg, path, pos) # NoMatch =>
              \E i \in pos .. Len(path) :
                OccursAt(seg, path, i) /\ LeftmostEnd(seg, path, pos) = i + Len(seg)
         /\ pos # NoMatch =>
              \A i \in pos .. Len(path) : OccursAt(seg, path, i) =>
                /\ LeftmostEnd(seg, path, pos) # NoMatch
                /\ LeftmostEnd(seg, path, pos) <= i + Len(seg)
<1> DEFINE at == Occurrences(seg, path, pos)
           end == LeftmostEnd(seg, path, pos)
<1>1. Len(seg) \in Nat /\ Len(path) \in Nat /\ NoMatch = -1
  BY DEF Text, NoMatch
<1>2. CASE pos = NoMatch \/ at = {}
  <2>1. end = NoMatch
    BY <1>2 DEF LeftmostEnd
  <2>2. pos # NoMatch => \A i \in pos .. Len(path) : ~OccursAt(seg, path, i)
    BY <1>2 DEF Occurrences
  <2>3. NoMatch \in Ends(path)
    BY <1>1 DEF Ends
  <2> QED
    BY <2>1, <2>2, <2>3
<1>3. CASE pos # NoMatch /\ at # {}
  <2>1. pos \in 0 .. Len(path)
    BY <1>1, <1>3 DEF Ends
  <2>2. at \subseteq Nat
    BY <1>1, <2>1 DEF Occurrences
  <2>3. Min(at) \in at /\ \A i \in at : Min(at) <= i
    <3> HIDE DEF at
    <3> QED
      BY <1>3, <2>2, MinIsMember
  <2>4. end = Min(at) + Len(seg)
    BY <1>3 DEF LeftmostEnd
  <2>5. PICK m \in at : m = Min(at)
    BY <2>3
  <2>6. m \in pos .. Len(path) /\ OccursAt(seg, path, m) /\ m \in Nat
    BY <2>2, <2>5 DEF Occurrences
  <2>7. m + Len(seg) <= Len(path)
    BY <2>6 DEF OccursAt
  <2>8. end = m + Len(seg)
    BY <2>4, <2>5
  <2>9. end \in Ends(path) /\ end # NoMatch
    BY <1>1, <2>6, <2>7, <2>8 DEF Ends
  <2>10. \A i \in pos .. Len(path) : OccursAt(seg, path, i) => m <= i
    BY <2>3, <2>5 DEF Occurrences
  <2>11. \A i \in pos .. Len(path) : OccursAt(seg, path, i) => end <= i + Len(seg)
    BY <1>1, <2>1, <2>6, <2>8, <2>10
  <2>12. \E i \in pos .. Len(path) : OccursAt(seg, path, i) /\ end = i + Len(seg)
    BY <2>6, <2>8
  <2> QED
    BY <1>3, <2>9, <2>11, <2>12
<1> QED
  BY <1>2, <1>3

\* Taking the middle segments one by one.
LEMMA EndTrace ==
  ASSUME NEW mids \in Seq(Text), NEW path \in Text, NEW start \in Ends(path)
  PROVE  \E t \in [0 .. Len(mids) -> Ends(path)] :
           /\ t[0] = start
           /\ t[Len(mids)] =
                FoldLeft(LAMBDA at, seg : LeftmostEnd(seg, path, at), start, mids)
           /\ \A k \in 1 .. Len(mids) : t[k] = LeftmostEnd(mids[k], path, t[k - 1])
<1> DEFINE V == Ends(path)
           step == [d \in V \X Text |-> LeftmostEnd(d[2], path, d[1])]
           g == CHOOSE h : EndFold(path, start, mids, h)
<1>1. step \in [V \X Text -> V]
  BY LeftmostEndIs
<1>2. \A s \in SUBSET DOMAIN mids : s # {} => Max(s) \in s /\ mids[Max(s)] \in Text
  <2> SUFFICES ASSUME NEW s \in SUBSET DOMAIN mids, s # {}
               PROVE  Max(s) \in s /\ mids[Max(s)] \in Text
    OBVIOUS
  <2>1. s \subseteq 0 .. Len(mids) /\ Len(mids) \in Nat
    OBVIOUS
  <2>2. Max(s) \in s
    BY <2>1, MaxIsGreatest
  <2> QED
    BY <2>2
<1>3. EndFold(path, start, mids, g)
  <2>1. PICK h \in [SUBSET DOMAIN mids -> V] : FoldsBy(step, start, mids, h)
    <3> HIDE DEF step, V
    <3> QED
      BY <1>1, FoldExists DEF V
  <2>2. ASSUME NEW s \in SUBSET DOMAIN mids, s # {}
        PROVE  h[s] = LeftmostEnd(mids[Max(s)], path, h[s \ {Max(s)}])
    <3>1. h[s \ {Max(s)}] \in V /\ mids[Max(s)] \in Text
      BY <1>2, <2>2
    <3>2. h[s] = step[<<h[s \ {Max(s)}], mids[Max(s)]>>]
      BY <2>1, <2>2 DEF FoldsBy
    <3> QED
      BY <3>1, <3>2
  <2>3. h[{}] = start
    BY <2>1 DEF FoldsBy
  <2>4. EndFold(path, start, mids, h)
    <3> HIDE DEF step, V
    <3> QED
      BY <2>1, <2>2, <2>3 DEF EndFold
  <2> QED
    BY <2>4, Zenon
<1>4. FoldLeft(LAMBDA at, seg : LeftmostEnd(seg, path, at), start, mids) = g[DOMAIN mids]
  BY DEF FoldLeft, MapThenFoldSet, EndFold
<1> HIDE DEF g
<1>5. Folding(V, step, start, mids, g)
  <2>1. g[{}] = start
    BY <1>3 DEF EndFold
  <2>2. ASSUME NEW s \in SUBSET DOMAIN mids, s # {}, g[s \ {Max(s)}] \in V
        PROVE  g[s] = step[<<g[s \ {Max(s)}], mids[Max(s)]>>]
    <3>1. g[s] = LeftmostEnd(mids[Max(s)], path, g[s \ {Max(s)}])
      BY <1>3, <2>2 DEF EndFold
    <3> QED
      BY <1>2, <2>2, <3>1
  <2> QED
    BY <2>1, <2>2 DEF Folding
<1>6. PICK t : Trace(V, step, start, mids, g, t)
  <2>1. start \in V
    OBVIOUS
  <2> HIDE DEF step, V
  <2> QED
    BY <1>1, <1>5, <2>1, FoldTrace
<1>7. ASSUME NEW k \in 1 .. Len(mids) PROVE t[k] = LeftmostEnd(mids[k], path, t[k - 1])
  <2>1. k - 1 \in 0 .. Len(mids) /\ mids[k] \in Text
    OBVIOUS
  <2> QED
    BY <1>6, <2>1 DEF Trace
<1> QED
  BY <1>4, <1>6, <1>7 DEF Trace

\* Where the segments of a pattern stand in a path that it describes.
Placed(p, path, at) ==
  /\ at \in [DOMAIN p.segs -> 0 .. Len(path)]
  /\ at[1] = 0
  /\ \A k \in DOMAIN p.segs :
       /\ OccursAt(p.segs[k], path, at[k])
       /\ k > 1 => at[k] >= at[k - 1] + Len(p.segs[k - 1])
  /\ p.anchored => at[Len(p.segs)] + Len(Last(p.segs)) = Len(path)

\* A pattern without a "*".
LEMMA OneSegment ==
  ASSUME NEW p \in Pattern, NEW path \in Text, Len(p.segs) = 1
  PROVE  PatternHolds(p, path) <=> Describes(p, path)
<1> DEFINE seg == p.segs[1]
<1>1. /\ p.segs \in Seq(Text) /\ seg \in Text /\ DOMAIN p.segs = {1} /\ Last(p.segs) = seg
      /\ p.anchored \in BOOLEAN
  BY DEF Pattern, Last
<1>2. Len(path) \in Nat /\ Len(seg) \in Nat
  BY <1>1 DEF Text
<1>3. PatternHolds(p, path) <=>
        OccursAt(seg, path, 0) /\ (p.anchored => Len(seg) = Len(path))
  <2>1. PatternHolds(p, path) <=> IF p.anchored THEN path = seg ELSE IsPrefix(seg, path)
    BY DEF PatternHolds
  <2>2. path = seg <=> OccursAt(seg, path, 0) /\ Len(seg) = Len(path)
    BY <1>1, WholeIsThere
  <2>3. IsPrefix(seg, path) <=> OccursAt(seg, path, 0)
    BY <1>1, PrefixIsAtStart
  <2> QED
    BY <1>1, <2>1, <2>2, <2>3
<1>4. ASSUME OccursAt(seg, path, 0) /\ (p.anchored => Len(seg) = Len(path))
      PROVE  Describes(p, path)
  <2> DEFINE at == [k \in DOMAIN p.segs |-> 0]
  <2>1. at \in [DOMAIN p.segs -> 0 .. Len(path)]
    BY <1>2
  <2>2. Len(p.segs) \in DOMAIN p.segs /\ 1 \in DOMAIN p.segs
    BY <1>1
  <2>3. /\ at[1] = 0 /\ at[Len(p.segs)] = 0
        /\ \A k \in DOMAIN p.segs :
             /\ OccursAt(p.segs[k], path, at[k])
             /\ k > 1 => at[k] >= at[k - 1] + Len(p.segs[k - 1])
    BY <1>1, <1>4, <2>2
  <2>4. p.anchored => at[Len(p.segs)] + Len(Last(p.segs)) = Len(path)
    BY <1>1, <1>2, <1>4, <2>3
  <2> HIDE DEF at
  <2> QED
    BY <2>1, <2>3, <2>4 DEF Describes
<1>5. ASSUME Describes(p, path)
      PROVE  OccursAt(seg, path, 0) /\ (p.anchored => Len(seg) = Len(path))
  <2>1. PICK at : Placed(p, path, at)
    BY <1>5 DEF Describes, Placed
  <2>2. OccursAt(seg, path, 0)
    BY <1>1, <2>1 DEF Placed
  <2>3. p.anchored => 0 + Len(seg) = Len(path)
    BY <1>1, <2>1 DEF Placed
  <2> QED
    BY <1>2, <2>2, <2>3
<1> QED
  BY <1>3, <1>4, <1>5

\* What is known of a pattern with a "*", its segments and the ends of those
\* in the middle.
Taken(p, path, n, t) ==
  /\ n \in Nat /\ n >= 2 /\ Len(p.segs) = n /\ DOMAIN p.segs = 1..n
  /\ \A k \in 1..n : p.segs[k] \in Text /\ Len(p.segs[k]) \in Nat
  /\ t \in [0 .. n - 2 -> Ends(path)]
  /\ t[0] = IF OccursAt(p.segs[1], path, 0) THEN Len(p.segs[1]) ELSE NoMatch
  /\ \A k \in 1 .. n - 2 : t[k] = LeftmostEnd(p.segs[k + 1], path, t[k - 1])
  /\ PatternHolds(p, path) <=>
       /\ t[n - 2] # NoMatch
       /\ IF p.anchored THEN t[n - 2] + Len(p.segs[n]) <= Len(path)
                             /\ OccursAt(p.segs[n], path, Len(path) - Len(p.segs[n]))
                        ELSE \E i \in t[n - 2] .. Len(path) : OccursAt(p.segs[n], path, i)

LEMMA SegmentsTaken ==
  ASSUME NEW p \in Pattern, NEW path \in Text, Len(p.segs) # 1
  PROVE  \E n, t : Taken(p, path, n, t)
<1> DEFINE n == Len(p.segs)
           mids == SubSeq(p.segs, 2, n - 1)
           start == IF IsPrefix(p.segs[1], path) THEN Len(p.segs[1]) ELSE NoMatch
<1>1. p.segs \in Seq(Text) /\ p.segs # <<>> /\ p.anchored \in BOOLEAN
  BY DEF Pattern
<1>2. /\ n \in Nat /\ n >= 2 /\ DOMAIN p.segs = 1..n
      /\ \A k \in 1..n : p.segs[k] \in Text
  <2>1. n \in Nat \ {0} /\ DOMAIN p.segs = 1..n
    BY <1>1, EmptySeq
  <2>2. \A k \in 1..n : p.segs[k] \in Text
    BY <1>1
  <2>3. n # 1
    OBVIOUS
  <2>4. n \in Nat /\ n >= 2
    <3> HIDE DEF n
    <3> QED
      BY <2>1, <2>3
  <2> QED
    BY <2>1, <2>2, <2>4
<1>3. \A k \in 1..n : p.segs[k] \in Text /\ Len(p.segs[k]) \in Nat
  BY <1>2 DEF Text
<1>4. 1 \in 1..n /\ n \in 1..n /\ Len(path) \in Nat
  BY <1>2 DEF Text
<1>5. start = IF OccursAt(p.segs[1], path, 0) THEN Len(p.segs[1]) ELSE NoMatch
  BY <1>2, <1>4, PrefixIsAtStart
<1>6. start \in Ends(path)
  BY <1>3, <1>4, <1>5 DEF Ends, OccursAt, NoMatch
<1>7. mids \in Seq(Text) /\ Len(mids) = n - 2 /\ \A k \in 1 .. n - 2 : mids[k] = p.segs[k + 1]
  <2>1. \A k \in 2 .. n - 1 : p.segs[k] \in Text
    BY <1>2
  <2>2. /\ mids \in Seq(Text) /\ Len(mids) = IF 2 <= n - 1 THEN n - 1 - 2 + 1 ELSE 0
        /\ \A k \in 1 .. n - 1 - 2 + 1 : mids[k] = p.segs[2 + k - 1]
    <3>1. 2 \in Int /\ n - 1 \in Int
      BY <1>2
    <3> HIDE DEF n
    <3> QED
      BY <2>1, <3>1, SubSeqProperties
  <2>3. Len(mids) = n - 2
    BY <1>2, <2>2
  <2>4. ASSUME NEW k \in 1 .. n - 2 PROVE mids[k] = p.segs[k + 1]
    <3>1. k \in 1 .. n - 1 - 2 + 1 /\ 2 + k - 1 = k + 1
      BY <1>2
    <3> HIDE DEF n, mids
    <3> QED
      BY <2>2, <3>1
  <2> QED
    BY <2>2, <2>3, <2>4
<1>8. PICK t \in [0 .. Len(mids) -> Ends(path)] :
        /\ t[0] = start
        /\ t[Len(mids)] = FoldLeft(LAMBDA at, seg : LeftmostEnd(seg, path, at), start, mids)
        /\ \A k \in 1 .. Len(mids) : t[k] = LeftmostEnd(mids[k], path, t[k - 1])
  <2> HIDE DEF mids, start, n
  <2> QED
    BY <1>6, <1>7, EndTrace
<1>9. PatternHolds(p, path) <=>
        /\ t[n - 2] # NoMatch
        /\ IF p.anchored THEN IsSuffix(p.segs[n], SubSeq(path, t[n - 2] + 1, Len(path)))
                         ELSE Occurrences(p.segs[n], path, t[n - 2]) # {}
  BY <1>2, <1>7, <1>8 DEF PatternHolds, Last
<1> HIDE DEF mids, start, n
<1>12. t \in [0 .. n - 2 -> Ends(path)]
  BY <1>7, <1>8
<1>10. ASSUME t[n - 2] # NoMatch
       PROVE  IsSuffix(p.segs[n], SubSeq(path, t[n - 2] + 1, Len(path))) <=>
                /\ t[n - 2] + Len(p.segs[n]) <= Len(path)
                /\ OccursAt(p.segs[n], path, Len(path) - Len(p.segs[n]))
  <2>1. n - 2 \in 0 .. n - 2 /\ t[n - 2] \in Ends(path)
    BY <1>2, <1>12
  <2>2. t[n - 2] \in 0 .. Len(path)
    BY <1>4, <1>10, <2>1 DEF Ends, NoMatch
  <2> QED
    BY <1>2, <1>4, <2>2, SuffixIsAtEnd
<1>11. Occurrences(p.segs[n], path, t[n - 2]) # {} <=>
         \E i \in t[n - 2] .. Len(path) : OccursAt(p.segs[n], path, i)
  BY DEF Occurrences
<1>13. \A k \in 1 .. n - 2 : t[k] = LeftmostEnd(p.segs[k + 1], path, t[k - 1])
  BY <1>7, <1>8
<1>14. PatternHolds(p, path) <=>
         /\ t[n - 2] # NoMatch
         /\ IF p.anchored THEN t[n - 2] + Len(p.segs[n]) <= Len(path)
                               /\ OccursAt(p.segs[n], path, Len(path) - Len(p.segs[n]))
                          ELSE \E i \in t[n - 2] .. Len(path) : OccursAt(p.segs[n], path, i)
  BY <1>1, <1>9, <1>10, <1>11, Zenon
<1>15. Taken(p, path, n, t)
  <2>1. Len(p.segs) = n
    BY DEF n
  <2> QED
    BY <1>2, <1>3, <1>5, <1>8, <1>12, <1>13, <1>14, <2>1, Zenon DEF Taken
<1> QED
  BY <1>15

\* The leftmost choice never runs past a placement: it finds every match.
LEMMA PlacedIsTaken ==
  ASSUME NEW p \in Pattern, NEW path \in Text, NEW n, NEW t, Taken(p, path, n, t),
         NEW at, Placed(p, path, at)
  PROVE  PatternHolds(p, path)
<1> DEFINE S == {k \in 0 .. n - 2 : t[k] # NoMatch /\ t[k] <= at[k + 1] + Len(p.segs[k + 1])}
<1>1. /\ n \in Nat /\ n >= 2 /\ n - 2 \in Nat /\ Len(path) \in Nat /\ NoMatch = -1
      /\ p.anchored \in BOOLEAN
  BY DEF Taken, Text, Pattern, NoMatch
<1>2. ASSUME NEW k \in 1..n
      PROVE  /\ p.segs[k] \in Text /\ Len(p.segs[k]) \in Nat
             /\ at[k] \in 0 .. Len(path) /\ OccursAt(p.segs[k], path, at[k])
             /\ k > 1 => at[k] >= at[k - 1] + Len(p.segs[k - 1])
  BY DEF Taken, Placed
<1>3. 0 \in S
  <2>1. at[1] = 0 /\ 1 \in 1..n
    BY <1>1 DEF Placed
  <2>2. OccursAt(p.segs[1], path, 0) /\ Len(p.segs[1]) \in Nat
    BY <1>2, <2>1
  <2>3. t[0] = Len(p.segs[1])
    BY <2>2 DEF Taken
  <2> QED
    BY <1>1, <2>1, <2>2, <2>3
<1>4. ASSUME NEW k \in 1 .. n - 2, k - 1 \in S PROVE k \in S
  <2>1. k \in 1..n /\ k + 1 \in 1..n /\ k - 1 \in 0 .. n - 2 /\ k \in 0 .. n - 2 /\ k + 1 > 1
        /\ k - 1 + 1 = k /\ k + 1 - 1 = k
    BY <1>1
  <2>2. t[k - 1] # NoMatch /\ t[k - 1] <= at[k] + Len(p.segs[k]) /\ t[k - 1] \in Ends(path)
    BY <1>4, <2>1 DEF Taken
  <2>3. /\ p.segs[k + 1] \in Text /\ at[k + 1] \in 0 .. Len(path)
        /\ OccursAt(p.segs[k + 1], path, at[k + 1])
        /\ at[k + 1] >= at[k] + Len(p.segs[k])
    BY <1>2, <2>1
  <2>4. at[k + 1] \in t[k - 1] .. Len(path)
    <3>1. at[k] \in 0 .. Len(path) /\ Len(p.segs[k]) \in Nat
      BY <1>2, <2>1
    <3> QED
      BY <1>1, <2>2, <2>3, <3>1 DEF Ends
  <2>5. t[k] = LeftmostEnd(p.segs[k + 1], path, t[k - 1])
    BY DEF Taken
  <2>6. t[k] # NoMatch /\ t[k] <= at[k + 1] + Len(p.segs[k + 1])
    BY <2>2, <2>3, <2>4, <2>5, LeftmostEndIs
  <2> QED
    BY <2>1, <2>6
<1>5. n - 2 \in S
  <2>1. n - 2 \in 0 .. n - 2
    BY <1>1
  <2> HIDE DEF S
  <2> QED
    BY <1>1, <1>3, <1>4, <2>1, CountingUp
<1>6. /\ n \in 1..n /\ n > 1 /\ n - 1 \in 1..n /\ n - 2 + 1 = n - 1
  BY <1>1
<1>7. t[n - 2] # NoMatch /\ t[n - 2] <= at[n - 1] + Len(p.segs[n - 1]) /\ t[n - 2] \in Ends(path)
  BY <1>5, <1>6 DEF Taken
<1>8. /\ at[n] >= at[n - 1] + Len(p.segs[n - 1]) /\ at[n] \in 0 .. Len(path)
      /\ OccursAt(p.segs[n], path, at[n])
      /\ Len(p.segs[n]) \in Nat /\ Len(p.segs[n - 1]) \in Nat /\ at[n - 1] \in 0 .. Len(path)
  BY <1>2, <1>6
<1>9. at[n] \in t[n - 2] .. Len(path)
  BY <1>1, <1>7, <1>8 DEF Ends
<1>11. t[n - 2] \in Int /\ at[n] \in Int /\ t[n - 2] <= at[n]
  BY <1>1, <1>7, <1>8, <1>9 DEF Ends
<1>10. ASSUME p.anchored
       PROVE  /\ t[n - 2] + Len(p.segs[n]) <= Len(path)
              /\ OccursAt(p.segs[n], path, Len(path) - Len(p.segs[n]))
  <2>1. at[n] + Len(p.segs[n]) = Len(path)
    BY <1>10 DEF Placed, Taken, Last
  <2>2. at[n] = Len(path) - Len(p.segs[n]) /\ t[n - 2] + Len(p.segs[n]) <= Len(path)
    <3>1. PICK a \in Int, b \in Int, c \in Int, d \in Int :
            a = at[n] /\ b = t[n - 2] /\ c = Len(p.segs[n]) /\ d = Len(path)
      BY <1>1, <1>8, <1>11
    <3>2. a + c = d /\ b <= a
      BY <1>11, <2>1, <3>1, Zenon
    <3>3. a = d - c /\ b + c <= d
      BY <3>2
    <3> QED
      BY <3>1, <3>3, Zenon
  <2> QED
    BY <1>8, <2>2
<1> QED
  BY <1>1, <1>7, <1>8, <1>9, <1>10, Zenon DEF Taken

\* What the matching takes is a placement: it finds no more than a match.
LEMMA TakenIsPlaced ==
  ASSUME NEW p \in Pattern, NEW path \in Text, NEW n, NEW t, Taken(p, path, n, t),
         PatternHolds(p, path)
  PROVE  \E at : Placed(p, path, at)
<1> DEFINE m == n - 2
           S == {j \in 0..m : t[m - j] # NoMatch}
           Fits(k, i) == i \in t[k - 2] .. Len(path) /\ OccursAt(p.segs[k], path, i)
                           /\ t[k - 1] = i + Len(p.segs[k])
           Ending(i) == /\ i \in t[m] .. Len(path) /\ OccursAt(p.segs[n], path, i)
                        /\ p.anchored => i + Len(p.segs[n]) = Len(path)
           at == [k \in 1..n |-> IF k = 1 THEN 0
                                 ELSE IF k = n THEN CHOOSE i : Ending(i) ELSE CHOOSE i : Fits(k, i)]
<1>1. /\ n \in Nat /\ n >= 2 /\ m \in Nat /\ Len(path) \in Nat /\ NoMatch = -1
      /\ p.anchored \in BOOLEAN /\ DOMAIN p.segs = 1..n /\ Len(p.segs) = n
  BY DEF Taken, Text, Pattern, NoMatch
<1>2. ASSUME NEW k \in 1..n PROVE p.segs[k] \in Text /\ Len(p.segs[k]) \in Nat
  BY DEF Taken
<1>3. \A k \in 0..m : t[k] # NoMatch /\ t[k] \in 0 .. Len(path)
  <2>1. 0 \in S
    BY <1>1 DEF Taken
  <2>2. ASSUME NEW j \in 1..m, j - 1 \in S PROVE j \in S
    <3>1. /\ m - j + 1 \in 1..m /\ m - j \in 0..m /\ j \in 0..m
          /\ m - (j - 1) = m - j + 1 /\ m - j + 1 - 1 = m - j
          /\ m - j + 1 + 1 \in 1..n
      BY <1>1
    <3>2. t[m - j + 1] # NoMatch
      BY <2>2, <3>1
    <3>3. t[m - j + 1] = LeftmostEnd(p.segs[m - j + 1 + 1], path, t[m - j])
      BY <3>1 DEF Taken
    <3>4. t[m - j] \in Ends(path) /\ p.segs[m - j + 1 + 1] \in Text
      BY <1>2, <3>1 DEF Taken
    <3>5. t[m - j] # NoMatch
      BY <3>2, <3>3, <3>4, LeftmostEndIs
    <3> QED
      BY <3>1, <3>5
  <2>3. \A j \in 0..m : j \in S
    <3> HIDE DEF S, m
    <3> QED
      BY <1>1, <2>1, <2>2, CountingUp
  <2>4. ASSUME NEW k \in 0..m PROVE t[k] # NoMatch /\ t[k] \in 0 .. Len(path)
    <3>1. m - k \in 0..m /\ m - (m - k) = k
      BY <1>1
    <3>2. t[k] # NoMatch
      BY <2>3, <3>1
    <3>3. t[k] \in Ends(path)
      BY DEF Taken
    <3> QED
      BY <1>1, <3>2, <3>3 DEF Ends
  <2> QED
    BY <2>4
<1>4. t[0] = Len(p.segs[1]) /\ OccursAt(p.segs[1], path, 0)
  <2>1. t[0] # NoMatch
    BY <1>1, <1>3
  <2> QED
    BY <2>1 DEF Taken
<1>5. ASSUME NEW k \in 2 .. n - 1 PROVE Fits(k, CHOOSE i : Fits(k, i))
  <2>1. k \in 1..n /\ k - 1 \in 1..m /\ k - 1 \in 0..m /\ k - 2 \in 0..m /\ k - 1 + 1 = k
        /\ k - 1 - 1 = k - 2
    BY <1>1
  <2>2. t[k - 1] = LeftmostEnd(p.segs[k], path, t[k - 2])
    BY <2>1 DEF Taken
  <2>3. t[k - 1] # NoMatch /\ t[k - 2] \in Ends(path) /\ p.segs[k] \in Text
    BY <1>2, <1>3, <2>1 DEF Taken
  <2>4. \E i : Fits(k, i)
    BY <2>2, <2>3, LeftmostEndIs
  <2> HIDE DEF Fits
  <2> QED
    BY <2>4, Zenon
<1>6. Ending(CHOOSE i : Ending(i))
  <2>1. m \in 0..m /\ t[m] \in 0 .. Len(path) /\ n \in 1..n
    BY <1>1, <1>3
  <2>2. CASE p.anchored
    <3>1. t[m] + Len(p.segs[n]) <= Len(path) /\ OccursAt(p.segs[n], path, Len(path) - Len(p.segs[n]))
      BY <2>2 DEF Taken
    <3>2. Len(path) - Len(p.segs[n]) \in t[m] .. Len(path)
          /\ Len(path) - Len(p.segs[n]) + Len(p.segs[n]) = Len(path)
      BY <1>1, <1>2, <2>1, <3>1
    <3>3. Ending(Len(path) - Len(p.segs[n]))
      BY <3>1, <3>2
    <3> HIDE DEF Ending
    <3> QED
      BY <3>3, Zenon
  <2>3. CASE ~p.anchored
    <3>1. PICK i \in t[m] .. Len(path) : OccursAt(p.segs[n], path, i)
      BY <2>3 DEF Taken
    <3>2. Ending(i)
      BY <2>3, <3>1
    <3> HIDE DEF Ending
    <3> QED
      BY <3>2, Zenon
  <2> QED
    BY <2>2, <2>3
<1>7. /\ at[1] = 0 /\ Ending(at[n])
      /\ \A k \in 2 .. n - 1 : Fits(k, at[k])
  <2>1. 1 \in 1..n /\ n \in 1..n /\ n # 1 /\ \A k \in 2 .. n - 1 : k \in 1..n /\ k # 1 /\ k # n
    BY <1>1
  <2> HIDE DEF Ending, Fits
  <2> QED
    BY <1>5, <1>6, <2>1
<1> HIDE DEF at
<1>8. \A k \in 2 .. n - 1 : at[k] \in t[k - 2] .. Len(path) /\ OccursAt(p.segs[k], path, at[k])
                             /\ t[k - 1] = at[k] + Len(p.segs[k])
  BY <1>7
<1>9. /\ at[n] \in t[m] .. Len(path) /\ OccursAt(p.segs[n], path, at[n])
      /\ p.anchored => at[n] + Len(p.segs[n]) = Len(path)
  BY <1>7
<1>10. ASSUME NEW k \in 1..n
       PROVE  /\ at[k] \in 0 .. Len(path) /\ OccursAt(p.segs[k], path, at[k])
              /\ k < n => t[k - 1] = at[k] + Len(p.segs[k])
  <2>1. CASE k = 1
    BY <1>1, <1>2, <1>4, <1>7, <2>1
  <2>2. CASE k \in 2 .. n - 1
    <3>1. k - 2 \in 0..m
      BY <1>1, <2>2
    <3>2. t[k - 2] \in 0 .. Len(path)
      BY <1>3, <3>1
    <3> QED
      BY <1>1, <1>8, <2>2, <3>2
  <2>3. CASE k = n
    <3>1. t[m] \in 0 .. Len(path)
      BY <1>1, <1>3
    <3> QED
      BY <1>1, <1>9, <2>3, <3>1
  <2> QED
    BY <1>1, <2>1, <2>2, <2>3
<1>11. ASSUME NEW k \in 1..n, k > 1
       PROVE  at[k] >= at[k - 1] + Len(p.segs[k - 1])
  <2>1. k - 1 \in 1..n /\ k - 1 < n /\ k - 1 - 1 = k - 2 /\ k - 2 \in 0..m
    BY <1>1, <1>11
  <2>2. t[k - 2] = at[k - 1] + Len(p.segs[k - 1])
    BY <1>10, <2>1
  <2>3. at[k] >= t[k - 2]
    <3>1. t[k - 2] \in 0 .. Len(path)
      BY <1>3, <2>1
    <3>2. CASE k = n
      BY <1>1, <1>9, <3>1, <3>2
    <3>3. CASE k \in 2 .. n - 1
      BY <1>1, <1>8, <3>1, <3>3
    <3> QED
      BY <1>1, <1>11, <3>2, <3>3
  <2> QED
    BY <2>2, <2>3
<1>12. at \in [DOMAIN p.segs -> 0 .. Len(path)]
  BY <1>1, <1>10 DEF at
<1>13. p.anchored => at[Len(p.segs)] + Len(Last(p.segs)) = Len(path)
  BY <1>1, <1>9 DEF Last
<1>14. Placed(p, path, at)
  BY <1>1, <1>7, <1>10, <1>11, <1>12, <1>13 DEF Placed
<1> QED
  BY <1>14

\* A pattern matches exactly the paths that are its segments in order, with
\* anything in between, up to the end if it is anchored (robots.go:
\* matchRobotsPattern).
THEOREM PatternsMatch ==
  ASSUME NEW p \in Pattern, NEW path \in Text
  PROVE  PatternHolds(p, path) <=> Describes(p, path)
<1>1. CASE Len(p.segs) = 1
  BY <1>1, OneSegment
<1>2. CASE Len(p.segs) # 1
  <2>1. PICK n, t : Taken(p, path, n, t)
    BY <1>2, SegmentsTaken
  <2>2. PatternHolds(p, path) => \E at : Placed(p, path, at)
    BY <2>1, TakenIsPlaced
  <2>3. (\E at : Placed(p, path, at)) => PatternHolds(p, path)
    BY <2>1, PlacedIsTaken
  <2>4. Describes(p, path) <=> \E at : Placed(p, path, at)
    BY DEF Describes, Placed
  <2> QED
    BY <2>2, <2>3, <2>4
<1> QED
  BY <1>1, <1>2

----------------------------------------------------------------------------
(* The verdict on a path.                                                  *)

Verdict == [pattern : Pattern, allow : BOOLEAN]     \* a rule of a group
Standing == [length : Int, allow : BOOLEAN]         \* the best so far

Weigh(path, best, rule) ==
  IF /\ PatternHolds(rule.pattern, path)
     /\ \/ PatternLength(rule.pattern) > best.length
        \/ PatternLength(rule.pattern) = best.length /\ rule.allow
  THEN [length |-> PatternLength(rule.pattern), allow |-> rule.allow]
  ELSE best

Untouched == [length |-> -1, allow |-> TRUE]

WeighFold(path, rules, g) ==
  g = [s \in SUBSET DOMAIN rules |->
         IF s = {} THEN Untouched ELSE Weigh(path, g[s \ {Max(s)}], rules[Max(s)])]

LEMMA WeighTrace ==
  ASSUME NEW rules \in Seq(Verdict), NEW path
  PROVE  \E t \in [0 .. Len(rules) -> Standing] :
           /\ t[0] = Untouched /\ (t[Len(rules)].allow <=> Decide(rules, path))
           /\ \A k \in 1 .. Len(rules) : t[k] = Weigh(path, t[k - 1], rules[k])
<1> DEFINE V == Standing
           step == [d \in V \X Verdict |-> Weigh(path, d[1], d[2])]
           g == CHOOSE h : WeighFold(path, rules, h)
<1>1. step \in [V \X Verdict -> V] /\ Untouched \in V
  <2>1. ASSUME NEW b \in V, NEW r \in Verdict PROVE Weigh(path, b, r) \in V
    <3>1. PatternLength(r.pattern) \in Int /\ r.allow \in BOOLEAN
      BY PatternLengthType DEF Verdict
    <3> QED
      BY <3>1 DEF Weigh, Standing
  <2>2. Untouched \in V
    BY DEF Untouched, Standing
  <2> HIDE DEF V
  <2> QED
    BY <2>1, <2>2
<1>2. \A s \in SUBSET DOMAIN rules : s # {} => Max(s) \in s /\ rules[Max(s)] \in Verdict
  <2> SUFFICES ASSUME NEW s \in SUBSET DOMAIN rules, s # {}
               PROVE  Max(s) \in s /\ rules[Max(s)] \in Verdict
    OBVIOUS
  <2>1. s \subseteq 0 .. Len(rules) /\ Len(rules) \in Nat
    OBVIOUS
  <2>2. Max(s) \in s
    BY <2>1, MaxIsGreatest
  <2> QED
    BY <2>2
<1> HIDE DEF V
<1>3. WeighFold(path, rules, g)
  <2>1. PICK h \in [SUBSET DOMAIN rules -> V] : FoldsBy(step, Untouched, rules, h)
    <3> HIDE DEF step
    <3> QED
      BY <1>1, FoldExists
  <2>2. ASSUME NEW s \in SUBSET DOMAIN rules, s # {}
        PROVE  h[s] = Weigh(path, h[s \ {Max(s)}], rules[Max(s)])
    <3>1. h[s \ {Max(s)}] \in V /\ rules[Max(s)] \in Verdict
      BY <1>2, <2>2
    <3>2. h[s] = step[<<h[s \ {Max(s)}], rules[Max(s)]>>]
      BY <2>1, <2>2 DEF FoldsBy
    <3> QED
      BY <3>1, <3>2
  <2>3. h[{}] = Untouched
    BY <2>1 DEF FoldsBy
  <2>4. WeighFold(path, rules, h)
    <3> HIDE DEF step
    <3> QED
      BY <2>1, <2>2, <2>3 DEF WeighFold
  <2> QED
    BY <2>4, Zenon
<1>4. Decide(rules, path) <=> g[DOMAIN rules].allow
  BY DEF Decide, FoldLeft, MapThenFoldSet, WeighFold, Weigh, Untouched
<1> HIDE DEF g
<1>5. Folding(V, step, Untouched, rules, g)
  <2>1. g[{}] = Untouched
    BY <1>3 DEF WeighFold
  <2>2. ASSUME NEW s \in SUBSET DOMAIN rules, s # {}, g[s \ {Max(s)}] \in V
        PROVE  g[s] = step[<<g[s \ {Max(s)}], rules[Max(s)]>>]
    <3>1. g[s] = Weigh(path, g[s \ {Max(s)}], rules[Max(s)])
      BY <1>3, <2>2 DEF WeighFold
    <3> QED
      BY <1>2, <2>2, <3>1
  <2> QED
    BY <2>1, <2>2 DEF Folding
<1>6. PICK t : Trace(V, step, Untouched, rules, g, t)
  <2> HIDE DEF step
  <2> QED
    BY <1>1, <1>5, FoldTrace
<1>7. ASSUME NEW k \in 1 .. Len(rules) PROVE t[k] = Weigh(path, t[k - 1], rules[k])
  <2>1. k - 1 \in 0 .. Len(rules) /\ rules[k] \in Verdict
    OBVIOUS
  <2> QED
    BY <1>6, <2>1 DEF Trace
<1>8. t[Len(rules)].allow <=> Decide(rules, path)
  BY <1>4, <1>6 DEF Trace
<1> QED
  BY <1>6, <1>7, <1>8 DEF Trace, V

Applies(rules, path, j) == PatternHolds(rules[j].pattern, path)
LengthAt(rules, j) == PatternLength(rules[j].pattern)

\* What the best of the first k rules is.
Judged(rules, path, k, b) ==
  /\ b.length >= -1
  /\ \A j \in 1..k : Applies(rules, path, j) => LengthAt(rules, j) <= b.length
  /\ b.length # -1 => \E j \in 1..k : Applies(rules, path, j) /\ LengthAt(rules, j) = b.length
  /\ b.allow <=> \/ b.length = -1
                 \/ \E j \in 1..k : /\ Applies(rules, path, j) /\ rules[j].allow
                                    /\ LengthAt(rules, j) = b.length

LEMMA JudgedStep ==
  ASSUME NEW rules, NEW path, NEW k \in Nat, NEW b \in Standing, Judged(rules, path, k, b),
         rules[k + 1] \in Verdict, \A j \in 1..k : LengthAt(rules, j) \in Nat
  PROVE  Judged(rules, path, k + 1, Weigh(path, b, rules[k + 1]))
<1> DEFINE r == rules[k + 1]
           c == Weigh(path, b, r)
<1>1. /\ LengthAt(rules, k + 1) \in Nat /\ r.allow \in BOOLEAN
      /\ b.length \in Int /\ b.allow \in BOOLEAN
  BY PatternLengthType DEF Verdict, LengthAt, Standing
<1>2. 1 .. k + 1 = 1..k \cup {k + 1} /\ k + 1 \in 1 .. k + 1
  OBVIOUS
<1>3. ASSUME ~Applies(rules, path, k + 1)
      PROVE  Judged(rules, path, k + 1, c)
  <2>1. c = b
    BY <1>3 DEF Weigh, Applies
  <2> HIDE DEF c, r
  <2>2. \A j \in 1 .. k + 1 : Applies(rules, path, j) => LengthAt(rules, j) <= b.length
    BY <1>2, <1>3 DEF Judged
  <2>3. b.length # -1 =>
          \E j \in 1 .. k + 1 : Applies(rules, path, j) /\ LengthAt(rules, j) = b.length
    BY <1>2 DEF Judged
  <2>4. (\E j \in 1 .. k + 1 : /\ Applies(rules, path, j) /\ rules[j].allow
                               /\ LengthAt(rules, j) = b.length) <=>
        (\E j \in 1..k : /\ Applies(rules, path, j) /\ rules[j].allow
                         /\ LengthAt(rules, j) = b.length)
    BY <1>2, <1>3
  <2> QED
    BY <2>1, <2>2, <2>3, <2>4, Zenon DEF Judged
<1>4. ASSUME Applies(rules, path, k + 1), LengthAt(rules, k + 1) > b.length
      PROVE  Judged(rules, path, k + 1, c)
  <2>1. c = [length |-> LengthAt(rules, k + 1), allow |-> r.allow]
    BY <1>4 DEF Weigh, Applies, LengthAt
  <2>2. c.length = LengthAt(rules, k + 1) /\ c.allow = rules[k + 1].allow
    BY <2>1
  <2> HIDE DEF c, r
  <2>3. \A j \in 1..k : Applies(rules, path, j) =>
          LengthAt(rules, j) <= c.length /\ LengthAt(rules, j) # c.length
    BY <1>1, <1>4, <2>2 DEF Judged
  <2>4. \A j \in 1 .. k + 1 : Applies(rules, path, j) => LengthAt(rules, j) <= c.length
    BY <1>1, <1>2, <2>2, <2>3
  <2>5. \E j \in 1 .. k + 1 : Applies(rules, path, j) /\ LengthAt(rules, j) = c.length
    BY <1>2, <1>4, <2>2
  <2>6. c.length >= -1 /\ c.length # -1
    BY <1>1, <2>2
  <2>7. (\E j \in 1 .. k + 1 : /\ Applies(rules, path, j) /\ rules[j].allow
                               /\ LengthAt(rules, j) = c.length) <=> rules[k + 1].allow
    BY <1>2, <1>4, <2>2, <2>3
  <2> QED
    BY <2>2, <2>4, <2>5, <2>6, <2>7, Zenon DEF Judged
<1>5. ASSUME Applies(rules, path, k + 1), LengthAt(rules, k + 1) = b.length, rules[k + 1].allow
      PROVE  Judged(rules, path, k + 1, c)
  <2>1. c = [length |-> LengthAt(rules, k + 1), allow |-> r.allow]
    BY <1>5 DEF Weigh, Applies, LengthAt
  <2>2. c.length = LengthAt(rules, k + 1) /\ c.allow = rules[k + 1].allow /\ c.length = b.length
    BY <1>5, <2>1
  <2> HIDE DEF c, r
  <2>3. \A j \in 1 .. k + 1 : Applies(rules, path, j) => LengthAt(rules, j) <= c.length
    BY <1>1, <1>2, <2>2 DEF Judged
  <2>4. \E j \in 1 .. k + 1 : /\ Applies(rules, path, j) /\ rules[j].allow
                              /\ LengthAt(rules, j) = c.length
    BY <1>2, <1>5, <2>2
  <2>5. c.length >= -1
    BY <1>1, <2>2
  <2> QED
    BY <1>5, <2>2, <2>3, <2>4, <2>5, Zenon DEF Judged
<1>6. ASSUME Applies(rules, path, k + 1), LengthAt(rules, k + 1) <= b.length,
             LengthAt(rules, k + 1) = b.length => ~rules[k + 1].allow
      PROVE  Judged(rules, path, k + 1, c)
  <2>1. ~(LengthAt(rules, k + 1) > b.length)
    BY <1>1, <1>6
  <2>2. c = b
    BY <1>6, <2>1 DEF Weigh, LengthAt
  <2> HIDE DEF c, r
  <2>3. \A j \in 1 .. k + 1 : Applies(rules, path, j) => LengthAt(rules, j) <= b.length
    BY <1>2, <1>6 DEF Judged
  <2>4. b.length # -1 =>
          \E j \in 1 .. k + 1 : Applies(rules, path, j) /\ LengthAt(rules, j) = b.length
    BY <1>2 DEF Judged
  <2>5. (\E j \in 1 .. k + 1 : /\ Applies(rules, path, j) /\ rules[j].allow
                               /\ LengthAt(rules, j) = b.length) <=>
        (\E j \in 1..k : /\ Applies(rules, path, j) /\ rules[j].allow
                         /\ LengthAt(rules, j) = b.length)
    BY <1>2, <1>6
  <2> QED
    BY <2>2, <2>3, <2>4, <2>5, Zenon DEF Judged
<1> QED
  BY <1>1, <1>3, <1>4, <1>5, <1>6

\* The longest pattern that matches a path decides, and an Allow wins a tie.
LEMMA LongestDecides ==
  ASSUME NEW rules \in Seq(Verdict), NEW path
  PROVE  Decide(rules, path) <=>
           \/ \A j \in DOMAIN rules : ~Applies(rules, path, j)
           \/ \E j \in DOMAIN rules :
                /\ Applies(rules, path, j) /\ rules[j].allow
                /\ \A i \in DOMAIN rules :
                     Applies(rules, path, i) => LengthAt(rules, i) <= LengthAt(rules, j)
<1> DEFINE n == Len(rules)
<1>1. PICK t \in [0..n -> Standing] :
        /\ t[0] = Untouched /\ (t[n].allow <=> Decide(rules, path))
        /\ \A k \in 1..n : t[k] = Weigh(path, t[k - 1], rules[k])
  BY WeighTrace
<1> DEFINE S == {k \in 0..n : Judged(rules, path, k, t[k])}
<1>2. /\ n \in Nat /\ DOMAIN rules = 1..n
      /\ \A k \in 1..n : rules[k] \in Verdict /\ LengthAt(rules, k) \in Nat
  <2>1. \A k \in 1..n : rules[k] \in Verdict
    OBVIOUS
  <2> QED
    BY <2>1, PatternLengthType DEF Verdict, LengthAt
<1> HIDE DEF n
<1>3. 0 \in S
  <2>1. t[0].length = -1 /\ t[0].allow
    BY <1>1 DEF Untouched
  <2> QED
    BY <1>2, <2>1 DEF Judged
<1>4. ASSUME NEW k \in 1..n, k - 1 \in S PROVE k \in S
  <2>1. /\ k - 1 \in Nat /\ k - 1 + 1 = k /\ k - 1 \in 0..n /\ k \in 0..n
        /\ 1 .. k - 1 \subseteq 1..n
    BY <1>2
  <2>2. t[k - 1] \in Standing /\ Judged(rules, path, k - 1, t[k - 1])
    BY <1>4, <2>1
  <2>3. Judged(rules, path, k - 1 + 1, Weigh(path, t[k - 1], rules[k - 1 + 1]))
    <3>1. rules[k - 1 + 1] \in Verdict /\ \A j \in 1 .. k - 1 : LengthAt(rules, j) \in Nat
      BY <1>2, <2>1
    <3> QED
      BY <2>1, <2>2, <3>1, JudgedStep
  <2> QED
    BY <1>1, <2>1, <2>3
<1>5. n \in S
  <2>1. n \in 0..n
    BY <1>2
  <2> HIDE DEF S
  <2> QED
    BY <1>2, <1>3, <1>4, <2>1, CountingUp
<1> DEFINE b == t[n]
<1>6. Judged(rules, path, n, b) /\ b.length \in Int
  BY <1>1, <1>2, <1>5 DEF Standing
<1>7. b.length = -1 <=> \A j \in 1..n : ~Applies(rules, path, j)
  <2>1. ASSUME b.length = -1, NEW j \in 1..n PROVE ~Applies(rules, path, j)
    BY <1>2, <1>6, <2>1 DEF Judged
  <2> QED
    BY <1>6, <2>1 DEF Judged
<1>8. ASSUME NEW j \in 1..n, Applies(rules, path, j)
      PROVE  LengthAt(rules, j) = b.length <=>
               \A i \in 1..n : Applies(rules, path, i) => LengthAt(rules, i) <= LengthAt(rules, j)
  <2>1. b.length # -1
    BY <1>7, <1>8
  <2>2. PICK i \in 1..n : Applies(rules, path, i) /\ LengthAt(rules, i) = b.length
    BY <1>6, <2>1 DEF Judged
  <2>3. LengthAt(rules, j) <= b.length
    BY <1>6, <1>8 DEF Judged
  <2> QED
    BY <1>2, <1>6, <2>2, <2>3 DEF Judged
<1>9. b.allow <=> \/ b.length = -1
                  \/ \E j \in 1..n : /\ Applies(rules, path, j) /\ rules[j].allow
                                     /\ LengthAt(rules, j) = b.length
  BY <1>6 DEF Judged
<1> QED
  BY <1>1, <1>2, <1>7, <1>8, <1>9, Zenon

----------------------------------------------------------------------------
(* What the parser makes of a line.                                        *)

Group == [agents : Seq(Text), rules : Seq(Verdict), delay : Nat]
State == [groups : Seq(Group), starting : BOOLEAN]

RuleLine(line) == line.field \in {"allow", "disallow"}

\* An empty Allow has no effect.
Effective(line) == line.pattern # Nothing \/ line.field = "disallow"

Effect(line) ==
  IF line.pattern = Nothing THEN [pattern |-> Root, allow |-> TRUE]
                            ELSE [pattern |-> line.pattern, allow |-> line.field = "allow"]

AgentsIn(r, g) == IF g \in 1 .. Len(r.groups) THEN ToSet(r.groups[g].agents) ELSE {}
RulesIn(r, g) == IF g \in 1 .. Len(r.groups) THEN ToSet(r.groups[g].rules) ELSE {}

\* The last element of a sequence is replaced.
LEMMA LastReplaced ==
  ASSUME NEW E, NEW seq \in Seq(E), seq # <<>>, NEW e \in E
  PROVE  /\ Front(seq) \o <<e>> \in Seq(E) /\ Len(Front(seq) \o <<e>>) = Len(seq)
         /\ \A i \in 1 .. Len(seq) :
              (Front(seq) \o <<e>>)[i] = IF i = Len(seq) THEN e ELSE seq[i]
<1> DEFINE front == Front(seq)
<1>1. Len(seq) \in Nat \ {0} /\ \A i \in 1 .. Len(seq) : seq[i] \in E
  BY EmptySeq
<1>2. front \in Seq(E) /\ Len(front) = Len(seq) - 1 /\ \A i \in 1 .. Len(seq) - 1 : front[i] = seq[i]
  <2>1. \A i \in 1 .. Len(seq) - 1 : seq[i] \in E
    BY <1>1
  <2>2. /\ front \in Seq(E)
        /\ Len(front) = IF 1 <= Len(seq) - 1 THEN Len(seq) - 1 - 1 + 1 ELSE 0
        /\ \A i \in 1 .. Len(seq) - 1 - 1 + 1 : front[i] = seq[1 + i - 1]
    <3>1. 1 \in Int /\ Len(seq) - 1 \in Int
      BY <1>1
    <3> QED
      BY <2>1, <3>1, SubSeqProperties DEF Front
  <2>3. Len(front) = Len(seq) - 1
    <3>1. PICK n \in Nat : n = Len(seq) /\ n # 0
      BY <1>1
    <3>2. (IF 1 <= n - 1 THEN n - 1 - 1 + 1 ELSE 0) = n - 1
      BY <3>1
    <3> QED
      BY <2>2, <3>1, <3>2, Zenon
  <2>4. ASSUME NEW i \in 1 .. Len(seq) - 1 PROVE front[i] = seq[i]
    <3>1. i \in 1 .. Len(seq) - 1 - 1 + 1 /\ 1 + i - 1 = i
      BY <1>1
    <3> HIDE DEF front
    <3> QED
      BY <2>2, <3>1
  <2> QED
    BY <2>2, <2>3, <2>4
<1> HIDE DEF front
<1>3. front \o <<e>> \in Seq(E) /\ Len(front \o <<e>>) = Len(seq)
  BY <1>1, <1>2
<1>4. ASSUME NEW i \in 1 .. Len(seq)
      PROVE  (front \o <<e>>)[i] = IF i = Len(seq) THEN e ELSE seq[i]
  BY <1>1, <1>2
<1> QED
  BY <1>3, <1>4 DEF front

LEMMA SetOfAppended ==
  ASSUME NEW E, NEW seq \in Seq(E), NEW e \in E
  PROVE  Append(seq, e) \in Seq(E) /\ ToSet(Append(seq, e)) = ToSet(seq) \cup {e}
<1>1. /\ Len(seq) \in Nat /\ DOMAIN seq = 1 .. Len(seq)
      /\ DOMAIN Append(seq, e) = 1 .. Len(seq) + 1
      /\ \A i \in 1 .. Len(seq) : Append(seq, e)[i] = seq[i]
      /\ Append(seq, e)[Len(seq) + 1] = e
  OBVIOUS
<1>2. 1 .. Len(seq) + 1 = (1 .. Len(seq)) \cup {Len(seq) + 1}
  BY <1>1
<1>3. ToSet(Append(seq, e)) = ToSet(seq) \cup {e}
  BY <1>1, <1>2, Zenon DEF ToSet
<1> QED
  BY <1>3

\* What a line does to the groups: at most one more, and only the last differs.
Changes(r, s, line) ==
  LET n == Len(r.groups)
      m == Len(s.groups)
  IN  /\ s \in State
      /\ m = IF line.field = "user-agent" /\ ~(n # 0 /\ r.starting) THEN n + 1 ELSE n
      /\ s.starting <=> line.field = "user-agent" \/ (n = 0 /\ r.starting)
      /\ \A g \in 1..m :
           /\ AgentsIn(s, g) = AgentsIn(r, g) \cup
                                 (IF line.field = "user-agent" /\ g = m THEN {line.agent} ELSE {})
           /\ RulesIn(s, g) = RulesIn(r, g) \cup
                                (IF RuleLine(line) /\ Effective(line) /\ g = m
                                   THEN {Effect(line)} ELSE {})

\* s is r but for a group e in the place of its last one, or as one more.
Replaces(r, s, groups, e) ==
  /\ r \in State /\ groups \in Seq(Group) /\ groups # <<>> /\ e \in Group
  /\ s = [groups |-> Front(groups) \o <<e>>, starting |-> s.starting] /\ s.starting \in BOOLEAN
  /\ Len(groups) \in {Len(r.groups), Len(r.groups) + 1}
  /\ \A g \in 1 .. Len(r.groups) : g < Len(groups) => groups[g] = r.groups[g]

LEMMA GroupReplaced ==
  ASSUME NEW r, NEW s, NEW groups, NEW e, Replaces(r, s, groups, e)
  PROVE  /\ s \in State /\ Len(s.groups) = Len(groups)
         /\ \A g \in 1 .. Len(groups) :
              /\ g < Len(groups) => AgentsIn(s, g) = AgentsIn(r, g) /\ RulesIn(s, g) = RulesIn(r, g)
              /\ g = Len(groups) => AgentsIn(s, g) = ToSet(e.agents) /\ RulesIn(s, g) = ToSet(e.rules)
<1>0. /\ r \in State /\ groups \in Seq(Group) /\ groups # <<>> /\ e \in Group
      /\ s.groups = Front(groups) \o <<e>>
      /\ s = [groups |-> Front(groups) \o <<e>>, starting |-> s.starting] /\ s.starting \in BOOLEAN
      /\ Len(groups) \in {Len(r.groups), Len(r.groups) + 1}
      /\ \A g \in 1 .. Len(r.groups) : g < Len(groups) => groups[g] = r.groups[g]
  BY DEF Replaces
<1>1. /\ s.groups \in Seq(Group) /\ Len(s.groups) = Len(groups)
      /\ \A g \in 1 .. Len(groups) : s.groups[g] = IF g = Len(groups) THEN e ELSE groups[g]
  BY <1>0, LastReplaced
<1>2. Len(groups) \in Nat /\ Len(r.groups) \in Nat
  BY <1>0 DEF State
<1>3. s \in State
  BY <1>0, <1>1 DEF State
<1>4. ASSUME NEW g \in 1 .. Len(groups), g < Len(groups)
      PROVE  AgentsIn(s, g) = AgentsIn(r, g) /\ RulesIn(s, g) = RulesIn(r, g)
  <2>1. g \in 1 .. Len(r.groups)
    BY <1>0, <1>2, <1>4
  <2>2. s.groups[g] = r.groups[g] /\ g \in 1 .. Len(s.groups)
    BY <1>0, <1>1, <1>2, <1>4, <2>1
  <2> QED
    BY <2>1, <2>2 DEF AgentsIn, RulesIn
<1>5. ASSUME NEW g \in 1 .. Len(groups), g = Len(groups)
      PROVE  AgentsIn(s, g) = ToSet(e.agents) /\ RulesIn(s, g) = ToSet(e.rules)
  BY <1>1, <1>5 DEF AgentsIn, RulesIn
<1> QED
  BY <1>1, <1>3, <1>4, <1>5

LEMMA LineKinds ==
  ASSUME NEW line \in Line
  PROVE  \/ line.field = "user-agent" /\ line.agent \in Text /\ ~RuleLine(line)
         \/ RuleLine(line) /\ line.pattern \in Pattern /\ line.field # "user-agent"
              /\ line.field # "crawl-delay"
         \/ line.field = "crawl-delay" /\ line.delay \in Int /\ line.field # "user-agent"
              /\ ~RuleLine(line)
<1>1. CASE line \in [field : {"user-agent"}, agent : Text]
  BY <1>1 DEF RuleLine
<1>2. CASE line \in [field : {"allow", "disallow"}, pattern : Pattern]
  BY <1>2 DEF RuleLine
<1>3. CASE line \in [field : {"crawl-delay"}, delay : Int]
  BY <1>3 DEF RuleLine
<1> QED
  BY <1>1, <1>2, <1>3 DEF Line

LEMMA NothingRead == NotReading \in State /\ Len(NotReading.groups) = 0 /\ NotReading.starting
BY DEF NotReading, State

LEMMA AgentChanges ==
  ASSUME NEW r \in State, NEW line \in Line, line.field = "user-agent"
  PROVE  Changes(r, ReadLine(r, line), line)
<1> DEFINE n == Len(r.groups)
           old == n # 0 /\ r.starting
           open == IF old THEN r.groups ELSE Append(r.groups, NewGroup)
           e == [Last(open) EXCEPT !.agents = Append(@, line.agent)]
           s == ReadLine(r, line)
<1>1. /\ r.groups \in Seq(Group) /\ r.starting \in BOOLEAN /\ n \in Nat
      /\ line.agent \in Text /\ ~RuleLine(line)
  BY LineKinds DEF State, RuleLine
<1>2. s = [groups |-> Front(open) \o <<e>>, starting |-> TRUE]
  <2>1. ReadLine(r, line) = ReadAgent(r, line.agent)
    BY DEF ReadLine
  <2>2. r.groups # <<>> <=> n # 0
    BY <1>1
  <2> QED
    BY <2>1, <2>2 DEF ReadAgent
<1>3. NewGroup \in Group /\ NewGroup.agents = <<>> /\ NewGroup.rules = <<>>
  BY DEF NewGroup, Group
<1>4. /\ open \in Seq(Group) /\ open # <<>> /\ Len(open) = IF old THEN n ELSE n + 1
      /\ Last(open) = IF old THEN r.groups[n] ELSE NewGroup
      /\ \A g \in 1..n : open[g] = r.groups[g]
  <2>1. CASE old
    BY <1>1, <2>1 DEF Last
  <2>2. CASE ~old
    <3>1. /\ open \in Seq(Group) /\ Len(open) = n + 1 /\ open[n + 1] = NewGroup
          /\ \A g \in 1..n : open[g] = r.groups[g]
      BY <1>1, <1>3, <2>2
    <3> HIDE DEF open
    <3> QED
      BY <1>1, <2>2, <3>1 DEF Last
  <2> QED
    BY <2>1, <2>2
<1> HIDE DEF open
<1> DEFINE m == Len(open)
           before == IF old THEN r.groups[n] ELSE NewGroup
<1>5. /\ before \in Group /\ m \in Nat /\ m \in {n, n + 1} /\ m # 0
      /\ AgentsIn(r, m) = ToSet(before.agents) /\ RulesIn(r, m) = ToSet(before.rules)
  <2>1. CASE old
    BY <1>1, <1>4, <2>1 DEF AgentsIn, RulesIn
  <2>2. CASE ~old
    <3>1. ToSet(NewGroup.agents) = {} /\ ToSet(NewGroup.rules) = {}
      BY <1>3 DEF ToSet
    <3>2. m = n + 1 /\ m \notin 1..n
      BY <1>1, <1>4, <2>2
    <3>3. AgentsIn(r, m) = {} /\ RulesIn(r, m) = {} /\ before = NewGroup
      BY <2>2, <3>2 DEF AgentsIn, RulesIn
    <3>4. before \in Group /\ m \in Nat /\ m \in {n, n + 1} /\ m # 0
      BY <1>1, <1>3, <3>2, <3>3
    <3>5. AgentsIn(r, m) = ToSet(before.agents) /\ RulesIn(r, m) = ToSet(before.rules)
      BY <3>1, <3>3, Zenon
    <3> QED
      BY <3>4, <3>5
  <2> QED
    BY <2>1, <2>2
<1>6. e = [before EXCEPT !.agents = Append(before.agents, line.agent)]
  BY <1>4
<1> HIDE DEF before, e
<1>7. /\ e \in Group /\ e.rules = before.rules
      /\ ToSet(e.agents) = ToSet(before.agents) \cup {line.agent}
  <2>1. before.agents \in Seq(Text)
    BY <1>5 DEF Group
  <2>2. /\ Append(before.agents, line.agent) \in Seq(Text)
        /\ ToSet(Append(before.agents, line.agent)) = ToSet(before.agents) \cup {line.agent}
    BY <1>1, <2>1, SetOfAppended
  <2>3. e \in Group /\ e.rules = before.rules /\ e.agents = Append(before.agents, line.agent)
    BY <1>5, <1>6, <2>2 DEF Group
  <2> QED
    BY <2>2, <2>3
<1> HIDE DEF s
<1>8. /\ s \in State /\ Len(s.groups) = m /\ s.starting
      /\ \A g \in 1..m :
           /\ g < m => AgentsIn(s, g) = AgentsIn(r, g) /\ RulesIn(s, g) = RulesIn(r, g)
           /\ g = m => AgentsIn(s, g) = ToSet(e.agents) /\ RulesIn(s, g) = ToSet(e.rules)
  <2>1. Replaces(r, s, open, e) /\ s.starting
    <3>1. s = [groups |-> Front(open) \o <<e>>, starting |-> s.starting] /\ s.starting
      BY <1>2 DEF s
    <3> QED
      BY <1>4, <1>5, <1>7, <3>1 DEF Replaces
  <2> QED
    BY <2>1, GroupReplaced
<1>9. ASSUME NEW g \in 1..m
      PROVE  /\ AgentsIn(s, g) = AgentsIn(r, g) \cup (IF g = m THEN {line.agent} ELSE {})
             /\ RulesIn(s, g) = RulesIn(r, g)
  <2>1. CASE g < m
    BY <1>8, <2>1
  <2>2. CASE g = m
    BY <1>5, <1>7, <1>8, <2>2
  <2> QED
    BY <1>5, <2>1, <2>2
<1>10. Changes(r, s, line)
  <2>1. ~(RuleLine(line) /\ Effective(line))
    BY <1>1
  <2>2. Len(s.groups) = IF line.field = "user-agent" /\ ~(n # 0 /\ r.starting)
                          THEN n + 1 ELSE n
    BY <1>4, <1>8
  <2>3. \A g \in 1 .. Len(s.groups) :
          /\ AgentsIn(s, g) = AgentsIn(r, g) \cup
               (IF line.field = "user-agent" /\ g = Len(s.groups) THEN {line.agent} ELSE {})
          /\ RulesIn(s, g) = RulesIn(r, g) \cup
               (IF RuleLine(line) /\ Effective(line) /\ g = Len(s.groups)
                  THEN {Effect(line)} ELSE {})
    BY <1>8, <1>9, <2>1
  <2>4. s.starting <=> line.field = "user-agent" \/ (n = 0 /\ r.starting)
    BY <1>8
  <2> QED
    BY <1>8, <2>2, <2>3, <2>4 DEF Changes
<1> QED
  BY <1>10 DEF s

\* A line of a group that is not a user-agent line.
LEMMA MemberChanges ==
  ASSUME NEW r \in State, NEW line \in Line, line.field # "user-agent", r.groups # <<>>,
         NEW e \in Group, ReadLine(r, line) = [groups |-> Front(r.groups) \o <<e>>, starting |-> FALSE],
         e.agents = r.groups[Len(r.groups)].agents,
         ToSet(e.rules) = ToSet(r.groups[Len(r.groups)].rules) \cup
                            (IF RuleLine(line) /\ Effective(line) THEN {Effect(line)} ELSE {})
  PROVE  Changes(r, ReadLine(r, line), line)
<1> DEFINE n == Len(r.groups)
           s == ReadLine(r, line)
<1>1. /\ r.groups \in Seq(Group) /\ r.starting \in BOOLEAN /\ n \in Nat /\ n # 0
  BY EmptySeq DEF State
<1>2. AgentsIn(r, n) = ToSet(e.agents)
  BY <1>1 DEF AgentsIn
<1>3. ToSet(e.rules) = RulesIn(r, n) \cup
                         (IF RuleLine(line) /\ Effective(line) THEN {Effect(line)} ELSE {})
  BY <1>1 DEF RulesIn
<1> HIDE DEF s
<1>4. /\ s \in State /\ Len(s.groups) = n /\ ~s.starting
      /\ \A g \in 1..n :
           /\ g < n => AgentsIn(s, g) = AgentsIn(r, g) /\ RulesIn(s, g) = RulesIn(r, g)
           /\ g = n => AgentsIn(s, g) = ToSet(e.agents) /\ RulesIn(s, g) = ToSet(e.rules)
  <2>1. Replaces(r, s, r.groups, e) /\ ~s.starting
    <3>1. s = [groups |-> Front(r.groups) \o <<e>>, starting |-> s.starting] /\ ~s.starting
          /\ s.starting \in BOOLEAN
      BY DEF s
    <3> QED
      BY <1>1, <3>1 DEF Replaces
  <2> QED
    BY <2>1, GroupReplaced
<1>5. ASSUME NEW g \in 1..n
      PROVE  /\ AgentsIn(s, g) = AgentsIn(r, g)
             /\ RulesIn(s, g) = RulesIn(r, g) \cup
                  (IF RuleLine(line) /\ Effective(line) /\ g = n THEN {Effect(line)} ELSE {})
  <2>1. CASE g < n
    BY <1>4, <2>1
  <2>2. CASE g = n
    BY <1>2, <1>3, <1>4, <2>2
  <2> QED
    BY <1>1, <2>1, <2>2
<1>6. Changes(r, s, line)
  BY <1>1, <1>4, <1>5 DEF Changes
<1> QED
  BY <1>6 DEF s

LEMMA DelayChanges ==
  ASSUME NEW r \in State, NEW line \in Line, line.field = "crawl-delay", r.groups # <<>>
  PROVE  Changes(r, ReadLine(r, line), line)
<1> DEFINE last == r.groups[Len(r.groups)]
           e == [last EXCEPT !.delay = IF line.delay > 0 THEN line.delay ELSE last.delay]
<1>1. last \in Group
  <2>1. r.groups \in Seq(Group) /\ Len(r.groups) \in Nat \ {0}
    BY EmptySeq DEF State
  <2> QED
    BY <2>1
<1>2. line.delay \in Int /\ ~RuleLine(line) /\ line.field # "user-agent"
  BY LineKinds DEF RuleLine
<1>3. e \in Group /\ e.agents = last.agents /\ e.rules = last.rules
  BY <1>1, <1>2 DEF Group
<1>4. ReadLine(r, line) = [groups |-> Front(r.groups) \o <<e>>, starting |-> FALSE]
  <2>1. ReadLine(r, line) = ReadDelay(r, line.delay)
    BY <1>2 DEF ReadLine
  <2> QED
    BY <2>1 DEF ReadDelay, Last
<1>5. ToSet(e.rules) = ToSet(last.rules) \cup
                         (IF RuleLine(line) /\ Effective(line) THEN {Effect(line)} ELSE {})
  BY <1>2, <1>3
<1> HIDE DEF e
<1> QED
  BY <1>2, <1>3, <1>4, <1>5, MemberChanges

LEMMA RootIsPattern == Root \in Pattern
<1>1. <<"/">> \in Text
  <2>1. "/" \in Character
    BY DEF Character
  <2> QED
    BY <2>1 DEF Text
<1>2. /\ <<<<"/">>>> \in Seq(Text) /\ <<<<"/">>>> # <<>>
  <2> DEFINE slash == <<"/">>
  <2> HIDE DEF slash
  <2>1. <<slash>> \in Seq(Text) /\ <<slash>> # <<>>
    BY <1>1 DEF slash
  <2> QED
    BY <2>1 DEF slash
<1> QED
  BY <1>2 DEF Root, Pattern

LEMMA RuleChanges ==
  ASSUME NEW r \in State, NEW line \in Line, RuleLine(line), r.groups # <<>>
  PROVE  Changes(r, ReadLine(r, line), line)
<1> DEFINE last == r.groups[Len(r.groups)]
           added == IF line.pattern # Nothing
                      THEN <<[pattern |-> line.pattern, allow |-> line.field = "allow"]>>
                    ELSE IF line.field = "disallow" THEN <<[pattern |-> Root, allow |-> TRUE]>>
                    ELSE <<>>
           e == [last EXCEPT !.rules = last.rules \o added]
<1>1. last \in Group /\ last.rules \in Seq(Verdict)
  <2>1. r.groups \in Seq(Group) /\ Len(r.groups) \in Nat \ {0}
    BY EmptySeq DEF State
  <2>2. last \in Group
    BY <2>1
  <2> QED
    BY <2>2 DEF Group
<1>2. line.pattern \in Pattern /\ line.field # "user-agent" /\ line.field # "crawl-delay"
  BY LineKinds, Zenon
<1>3. Root \in Pattern
  BY RootIsPattern
<1>4. CASE Effective(line)
  <2>1. added = <<Effect(line)>>
    BY <1>4 DEF Effective, Effect
  <2>2. Effect(line) \in Verdict
    BY <1>2, <1>3 DEF Effect, Verdict
  <2> HIDE DEF added
  <2>3. last.rules \o added = Append(last.rules, Effect(line))
    BY <1>1, <2>1, <2>2
  <2>4. /\ last.rules \o added \in Seq(Verdict)
        /\ ToSet(last.rules \o added) = ToSet(last.rules) \cup {Effect(line)}
    BY <1>1, <2>2, <2>3, SetOfAppended
  <2>5. e \in Group /\ e.agents = last.agents /\ e.rules = last.rules \o added
    BY <1>1, <2>4 DEF Group
  <2>6. ToSet(e.rules) = ToSet(last.rules) \cup
                           (IF RuleLine(line) /\ Effective(line) THEN {Effect(line)} ELSE {})
    BY <1>4, <2>4, <2>5
  <2>7. ReadLine(r, line) = [groups |-> Front(r.groups) \o <<e>>, starting |-> FALSE]
    <3>1. ReadLine(r, line) = ReadRule(r, line)
      BY <1>2 DEF ReadLine, RuleLine
    <3> QED
      BY <3>1 DEF ReadRule, Last, added
  <2> HIDE DEF e
  <2> QED
    BY <1>2, <2>5, <2>6, <2>7, MemberChanges
<1>5. CASE ~Effective(line)
  <2>1. added = <<>>
    BY <1>5 DEF Effective
  <2>2. last.rules \o added = last.rules
    BY <1>1, <2>1, ConcatEmptySeq
  <2> HIDE DEF added
  <2>3. e \in Group /\ e.agents = last.agents /\ e.rules = last.rules
    BY <1>1, <2>2 DEF Group
  <2>4. ToSet(e.rules) = ToSet(last.rules) \cup
                           (IF RuleLine(line) /\ Effective(line) THEN {Effect(line)} ELSE {})
    BY <1>5, <2>3
  <2>5. ReadLine(r, line) = [groups |-> Front(r.groups) \o <<e>>, starting |-> FALSE]
    <3>1. ReadLine(r, line) = ReadRule(r, line)
      BY <1>2 DEF ReadLine, RuleLine
    <3> QED
      BY <3>1 DEF ReadRule, Last, added
  <2> HIDE DEF e
  <2> QED
    BY <1>2, <2>3, <2>4, <2>5, MemberChanges
<1> QED
  BY <1>4, <1>5

\* What precedes every group is ignored.
LEMMA IgnoredChanges ==
  ASSUME NEW r \in State, NEW line \in Line, line.field # "user-agent", r.groups = <<>>
  PROVE  ReadLine(r, line) = r
BY DEF ReadLine

\* What each line does.
LEMMA LineChanges ==
  ASSUME NEW r \in State, NEW line \in Line
  PROVE  Changes(r, ReadLine(r, line), line)
<1>1. CASE line.field = "user-agent"
  BY <1>1, AgentChanges
<1>2. CASE line.field # "user-agent" /\ r.groups = <<>>
  <2>1. ReadLine(r, line) = r /\ Len(r.groups) = 0
    BY <1>2, IgnoredChanges
  <2> QED
    BY <1>2, <2>1 DEF Changes
<1>3. CASE line.field # "user-agent" /\ r.groups # <<>>
  BY <1>3, LineKinds, RuleChanges, DelayChanges
<1> QED
  BY <1>1, <1>2, <1>3

----------------------------------------------------------------------------
(* What the parser makes of a file.                                        *)

ReadFold(file, g) ==
  g = [s \in SUBSET DOMAIN file |->
         IF s = {} THEN NotReading ELSE ReadLine(g[s \ {Max(s)}], file[Max(s)])]

\* The parser's state after every line.
Parsing(file, t) ==
  /\ t \in [0 .. Len(file) -> State]
  /\ t[0] = NotReading /\ t[Len(file)].groups = ParseRobots(file)
  /\ \A k \in 1 .. Len(file) : t[k] = ReadLine(t[k - 1], file[k])

LEMMA ReadTrace ==
  ASSUME NEW file \in Seq(Line)
  PROVE  \E t : Parsing(file, t)
<1> DEFINE step == [d \in State \X Line |-> ReadLine(d[1], d[2])]
           g == CHOOSE h : ReadFold(file, h)
<1>1. step \in [State \X Line -> State] /\ NotReading \in State
  <2>1. \A r \in State, line \in Line : ReadLine(r, line) \in State
    BY LineChanges DEF Changes
  <2> QED
    BY <2>1, NothingRead
<1>2. \A s \in SUBSET DOMAIN file : s # {} => Max(s) \in s /\ file[Max(s)] \in Line
  <2> SUFFICES ASSUME NEW s \in SUBSET DOMAIN file, s # {}
               PROVE  Max(s) \in s /\ file[Max(s)] \in Line
    OBVIOUS
  <2>1. s \subseteq 0 .. Len(file) /\ Len(file) \in Nat
    OBVIOUS
  <2>2. Max(s) \in s
    BY <2>1, MaxIsGreatest
  <2> QED
    BY <2>2
<1>3. ReadFold(file, g)
  <2>1. PICK h \in [SUBSET DOMAIN file -> State] : FoldsBy(step, NotReading, file, h)
    <3> HIDE DEF step
    <3> QED
      BY <1>1, FoldExists
  <2>2. ASSUME NEW s \in SUBSET DOMAIN file, s # {}
        PROVE  h[s] = ReadLine(h[s \ {Max(s)}], file[Max(s)])
    <3>1. h[s \ {Max(s)}] \in State /\ file[Max(s)] \in Line
      BY <1>2, <2>2
    <3>2. h[s] = step[<<h[s \ {Max(s)}], file[Max(s)]>>]
      BY <2>1, <2>2 DEF FoldsBy
    <3> QED
      BY <3>1, <3>2
  <2>3. h[{}] = NotReading
    BY <2>1 DEF FoldsBy
  <2>4. ReadFold(file, h)
    <3> HIDE DEF step
    <3> QED
      BY <2>1, <2>2, <2>3 DEF ReadFold
  <2> QED
    BY <2>4, Zenon
<1>4. ParseRobots(file) = g[DOMAIN file].groups
  BY DEF ParseRobots, FoldLeft, MapThenFoldSet, ReadFold
<1> HIDE DEF g
<1>5. Folding(State, step, NotReading, file, g)
  <2>1. g[{}] = NotReading
    BY <1>3 DEF ReadFold
  <2>2. ASSUME NEW s \in SUBSET DOMAIN file, s # {}, g[s \ {Max(s)}] \in State
        PROVE  g[s] = step[<<g[s \ {Max(s)}], file[Max(s)]>>]
    <3>1. g[s] = ReadLine(g[s \ {Max(s)}], file[Max(s)])
      BY <1>3, <2>2 DEF ReadFold
    <3> QED
      BY <1>2, <2>2, <3>1
  <2> QED
    BY <2>1, <2>2 DEF Folding
<1>6. PICK t : Trace(State, step, NotReading, file, g, t)
  <2> HIDE DEF step
  <2> QED
    BY <1>1, <1>5, FoldTrace
<1>7. ASSUME NEW k \in 1 .. Len(file) PROVE t[k] = ReadLine(t[k - 1], file[k])
  <2>1. k - 1 \in 0 .. Len(file) /\ file[k] \in Line
    OBVIOUS
  <2> QED
    BY <1>6, <2>1 DEF Trace
<1>8. Parsing(file, t)
  BY <1>4, <1>6, <1>7 DEF Trace, Parsing
<1> QED
  BY <1>8

\* The group that is the last one after line k: where the line goes.
Home(t, k) == Len(t[k].groups)

\* The first of a block of user-agent lines.
Opens(file, k) == AgentLine(file, k) /\ (k = 1 \/ ~AgentLine(file, k - 1))

LEMMA LineRead ==
  ASSUME NEW file \in Seq(Line), NEW t, Parsing(file, t), NEW k \in 1 .. Len(file)
  PROVE  /\ k - 1 \in 0 .. Len(file) /\ file[k] \in Line /\ t[k - 1] \in State /\ t[k] \in State
         /\ Home(t, k - 1) \in Nat /\ Home(t, k) \in Nat
         /\ Changes(t[k - 1], t[k], file[k])
<1>1. k - 1 \in 0 .. Len(file) /\ k \in 0 .. Len(file) /\ file[k] \in Line
  OBVIOUS
<1>2. t[k - 1] \in State /\ t[k] \in State /\ t[k] = ReadLine(t[k - 1], file[k])
  BY <1>1 DEF Parsing
<1>3. Home(t, k - 1) \in Nat /\ Home(t, k) \in Nat
  BY <1>2 DEF State, Home
<1> QED
  BY <1>1, <1>2, <1>3, LineChanges

LEMMA StartingMeans ==
  ASSUME NEW file \in Seq(Line), NEW t, Parsing(file, t)
  PROVE  \A k \in 0 .. Len(file) : t[k].starting <=> Home(t, k) = 0 \/ AgentLine(file, k)
<1> DEFINE S == {k \in 0 .. Len(file) : t[k].starting <=> Home(t, k) = 0 \/ AgentLine(file, k)}
<1>1. 0 \in S
  BY NothingRead DEF Parsing, Home
<1>2. ASSUME NEW k \in 1 .. Len(file), k - 1 \in S PROVE k \in S
  <2>1. /\ Home(t, k - 1) \in Nat /\ Home(t, k) \in Nat
        /\ Changes(t[k - 1], t[k], file[k])
    BY LineRead
  <2>2. t[k - 1].starting <=> Home(t, k - 1) = 0 \/ AgentLine(file, k - 1)
    BY <1>2
  <2>3. t[k].starting <=> AgentLine(file, k) \/ (Home(t, k - 1) = 0 /\ t[k - 1].starting)
    BY <2>1 DEF Changes, AgentLine, Home
  <2>4. ~AgentLine(file, k) => Home(t, k) = Home(t, k - 1)
    BY <2>1 DEF Changes, AgentLine, Home
  <2>5. t[k].starting <=> Home(t, k) = 0 \/ AgentLine(file, k)
    BY <2>2, <2>3, <2>4
  <2> QED
    BY <2>5
<1>3. \A k \in 0 .. Len(file) : k \in S
  <2> HIDE DEF S
  <2>1. Len(file) \in Nat
    OBVIOUS
  <2> QED
    BY <1>1, <1>2, <2>1, CountingUp
<1> QED
  BY <1>3

\* A block of user-agent lines opens a group.
LEMMA HomeMoves ==
  ASSUME NEW file \in Seq(Line), NEW t, Parsing(file, t), NEW k \in 1 .. Len(file)
  PROVE  /\ Home(t, k) = IF Opens(file, k) THEN Home(t, k - 1) + 1 ELSE Home(t, k - 1)
         /\ AgentLine(file, k) => Home(t, k) # 0
<1>1. ASSUME NEW j \in 1 .. Len(file)
      PROVE  /\ Home(t, j) = IF AgentLine(file, j) /\ ~(Home(t, j - 1) # 0 /\ AgentLine(file, j - 1))
                               THEN Home(t, j - 1) + 1 ELSE Home(t, j - 1)
             /\ Home(t, j - 1) \in Nat /\ Home(t, j) \in Nat
  <2>1. /\ Home(t, j - 1) \in Nat /\ Home(t, j) \in Nat /\ j - 1 \in 0 .. Len(file)
        /\ Changes(t[j - 1], t[j], file[j])
    BY LineRead
  <2>2. Home(t, j) = IF AgentLine(file, j) /\ ~(Home(t, j - 1) # 0 /\ t[j - 1].starting)
                       THEN Home(t, j - 1) + 1 ELSE Home(t, j - 1)
    BY <2>1 DEF Changes, AgentLine, Home
  <2>3. t[j - 1].starting <=> Home(t, j - 1) = 0 \/ AgentLine(file, j - 1)
    BY <2>1, StartingMeans
  <2> QED
    BY <2>1, <2>2, <2>3
<1>2. \A j \in 1 .. Len(file) : AgentLine(file, j) => Home(t, j) # 0
  BY <1>1
<1>3. k = 1 => Home(t, k - 1) = 0
  BY NothingRead DEF Parsing, Home
<1>4. k # 1 => k - 1 \in 1 .. Len(file)
  OBVIOUS
<1>5. ~(Home(t, k - 1) # 0 /\ AgentLine(file, k - 1)) <=> k = 1 \/ ~AgentLine(file, k - 1)
  BY <1>2, <1>3, <1>4
<1> QED
  BY <1>1, <1>2, <1>5 DEF Opens

AgentLines(file, t, g, k) == {i \in 1..k : AgentLine(file, i) /\ Home(t, i) = g}

RuleLines(file, t, g, k) ==
  {i \in 1..k : RuleLine(file[i]) /\ Effective(file[i]) /\ Home(t, i) = g}

\* What line k adds to the group of a number, if there is one.
LEMMA LineAdds ==
  ASSUME NEW file \in Seq(Line), NEW t, Parsing(file, t), NEW k \in 1 .. Len(file),
         NEW g \in Nat \ {0}
  PROVE  /\ AgentsIn(t[k], g) = AgentsIn(t[k - 1], g) \cup
              (IF AgentLine(file, k) /\ g = Home(t, k) THEN {file[k].agent} ELSE {})
         /\ RulesIn(t[k], g) = RulesIn(t[k - 1], g) \cup
              (IF RuleLine(file[k]) /\ Effective(file[k]) /\ g = Home(t, k)
                 THEN {Effect(file[k])} ELSE {})
<1>1. /\ Home(t, k - 1) \in Nat /\ Home(t, k) \in Nat
      /\ Changes(t[k - 1], t[k], file[k])
  BY LineRead
<1>2. CASE g \in 1 .. Home(t, k)
  BY <1>1, <1>2 DEF Changes, Home, AgentLine
<1>3. CASE g \notin 1 .. Home(t, k)
  <2>1. Home(t, k - 1) <= Home(t, k)
    BY <1>1, HomeMoves
  <2>2. g \notin 1 .. Home(t, k - 1) /\ g # Home(t, k)
    BY <1>1, <1>3, <2>1
  <2>3. /\ AgentsIn(t[k], g) = {} /\ AgentsIn(t[k - 1], g) = {}
        /\ RulesIn(t[k], g) = {} /\ RulesIn(t[k - 1], g) = {}
    BY <1>3, <2>2 DEF AgentsIn, RulesIn, Home
  <2> QED
    BY <2>2, <2>3
<1> QED
  BY <1>2, <1>3

\* A group has the agents and the rules of the lines that went to it.
LEMMA GroupContents ==
  ASSUME NEW file \in Seq(Line), NEW t, Parsing(file, t), NEW g \in Nat \ {0}
  PROVE  \A k \in 0 .. Len(file) :
           /\ AgentsIn(t[k], g) = {file[i].agent : i \in AgentLines(file, t, g, k)}
           /\ RulesIn(t[k], g) = {Effect(file[i]) : i \in RuleLines(file, t, g, k)}
<1> DEFINE S == {k \in 0 .. Len(file) :
                   /\ AgentsIn(t[k], g) = {file[i].agent : i \in AgentLines(file, t, g, k)}
                   /\ RulesIn(t[k], g) = {Effect(file[i]) : i \in RuleLines(file, t, g, k)}}
<1>1. 0 \in S
  <2>1. AgentLines(file, t, g, 0) = {} /\ RuleLines(file, t, g, 0) = {}
    BY DEF AgentLines, RuleLines
  <2>2. AgentsIn(t[0], g) = {} /\ RulesIn(t[0], g) = {}
    BY NothingRead DEF Parsing, AgentsIn, RulesIn
  <2> QED
    BY <2>1, <2>2
<1>2. ASSUME NEW k \in 1 .. Len(file), k - 1 \in S PROVE k \in S
  <2>1. 1..k = (1 .. k - 1) \cup {k} /\ k \in 0 .. Len(file)
    OBVIOUS
  <2>2. /\ AgentsIn(t[k - 1], g) = {file[i].agent : i \in AgentLines(file, t, g, k - 1)}
        /\ RulesIn(t[k - 1], g) = {Effect(file[i]) : i \in RuleLines(file, t, g, k - 1)}
    BY <1>2
  <2>3. AgentLines(file, t, g, k) = AgentLines(file, t, g, k - 1) \cup
          (IF AgentLine(file, k) /\ g = Home(t, k) THEN {k} ELSE {})
    BY <2>1 DEF AgentLines
  <2>4. RuleLines(file, t, g, k) = RuleLines(file, t, g, k - 1) \cup
          (IF RuleLine(file[k]) /\ Effective(file[k]) /\ g = Home(t, k) THEN {k} ELSE {})
    BY <2>1 DEF RuleLines
  <2>5. AgentsIn(t[k], g) = {file[i].agent : i \in AgentLines(file, t, g, k)}
    <3>1. AgentsIn(t[k], g) = AgentsIn(t[k - 1], g) \cup
            (IF AgentLine(file, k) /\ g = Home(t, k) THEN {file[k].agent} ELSE {})
      BY LineAdds
    <3> QED
      BY <2>2, <2>3, <3>1
  <2>6. RulesIn(t[k], g) = {Effect(file[i]) : i \in RuleLines(file, t, g, k)}
    <3>1. RulesIn(t[k], g) = RulesIn(t[k - 1], g) \cup
            (IF RuleLine(file[k]) /\ Effective(file[k]) /\ g = Home(t, k)
               THEN {Effect(file[k])} ELSE {})
      BY LineAdds
    <3> QED
      BY <2>2, <2>4, <3>1
  <2> QED
    BY <2>1, <2>5, <2>6
<1>3. \A k \in 0 .. Len(file) : k \in S
  <2>1. Len(file) \in Nat
    OBVIOUS
  <2> HIDE DEF S
  <2> QED
    BY <1>1, <1>2, <2>1, CountingUp
<1> QED
  BY <1>3

\* Later lines never go to an earlier group.
LEMMA HomesGrow ==
  ASSUME NEW file \in Seq(Line), NEW t, Parsing(file, t),
         NEW i \in 0 .. Len(file), NEW k \in i .. Len(file)
  PROVE  Home(t, i) <= Home(t, k)
<1> DEFINE n == Len(file) - i
           S == {d \in 0..n : Home(t, i) <= Home(t, i + d)}
<1>1. n \in Nat /\ Len(file) \in Nat /\ i + 0 = i
  OBVIOUS
<1>2. \A j \in 0 .. Len(file) : Home(t, j) \in Nat
  BY DEF Parsing, State, Home
<1>3. 0 \in S
  BY <1>1, <1>2
<1>4. ASSUME NEW d \in 1..n, d - 1 \in S PROVE d \in S
  <2>1. i + d \in 1 .. Len(file) /\ i + d - 1 = i + (d - 1) /\ d \in 0..n
        /\ i + d \in 0 .. Len(file) /\ i + (d - 1) \in 0 .. Len(file)
    BY <1>1
  <2>2. Home(t, i + (d - 1)) <= Home(t, i + d)
    BY <1>2, <2>1, HomeMoves
  <2> QED
    BY <1>2, <1>4, <2>1, <2>2
<1>5. k - i \in S
  <2>1. k - i \in 0..n
    BY <1>1
  <2> HIDE DEF S, n
  <2> QED
    BY <1>1, <1>3, <1>4, <2>1, CountingUp
<1> QED
  BY <1>1, <1>5

\* They go to the same one if no block of user-agent lines opens between them.
LEMMA HomeStays ==
  ASSUME NEW file \in Seq(Line), NEW t, Parsing(file, t),
         NEW i \in 0 .. Len(file), NEW k \in i .. Len(file),
         \A c \in i + 1 .. k : ~Opens(file, c)
  PROVE  Home(t, k) = Home(t, i)
<1> DEFINE n == k - i
           S == {d \in 0..n : Home(t, i + d) = Home(t, i)}
<1>1. n \in Nat /\ Len(file) \in Nat /\ i + 0 = i /\ i + n = k
  OBVIOUS
<1>2. 0 \in S
  BY <1>1
<1>3. ASSUME NEW d \in 1..n, d - 1 \in S PROVE d \in S
  <2>1. /\ i + d \in 1 .. Len(file) /\ i + d - 1 = i + (d - 1) /\ d \in 0..n
        /\ i + d \in i + 1 .. k
    BY <1>1
  <2>2. Home(t, i + d) = Home(t, i + (d - 1))
    BY <2>1, HomeMoves
  <2> QED
    BY <1>3, <2>1, <2>2
<1>4. n \in S
  <2>1. n \in 0..n
    BY <1>1
  <2> HIDE DEF S, n
  <2> QED
    BY <1>1, <1>2, <1>3, <2>1, CountingUp
<1> QED
  BY <1>1, <1>4

\* A user-agent line after another line goes to a later group.
LEMMA HomeLeft ==
  ASSUME NEW file \in Seq(Line), NEW t, Parsing(file, t),
         NEW i \in 1 .. Len(file), NEW k \in i + 1 .. Len(file),
         ~AgentLine(file, i), AgentLine(file, k)
  PROVE  Home(t, i) < Home(t, k)
<1> DEFINE T == {c \in i + 1 .. k : AgentLine(file, c)}
<1>1. T \subseteq Nat /\ k \in T /\ Len(file) \in Nat
  OBVIOUS
<1>2. PICK c \in T : \A d \in T : c <= d
  <2> HIDE DEF T
  <2> QED
    BY <1>1, MinIsMember
<1>3. /\ c \in 1 .. Len(file) /\ c # 1 /\ c - 1 \in i .. k /\ c - 1 \in 0 .. Len(file)
      /\ k \in c .. Len(file) /\ c \in 0 .. Len(file) /\ i \in 0 .. Len(file)
      /\ c - 1 \in i .. Len(file)
  OBVIOUS
<1>4. ~AgentLine(file, c - 1)
  <2>1. CASE c - 1 = i
    BY <2>1
  <2>2. CASE c - 1 # i
    <3>1. c - 1 \in i + 1 .. k /\ ~(c <= c - 1)
      BY <1>3, <2>2
    <3> QED
      BY <1>2, <3>1
  <2> QED
    BY <2>1, <2>2
<1>5. Home(t, c) = Home(t, c - 1) + 1
  BY <1>3, <1>4, HomeMoves DEF Opens
<1>6. Home(t, i) <= Home(t, c - 1) /\ Home(t, c) <= Home(t, k)
  BY <1>3, HomesGrow
<1>7. Home(t, i) \in Nat /\ Home(t, c - 1) \in Nat /\ Home(t, k) \in Nat
  BY <1>3 DEF Parsing, State, Home
<1> QED
  BY <1>5, <1>6, <1>7

\* The agents that a line is about are those of the group it went to.
LEMMA AgentsOfGroup ==
  ASSUME NEW file \in Seq(Line), NEW t, Parsing(file, t),
         NEW k \in 1 .. Len(file), ~AgentLine(file, k)
  PROVE  AgentsOf(file, k) =
           {file[i].agent : i \in AgentLines(file, t, Home(t, k), Len(file))}
<1> DEFINE Block(i) == /\ AgentLine(file, i)
                       /\ \A a \in i .. k - 1, b \in i .. k - 1 :
                            a < b /\ ~AgentLine(file, a) => ~AgentLine(file, b)
<1>1. ASSUME NEW i \in 1 .. k - 1, Block(i) PROVE Home(t, i) = Home(t, k)
  <2>1. i \in 0 .. Len(file) /\ k \in i .. Len(file)
    OBVIOUS
  <2>2. ASSUME NEW c \in i + 1 .. k PROVE ~Opens(file, c)
    <3>1. CASE c = k
      BY <3>1 DEF Opens
    <3>2. CASE c # k
      <4>1. c \in i .. k - 1 /\ c - 1 \in i .. k - 1 /\ c - 1 < c /\ c # 1
        BY <3>2
      <4>2. ~AgentLine(file, c - 1) => ~AgentLine(file, c)
        BY <1>1, <4>1
      <4> QED
        BY <4>1, <4>2 DEF Opens
    <3> QED
      BY <3>1, <3>2
  <2> QED
    BY <2>1, <2>2, HomeStays
<1>2. ASSUME NEW i \in 1 .. Len(file), AgentLine(file, i), Home(t, i) = Home(t, k)
      PROVE  i \in 1 .. k - 1 /\ Block(i)
  <2>1. \A j \in 0 .. Len(file) : Home(t, j) \in Nat
    BY DEF Parsing, State, Home
  <2>2. i \in 0 .. Len(file) /\ k \in 0 .. Len(file) /\ i # k
    BY <1>2
  <2>3. ~(i > k)
    <3>1. ASSUME i > k PROVE FALSE
      <4>1. i \in k + 1 .. Len(file)
        BY <3>1
      <4>2. Home(t, k) < Home(t, i)
        BY <1>2, <4>1, HomeLeft
      <4> QED
        BY <1>2, <2>1, <2>2, <4>2
    <3> QED
      BY <3>1
  <2>4. ASSUME NEW a \in i .. k - 1, NEW b \in i .. k - 1, a < b, ~AgentLine(file, a),
               AgentLine(file, b)
        PROVE  FALSE
    <3>1. /\ a \in 1 .. Len(file) /\ b \in a + 1 .. Len(file) /\ b \in 0 .. Len(file)
          /\ a \in 0 .. Len(file) /\ k \in b .. Len(file) /\ a \in i .. Len(file)
      BY <2>2, <2>4
    <3>2. Home(t, a) < Home(t, b)
      BY <2>4, <3>1, HomeLeft
    <3>3. Home(t, i) <= Home(t, a) /\ Home(t, b) <= Home(t, k)
      BY <2>2, <3>1, HomesGrow
    <3> QED
      BY <1>2, <2>1, <2>2, <3>1, <3>2, <3>3
  <2>5. i \in 1 .. k - 1
    BY <2>2, <2>3
  <2> QED
    BY <1>2, <2>4, <2>5
<1>3. {i \in 1 .. k - 1 : Block(i)} = AgentLines(file, t, Home(t, k), Len(file))
  <2>1. 1 .. k - 1 \subseteq 1 .. Len(file)
    OBVIOUS
  <2> QED
    BY <1>1, <1>2, <2>1 DEF AgentLines
<1> QED
  BY <1>3 DEF AgentsOf

----------------------------------------------------------------------------
(* The group of our token.                                                 *)

Ours(token, a) == a # Everyone /\ IsPrefix(a, token)

\* The agents of the group of a number, in the end.
AgentsAt(file, t, g) == AgentsIn(t[Len(file)], g)

LEMMA LastIsLine ==
  ASSUME NEW file \in Seq(Line), NEW t, Parsing(file, t)
  PROVE  /\ Len(file) \in Nat /\ Len(file) \in 0 .. Len(file) /\ t[Len(file)] \in State
         /\ ParseRobots(file) = t[Len(file)].groups
         /\ Len(ParseRobots(file)) = Home(t, Len(file))
         /\ DOMAIN ParseRobots(file) = 1 .. Home(t, Len(file)) /\ Home(t, Len(file)) \in Nat
<1>1. Len(file) \in Nat /\ Len(file) \in 0 .. Len(file)
  OBVIOUS
<1>2. t[Len(file)] \in State /\ ParseRobots(file) = t[Len(file)].groups
  BY <1>1 DEF Parsing
<1>3. ParseRobots(file) \in Seq(Group)
  BY <1>2 DEF State
<1> QED
  BY <1>1, <1>2, <1>3 DEF Home

\* Every user-agent line names an agent of a group.
LEMMA AgentsAreLines ==
  ASSUME NEW file \in Seq(Line), NEW t, Parsing(file, t), NEW a
  PROVE  (\E g \in 1 .. Home(t, Len(file)) : a \in AgentsAt(file, t, g)) <=>
         (\E k \in 1 .. Len(file) : AgentLine(file, k) /\ file[k].agent = a)
<1>1. Len(file) \in 0 .. Len(file) /\ Len(file) \in Nat /\ Home(t, Len(file)) \in Nat
  BY LastIsLine
<1>2. ASSUME NEW g \in 1 .. Home(t, Len(file)), a \in AgentsAt(file, t, g)
      PROVE  \E k \in 1 .. Len(file) : AgentLine(file, k) /\ file[k].agent = a
  <2>1. g \in Nat \ {0}
    BY <1>1
  <2>2. AgentsAt(file, t, g) = {file[i].agent : i \in AgentLines(file, t, g, Len(file))}
    BY <1>1, <2>1, GroupContents DEF AgentsAt
  <2> QED
    BY <1>2, <2>2 DEF AgentLines
<1>3. ASSUME NEW k \in 1 .. Len(file), AgentLine(file, k), file[k].agent = a
      PROVE  \E g \in 1 .. Home(t, Len(file)) : a \in AgentsAt(file, t, g)
  <2>1. /\ k \in 0 .. Len(file) /\ Len(file) \in k .. Len(file)
        /\ Home(t, k) # 0 /\ Home(t, k) \in Nat
    BY <1>1, <1>3, HomeMoves, LineRead
  <2>2. Home(t, k) <= Home(t, Len(file))
    BY <2>1, HomesGrow
  <2>3. Home(t, k) \in Nat \ {0} /\ Home(t, k) \in 1 .. Home(t, Len(file))
    BY <1>1, <2>1, <2>2
  <2>4. AgentsAt(file, t, Home(t, k)) =
          {file[i].agent : i \in AgentLines(file, t, Home(t, k), Len(file))}
    BY <1>1, <2>3, GroupContents DEF AgentsAt
  <2>5. k \in AgentLines(file, t, Home(t, k), Len(file))
    BY <1>3 DEF AgentLines
  <2> QED
    BY <1>3, <2>3, <2>4, <2>5
<1> QED
  BY <1>2, <1>3

\* In a file whose tokens open one group each, an agent is of one group.
LEMMA OneGroup ==
  ASSUME NEW file \in Seq(Line), NEW t, Parsing(file, t), OneGroupEach(file), NEW a,
         NEW g \in 1 .. Home(t, Len(file)), NEW h \in 1 .. Home(t, Len(file)),
         a \in AgentsAt(file, t, g), a \in AgentsAt(file, t, h)
  PROVE  g = h
<1>1. Len(file) \in 0 .. Len(file) /\ Len(file) \in Nat /\ Home(t, Len(file)) \in Nat
  BY LastIsLine
<1>2. g \in Nat \ {0} /\ h \in Nat \ {0}
  BY <1>1
<1>3. /\ AgentsAt(file, t, g) = {file[i].agent : i \in AgentLines(file, t, g, Len(file))}
      /\ AgentsAt(file, t, h) = {file[i].agent : i \in AgentLines(file, t, h, Len(file))}
  BY <1>1, <1>2, GroupContents DEF AgentsAt
<1>4. ASSUME NEW i \in 1 .. Len(file), NEW k \in 1 .. Len(file), i <= k,
             AgentLine(file, i), AgentLine(file, k), file[i].agent = file[k].agent
      PROVE  Home(t, i) = Home(t, k)
  <2>1. file[i] = file[k]
    <3>1. file[i] \in [field : {"user-agent"}, agent : Text]
          /\ file[k] \in [field : {"user-agent"}, agent : Text]
      <4>1. file[i] \in Line /\ file[k] \in Line
        OBVIOUS
      <4> QED
        BY <1>4, <4>1 DEF Line, AgentLine
    <3> QED
      BY <1>4, <3>1
  <2>2. i < k => \A j \in i .. k : AgentLine(file, j)
    BY <1>4, <2>1 DEF OneGroupEach
  <2>3. ASSUME NEW c \in i + 1 .. k PROVE ~Opens(file, c)
    <3>1. c - 1 \in i .. k /\ i < k /\ c # 1
      OBVIOUS
    <3> QED
      BY <2>2, <3>1 DEF Opens
  <2>4. i \in 0 .. Len(file) /\ k \in i .. Len(file)
    BY <1>4
  <2> QED
    BY <2>3, <2>4, HomeStays
<1>5. PICK i \in AgentLines(file, t, g, Len(file)) : a = file[i].agent
  BY <1>3
<1>6. PICK k \in AgentLines(file, t, h, Len(file)) : a = file[k].agent
  BY <1>3
<1>7. /\ i \in 1 .. Len(file) /\ AgentLine(file, i) /\ Home(t, i) = g
      /\ k \in 1 .. Len(file) /\ AgentLine(file, k) /\ Home(t, k) = h
  BY DEF AgentLines
<1>8. i <= k \/ k <= i
  BY <1>1, <1>7
<1>9. Home(t, i) = Home(t, k)
  BY <1>4, <1>5, <1>6, <1>7, <1>8
<1> QED
  BY <1>7, <1>9

\* Tokens of one length that begin ours are the same.
LEMMA OneOfALength ==
  ASSUME NEW token \in Text, NEW a \in Text, NEW b \in Text,
         IsPrefix(a, token), IsPrefix(b, token), Len(a) = Len(b)
  PROVE  a = b
<1>1. SubSeq(a, 1, Len(a)) = a /\ SubSeq(b, 1, Len(b)) = b
  BY SubSeqFull DEF Text
<1> QED
  BY <1>1 DEF IsPrefix

LEMMA AgentsAreText ==
  ASSUME NEW file \in Seq(Line), NEW k \in 1 .. Len(file), AgentLine(file, k)
  PROVE  file[k].agent \in Text
<1>1. file[k] \in Line
  OBVIOUS
<1> QED
  BY <1>1, LineKinds DEF AgentLine

\* The names of the file that begin our token.
Names(file, token) ==
  {file[k].agent : k \in {j \in DOMAIN file : AgentLine(file, j) /\ Ours(token, file[j].agent)}}

LEMMA KnownByLongest ==
  ASSUME NEW file \in Seq(Line), NEW token \in Text
  PROVE  /\ \A a \in Names(file, token) :
              a \in Text /\ Ours(token, a) /\ Len(a) \in 0 .. Len(token)
         /\ Names(file, token) = {} => KnownAs(file, token) = Everyone
         /\ Names(file, token) # {} =>
              /\ KnownAs(file, token) \in Names(file, token)
              /\ \A b \in Names(file, token) : Len(KnownAs(file, token)) >= Len(b)
<1> DEFINE N == Names(file, token)
           lens == {Len(a) : a \in N}
<1>1. Len(token) \in Nat
  BY DEF Text
<1>2. ASSUME NEW a \in N PROVE a \in Text /\ Ours(token, a) /\ Len(a) \in 0 .. Len(token)
  <2>1. PICK k \in 1 .. Len(file) : AgentLine(file, k) /\ Ours(token, file[k].agent) /\ a = file[k].agent
    BY DEF Names
  <2>2. a \in Text
    BY <2>1, AgentsAreText
  <2>3. Len(a) \in Nat /\ Len(a) <= Len(token)
    BY <2>1, <2>2 DEF Ours, IsPrefix, Text
  <2> QED
    BY <1>1, <2>1, <2>2, <2>3
<1>3. KnownAs(file, token) =
        IF N = {} THEN Everyone ELSE CHOOSE a \in N : \A b \in N : Len(a) >= Len(b)
  BY DEF KnownAs, Names, Ours
<1>4. N # {} => \E a \in N : \A b \in N : Len(a) >= Len(b)
  <2> SUFFICES ASSUME N # {} PROVE \E a \in N : \A b \in N : Len(a) >= Len(b)
    OBVIOUS
  <2>1. lens \subseteq 0 .. Len(token) /\ lens # {}
    BY <1>2
  <2>2. Max(lens) \in lens /\ \A y \in lens : y <= Max(lens)
    <3> HIDE DEF lens
    <3> QED
      BY <1>1, <2>1, MaxIsGreatest
  <2>3. PICK a \in N : Len(a) = Max(lens)
    BY <2>2
  <2>4. \A b \in N : Len(b) <= Len(a)
    BY <2>2, <2>3
  <2>5. \A b \in N : Len(a) >= Len(b)
    BY <1>1, <1>2, <2>4
  <2> QED
    BY <2>5
<1> HIDE DEF N
<1>5. N # {} => /\ KnownAs(file, token) \in N
                /\ \A b \in N : Len(KnownAs(file, token)) >= Len(b)
  BY <1>3, <1>4, Zenon
<1> QED
  BY <1>2, <1>3, <1>5 DEF N

\* The group of a token: the one its name in the file is an agent of.
IsGroupOf(file, t, token, g) ==
  LET known == KnownAs(file, token)
  IN  \/ g = 0 /\ \A h \in 1 .. Home(t, Len(file)) : known \notin AgentsAt(file, t, h)
      \/ /\ g \in 1 .. Home(t, Len(file))
         /\ \A h \in 1 .. Home(t, Len(file)) : known \in AgentsAt(file, t, h) <=> h = g

LEMMA MinOfOne ==
  ASSUME NEW g \in Nat
  PROVE  Min({g}) = g
<1>1. {g} \subseteq Nat /\ {g} # {}
  OBVIOUS
<1>2. Min({g}) \in {g}
  BY <1>1, MinIsMember
<1> QED
  BY <1>2

LEMMA GroupIsFound ==
  ASSUME NEW file \in Seq(Line), NEW token \in Text, NEW t, Parsing(file, t), OneGroupEach(file)
  PROVE  IsGroupOf(file, t, token, GroupFor(ParseRobots(file), token))
<1> DEFINE groups == ParseRobots(file)
           m == Home(t, Len(file))
           known == KnownAs(file, token)
           N == Names(file, token)
           match == [g \in 1..m |-> {a \in AgentsAt(file, t, g) : Ours(token, a)}]
           named == {g \in 1..m : match[g] # {}}
           lens == [g \in named |-> {Len(a) : a \in match[g]}]
           length == [g \in named |-> Max(lens[g])]
           longest == {g \in named : \A h \in named : length[g] >= length[h]}
           everyone == {g \in 1..m : Everyone \in AgentsAt(file, t, g)}
<1>1. /\ DOMAIN groups = 1..m /\ m \in Nat /\ Len(token) \in Nat
      /\ \A g \in 1..m : ToSet(groups[g].agents) = AgentsAt(file, t, g)
  <2>1. /\ DOMAIN groups = 1..m /\ m \in Nat /\ groups = t[Len(file)].groups
        /\ m = Len(t[Len(file)].groups)
    BY LastIsLine DEF Home
  <2>2. Len(token) \in Nat
    BY DEF Text
  <2> QED
    BY <2>1, <2>2 DEF AgentsAt, AgentsIn
<1>2. ASSUME NEW g \in 1..m
      PROVE  Matching(groups[g], token) = match[g]
  BY <1>1 DEF Matching, Ours
<1>3. GroupFor(groups, token) =
        IF named # {} THEN Min(longest) ELSE IF everyone # {} THEN Min(everyone) ELSE 0
  <2>1. named = {g \in DOMAIN groups : Matching(groups[g], token) # {}}
    BY <1>1, <1>2
  <2>2. length = [g \in named |-> Max({Len(a) : a \in Matching(groups[g], token)})]
    BY <1>2
  <2>3. everyone = {g \in DOMAIN groups : Everyone \in ToSet(groups[g].agents)}
    BY <1>1
  <2> HIDE DEF named, length, everyone
  <2> QED
    BY <2>1, <2>2, <2>3 DEF GroupFor
<1> HIDE DEF groups
<1>4. ASSUME NEW a
      PROVE  a \in N <=> \E g \in 1..m : a \in match[g]
  <2>1. (\E g \in 1..m : a \in AgentsAt(file, t, g)) <=>
        (\E k \in 1 .. Len(file) : AgentLine(file, k) /\ file[k].agent = a)
    BY AgentsAreLines
  <2>2. DOMAIN file = 1 .. Len(file)
    OBVIOUS
  <2> QED
    BY <2>1, <2>2 DEF Names
<1>5. \A a \in N : a \in Text /\ Ours(token, a) /\ Len(a) \in 0 .. Len(token)
  BY KnownByLongest
<1>6. ASSUME NEW g \in 1..m, NEW h \in 1..m, NEW a, a \in AgentsAt(file, t, g),
             a \in AgentsAt(file, t, h)
      PROVE  g = h
  BY <1>6, OneGroup
<1> HIDE DEF m, N
<1>7. CASE N = {}
  <2>1. named = {} /\ known = Everyone
    BY <1>4, <1>7, KnownByLongest DEF N
  <2>2. CASE everyone = {}
    <3>1. GroupFor(groups, token) = 0
      BY <1>3, <2>1, <2>2
    <3> QED
      BY <2>1, <2>2, <3>1 DEF IsGroupOf, groups, m
  <2>3. CASE everyone # {}
    <3>1. PICK g \in 1..m : Everyone \in AgentsAt(file, t, g)
      BY <2>3
    <3>2. everyone = {g}
      BY <1>6, <3>1
    <3>3. Min(everyone) = g
      BY <1>1, <3>2, MinOfOne
    <3>4. GroupFor(groups, token) = g
      BY <1>3, <2>1, <2>3, <3>3
    <3>5. \A h \in 1..m : known \in AgentsAt(file, t, h) <=> h = g
      BY <1>6, <2>1, <3>1
    <3> QED
      BY <3>1, <3>4, <3>5 DEF IsGroupOf, groups, m
  <2> QED
    BY <2>2, <2>3
<1>8. CASE N # {}
  <2>1. known \in N /\ \A b \in N : Len(known) >= Len(b)
    BY <1>8, KnownByLongest DEF N
  <2>2. PICK g \in 1..m : known \in match[g]
    BY <1>4, <2>1
  <2>3. ASSUME NEW h \in named
        PROVE  /\ h \in 1..m /\ length[h] = Max(lens[h])
               /\ Max(lens[h]) \in lens[h] /\ \A y \in lens[h] : y <= Max(lens[h])
               /\ lens[h] \subseteq 0 .. Len(token)
    <3>1. h \in 1..m /\ match[h] # {} /\ \A a \in match[h] : a \in N
      BY <1>4
    <3>2. lens[h] \subseteq 0 .. Len(token) /\ lens[h] # {}
      BY <1>5, <3>1
    <3>3. Max(lens[h]) \in lens[h] /\ \A y \in lens[h] : y <= Max(lens[h])
      <4> HIDE DEF lens
      <4> QED
        BY <1>1, <3>2, MaxIsGreatest
    <3> QED
      BY <3>1, <3>2, <3>3
  <2>4. ASSUME NEW h \in named
        PROVE  /\ length[h] <= Len(known) /\ length[h] \in 0 .. Len(token)
               /\ length[h] = Len(known) => h = g
    <3>1. PICK a \in match[h] : length[h] = Len(a)
      BY <2>3
    <3>2. a \in N /\ a \in Text /\ Len(a) \in 0 .. Len(token)
      BY <1>4, <1>5, <2>3, <3>1
    <3>3. Len(known) >= Len(a) /\ known \in Text /\ Len(known) \in 0 .. Len(token)
      BY <1>5, <2>1, <3>2
    <3>4. ASSUME Len(a) = Len(known) PROVE h = g
      <4>1. a = known
        BY <1>5, <2>1, <3>2, <3>3, <3>4, OneOfALength DEF Ours
      <4>2. known \in AgentsAt(file, t, h) /\ known \in AgentsAt(file, t, g)
        BY <2>2, <2>3, <4>1
      <4> QED
        BY <1>6, <2>3, <4>2
    <3> QED
      BY <1>1, <3>1, <3>2, <3>3, <3>4
  <2>5. g \in named /\ length[g] = Len(known)
    <3>1. g \in named /\ Len(known) \in lens[g]
      BY <2>2
    <3>2. Len(known) <= length[g] /\ Len(known) \in 0 .. Len(token)
      BY <1>5, <2>1, <2>3, <3>1
    <3>3. length[g] <= Len(known) /\ length[g] \in 0 .. Len(token)
      BY <2>4, <3>1
    <3>4. PICK x \in Int, y \in Int : x = length[g] /\ y = Len(known)
      <4>1. \A z \in 0 .. Len(token) : z \in Int
        BY <1>1
      <4> HIDE DEF length
      <4> QED
        BY <3>2, <3>3, <4>1
    <3>5. x <= y /\ y <= x
      BY <3>2, <3>3, <3>4, Zenon
    <3>6. x = y
      BY <3>5
    <3> QED
      BY <3>1, <3>4, <3>6, Zenon
  <2> HIDE DEF length, named
  <2>6. longest = {g}
    <3>1. g \in longest
      BY <1>1, <1>5, <2>1, <2>4, <2>5
    <3>2. ASSUME NEW h \in longest PROVE h = g
      <4>1. h \in named /\ length[h] >= length[g]
        BY <2>5
      <4> QED
        BY <1>1, <1>5, <2>1, <2>4, <2>5, <4>1
    <3> QED
      BY <3>1, <3>2
  <2>7. Min(longest) = g
    BY <1>1, <2>6, MinOfOne
  <2>8. GroupFor(groups, token) = g
    BY <1>3, <2>5, <2>7
  <2>9. \A h \in 1..m : known \in AgentsAt(file, t, h) <=> h = g
    BY <1>6, <2>2
  <2> QED
    BY <2>8, <2>9 DEF IsGroupOf, groups, m
<1> QED
  BY <1>7, <1>8

----------------------------------------------------------------------------
(* What a file allows.                                                     *)

\* A rule line for a path: its pattern, its length and its verdict are those
\* of the rule the parser makes of it.
LEMMA EffectOfLine ==
  ASSUME NEW line \in Line, RuleLine(line), NEW path \in Text
  PROVE  /\ Effective(line) => Effect(line) \in Verdict
         /\ RuleLength(line) = PatternLength(Effect(line).pattern)
         /\ Permits(line) <=> Effect(line).allow
         /\ (IF line.pattern = Nothing THEN line.field = "disallow" /\ Describes(Root, path)
                                       ELSE Describes(line.pattern, path))
              <=> Effective(line) /\ PatternHolds(Effect(line).pattern, path)
<1>1. line.pattern \in Pattern /\ Root \in Pattern
  BY LineKinds, RootIsPattern, Zenon
<1>2. /\ PatternHolds(Root, path) <=> Describes(Root, path)
      /\ PatternHolds(line.pattern, path) <=> Describes(line.pattern, path)
  BY <1>1, PatternsMatch
<1>3. CASE line.pattern = Nothing
  <2>1. Effect(line) = [pattern |-> Root, allow |-> TRUE]
    BY <1>3 DEF Effect
  <2>2. Effect(line) \in Verdict /\ Effect(line).pattern = Root /\ Effect(line).allow
    BY <1>1, <2>1 DEF Verdict
  <2>3. Permits(line) /\ (Effective(line) <=> line.field = "disallow")
    BY <1>3 DEF Permits, Effective
  <2>4. RuleLength(line) = PatternLength(Root)
    BY <1>3 DEF RuleLength
  <2> QED
    BY <1>2, <1>3, <2>2, <2>3, <2>4, Zenon
<1>4. CASE line.pattern # Nothing
  <2>1. Effect(line) = [pattern |-> line.pattern, allow |-> line.field = "allow"]
    BY <1>4 DEF Effect
  <2>2. /\ Effect(line) \in Verdict /\ Effect(line).pattern = line.pattern
        /\ Effect(line).allow <=> line.field = "allow"
    <3>1. PICK b \in BOOLEAN : b <=> line.field = "allow"
      OBVIOUS
    <3>2. b = (line.field = "allow")
      BY <3>1
    <3>3. Effect(line) = [pattern |-> line.pattern, allow |-> b]
      BY <2>1, <3>2, Zenon
    <3> QED
      BY <1>1, <3>1, <3>3 DEF Verdict
  <2>3. (Permits(line) <=> line.field = "allow") /\ Effective(line)
    BY <1>4 DEF Permits, Effective
  <2>4. RuleLength(line) = PatternLength(line.pattern)
    BY <1>4 DEF RuleLength
  <2> QED
    BY <1>2, <1>4, <2>2, <2>3, <2>4, Zenon
<1> QED
  BY <1>3, <1>4

\* The rule lines about us are those of our group, and match as its rules do.
LEMMA RulesOfGroup ==
  ASSUME NEW file \in Seq(Line), NEW token \in Text, NEW path \in Text, NEW t, Parsing(file, t),
         NEW g, IsGroupOf(file, t, token, g)
  PROVE  RulesAbout(file, token, path) =
           IF g = 0 THEN {}
           ELSE {k \in RuleLines(file, t, g, Len(file)) :
                   PatternHolds(Effect(file[k]).pattern, path)}
<1> DEFINE known == KnownAs(file, token)
           m == Home(t, Len(file))
<1>1. Len(file) \in Nat /\ Len(file) \in 0 .. Len(file) /\ m \in Nat /\ DOMAIN file = 1 .. Len(file)
  BY LastIsLine
<1>2. ASSUME NEW k \in 1 .. Len(file), RuleLine(file[k])
      PROVE  known \in AgentsOf(file, k) <=> g # 0 /\ Home(t, k) = g
  <2>1. ~AgentLine(file, k)
    BY <1>2 DEF AgentLine, RuleLine
  <2>2. AgentsOf(file, k) = {file[i].agent : i \in AgentLines(file, t, Home(t, k), Len(file))}
    BY <2>1, AgentsOfGroup
  <2>3. /\ Home(t, k) \in Nat /\ k \in 0 .. Len(file) /\ Len(file) \in k .. Len(file)
        /\ Home(t, k) <= m
    BY <1>1, LineRead, HomesGrow
  <2>4. CASE Home(t, k) = 0
    <3>1. AgentLines(file, t, 0, Len(file)) = {}
      BY HomeMoves DEF AgentLines
    <3>2. AgentsOf(file, k) = {}
      BY <2>2, <2>4, <3>1
    <3> QED
      BY <2>4, <3>2
  <2>5. CASE Home(t, k) # 0
    <3>1. Home(t, k) \in Nat \ {0} /\ Home(t, k) \in 1..m
      BY <1>1, <2>3, <2>5
    <3>2. AgentsOf(file, k) = AgentsAt(file, t, Home(t, k))
      BY <1>1, <2>2, <3>1, GroupContents DEF AgentsAt
    <3>3. (g = 0 => known \notin AgentsAt(file, t, Home(t, k)))
          /\ (g # 0 => (known \in AgentsAt(file, t, Home(t, k)) <=> Home(t, k) = g))
      BY <3>1 DEF IsGroupOf
    <3> QED
      BY <3>2, <3>3, Zenon
  <2> QED
    BY <2>4, <2>5
<1>3. ASSUME NEW k \in 1 .. Len(file)
      PROVE  k \in RulesAbout(file, token, path) <=>
               /\ RuleLine(file[k]) /\ g # 0 /\ Home(t, k) = g /\ Effective(file[k])
               /\ PatternHolds(Effect(file[k]).pattern, path)
  <2>1. k \in RulesAbout(file, token, path) <=>
          /\ RuleLine(file[k]) /\ known \in AgentsOf(file, k)
          /\ IF file[k].pattern = Nothing THEN file[k].field = "disallow" /\ Describes(Root, path)
                                          ELSE Describes(file[k].pattern, path)
    BY <1>1 DEF RulesAbout, RuleLine
  <2>2. file[k] \in Line
    BY <1>1
  <2>3. RuleLine(file[k]) =>
          ((IF file[k].pattern = Nothing THEN file[k].field = "disallow" /\ Describes(Root, path)
                                         ELSE Describes(file[k].pattern, path))
             <=> Effective(file[k]) /\ PatternHolds(Effect(file[k]).pattern, path))
    BY <2>2, EffectOfLine
  <2> QED
    BY <1>2, <2>1, <2>3, Zenon
<1>4. RulesAbout(file, token, path) \subseteq 1 .. Len(file)
  BY <1>1 DEF RulesAbout
<1>5. CASE g = 0
  BY <1>3, <1>4, <1>5
<1>6. CASE g # 0
  BY <1>3, <1>4, <1>6 DEF RuleLines
<1> QED
  BY <1>5, <1>6

\* Parsing, the choice of the group and the verdict give what the lines of a
\* file say of us, for every file whose tokens open one group each
\* (robots.go: ParseRobots, groupFor, check).
THEOREM FilesAreObeyed ==
  ASSUME NEW file \in Seq(Line), OneGroupEach(file), NEW token \in Text, NEW path \in Text
  PROVE  Allows(ParseRobots(file), token, path) <=> FileAllows(file, token, path)
<1> DEFINE groups == ParseRobots(file)
           g == GroupFor(groups, token)
           about == RulesAbout(file, token, path)
           n == Len(file)
<1>1. PICK t : Parsing(file, t)
  BY ReadTrace
<1>2. IsGroupOf(file, t, token, g)
  BY <1>1, GroupIsFound
<1>3. about = IF g = 0 THEN {}
              ELSE {k \in RuleLines(file, t, g, n) : PatternHolds(Effect(file[k]).pattern, path)}
  BY <1>1, <1>2, RulesOfGroup
<1>4. FileAllows(file, token, path) <=>
        \/ about = {}
        \/ \E k \in about : /\ Permits(file[k])
                            /\ \A j \in about : RuleLength(file[k]) >= RuleLength(file[j])
  BY DEF FileAllows
<1>5. Allows(groups, token, path) <=> g = 0 \/ Decide(groups[g].rules, path)
  BY DEF Allows
<1> HIDE DEF g, about
<1>6. CASE g = 0
  BY <1>3, <1>4, <1>5, <1>6
<1>7. CASE g # 0
  <2> DEFINE rules == groups[g].rules
             lines == RuleLines(file, t, g, n)
  <2>1. g \in 1 .. Home(t, n) /\ n \in Nat /\ n \in 0..n /\ g \in Nat \ {0}
    BY <1>1, <1>2, <1>7, LastIsLine DEF IsGroupOf
  <2>2. /\ groups \in Seq(Group) /\ g \in DOMAIN groups /\ groups = t[n].groups
        /\ g \in 1 .. Len(t[n].groups)
    BY <1>1, <2>1, LastIsLine DEF State, Home
  <2>3. rules \in Seq(Verdict)
    <3>1. groups[g] \in Group
      <4> HIDE DEF groups
      <4> QED
        BY <2>2
    <3> QED
      BY <3>1 DEF Group
  <2>4. ToSet(rules) = {Effect(file[k]) : k \in lines}
    BY <1>1, <2>1, <2>2, GroupContents DEF RulesIn
  <2> HIDE DEF groups
  <2>5. ASSUME NEW k \in lines
        PROVE  /\ Effect(file[k]) \in Verdict /\ PatternLength(Effect(file[k]).pattern) \in Nat
               /\ RuleLength(file[k]) = PatternLength(Effect(file[k]).pattern)
               /\ Permits(file[k]) <=> Effect(file[k]).allow
    <3>1. k \in 1..n /\ RuleLine(file[k]) /\ Effective(file[k])
      BY DEF RuleLines
    <3>2. file[k] \in Line
      BY <3>1
    <3>3. /\ Effect(file[k]) \in Verdict
          /\ RuleLength(file[k]) = PatternLength(Effect(file[k]).pattern)
          /\ Permits(file[k]) <=> Effect(file[k]).allow
      BY <3>1, <3>2, EffectOfLine
    <3>4. PatternLength(Effect(file[k]).pattern) \in Nat
      BY <3>3, PatternLengthType DEF Verdict
    <3> QED
      BY <3>3, <3>4
  <2>6. about = {k \in lines : PatternHolds(Effect(file[k]).pattern, path)}
    BY <1>3, <1>7
  <2>7. /\ \A j \in DOMAIN rules : \E k \in lines : rules[j] = Effect(file[k])
        /\ \A k \in lines : \E j \in DOMAIN rules : rules[j] = Effect(file[k])
    BY <2>4 DEF ToSet
  <2> HIDE DEF rules, lines
  <2>8. Decide(rules, path) <=>
          \/ \A j \in DOMAIN rules : ~Applies(rules, path, j)
          \/ \E j \in DOMAIN rules :
               /\ Applies(rules, path, j) /\ rules[j].allow
               /\ \A i \in DOMAIN rules :
                    Applies(rules, path, i) => LengthAt(rules, i) <= LengthAt(rules, j)
    BY <2>3, LongestDecides
  <2>9. about = {} <=> \A j \in DOMAIN rules : ~Applies(rules, path, j)
    BY <2>6, <2>7 DEF Applies
  <2>10. ASSUME NEW k \in about, Permits(file[k]),
                \A j \in about : RuleLength(file[k]) >= RuleLength(file[j])
         PROVE  \E j \in DOMAIN rules :
                  /\ Applies(rules, path, j) /\ rules[j].allow
                  /\ \A i \in DOMAIN rules :
                       Applies(rules, path, i) => LengthAt(rules, i) <= LengthAt(rules, j)
    <3>1. k \in lines /\ PatternHolds(Effect(file[k]).pattern, path)
      BY <2>6
    <3>2. PICK j \in DOMAIN rules : rules[j] = Effect(file[k])
      BY <2>7, <3>1
    <3>3. Applies(rules, path, j) /\ rules[j].allow /\ LengthAt(rules, j) = RuleLength(file[k])
      BY <2>5, <2>10, <3>1, <3>2, Zenon DEF Applies, LengthAt
    <3>4. ASSUME NEW i \in DOMAIN rules, Applies(rules, path, i)
          PROVE  LengthAt(rules, i) <= LengthAt(rules, j)
      <4>1. PICK l \in lines : rules[i] = Effect(file[l])
        BY <2>7
      <4>2. l \in about /\ LengthAt(rules, i) = RuleLength(file[l]) /\ RuleLength(file[l]) \in Nat
        BY <2>5, <2>6, <3>4, <4>1 DEF Applies, LengthAt
      <4>3. RuleLength(file[k]) \in Nat
        BY <2>5, <3>1
      <4>4. RuleLength(file[k]) >= RuleLength(file[l])
        BY <2>10, <4>2
      <4> QED
        BY <3>3, <4>2, <4>3, <4>4
    <3> QED
      BY <3>3, <3>4
  <2>11. ASSUME NEW j \in DOMAIN rules, Applies(rules, path, j), rules[j].allow,
                \A i \in DOMAIN rules :
                  Applies(rules, path, i) => LengthAt(rules, i) <= LengthAt(rules, j)
         PROVE  \E k \in about : /\ Permits(file[k])
                                 /\ \A i \in about : RuleLength(file[k]) >= RuleLength(file[i])
    <3>1. PICK k \in lines : rules[j] = Effect(file[k])
      BY <2>7
    <3>2. k \in about /\ Permits(file[k]) /\ LengthAt(rules, j) = RuleLength(file[k])
          /\ RuleLength(file[k]) \in Nat
      BY <2>5, <2>6, <2>11, <3>1 DEF Applies, LengthAt
    <3>3. ASSUME NEW l \in about PROVE RuleLength(file[k]) >= RuleLength(file[l])
      <4>1. l \in lines /\ PatternHolds(Effect(file[l]).pattern, path)
        BY <2>6
      <4>2. PICK i \in DOMAIN rules : rules[i] = Effect(file[l])
        BY <2>7, <4>1
      <4>3. Applies(rules, path, i) /\ LengthAt(rules, i) = RuleLength(file[l])
            /\ RuleLength(file[l]) \in Nat
        BY <2>5, <4>1, <4>2 DEF Applies, LengthAt
      <4>4. LengthAt(rules, i) <= LengthAt(rules, j)
        BY <2>11, <4>3
      <4> QED
        BY <3>2, <4>3, <4>4
    <3> QED
      BY <3>2, <3>3
  <2>12. Decide(rules, path) <=> FileAllows(file, token, path)
    BY <1>4, <2>8, <2>9, <2>10, <2>11, Zenon
  <2> QED
    BY <1>5, <1>7, <2>12 DEF rules, groups
<1> QED
  BY <1>6, <1>7

\* The group of a token is one of the file's, or 0.
LEMMA GroupIsThere ==
  ASSUME NEW groups \in Seq(Group), NEW token \in Text
  PROVE  GroupFor(groups, token) \in 0 .. Len(groups)
<1> DEFINE m == Len(groups)
           named == {g \in DOMAIN groups : Matching(groups[g], token) # {}}
           lens == [g \in named |-> {Len(a) : a \in Matching(groups[g], token)}]
           length == [g \in named |-> Max(lens[g])]
           longest == {g \in named : \A h \in named : length[g] >= length[h]}
           everyone == {g \in DOMAIN groups : Everyone \in ToSet(groups[g].agents)}
           lengths == {length[g] : g \in named}
<1>1. GroupFor(groups, token) =
        IF named # {} THEN Min(longest) ELSE IF everyone # {} THEN Min(everyone) ELSE 0
  BY DEF GroupFor
<1>2. m \in Nat /\ DOMAIN groups = 1..m /\ Len(token) \in Nat
  BY DEF Text
<1>3. ASSUME NEW g \in named
      PROVE  length[g] \in 0 .. Len(token)
  <2>1. groups[g] \in Group
    OBVIOUS
  <2>2. \A a \in ToSet(groups[g].agents) : a \in Text
    BY <2>1 DEF Group, ToSet
  <2>3. \A a \in Matching(groups[g], token) : Len(a) \in Nat /\ Len(a) <= Len(token)
    BY <2>2 DEF Matching, IsPrefix, Text
  <2>4. lens[g] \subseteq 0 .. Len(token) /\ lens[g] # {}
    BY <1>2, <2>3
  <2>5. Max(lens[g]) \in lens[g]
    <3> HIDE DEF lens
    <3> QED
      BY <1>2, <2>4, MaxIsGreatest
  <2> QED
    BY <2>4, <2>5
<1>4. CASE named # {}
  <2> HIDE DEF length
  <2>1. lengths \subseteq 0 .. Len(token) /\ lengths # {}
    BY <1>3, <1>4
  <2>2. Max(lengths) \in lengths /\ \A y \in lengths : y <= Max(lengths)
    <3> HIDE DEF lengths
    <3> QED
      BY <1>2, <2>1, MaxIsGreatest
  <2>3. PICK g \in named : length[g] = Max(lengths)
    BY <2>2
  <2>4. \A h \in named : length[h] <= length[g]
    BY <2>2, <2>3
  <2>5. \A h \in named : length[g] >= length[h]
    BY <1>2, <1>3, <2>4
  <2>6. longest # {} /\ longest \subseteq 1..m
    BY <1>2, <2>5
  <2>7. Min(longest) \in longest
    <3>1. longest \subseteq Nat
      BY <1>2, <2>6
    <3> HIDE DEF longest
    <3> QED
      BY <2>6, <3>1, MinIsMember
  <2>8. Min(longest) \in 1..m
    BY <2>6, <2>7
  <2> QED
    BY <1>1, <1>2, <1>4, <2>8
<1>5. CASE (named = {}) /\ (everyone # {})
  <2>1. everyone \subseteq 1..m /\ everyone \subseteq Nat
    BY <1>2
  <2>2. Min(everyone) \in everyone
    <3> HIDE DEF everyone
    <3> QED
      BY <1>5, <2>1, MinIsMember
  <2> HIDE DEF named, longest, everyone
  <2>3. GroupFor(groups, token) = Min(everyone)
    BY <1>1, <1>5, Zenon
  <2>4. Min(everyone) \in 1..m
    BY <2>1, <2>2
  <2> HIDE DEF m
  <2>5. 1..m \subseteq 0..m
    BY <1>2
  <2> QED
    BY <2>3, <2>4, <2>5 DEF m
<1>6. CASE (named = {}) /\ (everyone = {})
  <2> HIDE DEF named, longest, everyone
  <2>1. GroupFor(groups, token) = 0
    BY <1>1, <1>6, Zenon
  <2> QED
    BY <1>2, <2>1
<1> HIDE DEF named, everyone
<1> QED
  BY <1>4, <1>5, <1>6

\* The delay a file asks of us is a number of seconds.
LEMMA DelayIsNatural ==
  ASSUME NEW file \in Seq(Line), NEW token \in Text
  PROVE  CrawlDelay(ParseRobots(file), token) \in Nat
<1>1. PICK t : Parsing(file, t)
  BY ReadTrace
<1>2. ParseRobots(file) \in Seq(Group)
  BY <1>1, LastIsLine DEF State
<1> DEFINE groups == ParseRobots(file)
           g == GroupFor(groups, token)
<1>3. g \in 0 .. Len(groups)
  BY <1>2, GroupIsThere
<1>4. g # 0 => groups[g].delay \in Nat
  <2> HIDE DEF groups, g
  <2>1. ASSUME g # 0 PROVE groups[g] \in Group
    BY <1>2, <1>3, <2>1 DEF groups
  <2> QED
    BY <2>1 DEF Group
<1> HIDE DEF groups, g
<1> QED
  BY <1>4 DEF CrawlDelay, g, groups

----------------------------------------------------------------------------
(* The client.                                                             *)

USE FetchAssumption

LEMMA DelaysAsked == AskedDelay \in [Origins -> Nat]
<1>1. ASSUME NEW o \in Origins PROVE CrawlDelay(Parsed[o], Token) \in Nat
  <2>1. RobotsFile[o] \in Seq(Line) /\ Token \in Text
    BY RobotsAssumption
  <2>2. Parsed[o] = ParseRobots(RobotsFile[o])
    BY DEF Parsed
  <2> QED
    BY <2>1, <2>2, DelayIsNatural
<1> QED
  BY <1>1 DEF AskedDelay

AnyGet == Get \cup {Idle}

LEMMA BusyIsGet ==
  ASSUME TypeOK, NEW w \in Workers, get[w] # Idle
  PROVE  get[w] \in Get
BY DEF TypeOK

LEMMA AwakeIsGet ==
  ASSUME TypeOK, NEW w \in Workers, get[w].stage # "idle"
  PROVE  get[w] \in Get /\ get[w] # Idle
BY DEF TypeOK, Idle

\* A Get of one worker becomes r; those of the others stay.
LEMMA Moved ==
  ASSUME TypeOK, NEW w \in Workers, NEW r \in AnyGet, get' = [get EXCEPT ![w] = r]
  PROVE  /\ get' \in [Workers -> AnyGet] /\ get'[w] = r
         /\ \A v \in Workers \ {w} : get'[v] = get[v]
BY DEF TypeOK, AnyGet

LEMMA HostIsHost ==
  ASSUME NEW g \in Get
  PROVE  OriginOf[g.page] \in Origins /\ HostOf[OriginOf[g.page]] \in Hosts
BY DEF Get

LEMMA DelaysAreNaturals ==
  ASSUME NEW attempt
  PROVE  Delays(attempt) \subseteq Nat
<1>1. Backoff(attempt) \in Nat
  BY DEF Backoff
<1>2. (Backoff(attempt) \div 2) .. Backoff(attempt) \subseteq Nat
  <2>1. Backoff(attempt) \div 2 \in Nat
    BY <1>1
  <2> QED
    BY <1>1, <2>1
<1>3. \A after \in RetryAfters : after \in Nat
  OBVIOUS
<1> QED
  BY <1>2, <1>3 DEF Delays

\* Every stage a Get can be in.
LEMMA StagesOfGet ==
  ASSUME NEW g \in Get, NEW stage \in Stage
  PROVE  [g EXCEPT !.stage = stage] \in Get
BY DEF Get

----------------------------------------------------------------------------
(* What each step does to the Get of its worker.                           *)

LEMMA ReserveEffect ==
  ASSUME TypeOK, NEW w \in Workers, Reserve(w)
  PROVE  \E r \in Get :
           /\ get' = [get EXCEPT ![w] = r] /\ get[w] \in Get
           /\ r.stage = "wait" /\ r.due = Earliest(Host(w)) /\ r.slot = slots[Host(w)] + 1
           /\ r.page = get[w].page /\ r.target = get[w].target
           /\ r.attempt = get[w].attempt /\ r.hits = get[w].hits /\ r.hops = get[w].hops
<1>1. get[w] \in Get
  BY AwakeIsGet DEF Reserve
<1>2. Host(w) \in Hosts
  BY <1>1, HostIsHost DEF Host, Origin
<1>3. Earliest(Host(w)) \in Nat /\ slots[Host(w)] + 1 \in Nat
  BY <1>2 DEF TypeOK, Earliest, Larger
<1> DEFINE r == [get[w] EXCEPT !.stage = "wait", !.due = Earliest(Host(w)),
                               !.slot = slots[Host(w)] + 1]
<1>4. get' = [get EXCEPT ![w] = r]
  BY DEF Reserve
<1>5. r \in Get
  BY <1>1, <1>3 DEF Get, Stage
<1>6. /\ r.stage = "wait" /\ r.due = Earliest(Host(w)) /\ r.slot = slots[Host(w)] + 1
      /\ r.page = get[w].page /\ r.target = get[w].target
      /\ r.attempt = get[w].attempt /\ r.hits = get[w].hits /\ r.hops = get[w].hops
  BY <1>1 DEF Get
<1> QED
  BY <1>1, <1>4, <1>5, <1>6

LEMMA SendEffect ==
  ASSUME TypeOK, NEW w \in Workers, Send(w)
  PROVE  \E r \in Get :
           /\ get' = [get EXCEPT ![w] = r] /\ get[w] \in Get
           /\ r.stage = "sent" /\ r.page = get[w].page /\ r.target = get[w].target
           /\ r.attempt = get[w].attempt /\ r.hits = get[w].hits + 1 /\ r.hops = 0
           /\ r.slot = get[w].slot
<1>1. get[w] \in Get
  BY AwakeIsGet DEF Send
<1> DEFINE r == [get[w] EXCEPT !.stage = "sent", !.due = 0, !.hops = 0,
                               !.hits = get[w].hits + 1]
<1>2. get' = [get EXCEPT ![w] = r]
  BY DEF Send
<1>3. 0 \in 0 .. MaxRedirects - 1 /\ get[w].hits + 1 \in Nat
  BY <1>1 DEF Get
<1>4. r \in Get
  BY <1>1, <1>3 DEF Get, Stage
<1>5. /\ r.stage = "sent" /\ r.page = get[w].page /\ r.target = get[w].target
      /\ r.attempt = get[w].attempt /\ r.hits = get[w].hits + 1 /\ r.hops = 0
      /\ r.slot = get[w].slot
  BY <1>1 DEF Get
<1> QED
  BY <1>1, <1>2, <1>4, <1>5

LEMMA RedirectEffect ==
  ASSUME TypeOK, NEW w \in Workers, Redirect(w)
  PROVE  \E r \in Get :
           /\ get' = [get EXCEPT ![w] = r] /\ get[w] \in Get /\ get[w].stage = "sent"
           /\ r.stage = "sent" /\ r.page = get[w].page /\ r.target = get[w].target
           /\ r.attempt = get[w].attempt /\ r.hits = get[w].hits + 1
           /\ r.hops = get[w].hops + 1 /\ r.slot = get[w].slot
<1>1. get[w] \in Get /\ get[w].stage = "sent"
  BY AwakeIsGet DEF Redirect
<1> DEFINE r == [get[w] EXCEPT !.hops = get[w].hops + 1, !.hits = get[w].hits + 1]
<1>2. get' = [get EXCEPT ![w] = r]
  BY DEF Redirect
<1>3. get[w].hops + 1 \in 0 .. MaxRedirects - 1 /\ get[w].hits + 1 \in Nat
  BY <1>1 DEF Get, Redirect, MayFollow
<1>4. r \in Get
  BY <1>1, <1>3 DEF Get
<1>5. /\ r.stage = "sent" /\ r.page = get[w].page /\ r.target = get[w].target
      /\ r.attempt = get[w].attempt /\ r.hits = get[w].hits + 1
      /\ r.hops = get[w].hops + 1 /\ r.slot = get[w].slot
  BY <1>1 DEF Get
<1> QED
  BY <1>1, <1>2, <1>4, <1>5

\* The requests a Get may have sent: those of robots.txt and of every attempt
\* before this one, with their redirects, and what it is sending.
Tries(g) == IF g.target = "robots" THEN 0 ELSE g.attempt

Sending(g) ==
  IF g.stage \in {"lookup", "queue", "wait"} THEN 0
  ELSE IF g.stage = "sent" THEN 1 + g.hops ELSE MaxRedirects

Spent(g) ==
  /\ g.stage \in {"lookup", "store", "verdict"} => g.target = "robots"
  /\ g.stage = "backoff" => g.target = "page" /\ g.attempt < MaxRetries
  /\ g.hits <= Tries(g) * MaxRedirects + Sending(g)

SpentOrIdle(g) == g = Idle \/ Spent(g)

\* A step that takes no slot and sends nothing.
Turns(w, r) ==
  /\ r \in AnyGet /\ get' = [get EXCEPT ![w] = r] /\ r.stage \notin {"wait", "sent"}
  /\ SpentOrIdle(get[w]) => SpentOrIdle(r)

LEMMA ReturnTurns ==
  ASSUME NEW w \in Workers, Return(w)
  PROVE  Turns(w, Idle)
BY DEF Return, Turns, AnyGet, SpentOrIdle, Idle

LEMMA StartTurns ==
  ASSUME TypeOK, NEW w \in Workers, Start(w)
  PROVE  \E r \in AnyGet : Turns(w, r)
<1>1. PICK p \in todo :
        get' = [get EXCEPT ![w] =
          [stage |-> IF robots[OriginOf[p]] = "unknown" THEN "lookup" ELSE "verdict",
           page |-> p, target |-> "robots", attempt |-> 1, due |-> 0,
           slot |-> 0, seen |-> robots[OriginOf[p]], hops |-> 0, hits |-> 0,
           warned |-> OriginOf[p] \in informed]]
  BY DEF Start
<1> DEFINE r == [stage |-> IF robots[OriginOf[p]] = "unknown" THEN "lookup" ELSE "verdict",
                 page |-> p, target |-> "robots", attempt |-> 1, due |-> 0,
                 slot |-> 0, seen |-> robots[OriginOf[p]], hops |-> 0, hits |-> 0,
                 warned |-> OriginOf[p] \in informed]
<1>2. p \in Pages /\ OriginOf[p] \in Origins /\ robots[OriginOf[p]] \in Reading
  BY DEF TypeOK
<1>3. 1 \in 1..MaxRetries /\ 0 \in 0 .. MaxRedirects - 1
  OBVIOUS
<1>4. r \in Get
  BY <1>2, <1>3 DEF Get, Stage
<1>5. r.stage \in {"lookup", "verdict"} /\ r.target = "robots" /\ r.hits = 0
  OBVIOUS
<1>6. get' = [get EXCEPT ![w] = r]
  BY <1>1
<1> HIDE DEF r
<1>7. Spent(r)
  BY <1>5 DEF Spent, Tries, Sending
<1> QED
  BY <1>4, <1>5, <1>6, <1>7 DEF Turns, AnyGet, SpentOrIdle

\* The Get of w passes to another stage of its robots.txt.
Passes(w, stage) ==
  \E seen \in Reading, slot \in Nat, hops \in 0 .. MaxRedirects - 1 :
    get' = [get EXCEPT ![w] = [get[w] EXCEPT !.stage = stage, !.seen = seen,
                                             !.slot = slot, !.hops = hops]]

\* The Get is before its page: robots.txt is looked up, read or stored.
LEMMA RobotsTurns ==
  ASSUME TypeOK, NEW w \in Workers,
         \/ RobotsCached(w) \/ RobotsNotCached(w) \/ RobotsAnswered(w)
         \/ RobotsFailed(w) \/ StoreRobots(w)
  PROVE  \E r \in AnyGet : Turns(w, r)
<1>1. get[w] \in Get /\ get[w] # Idle /\ get[w].stage \in {"lookup", "sent", "wait", "store"}
  BY AwakeIsGet DEF RobotsCached, RobotsNotCached, RobotsAnswered, RobotsFailed, StoreRobots
<1>2. Host(w) \in Hosts
  BY <1>1, HostIsHost DEF Host, Origin
<1>3. \E stage \in {"queue", "store", "verdict"} :
        Passes(w, stage) /\ (stage = "queue" => get[w].stage = "lookup")
  <2>1. ASSUME NEW stage, Work(w, stage) PROVE Passes(w, stage)
    <3>1. PICK seen \in Reading, slot \in Nat, hops \in 0 .. MaxRedirects - 1 :
            seen = get[w].seen /\ slot = get[w].slot /\ hops = get[w].hops
      BY <1>1 DEF Get
    <3>2. [get[w] EXCEPT !.stage = stage] =
            [get[w] EXCEPT !.stage = stage, !.seen = seen, !.slot = slot, !.hops = hops]
      BY <1>1, <3>1 DEF Get
    <3>3. get' = [get EXCEPT ![w] = [get[w] EXCEPT !.stage = stage]]
      BY <2>1 DEF Work
    <3>4. get' = [get EXCEPT ![w] = [get[w] EXCEPT !.stage = stage, !.seen = seen,
                                                 !.slot = slot, !.hops = hops]]
      BY <3>2, <3>3, Zenon
    <3> QED
      BY <3>4 DEF Passes
  <2>2. CASE RobotsNotCached(w)
    BY <2>1, <2>2 DEF RobotsNotCached
  <2>3. CASE StoreRobots(w)
    BY <2>1, <2>3 DEF StoreRobots
  <2>4. CASE RobotsCached(w) \/ RobotsAnswered(w) \/ RobotsFailed(w)
    <3>1. PICK seen \in Reading : ReturnRobots(w, seen)
      BY <2>4 DEF RobotsCached, RobotsAnswered, RobotsFailed, Reading
    <3>2. 0 \in Nat /\ 0 \in 0 .. MaxRedirects - 1
      OBVIOUS
    <3>3. get' = [get EXCEPT ![w] = [get[w] EXCEPT !.stage = "store", !.seen = seen,
                                                 !.slot = 0, !.hops = 0]]
      BY <3>1 DEF ReturnRobots
    <3>4. Passes(w, "store")
      BY <3>2, <3>3, Zenon DEF Passes
    <3> QED
      BY <3>4, Zenon
  <2> QED
    BY <2>2, <2>3, <2>4
<1>4. PICK stage \in {"queue", "store", "verdict"}, seen \in Reading, slot \in Nat,
           hops \in 0 .. MaxRedirects - 1 :
        /\ get' = [get EXCEPT ![w] = [get[w] EXCEPT !.stage = stage, !.seen = seen,
                                                   !.slot = slot, !.hops = hops]]
        /\ stage = "queue" => get[w].stage = "lookup"
  BY <1>3 DEF Passes
<1> DEFINE r == [get[w] EXCEPT !.stage = stage, !.seen = seen, !.slot = slot, !.hops = hops]
<1>5. r \in Get
  BY <1>1 DEF Get, Stage
<1>6. /\ r.stage = stage /\ r.target = get[w].target /\ r.attempt = get[w].attempt
      /\ r.hits = get[w].hits
  BY <1>1 DEF Get
<1>7. get' = [get EXCEPT ![w] = r]
  BY <1>4
<1> HIDE DEF r
<1>8. /\ Tries(get[w]) * MaxRedirects \in Nat /\ Tries(r) = Tries(get[w])
      /\ get[w].hits \in Nat /\ get[w].hops \in 0 .. MaxRedirects - 1
  BY <1>1, <1>6 DEF Get, Tries
<1>9. Sending(get[w]) \in Nat /\ Sending(r) \in Nat /\ Sending(get[w]) <= Sending(r)
  BY <1>1, <1>4, <1>6, <1>8 DEF Sending
<1>10. get[w].stage \in {"sent", "wait"} => get[w].target = "robots"
  BY <1>1 DEF RobotsCached, RobotsNotCached, RobotsAnswered, RobotsFailed, StoreRobots
<1>11. Spent(get[w]) => Spent(r)
  <2> SUFFICES ASSUME Spent(get[w]) PROVE Spent(r)
    OBVIOUS
  <2>1. r.target = "robots" /\ r.stage # "backoff"
    BY <1>1, <1>4, <1>6, <1>10 DEF Spent
  <2>2. get[w].hits <= Tries(get[w]) * MaxRedirects + Sending(get[w])
    BY DEF Spent
  <2>3. r.hits <= Tries(r) * MaxRedirects + Sending(r)
    BY <1>6, <1>8, <1>9, <2>2
  <2> QED
    BY <2>1, <2>3 DEF Spent
<1> QED
  BY <1>1, <1>5, <1>6, <1>7, <1>11 DEF Turns, AnyGet, SpentOrIdle

LEMMA PageTurns ==
  ASSUME TypeOK, NEW w \in Workers, PageNotCached(w)
  PROVE  \E r \in AnyGet : Turns(w, r)
<1>1. get[w] \in Get /\ get[w] # Idle /\ get[w].stage = "verdict"
  BY AwakeIsGet DEF PageNotCached
<1> DEFINE r == [get[w] EXCEPT !.stage = "queue", !.target = "page"]
<1>2. r \in Get
  BY <1>1 DEF Get, Stage
<1>3. /\ r.stage = "queue" /\ r.target = "page" /\ r.attempt = get[w].attempt
      /\ r.hits = get[w].hits
  BY <1>1 DEF Get
<1>4. get' = [get EXCEPT ![w] = r]
  BY DEF PageNotCached
<1> HIDE DEF r
<1>5. get[w].target \in {"robots", "page"} /\ get[w].attempt \in Nat \ {0} /\ get[w].hits \in Nat
  BY <1>1 DEF Get
<1>6. ASSUME Spent(get[w]) PROVE Spent(r)
  <2> DEFINE H == MaxRedirects
             a == get[w].attempt
  <2>1. H \in Nat /\ a \in Nat \ {0}
    BY <1>5
  <2>2. get[w].hits <= Tries(get[w]) * H + H
    BY <1>1, <1>6 DEF Spent, Sending
  <2>3. Tries(r) = a /\ Sending(r) = 0
    BY <1>3 DEF Tries, Sending
  <2>4. Spent(r) <=> r.hits <= Tries(r) * H + Sending(r)
    BY <1>3 DEF Spent
  <2>5. Tries(get[w]) = 0
    BY <1>1, <1>6 DEF Tries, Spent
  <2> HIDE DEF H, a
  <2>6. get[w].hits <= H /\ H <= a * H
    BY <1>5, <2>1, <2>2, <2>5
  <2> QED
    BY <1>3, <1>5, <2>1, <2>3, <2>4, <2>6
<1> QED
  BY <1>1, <1>2, <1>3, <1>4, <1>6 DEF Turns, AnyGet, SpentOrIdle

LEMMA BackOffTurns ==
  ASSUME TypeOK, NEW w \in Workers, BackOff(w)
  PROVE  \E r \in AnyGet : Turns(w, r)
<1>1. /\ get[w] \in Get /\ get[w] # Idle /\ get[w].stage = "sent" /\ get[w].target = "page"
      /\ get[w].attempt < MaxRetries
  BY AwakeIsGet DEF BackOff, MayRetry
<1>2. PICK delay \in Delays(get[w].attempt) :
        get' = [get EXCEPT ![w].stage = "backoff", ![w].due = now + delay,
                           ![w].slot = 0, ![w].hops = 0]
  BY DEF BackOff
<1>3. now + delay \in Nat /\ 0 \in 0 .. MaxRedirects - 1
  BY DelaysAreNaturals DEF TypeOK
<1> DEFINE r == [get[w] EXCEPT !.stage = "backoff", !.due = now + delay, !.slot = 0, !.hops = 0]
<1>4. r \in Get
  BY <1>1, <1>3 DEF Get, Stage
<1>5. /\ r.stage = "backoff" /\ r.target = "page" /\ r.attempt = get[w].attempt
      /\ r.hits = get[w].hits
  BY <1>1 DEF Get
<1>6. get' = [get EXCEPT ![w] = r]
  BY <1>2
<1> HIDE DEF r
<1>7. /\ Tries(get[w]) * MaxRedirects \in Nat /\ Tries(r) = Tries(get[w])
      /\ get[w].hits \in Nat /\ get[w].hops \in 0 .. MaxRedirects - 1
  BY <1>1, <1>5 DEF Get, Tries
<1>8. Sending(get[w]) = 1 + get[w].hops /\ Sending(r) = MaxRedirects
  BY <1>1, <1>5 DEF Sending
<1>9. Spent(get[w]) => Spent(r)
  BY <1>1, <1>5, <1>7, <1>8 DEF Spent
<1> QED
  BY <1>1, <1>4, <1>5, <1>6, <1>9 DEF Turns, AnyGet, SpentOrIdle

LEMMA TryAgainTurns ==
  ASSUME TypeOK, NEW w \in Workers, TryAgain(w), SpentOrIdle(get[w])
  PROVE  \E r \in AnyGet : Turns(w, r)
<1>1. get[w] \in Get /\ get[w] # Idle /\ get[w].stage = "backoff"
  BY AwakeIsGet DEF TryAgain
<1>2. Spent(get[w]) /\ get[w].target = "page" /\ get[w].attempt < MaxRetries
  BY <1>1 DEF SpentOrIdle, Spent
<1> DEFINE r == [get[w] EXCEPT !.stage = "queue", !.due = 0, !.attempt = get[w].attempt + 1]
<1>3. get[w].attempt \in 1..MaxRetries /\ get[w].attempt + 1 \in 1..MaxRetries /\ get[w].hits \in Nat
  BY <1>1, <1>2 DEF Get
<1>4. r \in Get
  BY <1>1, <1>3 DEF Get, Stage
<1>5. /\ r.stage = "queue" /\ r.target = "page" /\ r.attempt = get[w].attempt + 1
      /\ r.hits = get[w].hits
  BY <1>1, <1>2 DEF Get
<1>6. get' = [get EXCEPT ![w] = r]
  BY DEF TryAgain
<1> HIDE DEF r
<1>7. Spent(r)
  <2> DEFINE H == MaxRedirects
             a == get[w].attempt
  <2>1. get[w].hits <= a * H + H
    BY <1>1, <1>2 DEF Spent, Tries, Sending
  <2>2. Tries(r) = a + 1 /\ Sending(r) = 0
    BY <1>5 DEF Tries, Sending
  <2>3. H \in Nat /\ a \in Nat
    BY <1>3
  <2>4. Spent(r) <=> r.hits <= Tries(r) * H + Sending(r)
    BY <1>5 DEF Spent
  <2> HIDE DEF H, a
  <2>5. get[w].hits <= (a + 1) * H
    BY <1>3, <2>1, <2>3
  <2> QED
    BY <1>3, <1>5, <2>2, <2>3, <2>4, <2>5
<1> QED
  BY <1>4, <1>5, <1>6, <1>7 DEF Turns, AnyGet, SpentOrIdle

\* Every step of a worker but those that take a slot and make requests on it.
LEMMA OtherTurns ==
  ASSUME TypeOK, NEW w \in Workers, SpentOrIdle(get[w]), Robotic(w) \/ Paging(w)
  PROVE  \E r \in AnyGet : Turns(w, r)
<1>1. CASE Start(w)
  BY <1>1, StartTurns
<1>2. CASE \/ RobotsCached(w) \/ RobotsNotCached(w) \/ RobotsAnswered(w)
           \/ RobotsFailed(w) \/ StoreRobots(w)
  BY <1>2, RobotsTurns
<1>3. CASE Refuse(w) \/ PageCached(w) \/ PageAnswered(w) \/ GiveUp(w)
  <2>1. Return(w)
    BY <1>3 DEF Refuse, PageCached, PageAnswered, GiveUp
  <2> QED
    BY <2>1, ReturnTurns DEF AnyGet
<1>4. CASE PageNotCached(w) \/ BackOff(w) \/ TryAgain(w)
  BY <1>4, PageTurns, BackOffTurns, TryAgainTurns
<1> QED
  BY <1>1, <1>2, <1>3, <1>4 DEF Robotic, Paging

----------------------------------------------------------------------------
(* Types, and what a Get may have sent.                                    *)

Modest == \A w \in Workers : SpentOrIdle(get[w])

\* The limiter's fields other than the intervals move with Reserve only, the
\* requests with Send and Redirect only, the intervals with SetHostDelay only.
LEMMA WhoWrites ==
  ASSUME NEW w \in Workers, Robotic(w) \/ Paging(w)
  PROVE  /\ UNCHANGED <<now, next, slots, sent, cancelled>>
         /\ \/ UNCHANGED <<perHost, pace>>
            \/ /\ RobotsAnswered(w) /\ AskedDelay[Origin(w)] > 0
               /\ SetHostDelay(Host(w), AskedDelay[Origin(w)])
<1>1. CASE Start(w) \/ RobotsCached(w) \/ RobotsNotCached(w) \/ RobotsFailed(w) \/ StoreRobots(w)
  BY <1>1 DEF Start, RobotsCached, RobotsNotCached, RobotsFailed, StoreRobots, limiter
<1>2. CASE RobotsAnswered(w)
  BY <1>2 DEF RobotsAnswered
<1>3. CASE Paging(w)
  BY <1>3 DEF Paging, Refuse, PageCached, PageNotCached, PageAnswered, BackOff, TryAgain,
              GiveUp, limiter
<1> QED
  BY <1>1, <1>2, <1>3 DEF Robotic

LEMMA OtherType ==
  ASSUME TypeOK, NEW w \in Workers, SpentOrIdle(get[w]), Robotic(w) \/ Paging(w)
  PROVE  TypeOK'
<1>1. get' \in [Workers -> AnyGet]
  <2>1. PICK r \in AnyGet : Turns(w, r)
    BY OtherTurns
  <2> QED
    BY <2>1, Moved DEF Turns
<1>2. perHost' \in [Hosts -> Nat] /\ pace' \in [Hosts -> [interval : Nat, since : Nat, first : Nat]]
  <2>1. CASE UNCHANGED <<perHost, pace>>
    BY <2>1 DEF TypeOK
  <2>2. CASE RobotsAnswered(w) /\ SetHostDelay(Host(w), AskedDelay[Origin(w)])
    <3>1. get[w] \in Get
      BY <2>2, AwakeIsGet DEF RobotsAnswered
    <3>2. Origin(w) \in Origins /\ Host(w) \in Hosts
      BY <3>1, HostIsHost DEF Host, Origin
    <3>3. AskedDelay[Origin(w)] \in Nat
      BY <3>2, DelaysAsked
    <3>4. [interval |-> Larger(Rate, AskedDelay[Origin(w)]), since |-> now,
           first |-> slots[Host(w)] + 1] \in [interval : Nat, since : Nat, first : Nat]
      BY <3>2, <3>3 DEF TypeOK, Larger
    <3> QED
      BY <2>2, <3>3, <3>4 DEF SetHostDelay, TypeOK
  <2> QED
    BY <2>1, <2>2, WhoWrites
<1>3. robots' \in [Origins -> Reading]
  <2>1. CASE StoreRobots(w)
    <3>1. get[w] \in Get
      BY <2>1, AwakeIsGet DEF StoreRobots
    <3>2. get[w].seen \in Reading
      BY <3>1 DEF Get
    <3> QED
      BY <2>1, <3>2 DEF StoreRobots, TypeOK
  <2>2. CASE ~StoreRobots(w)
    <3>1. UNCHANGED robots
      BY <2>2 DEF Robotic, Paging, Start, RobotsCached, RobotsNotCached,
                  RobotsAnswered, RobotsFailed, Refuse, PageCached, PageNotCached,
                  PageAnswered, BackOff, TryAgain, GiveUp
    <3> QED
      BY <3>1 DEF TypeOK
  <2> QED
    BY <2>1, <2>2
<1>4. todo' \subseteq Pages
  <2>1. CASE Start(w)
    BY <2>1 DEF Start, TypeOK
  <2>2. CASE ~Start(w)
    <3>1. UNCHANGED todo
      BY <2>2 DEF Robotic, Paging, StoreRobots, RobotsCached, RobotsNotCached,
                  RobotsAnswered, RobotsFailed, Refuse, PageCached, PageNotCached,
                  PageAnswered, BackOff, TryAgain, GiveUp
    <3> QED
      BY <3>1 DEF TypeOK
  <2> QED
    BY <2>1, <2>2
<1>5. failed' \subseteq Origins /\ informed' \subseteq Origins
  <2>1. CASE RobotsCached(w) \/ RobotsAnswered(w) \/ RobotsFailed(w) \/ StoreRobots(w)
    <3>1. get[w] \in Get
      BY <2>1, AwakeIsGet DEF RobotsCached, RobotsAnswered, RobotsFailed, StoreRobots
    <3>2. Origin(w) \in Origins
      BY <3>1, HostIsHost DEF Origin
    <3> QED
      BY <2>1, <3>2 DEF RobotsCached, RobotsAnswered, RobotsFailed, StoreRobots, ReturnRobots,
                        TypeOK
  <2>2. CASE ~(RobotsCached(w) \/ RobotsAnswered(w) \/ RobotsFailed(w) \/ StoreRobots(w))
    <3>1. UNCHANGED <<failed, informed>>
      BY <2>2 DEF Robotic, Paging, Start, RobotsNotCached, Refuse, PageCached, PageNotCached,
                  PageAnswered, BackOff, TryAgain, GiveUp
    <3> QED
      BY <3>1 DEF TypeOK
  <2> QED
    BY <2>1, <2>2
<1> QED
  BY <1>1, <1>2, <1>3, <1>4, <1>5, WhoWrites DEF TypeOK, AnyGet

LEMMA OtherModest ==
  ASSUME TypeOK, Modest, NEW w \in Workers, Robotic(w) \/ Paging(w)
  PROVE  Modest'
<1>1. SpentOrIdle(get[w])
  BY DEF Modest
<1>2. PICK r \in AnyGet : Turns(w, r)
  BY <1>1, OtherTurns
<1>3. get'[w] = r /\ \A v \in Workers \ {w} : get'[v] = get[v]
  BY <1>2, Moved DEF Turns
<1> QED
  BY <1>1, <1>2, <1>3 DEF Modest, Turns, SpentOrIdle, Spent, Tries, Sending

LEMMA ReserveType ==
  ASSUME TypeOK, Modest, NEW w \in Workers, Reserve(w)
  PROVE  TypeOK' /\ Modest'
<1>1. PICK r \in Get :
        /\ get' = [get EXCEPT ![w] = r] /\ get[w] \in Get
        /\ r.stage = "wait" /\ r.due = Earliest(Host(w)) /\ r.slot = slots[Host(w)] + 1
        /\ r.page = get[w].page /\ r.target = get[w].target
        /\ r.attempt = get[w].attempt /\ r.hits = get[w].hits /\ r.hops = get[w].hops
  BY ReserveEffect
<1>2. Host(w) \in Hosts
  BY <1>1, HostIsHost DEF Host, Origin
<1>3. /\ get' \in [Workers -> AnyGet] /\ get'[w] = r
      /\ \A v \in Workers \ {w} : get'[v] = get[v]
  BY <1>1, Moved DEF AnyGet
<1>4. SlotAfter(Host(w)) \in Nat /\ slots[Host(w)] + 1 \in Nat
  BY <1>2 DEF TypeOK, SlotAfter, Earliest, Interval, Larger
<1>5. next' \in [Hosts -> Nat] /\ slots' \in [Hosts -> Nat]
  BY <1>4 DEF TypeOK, Reserve
<1>6. TypeOK'
  BY <1>3, <1>5 DEF TypeOK, Reserve, AnyGet
<1>7. get[w].stage = "queue" /\ get[w] # Idle
  BY DEF Reserve, Idle
<1>8. Spent(get[w])
  BY <1>7 DEF Modest, SpentOrIdle
<1>9. Spent(r)
  BY <1>1, <1>7, <1>8 DEF Spent, Tries, Sending
<1>10. Modest'
  BY <1>3, <1>9 DEF Modest, SpentOrIdle, Spent, Tries, Sending
<1> QED
  BY <1>6, <1>10

LEMMA SendType ==
  ASSUME TypeOK, Modest, NEW w \in Workers, Send(w)
  PROVE  TypeOK' /\ Modest'
<1>1. PICK r \in Get :
        /\ get' = [get EXCEPT ![w] = r] /\ get[w] \in Get
        /\ r.stage = "sent" /\ r.page = get[w].page /\ r.target = get[w].target
        /\ r.attempt = get[w].attempt /\ r.hits = get[w].hits + 1 /\ r.hops = 0
  BY SendEffect
<1>2. Host(w) \in Hosts /\ get[w].slot \in Nat /\ get[w].hits \in Nat
        /\ Tries(get[w]) * MaxRedirects \in Nat
  BY <1>1, HostIsHost DEF Host, Origin, Get, Tries
<1>3. /\ get' \in [Workers -> AnyGet] /\ get'[w] = r
      /\ \A v \in Workers \ {w} : get'[v] = get[v]
  BY <1>1, Moved DEF AnyGet
<1>4. sent' \in [Hosts -> SUBSET (Nat \X Nat)]
  BY <1>2 DEF TypeOK, Send
<1>5. TypeOK'
  BY <1>3, <1>4 DEF TypeOK, Send, AnyGet, limiter
<1>6. get[w].stage = "wait" /\ get[w] # Idle
  BY DEF Send, Idle
<1>7. Spent(get[w])
  BY <1>6 DEF Modest, SpentOrIdle
<1>8. Spent(r)
  <2>1. Sending(get[w]) = 0 /\ Sending(r) = 1 /\ Tries(r) = Tries(get[w])
    BY <1>1, <1>6 DEF Sending, Tries
  <2> QED
    BY <1>1, <1>2, <1>7, <2>1 DEF Spent
<1>9. Modest'
  BY <1>3, <1>8 DEF Modest, SpentOrIdle, Spent, Tries, Sending
<1> QED
  BY <1>5, <1>9

LEMMA RedirectType ==
  ASSUME TypeOK, Modest, NEW w \in Workers, Redirect(w)
  PROVE  TypeOK' /\ Modest'
<1>1. PICK r \in Get :
        /\ get' = [get EXCEPT ![w] = r] /\ get[w] \in Get /\ get[w].stage = "sent"
        /\ r.stage = "sent" /\ r.page = get[w].page /\ r.target = get[w].target
        /\ r.attempt = get[w].attempt /\ r.hits = get[w].hits + 1
        /\ r.hops = get[w].hops + 1
  BY RedirectEffect
<1>2. /\ Host(w) \in Hosts /\ get[w].slot \in Nat /\ get[w].hops \in Nat
      /\ get[w].hits \in Nat /\ Tries(get[w]) * MaxRedirects \in Nat
  BY <1>1, HostIsHost DEF Host, Origin, Get, Tries
<1>3. /\ get' \in [Workers -> AnyGet] /\ get'[w] = r
      /\ \A v \in Workers \ {w} : get'[v] = get[v]
  BY <1>1, Moved DEF AnyGet
<1>4. sent' \in [Hosts -> SUBSET (Nat \X Nat)]
  BY <1>2 DEF TypeOK, Redirect
<1>5. TypeOK'
  BY <1>3, <1>4 DEF TypeOK, Redirect, AnyGet, limiter
<1>6. Spent(get[w])
  BY <1>1 DEF Modest, SpentOrIdle, Idle
<1>7. Spent(r)
  <2>1. /\ Sending(get[w]) = 1 + get[w].hops /\ Sending(r) = 1 + (get[w].hops + 1)
        /\ Tries(r) = Tries(get[w])
    BY <1>1 DEF Sending, Tries
  <2> QED
    BY <1>1, <1>2, <1>6, <2>1 DEF Spent
<1>8. Modest'
  BY <1>3, <1>7 DEF Modest, SpentOrIdle, Spent, Tries, Sending
<1> QED
  BY <1>5, <1>8

LEMMA TypeInit == Init => TypeOK /\ Modest
<1> SUFFICES ASSUME Init PROVE TypeOK /\ Modest
  OBVIOUS
<1>1. [interval |-> Rate, since |-> 0, first |-> 1] \in [interval : Nat, since : Nat, first : Nat]
  OBVIOUS
<1>2. pace \in [Hosts -> [interval : Nat, since : Nat, first : Nat]]
  BY <1>1 DEF Init
<1>3. \A w \in Workers : get[w] = Idle
  BY DEF Init
<1> QED
  BY <1>2, <1>3 DEF Init, TypeOK, Modest, SpentOrIdle, Reading

LEMMA TypeStep == TypeOK /\ Modest /\ [Next]_vars => TypeOK' /\ Modest'
<1> SUFFICES ASSUME TypeOK, Modest, [Next]_vars PROVE TypeOK' /\ Modest'
  OBVIOUS
<1>1. CASE UNCHANGED vars
  BY <1>1 DEF vars, limiter, TypeOK, Modest, SpentOrIdle, Spent, Tries, Sending
<1>2. CASE Tick
  BY <1>2 DEF Tick, limiter, TypeOK, Modest, SpentOrIdle, Spent, Tries, Sending
<1>3. CASE CtrlC
  BY <1>3 DEF CtrlC, limiter, TypeOK, Modest, SpentOrIdle, Spent, Tries, Sending
<1>4. ASSUME NEW w \in Workers, Robotic(w) \/ Paging(w)
      PROVE  TypeOK' /\ Modest'
  BY <1>4, OtherType, OtherModest DEF Modest
<1>5. ASSUME NEW w \in Workers, Step(w) PROVE TypeOK' /\ Modest'
  BY <1>4, <1>5, ReserveType, SendType, RedirectType DEF Step
<1> QED
  BY <1>1, <1>2, <1>3, <1>5 DEF Next

LEMMA TypeInvariant == Spec => [](TypeOK /\ Modest)
BY TypeInit, TypeStep, PTL DEF Spec

\* Every variable of the client model keeps its type, for any number of
\* workers, pages and hosts.
THEOREM FetchTypeCorrect == Spec => []TypeOK
BY TypeInvariant, PTL

\* However its requests fail, are redirected and are tried again, a Get never
\* makes more than MaxRedirects requests for its robots.txt and for each of its
\* MaxRetries attempts (client.go: fetch, do, CheckRedirect).
THEOREM HitsAreBounded == Spec => []HitsBounded
<1>1. TypeOK /\ Modest => HitsBounded
  <2> SUFFICES ASSUME TypeOK, Modest, NEW w \in Workers, get[w] # Idle
               PROVE  get[w].hits <= (1 + MaxRetries) * MaxRedirects
    BY DEF HitsBounded
  <2> DEFINE H == MaxRedirects
             tries == Tries(get[w])
  <2>1. get[w] \in Get
    BY BusyIsGet
  <2>2. get[w].hits \in Nat /\ tries \in 0..MaxRetries
    BY <2>1 DEF Get, Tries
  <2>3. Sending(get[w]) \in Nat /\ Sending(get[w]) <= H
    BY <2>1 DEF Sending, Get
  <2>4. get[w].hits <= tries * H + Sending(get[w])
    BY DEF Modest, SpentOrIdle, Spent
  <2>5. H \in Nat
    OBVIOUS
  <2> HIDE DEF H, tries
  <2>6. tries * H <= MaxRetries * H /\ tries * H \in Nat
    BY <2>2, <2>5
  <2>7. get[w].hits <= (1 + MaxRetries) * H
    BY <2>2, <2>3, <2>4, <2>5, <2>6
  <2> QED
    BY <2>7 DEF H
<1> QED
  BY <1>1, TypeInvariant, PTL

----------------------------------------------------------------------------
(* The limiter.  Slots are numbered in the order they are reserved.  Slot n *)
(* of a host is not due before n - 1 intervals of the rate have passed, and *)
(* from the first slot a delay governs on, not before as many delays have  *)
(* passed since it was learned.                                            *)

DueByRate(n, t) == (n - 1) * Rate <= t

DueByPace(p, n, t) == n >= p.first => p.since + (n - p.first) * p.interval <= t

Waiting(w, h) == get[w].stage = "wait" /\ Host(w) = h
Requesting(w, h) == get[w].stage = "sent" /\ Host(w) = h

SlotsKept(h) ==
  /\ DueByRate(slots[h] + 1, next[h])
  /\ slots[h] >= pace[h].first => DueByPace(pace[h], slots[h] + 1, next[h])

PaceInForce(h) ==
  /\ pace[h].interval = Interval(h) /\ pace[h].since <= now
  /\ pace[h].first \in 1 .. slots[h] + 1

\* A slot that may be used.
SlotDue(h, n) == n \in 1 .. slots[h] /\ DueByRate(n, now) /\ DueByPace(pace[h], n, now)

\* Every request was made on a due slot, and is one of those an attempt makes.
SentKept(h) == \A q \in sent[h] : SlotDue(h, q[1]) /\ q[2] \in 1 .. MaxRedirects

\* The slot of an attempt is due while its redirects are followed.
RequestsKept(h) == \A w \in Workers : Requesting(w, h) => SlotDue(h, get[w].slot)

WaitsKept(h) ==
  \A w \in Workers : Waiting(w, h) =>
    /\ get[w].slot \in 1 .. slots[h]
    /\ DueByRate(get[w].slot, get[w].due) /\ DueByPace(pace[h], get[w].slot, get[w].due)

SlotInv ==
  \A h \in Hosts :
    SlotsKept(h) /\ PaceInForce(h) /\ SentKept(h) /\ RequestsKept(h) /\ WaitsKept(h)

LEMMA NextMultiple ==
  ASSUME NEW k \in Nat, NEW d \in Nat, NEW t \in Int, NEW s \in Int, s + k * d <= t
  PROVE  s + (k + 1) * d <= t + d
OBVIOUS

LEMMA HostTypes ==
  ASSUME TypeOK, NEW h \in Hosts
  PROVE  /\ now \in Nat /\ next[h] \in Nat /\ slots[h] \in Nat /\ perHost[h] \in Nat
         /\ sent[h] \subseteq Nat \X Nat
         /\ pace[h].interval \in Nat /\ pace[h].since \in Nat /\ pace[h].first \in Nat
BY DEF TypeOK

\* The slot that is reserved next keeps the rate and the pace of its host.
LEMMA ReservedInTime ==
  ASSUME TypeOK, NEW h \in Hosts, SlotsKept(h), PaceInForce(h)
  PROVE  /\ Earliest(h) \in Nat /\ SlotAfter(h) \in Nat
         /\ DueByRate(slots[h] + 1, Earliest(h)) /\ DueByPace(pace[h], slots[h] + 1, Earliest(h))
         /\ DueByRate(slots[h] + 2, SlotAfter(h)) /\ DueByPace(pace[h], slots[h] + 2, SlotAfter(h))
<1> DEFINE e == Earliest(h)
           i == Interval(h)
           n == slots[h] + 1
           p == pace[h]
<1>1. /\ now \in Nat /\ next[h] \in Nat /\ slots[h] \in Nat /\ perHost[h] \in Nat
      /\ p.interval \in Nat /\ p.since \in Nat /\ p.first \in Nat
  BY HostTypes
<1>2. e \in Nat /\ next[h] <= e /\ now <= e
  BY <1>1 DEF Earliest, Larger
<1>3. i \in Nat /\ Rate <= i /\ p.interval = i
  BY <1>1 DEF Interval, Larger, PaceInForce
<1>4. SlotAfter(h) = e + i
  BY DEF SlotAfter
<1>5. p.since <= e /\ p.first \in 1 .. n /\ n \in Nat /\ n >= 1
  BY <1>1, <1>2 DEF PaceInForce
<1>6. (n - 1) * Rate <= e
  <2>1. (n - 1) * Rate <= next[h]
    BY DEF SlotsKept, DueByRate
  <2>2. (n - 1) * Rate \in Int
    BY <1>5
  <2> QED
    BY <1>1, <1>2, <2>1, <2>2
<1>7. p.since + (n - p.first) * i <= e
  <2>1. CASE slots[h] >= p.first
    <3>1. p.since + (n - p.first) * p.interval <= next[h]
      BY <1>1, <2>1 DEF SlotsKept, DueByPace
    <3>2. (n - p.first) * i \in Int
      BY <1>1, <1>3, <1>5
    <3> HIDE DEF e, i, n, p
    <3> QED
      BY <1>1, <1>2, <1>3, <3>1, <3>2
  <2>2. CASE ~(slots[h] >= p.first)
    <3>1. n - p.first = 0
      BY <1>1, <1>5, <2>2
    <3>2. (n - p.first) * i = 0
      BY <1>3, <3>1
    <3> HIDE DEF e, i, n, p
    <3> QED
      BY <1>1, <1>5, <3>2
  <2> QED
    BY <2>1, <2>2
<1> HIDE DEF e, i, n, p
<1>8. n * Rate <= e + i
  <2>1. 0 + (n - 1 + 1) * Rate <= e + Rate
    <3>1. n - 1 \in Nat /\ 0 + (n - 1) * Rate <= e
      BY <1>5, <1>6
    <3> QED
      BY <1>2, <3>1, NextMultiple
  <2>2. n - 1 + 1 = n /\ n * Rate \in Int
    BY <1>5
  <2> QED
    BY <1>2, <1>3, <2>1, <2>2
<1>9. p.since + (n + 1 - p.first) * i <= e + i
  <2>1. n - p.first \in Nat /\ n + 1 - p.first = (n - p.first) + 1
    BY <1>1, <1>5
  <2>2. p.since + ((n - p.first) + 1) * i <= e + i
    BY <1>1, <1>2, <1>3, <1>7, <2>1, NextMultiple
  <2> QED
    BY <2>1, <2>2
<1>10. slots[h] + 1 = n /\ slots[h] + 2 = n + 1 /\ n + 1 - 1 = n
  BY <1>1, <1>5 DEF n
<1>11. DueByRate(slots[h] + 1, e) /\ DueByRate(slots[h] + 2, e + i)
  <2>1. DueByRate(n, e) /\ DueByRate(n + 1, e + i)
    BY <1>2, <1>3, <1>5, <1>6, <1>8, <1>10 DEF DueByRate
  <2> QED
    BY <1>10, <2>1, Zenon
<1>12. DueByPace(p, slots[h] + 1, e) /\ DueByPace(p, slots[h] + 2, e + i)
  <2>1. DueByPace(p, n, e) /\ DueByPace(p, n + 1, e + i)
    BY <1>1, <1>2, <1>3, <1>5, <1>7, <1>9 DEF DueByPace
  <2> QED
    BY <1>10, <2>1, Zenon
<1> QED
  BY <1>2, <1>3, <1>4, <1>11, <1>12 DEF e, p

\* What a slot kept at one time it keeps later.
LEMMA LaterIsKept ==
  ASSUME NEW n \in Nat, NEW p, p.first \in Nat, p.interval \in Nat, p.since \in Nat,
         NEW t \in Int, NEW u \in Int, t <= u
  PROVE  /\ DueByRate(n, t) => DueByRate(n, u)
         /\ DueByPace(p, n, t) => DueByPace(p, n, u)
<1>1. (n - 1) * Rate \in Int
  OBVIOUS
<1>2. p.since + (n - p.first) * p.interval \in Int
  <2>1. n - p.first \in Int
    OBVIOUS
  <2> QED
    BY <2>1
<1>3. DueByRate(n, t) => DueByRate(n, u)
  BY <1>1 DEF DueByRate
<1>4. DueByPace(p, n, t) => DueByPace(p, n, u)
  BY <1>2 DEF DueByPace
<1> QED
  BY <1>3, <1>4

\* A slot that is due stays due: more may be reserved, time passes, and a new
\* pace governs none that was.
LEMMA DueStays ==
  ASSUME TypeOK, NEW h \in Hosts, NEW n, SlotDue(h, n),
         slots'[h] \in Nat, slots[h] <= slots'[h], now' \in Nat, now <= now',
         pace'[h] = pace[h] \/ pace'[h].first = slots[h] + 1
  PROVE  SlotDue(h, n)'
<1>1. /\ now \in Nat /\ slots[h] \in Nat /\ pace[h].interval \in Nat
      /\ pace[h].since \in Nat /\ pace[h].first \in Nat
  BY HostTypes
<1>2. n \in 1 .. slots[h] /\ n \in Nat /\ DueByRate(n, now) /\ DueByPace(pace[h], n, now)
  BY <1>1 DEF SlotDue
<1>3. DueByRate(n, now') /\ DueByPace(pace[h], n, now')
  BY <1>1, <1>2, LaterIsKept
<1>4. DueByPace(pace'[h], n, now')
  <2>1. CASE pace'[h] = pace[h]
    BY <1>3, <2>1
  <2>2. CASE pace'[h].first = slots[h] + 1
    BY <1>1, <1>2, <2>2 DEF DueByPace
  <2> QED
    BY <2>1, <2>2
<1>5. n \in 1 .. slots'[h]
  BY <1>1, <1>2
<1> QED
  BY <1>3, <1>4, <1>5 DEF SlotDue, DueByRate, DueByPace

\* What was requested, and is being requested, keeps its slots when no request
\* is made.
LEMMA RequestsStay ==
  ASSUME TypeOK, SlotInv, NEW h \in Hosts,
         slots'[h] \in Nat, slots[h] <= slots'[h], now' \in Nat, now <= now',
         pace'[h] = pace[h] \/ pace'[h].first = slots[h] + 1,
         sent'[h] = sent[h],
         \A v \in Workers : get'[v].stage = "sent" => get'[v] = get[v]
  PROVE  SentKept(h)' /\ RequestsKept(h)'
<1>1. SentKept(h)'
  <2>1. \A q \in sent[h] : SlotDue(h, q[1])' /\ q[2] \in 1 .. MaxRedirects
    BY DueStays DEF SlotInv, SentKept
  <2> QED
    BY <2>1 DEF SentKept
<1>2. RequestsKept(h)'
  <2>1. ASSUME NEW v \in Workers, Requesting(v, h)' PROVE SlotDue(h, get[v].slot)' /\ get'[v] = get[v]
    <3>1. get'[v] = get[v] /\ Requesting(v, h)
      BY <2>1 DEF Requesting, Host, Origin
    <3>2. SlotDue(h, get[v].slot)
      BY <3>1 DEF SlotInv, RequestsKept
    <3> QED
      BY <3>1, <3>2, DueStays
  <2> QED
    BY <2>1 DEF RequestsKept, SlotDue, DueByRate, DueByPace
<1> QED
  BY <1>1, <1>2

LEMMA SlotInit == Init => SlotInv
<1> SUFFICES ASSUME Init, NEW h \in Hosts
             PROVE  SlotsKept(h) /\ PaceInForce(h) /\ SentKept(h) /\ RequestsKept(h)
                    /\ WaitsKept(h)
  BY DEF SlotInv
<1>1. /\ now = 0 /\ next[h] = 0 /\ slots[h] = 0 /\ perHost[h] = 0 /\ sent[h] = {}
      /\ pace[h] = [interval |-> Rate, since |-> 0, first |-> 1]
  BY DEF Init
<1>2. \A w \in Workers : get[w].stage \notin {"wait", "sent"}
  BY DEF Init, Idle
<1>3. SlotsKept(h)
  BY <1>1 DEF SlotsKept, DueByRate
<1>4. PaceInForce(h)
  BY <1>1 DEF PaceInForce, Interval, Larger
<1> QED
  BY <1>1, <1>2, <1>3, <1>4 DEF SentKept, RequestsKept, Requesting, WaitsKept, Waiting

LEMMA ReserveKeepsSlots ==
  ASSUME TypeOK, SlotInv, NEW w \in Workers, Reserve(w)
  PROVE  SlotInv'
<1>1. PICK r \in Get :
        /\ get' = [get EXCEPT ![w] = r] /\ get[w] \in Get
        /\ r.stage = "wait" /\ r.due = Earliest(Host(w)) /\ r.slot = slots[Host(w)] + 1
        /\ r.page = get[w].page
  BY ReserveEffect
<1>2. /\ get'[w] = r /\ \A v \in Workers \ {w} : get'[v] = get[v]
  BY <1>1, Moved DEF AnyGet
<1> DEFINE k == Host(w)
<1>3. k \in Hosts
  BY <1>1, HostIsHost DEF Host, Origin
<1>4. /\ Earliest(k) \in Nat /\ SlotAfter(k) \in Nat
      /\ DueByRate(slots[k] + 1, Earliest(k)) /\ DueByPace(pace[k], slots[k] + 1, Earliest(k))
      /\ DueByRate(slots[k] + 2, SlotAfter(k)) /\ DueByPace(pace[k], slots[k] + 2, SlotAfter(k))
  BY <1>3, ReservedInTime DEF SlotInv
<1>5. /\ next' = [next EXCEPT ![k] = SlotAfter(k)] /\ slots' = [slots EXCEPT ![k] = slots[k] + 1]
      /\ UNCHANGED <<now, perHost, sent, pace>>
  BY DEF Reserve
<1>6. Host(w)' = k /\ \A v \in Workers \ {w} : Host(v)' = Host(v)
  BY <1>1, <1>2 DEF Host, Origin
<1> HIDE DEF k
<1>7. ASSUME NEW h \in Hosts
      PROVE  /\ SlotsKept(h)' /\ PaceInForce(h)' /\ SentKept(h)' /\ RequestsKept(h)'
             /\ WaitsKept(h)'
  <2>1. /\ now \in Nat /\ next[h] \in Nat /\ slots[h] \in Nat
        /\ pace[h].interval \in Nat /\ pace[h].since \in Nat /\ pace[h].first \in Nat
    BY HostTypes
  <2>2. SlotsKept(h) /\ PaceInForce(h) /\ WaitsKept(h)
    BY DEF SlotInv
  <2>3. slots'[h] \in Nat /\ slots[h] <= slots'[h]
    BY <1>5, <2>1 DEF TypeOK
  <2>4. SlotsKept(h)'
    <3>1. CASE h = k
      <4>1. slots'[h] = slots[k] + 1 /\ next'[h] = SlotAfter(k) /\ pace' = pace
        BY <1>3, <1>5, <3>1 DEF TypeOK
      <4>2. slots'[h] + 1 = slots[k] + 2
        BY <2>1, <3>1, <4>1
      <4>3. DueByRate(slots'[h] + 1, next'[h]) /\ DueByPace(pace'[h], slots'[h] + 1, next'[h])
        BY <1>4, <3>1, <4>1, <4>2, Zenon
      <4> QED
        BY <4>3 DEF SlotsKept, DueByRate, DueByPace
    <3>2. CASE h # k
      <4>1. slots'[h] = slots[h] /\ next'[h] = next[h] /\ pace' = pace
        BY <1>5, <3>2 DEF TypeOK
      <4> QED
        BY <2>2, <4>1 DEF SlotsKept, DueByRate, DueByPace
    <3> QED
      BY <3>1, <3>2
  <2>5. PaceInForce(h)'
    BY <1>5, <2>1, <2>2, <2>3 DEF PaceInForce, Interval
  <2>6. SentKept(h)' /\ RequestsKept(h)'
    <3>1. \A v \in Workers : get'[v].stage = "sent" => get'[v] = get[v]
      BY <1>1, <1>2
    <3>2. now' = now /\ now <= now' /\ pace' = pace /\ sent' = sent
      BY <1>5, <2>1
    <3> QED
      BY <2>1, <2>3, <3>1, <3>2, RequestsStay
  <2>7. WaitsKept(h)'
    <3> SUFFICES ASSUME NEW v \in Workers, get'[v].stage = "wait", Host(v)' = h
                 PROVE  /\ get'[v].slot \in 1 .. slots'[h]
                        /\ DueByRate(get'[v].slot, get'[v].due)
                        /\ DueByPace(pace[h], get'[v].slot, get'[v].due)
      BY <1>5 DEF WaitsKept, Waiting, DueByRate, DueByPace
    <3>1. CASE v = w
      <4>1. h = k /\ get'[v].slot = slots[k] + 1 /\ get'[v].due = Earliest(k)
        BY <1>1, <1>2, <1>6, <3>1 DEF k
      <4>2. slots'[h] = slots[k] + 1 /\ slots[k] \in Nat
        BY <1>3, <1>5, <2>1, <4>1 DEF TypeOK
      <4> QED
        BY <1>4, <4>1, <4>2
    <3>2. CASE v # w
      <4>1. get'[v] = get[v] /\ Waiting(v, h)
        BY <1>2, <1>6, <3>2 DEF Waiting
      <4>2. /\ get[v].slot \in 1 .. slots[h]
            /\ DueByRate(get[v].slot, get[v].due) /\ DueByPace(pace[h], get[v].slot, get[v].due)
        BY <2>2, <4>1 DEF WaitsKept
      <4> QED
        BY <2>1, <2>3, <4>1, <4>2
    <3> QED
      BY <3>1, <3>2
  <2> QED
    BY <2>4, <2>5, <2>6, <2>7
<1> QED
  BY <1>7 DEF SlotInv

\* A request is made on the slot of w, the first one or a redirect.
Requests(w, n) ==
  /\ n \in 1 .. MaxRedirects
  /\ sent' = [sent EXCEPT ![Host(w)] = sent[Host(w)] \cup {<<get[w].slot, n>>}]
  /\ UNCHANGED <<now, next, perHost, slots, pace>>

LEMMA RequestKeepsSlots ==
  ASSUME TypeOK, SlotInv, NEW w \in Workers, NEW r \in Get, NEW n \in Nat,
         get' = [get EXCEPT ![w] = r], get[w] \in Get,
         r.stage = "sent", r.page = get[w].page, r.slot = get[w].slot,
         Requests(w, n), SlotDue(Host(w), get[w].slot)
  PROVE  SlotInv'
<1>1. /\ get'[w] = r /\ \A v \in Workers \ {w} : get'[v] = get[v]
  BY Moved DEF AnyGet
<1>2. Host(w) \in Hosts
  BY HostIsHost DEF Host, Origin
<1>3. /\ sent' = [sent EXCEPT ![Host(w)] = sent[Host(w)] \cup {<<get[w].slot, n>>}]
      /\ UNCHANGED <<now, next, perHost, slots, pace>> /\ n \in 1 .. MaxRedirects
  BY DEF Requests
<1>4. \A v \in Workers : Host(v)' = Host(v) /\ get'[v].slot = get[v].slot
  BY <1>1 DEF Host, Origin
<1>5. \A v \in Workers : get'[v].stage = "wait" => get'[v] = get[v]
  BY <1>1
<1>6. ASSUME NEW h \in Hosts
      PROVE  /\ SlotsKept(h)' /\ PaceInForce(h)' /\ SentKept(h)' /\ RequestsKept(h)'
             /\ WaitsKept(h)'
  <2>1. SlotsKept(h) /\ PaceInForce(h) /\ SentKept(h) /\ RequestsKept(h) /\ WaitsKept(h)
    BY DEF SlotInv
  <2>2. SlotsKept(h)' /\ PaceInForce(h)'
    BY <1>3, <2>1 DEF SlotsKept, PaceInForce, Interval, DueByRate, DueByPace
  <2>3. \A k : SlotDue(h, k)' <=> SlotDue(h, k)
    BY <1>3 DEF SlotDue, DueByRate, DueByPace
  <2>4. ASSUME NEW q \in sent'[h] PROVE SlotDue(h, q[1]) /\ q[2] \in 1 .. MaxRedirects
    <3>1. CASE q \in sent[h]
      BY <2>1, <3>1 DEF SentKept
    <3>2. CASE q \notin sent[h]
      <4>1. h = Host(w) /\ q = <<get[w].slot, n>>
        BY <1>2, <1>3, <3>2 DEF TypeOK
      <4> QED
        BY <1>3, <4>1
    <3> QED
      BY <3>1, <3>2
  <2>5. SentKept(h)'
    BY <2>3, <2>4 DEF SentKept
  <2>6. ASSUME NEW v \in Workers, get'[v].stage = "sent", Host(v) = h
        PROVE  SlotDue(h, get[v].slot)
    <3>1. CASE v = w
      BY <2>6, <3>1
    <3>2. CASE v # w
      BY <1>1, <2>1, <2>6, <3>2 DEF RequestsKept, Requesting
    <3> QED
      BY <3>1, <3>2
  <2>7. RequestsKept(h)'
    <3>1. \A v \in Workers : Requesting(v, h)' => SlotDue(h, get[v].slot)
      BY <1>4, <2>6 DEF Requesting
    <3>2. \A v \in Workers : Requesting(v, h)' => SlotDue(h, get'[v].slot)
      BY <1>4, <3>1
    <3> QED
      BY <1>3, <3>2 DEF RequestsKept, SlotDue, DueByRate, DueByPace
  <2>8. WaitsKept(h)'
    BY <1>3, <1>4, <1>5, <2>1 DEF WaitsKept, Waiting, DueByRate, DueByPace
  <2> QED
    BY <2>2, <2>5, <2>7, <2>8
<1> QED
  BY <1>6 DEF SlotInv

LEMMA SendKeepsSlots ==
  ASSUME TypeOK, SlotInv, NEW w \in Workers, Send(w)
  PROVE  SlotInv'
<1>1. PICK r \in Get :
        /\ get' = [get EXCEPT ![w] = r] /\ get[w] \in Get
        /\ r.stage = "sent" /\ r.page = get[w].page /\ r.slot = get[w].slot
  BY SendEffect
<1> DEFINE h == Host(w)
<1>2. h \in Hosts /\ get[w].slot \in Nat /\ get[w].due \in Nat
  BY <1>1, HostIsHost DEF Host, Origin, Get
<1>3. get[w].stage = "wait" /\ get[w].due <= now
  BY DEF Send
<1>4. Requests(w, 1)
  BY DEF Requests, Send, limiter
<1>5. /\ get[w].slot \in 1 .. slots[h]
      /\ DueByRate(get[w].slot, get[w].due) /\ DueByPace(pace[h], get[w].slot, get[w].due)
  BY <1>2, <1>3 DEF SlotInv, WaitsKept, Waiting
<1>6. DueByRate(get[w].slot, now) /\ DueByPace(pace[h], get[w].slot, now)
  BY <1>2, <1>3, <1>5, HostTypes, LaterIsKept
<1>7. SlotDue(h, get[w].slot)
  BY <1>5, <1>6 DEF SlotDue
<1> QED
  BY <1>1, <1>4, <1>7, RequestKeepsSlots

\* A redirect takes no slot: it is one more request on that of its attempt.
LEMMA RedirectKeepsSlots ==
  ASSUME TypeOK, SlotInv, NEW w \in Workers, Redirect(w)
  PROVE  SlotInv'
<1>1. PICK r \in Get :
        /\ get' = [get EXCEPT ![w] = r] /\ get[w] \in Get /\ get[w].stage = "sent"
        /\ r.stage = "sent" /\ r.page = get[w].page /\ r.slot = get[w].slot
  BY RedirectEffect
<1>2. Host(w) \in Hosts /\ get[w].hops \in Nat
  BY <1>1, HostIsHost DEF Host, Origin, Get
<1> DEFINE n == get[w].hops + 2
<1>3. n \in Nat /\ n \in 1 .. MaxRedirects
  BY <1>2 DEF Redirect, MayFollow
<1>4. Requests(w, n)
  BY <1>3 DEF Requests, Redirect, limiter
<1>5. SlotDue(Host(w), get[w].slot)
  BY <1>1, <1>2 DEF SlotInv, RequestsKept, Requesting
<1> HIDE DEF n
<1> QED
  BY <1>1, <1>3, <1>4, <1>5, RequestKeepsSlots

\* The steps that neither take a slot nor use one: the delay a robots.txt asks
\* for governs the slots after those already taken, of which none is late.
LEMMA OtherKeepsSlots ==
  ASSUME TypeOK, Modest, SlotInv, NEW w \in Workers, Robotic(w) \/ Paging(w)
  PROVE  SlotInv'
<1>1. PICK r \in AnyGet : Turns(w, r)
  BY OtherTurns DEF Modest
<1>2. /\ get'[w] = r /\ r.stage \notin {"wait", "sent"}
      /\ \A v \in Workers \ {w} : get'[v] = get[v]
  BY <1>1, Moved DEF Turns
<1>3. \A v \in Workers : get'[v].stage \in {"wait", "sent"} => get'[v] = get[v] /\ Host(v)' = Host(v)
  BY <1>2 DEF Host, Origin
<1>4. UNCHANGED <<now, next, slots, sent>>
  BY WhoWrites
<1>5. ASSUME NEW h \in Hosts
      PROVE  /\ SlotsKept(h)' /\ PaceInForce(h)' /\ SentKept(h)' /\ RequestsKept(h)'
             /\ WaitsKept(h)'
  <2>1. now \in Nat /\ slots[h] \in Nat
    BY HostTypes
  <2>2. SlotsKept(h) /\ PaceInForce(h) /\ WaitsKept(h)
    BY DEF SlotInv
  <2>3. \/ pace'[h] = pace[h] /\ perHost'[h] = perHost[h]
        \/ /\ perHost'[h] \in Nat
           /\ pace'[h] = [interval |-> Larger(Rate, perHost'[h]), since |-> now,
                          first |-> slots[h] + 1]
    <3>1. CASE UNCHANGED <<perHost, pace>>
      BY <3>1
    <3>2. CASE RobotsAnswered(w) /\ SetHostDelay(Host(w), AskedDelay[Origin(w)])
      <4>1. get[w] \in Get
        BY <3>2, AwakeIsGet DEF RobotsAnswered
      <4>2. Origin(w) \in Origins /\ Host(w) \in Hosts
        BY <4>1, HostIsHost DEF Host, Origin
      <4>3. AskedDelay[Origin(w)] \in Nat
        BY <4>2, DelaysAsked
      <4>4. CASE h = Host(w)
        BY <3>2, <4>2, <4>3, <4>4 DEF SetHostDelay, TypeOK
      <4>5. CASE h # Host(w)
        BY <3>2, <4>5 DEF SetHostDelay, TypeOK
      <4> QED
        BY <4>4, <4>5
    <3> QED
      BY <3>1, <3>2, WhoWrites
  <2>4. SentKept(h)' /\ RequestsKept(h)'
    <3>1. /\ slots'[h] = slots[h] /\ slots[h] <= slots'[h] /\ now' = now /\ now <= now'
          /\ sent'[h] = sent[h]
      BY <1>4, <2>1
    <3>2. pace'[h] = pace[h] \/ pace'[h].first = slots[h] + 1
      BY <2>3
    <3>3. \A v \in Workers : get'[v].stage = "sent" => get'[v] = get[v]
      BY <1>3
    <3> QED
      BY <2>1, <3>1, <3>2, <3>3, RequestsStay
  <2>5. CASE pace'[h] = pace[h] /\ perHost'[h] = perHost[h]
    <3>1. SlotsKept(h)' /\ PaceInForce(h)'
      BY <1>4, <2>2, <2>5 DEF SlotsKept, PaceInForce, Interval, DueByRate, DueByPace
    <3>2. WaitsKept(h)'
      BY <1>3, <1>4, <2>2, <2>5 DEF WaitsKept, Waiting, DueByRate, DueByPace
    <3> QED
      BY <2>4, <3>1, <3>2
  <2>6. CASE /\ perHost'[h] \in Nat
             /\ pace'[h] = [interval |-> Larger(Rate, perHost'[h]), since |-> now,
                            first |-> slots[h] + 1]
    <3>1. /\ pace'[h].interval = Larger(Rate, perHost'[h]) /\ pace'[h].since = now
          /\ pace'[h].first = slots[h] + 1
      BY <2>6
    <3>2. PaceInForce(h)'
      BY <1>4, <2>1, <3>1 DEF PaceInForce, Interval
    <3>3. SlotsKept(h)'
      BY <1>4, <2>1, <2>2, <3>1 DEF SlotsKept, DueByRate
    <3>4. WaitsKept(h)'
      <4> SUFFICES ASSUME NEW v \in Workers, get'[v].stage = "wait", Host(v)' = h
                   PROVE  /\ get'[v].slot \in 1 .. slots[h]
                          /\ DueByRate(get'[v].slot, get'[v].due)
                          /\ ~(get'[v].slot >= pace'[h].first)
        BY <1>4 DEF WaitsKept, Waiting, DueByRate, DueByPace
      <4>1. get'[v] = get[v] /\ Waiting(v, h)
        BY <1>3 DEF Waiting
      <4>2. get[v].slot \in 1 .. slots[h] /\ DueByRate(get[v].slot, get[v].due)
        BY <2>2, <4>1 DEF WaitsKept
      <4> QED
        BY <2>1, <3>1, <4>1, <4>2
    <3> QED
      BY <2>4, <3>2, <3>3, <3>4
  <2> QED
    BY <2>3, <2>5, <2>6
<1> QED
  BY <1>5 DEF SlotInv

LEMMA TickKeepsSlots ==
  ASSUME TypeOK, SlotInv, Tick
  PROVE  SlotInv'
<1>1. now' = now + 1 /\ UNCHANGED <<next, perHost, slots, pace, get, sent>>
  BY DEF Tick, limiter
<1>2. ASSUME NEW h \in Hosts
      PROVE  /\ SlotsKept(h)' /\ PaceInForce(h)' /\ SentKept(h)' /\ RequestsKept(h)'
             /\ WaitsKept(h)'
  <2>1. /\ now \in Nat /\ slots[h] \in Nat /\ pace[h].interval \in Nat
        /\ pace[h].since \in Nat /\ pace[h].first \in Nat
    BY HostTypes
  <2>2. SlotsKept(h) /\ PaceInForce(h) /\ WaitsKept(h)
    BY DEF SlotInv
  <2>3. SlotsKept(h)' /\ PaceInForce(h)'
    BY <1>1, <2>1, <2>2 DEF SlotsKept, PaceInForce, Interval, DueByRate, DueByPace
  <2>4. SentKept(h)' /\ RequestsKept(h)'
    <3>1. /\ slots'[h] = slots[h] /\ slots[h] <= slots'[h] /\ now' \in Nat /\ now <= now'
          /\ sent'[h] = sent[h] /\ pace'[h] = pace[h] /\ get' = get
      BY <1>1, <2>1
    <3> QED
      BY <2>1, <3>1, RequestsStay
  <2>5. WaitsKept(h)'
    BY <1>1, <2>2 DEF WaitsKept, Waiting, Host, Origin, DueByRate, DueByPace
  <2> QED
    BY <2>3, <2>4, <2>5
<1> QED
  BY <1>2 DEF SlotInv

LEMMA SlotStep == TypeOK /\ Modest /\ SlotInv /\ [Next]_vars => SlotInv'
<1> SUFFICES ASSUME TypeOK, Modest, SlotInv, [Next]_vars PROVE SlotInv'
  OBVIOUS
<1>1. CASE UNCHANGED vars \/ CtrlC
  <2>1. UNCHANGED <<now, next, perHost, slots, pace, get, sent>>
    BY <1>1 DEF CtrlC, vars, limiter
  <2> QED
    BY <2>1 DEF SlotInv, SlotsKept, PaceInForce, SentKept, RequestsKept, Requesting, SlotDue,
                WaitsKept, Waiting, Host, Origin, Interval, DueByRate, DueByPace
<1>2. CASE Tick
  BY <1>2, TickKeepsSlots
<1>3. ASSUME NEW w \in Workers, Step(w) PROVE SlotInv'
  BY <1>3, ReserveKeepsSlots, SendKeepsSlots, RedirectKeepsSlots, OtherKeepsSlots
     DEF Step
<1> QED
  BY <1>1, <1>2, <1>3 DEF Next

LEMMA SlotInvariant == Spec => [](TypeOK /\ SlotInv)
<1>1. TypeOK /\ Modest /\ SlotInv /\ [Next]_vars => SlotInv'
  BY SlotStep
<1> QED
  BY <1>1, SlotInit, TypeInvariant, PTL DEF Spec

LEMMA Quotient ==
  ASSUME NEW r \in Nat \ {0}, NEW k \in Nat, NEW t \in Nat, k * r <= t
  PROVE  k <= t \div r
OBVIOUS

\* However many workers share a host and however late they wake, the requests
\* made on its slots by any moment, redirects included, fit its rate: at most
\* MaxRedirects at the start and as many per interval (ratelimit.go: Wait;
\* client.go: do, CheckRedirect).
THEOREM RateIsHeld == Spec => []RateHeld
<1>1. TypeOK /\ SlotInv => RateHeld
  <2> SUFFICES ASSUME TypeOK, SlotInv, NEW h \in Hosts, Rate > 0
               PROVE  Cardinality(sent[h]) <= MaxRedirects * (1 + now \div Rate)
    BY DEF RateHeld
  <2>1. Rate \in Nat \ {0} /\ now \in Nat /\ slots[h] \in Nat
    BY HostTypes
  <2> DEFINE most == now \div Rate
             due == 1 .. (1 + most)
             tries == 1 .. MaxRedirects
             room == due \X tries
  <2>2. most \in Nat
    BY <2>1
  <2>3. sent[h] \subseteq room
    <3> SUFFICES ASSUME NEW q \in sent[h] PROVE q \in room
      OBVIOUS
    <3>1. PICK n \in Nat, m \in Nat : q = <<n, m>>
      BY HostTypes
    <3>2. n \in 1 .. slots[h] /\ (n - 1) * Rate <= now /\ m \in 1 .. MaxRedirects
      BY <3>1 DEF SlotInv, SentKept, SlotDue, DueByRate
    <3>3. n >= 1 /\ n - 1 \in Nat
      BY <2>1, <3>2
    <3>4. n - 1 <= most
      BY <2>1, <3>2, <3>3, Quotient
    <3> HIDE DEF most
    <3>5. n \in 1 .. (1 + most)
      BY <2>2, <3>3, <3>4
    <3> QED
      BY <3>1, <3>2, <3>5
  <2> HIDE DEF most
  <2>4. /\ IsFiniteSet(due) /\ Cardinality(due) = 1 + most
        /\ IsFiniteSet(tries) /\ Cardinality(tries) = MaxRedirects
    BY <2>2, FS_Interval
  <2> HIDE DEF due, tries
  <2>5. IsFiniteSet(room) /\ Cardinality(room) = (1 + most) * MaxRedirects
    BY <2>4, FS_Product
  <2> HIDE DEF room
  <2>6. Cardinality(sent[h]) <= (1 + most) * MaxRedirects
    BY <2>3, <2>5, FS_Subset
  <2>7. (1 + most) * MaxRedirects = MaxRedirects * (1 + most)
    BY <2>2
  <2> QED
    BY <2>6, <2>7 DEF most
<1> QED
  BY <1>1, SlotInvariant, PTL

\* A delay learned from the network holds for every slot taken after it,
\* whichever worker took it (ratelimit.go: SetHostDelay, Wait).
THEOREM PaceIsHeld == Spec => []PaceHeld
<1>1. TypeOK /\ SlotInv => PaceHeld
  <2> SUFFICES ASSUME TypeOK, SlotInv, NEW h \in Hosts, NEW q \in sent[h],
                      q[1] - pace[h].first >= 0
               PROVE  (q[1] - pace[h].first) * pace[h].interval <= now - pace[h].since
    BY DEF PaceHeld
  <2>1. PICK n \in Nat : q[1] = n
    BY HostTypes
  <2>2. /\ now \in Nat /\ pace[h].interval \in Nat /\ pace[h].since \in Nat
        /\ pace[h].first \in Nat
    BY HostTypes
  <2>3. n >= pace[h].first /\ DueByPace(pace[h], n, now)
    BY <2>1, <2>2 DEF SlotInv, SentKept, SlotDue
  <2>4. pace[h].since + (n - pace[h].first) * pace[h].interval <= now
    BY <2>3 DEF DueByPace
  <2>5. (n - pace[h].first) * pace[h].interval \in Int
    <3>1. n - pace[h].first \in Int
      BY <2>2
    <3> QED
      BY <2>2, <3>1
  <2> QED
    BY <2>1, <2>2, <2>4, <2>5
<1> QED
  BY <1>1, SlotInvariant, PTL

----------------------------------------------------------------------------
(* What a request asks for, and what its file says.                        *)

IsFlat(seqs, g) == g = [i \in 1..Len(seqs) |-> IF i = 1 THEN seqs[i] ELSE g[i - 1] \o seqs[i]]

LEMMA FlattenThree ==
  ASSUME NEW a \in Text, NEW b \in Text, NEW c \in Text
  PROVE  FlattenSeq(<<a, b, c>>) = (a \o b) \o c
<1> DEFINE seqs == <<a, b, c>>
           h == [i \in 1..3 |-> IF i = 1 THEN a ELSE IF i = 2 THEN a \o b ELSE (a \o b) \o c]
           g == CHOOSE g : IsFlat(seqs, g)
<1>1. Len(seqs) = 3 /\ seqs[1] = a /\ seqs[2] = b /\ seqs[3] = c
  OBVIOUS
<1>2. FlattenSeq(seqs) = g[Len(seqs)]
  <2>1. FlattenSeq(seqs) = IF Len(seqs) = 0 THEN seqs ELSE g[Len(seqs)]
    BY Zenon DEF FlattenSeq, IsFlat
  <2> HIDE DEF seqs, g
  <2> QED
    BY <1>1, <2>1
<1> HIDE DEF seqs
<1>3. IsFlat(seqs, h)
  <2>1. h[1] = a /\ h[2] = a \o b
    OBVIOUS
  <2>2. \A i \in 1..3 : h[i] = IF i = 1 THEN seqs[i] ELSE h[i - 1] \o seqs[i]
    <3>1. \A i \in 1..3 : i = 1 \/ i = 2 \/ i = 3
      OBVIOUS
    <3> QED
      BY <1>1, <2>1, <3>1
  <2>3. \A i \in 1..3 : h[i] = IF i = 1 THEN a ELSE IF i = 2 THEN a \o b ELSE (a \o b) \o c
    OBVIOUS
  <2> DEFINE k == [i \in 1..3 |-> IF i = 1 THEN seqs[i] ELSE h[i - 1] \o seqs[i]]
  <2>4. h = k
    <3>1. DOMAIN h = 1..3 /\ DOMAIN k = 1..3 /\ h = [i \in 1..3 |-> h[i]] /\ k = [i \in 1..3 |-> k[i]]
      OBVIOUS
    <3>2. \A i \in 1..3 : k[i] = IF i = 1 THEN seqs[i] ELSE h[i - 1] \o seqs[i]
      OBVIOUS
    <3> HIDE DEF h, k
    <3>3. \A i \in 1..3 : h[i] = k[i]
      BY <2>2, <3>2
    <3> QED
      BY <3>1, <3>3
  <2> HIDE DEF h
  <2> QED
    BY <1>1, <2>4 DEF IsFlat
<1>4. IsFlat(seqs, g)
  <2> HIDE DEF h
  <2> QED
    BY <1>3, Zenon
<1> HIDE DEF h, g
<1>5. g = [i \in 1..3 |-> IF i = 1 THEN seqs[i] ELSE g[i - 1] \o seqs[i]]
  BY <1>1, <1>4 DEF IsFlat
<1>6. \A i \in 1..3 : g[i] = IF i = 1 THEN seqs[i] ELSE g[i - 1] \o seqs[i]
  BY <1>5
<1>7. g[1] = a
  BY <1>1, <1>6
<1>8. g[2] = a \o b
  <2>1. 2 \in 1..3 /\ ~(2 = 1) /\ 2 - 1 = 1
    OBVIOUS
  <2>2. g[2] = IF 2 = 1 THEN seqs[2] ELSE g[2 - 1] \o seqs[2]
    BY <1>6, <2>1, Zenon
  <2>3. g[2] = g[1] \o seqs[2]
    BY <2>1, <2>2, Zenon
  <2> QED
    BY <1>1, <1>7, <2>3, Zenon
<1>9. g[3] = (a \o b) \o c
  <2>1. 3 \in 1..3 /\ ~(3 = 1) /\ 3 - 1 = 2
    OBVIOUS
  <2>2. g[3] = IF 3 = 1 THEN seqs[3] ELSE g[3 - 1] \o seqs[3]
    BY <1>6, <2>1, Zenon
  <2>3. g[3] = g[2] \o seqs[3]
    BY <2>1, <2>2, Zenon
  <2> QED
    BY <1>1, <1>8, <2>3, Zenon
<1> QED
  BY <1>1, <1>2, <1>9 DEF seqs

\* The client checks the very text the request spells.
LEMMA CheckedAsSpelled ==
  ASSUME NEW p \in Pages
  PROVE  Checked(p) \in Text /\ Spelled(p) = Checked(p)
<1> DEFINE path == IF PathOf[p] # <<>> THEN PathOf[p] ELSE <<"/">>
           question == IF QueryOf[p] # <<>> THEN <<"?">> ELSE <<>>
           query == QueryOf[p]
<1>1. <<"/">> \in Text /\ <<"?">> \in Text /\ <<>> \in Text
  BY DEF Text, Character
<1>2. path \in Text /\ question \in Text /\ query \in Text
  BY <1>1, RobotsAssumption
<1>3. Spelled(p) = (path \o question) \o query
  <2>1. Spelled(p) = FlattenSeq(<<path, question, query>>)
    BY DEF Spelled
  <2> HIDE DEF path, question, query
  <2> QED
    BY <1>2, <2>1, FlattenThree
<1>4. Checked(p) = path \o (IF query = <<>> THEN <<>> ELSE <<"?">> \o query)
  BY DEF Checked
<1>5. (path \o question) \o query = path \o (question \o query) /\ question \o query \in Text
      /\ path \o (question \o query) \in Text
  <2> HIDE DEF path, question, query
  <2> QED
    BY <1>2, ConcatAssociative, ConcatProperties DEF Text
<1>6. question \o query = IF query = <<>> THEN <<>> ELSE <<"?">> \o query
  <2>1. CASE query = <<>>
    <3>1. <<>> \o <<>> = <<>>
      BY <1>1, ConcatEmptySeq DEF Text
    <3> QED
      BY <2>1, <3>1
  <2>2. CASE query # <<>>
    BY <2>2
  <2> QED
    BY <2>1, <2>2
<1> HIDE DEF path, question, query
<1> QED
  BY <1>3, <1>4, <1>5, <1>6

NoGroupTwice == \A o \in Origins : OneGroupEach(RobotsFile[o])

\* What the parsed file says of a page is what the file says of it.
LEMMA AllowedIsNotForbidden ==
  ASSUME NoGroupTwice, NEW p \in Pages
  PROVE  p \in Forbidden <=> ~Allowed[p]
<1> DEFINE file == RobotsFile[OriginOf[p]]
<1>1. OriginOf[p] \in Origins
  OBVIOUS
<1>2. file \in Seq(Line) /\ Token \in Text /\ OneGroupEach(file)
  BY <1>1, RobotsAssumption DEF NoGroupTwice
<1>3. Checked(p) \in Text /\ Spelled(p) = Checked(p)
  BY CheckedAsSpelled
<1>4. Allowed[p] = Allows(ParseRobots(file), Token, Checked(p))
  BY <1>1 DEF Allowed, Parsed
<1>5. p \in Forbidden <=> ~FileAllows(file, Token, Checked(p))
  BY <1>3 DEF Forbidden
<1> HIDE DEF file
<1>6. Allows(ParseRobots(file), Token, Checked(p)) <=> FileAllows(file, Token, Checked(p))
  BY <1>2, <1>3, FilesAreObeyed
<1> QED
  BY <1>4, <1>5, <1>6

----------------------------------------------------------------------------
(* No page is asked for against a file that was read.                      *)

\* What a Get has seen of the file of its page, and that it acts on it.
Heeds(g, lost) ==
  /\ g.seen = "nil" => OriginOf[g.page] \in lost
  /\ g.stage \in {"store", "verdict"} => g.seen # "unknown"
  /\ g.target = "page" => /\ g.seen # "unknown"
                          /\ g.seen = "file" => Allowed[g.page]

\* The map knows nothing of an origin only if its file was asked for in vain.
KnowsWhy == \A o \in Origins : robots[o] = "nil" => o \in failed

HeedInv == KnowsWhy /\ \A w \in Workers : get[w] = Idle \/ Heeds(get[w], failed)

\* A step of one worker turns its Get into r.
HeedsNow(w, r) ==
  /\ get' = [get EXCEPT ![w] = r]
  /\ failed \subseteq failed'
  /\ r = Idle \/ Heeds(r, failed')

LEMMA HeedsStays ==
  ASSUME NEW g, NEW lost, NEW more, lost \subseteq more, Heeds(g, lost)
  PROVE  Heeds(g, more)
BY DEF Heeds

LEMMA HeedMoves ==
  ASSUME TypeOK, HeedInv, NEW w \in Workers, NEW r, HeedsNow(w, r), KnowsWhy'
  PROVE  HeedInv'
<1>1. get'[w] = r /\ \A v \in Workers \ {w} : get'[v] = get[v]
  BY DEF TypeOK, HeedsNow
<1>2. ASSUME NEW v \in Workers
      PROVE  get'[v] = Idle \/ Heeds(get'[v], failed')
  <2>1. CASE v = w
    BY <1>1, <2>1, Zenon DEF HeedsNow
  <2>2. CASE v # w
    <3>1. get'[v] = get[v]
      BY <1>1, <2>2
    <3>2. get[v] = Idle \/ Heeds(get[v], failed)
      BY DEF HeedInv
    <3>3. failed \subseteq failed'
      BY DEF HeedsNow
    <3> QED
      BY <3>1, <3>2, <3>3, HeedsStays, Zenon
  <2> QED
    BY <2>1, <2>2
<1>3. (\A v \in Workers : get[v] = Idle \/ Heeds(get[v], failed))'
  BY <1>2 DEF Heeds, Idle
<1> QED
  BY <1>3 DEF HeedInv

\* The same page, target and reading, in a stage that decides nothing.
Carries(g, r) ==
  /\ r.page = g.page /\ r.target = g.target /\ r.seen = g.seen
  /\ r.stage \notin {"store", "verdict"}

LEMMA CarriedHeeds ==
  ASSUME NEW g, NEW r, NEW lost, Heeds(g, lost), Carries(g, r)
  PROVE  Heeds(r, lost)
BY DEF Heeds, Carries

Carrying(w) ==
  \/ Reserve(w) \/ Send(w) \/ Redirect(w) \/ RobotsNotCached(w)
  \/ BackOff(w) \/ TryAgain(w)

LEMMA CarryingCarries ==
  ASSUME TypeOK, NEW w \in Workers, Carrying(w)
  PROVE  \E r : Carries(get[w], r) /\ get' = [get EXCEPT ![w] = r]
<1>1. get[w] \in Get /\ get[w] # Idle
  BY AwakeIsGet DEF Carrying, Reserve, Send, Redirect, RobotsNotCached, BackOff, TryAgain
<1>2. CASE Reserve(w)
  <2> DEFINE r == [get[w] EXCEPT !.stage = "wait", !.due = Earliest(Host(w)),
                                 !.slot = slots[Host(w)] + 1]
  <2>1. get' = [get EXCEPT ![w] = r]
    BY <1>2 DEF Reserve
  <2>2. Carries(get[w], r)
    BY <1>1 DEF Get, Carries
  <2> QED
    BY <2>1, <2>2
<1>3. CASE Send(w)
  <2> DEFINE r == [get[w] EXCEPT !.stage = "sent", !.due = 0, !.hops = 0,
                                 !.hits = get[w].hits + 1]
  <2>1. get' = [get EXCEPT ![w] = r]
    BY <1>3 DEF Send
  <2>2. Carries(get[w], r)
    BY <1>1 DEF Get, Carries
  <2> QED
    BY <2>1, <2>2
<1>4. CASE Redirect(w)
  <2> DEFINE r == [get[w] EXCEPT !.hops = get[w].hops + 1, !.hits = get[w].hits + 1]
  <2>1. get' = [get EXCEPT ![w] = r]
    BY <1>4 DEF Redirect
  <2>2. Carries(get[w], r)
    BY <1>1, <1>4 DEF Get, Carries, Redirect
  <2> QED
    BY <2>1, <2>2
<1>5. CASE RobotsNotCached(w)
  <2> DEFINE r == [get[w] EXCEPT !.stage = "queue"]
  <2>1. get' = [get EXCEPT ![w] = r]
    BY <1>5 DEF RobotsNotCached, Work
  <2>2. Carries(get[w], r)
    BY <1>1 DEF Get, Carries
  <2> QED
    BY <2>1, <2>2
<1>6. CASE BackOff(w)
  <2>1. PICK delay \in Delays(get[w].attempt) :
          get' = [get EXCEPT ![w].stage = "backoff", ![w].due = now + delay,
                             ![w].slot = 0, ![w].hops = 0]
    BY <1>6 DEF BackOff
  <2> DEFINE r == [get[w] EXCEPT !.stage = "backoff", !.due = now + delay, !.slot = 0, !.hops = 0]
  <2>2. get' = [get EXCEPT ![w] = r]
    BY <2>1
  <2>3. Carries(get[w], r)
    BY <1>1 DEF Get, Carries
  <2> QED
    BY <2>2, <2>3
<1>7. CASE TryAgain(w)
  <2> DEFINE r == [get[w] EXCEPT !.stage = "queue", !.due = 0, !.attempt = get[w].attempt + 1]
  <2>1. get' = [get EXCEPT ![w] = r]
    BY <1>7 DEF TryAgain
  <2>2. Carries(get[w], r)
    BY <1>1 DEF Get, Carries
  <2> QED
    BY <2>1, <2>2
<1> QED
  BY <1>2, <1>3, <1>4, <1>5, <1>6, <1>7 DEF Carrying

LEMMA CarryingKeeps ==
  ASSUME TypeOK, HeedInv, NEW w \in Workers, Carrying(w)
  PROVE  HeedInv'
<1>1. get[w] \in Get /\ get[w] # Idle
  BY AwakeIsGet DEF Carrying, Reserve, Send, Redirect, RobotsNotCached, BackOff, TryAgain
<1>2. PICK r : Carries(get[w], r) /\ get' = [get EXCEPT ![w] = r]
  BY CarryingCarries
<1>3. UNCHANGED <<robots, failed>>
  BY DEF Carrying, Reserve, Send, Redirect, RobotsNotCached, BackOff, TryAgain
<1>4. Heeds(get[w], failed)
  BY <1>1 DEF HeedInv
<1>5. Heeds(r, failed')
  BY <1>2, <1>3, <1>4, CarriedHeeds
<1>6. HeedsNow(w, r)
  BY <1>2, <1>3, <1>5 DEF HeedsNow
<1>7. KnowsWhy'
  BY <1>3 DEF HeedInv, KnowsWhy
<1> QED
  BY <1>6, <1>7, HeedMoves

LEMMA ReturnKeeps ==
  ASSUME TypeOK, HeedInv, NEW w \in Workers,
         Refuse(w) \/ PageCached(w) \/ PageAnswered(w) \/ GiveUp(w)
  PROVE  HeedInv'
<1>1. Return(w) /\ UNCHANGED <<robots, failed>>
  BY DEF Refuse, PageCached, PageAnswered, GiveUp
<1>2. HeedsNow(w, Idle)
  BY <1>1 DEF Return, HeedsNow
<1>3. KnowsWhy'
  BY <1>1 DEF HeedInv, KnowsWhy
<1> QED
  BY <1>2, <1>3, HeedMoves

LEMMA StartKeeps ==
  ASSUME TypeOK, HeedInv, NEW w \in Workers, Start(w)
  PROVE  HeedInv'
<1>1. PICK p \in todo :
        get' = [get EXCEPT ![w] =
          [stage |-> IF robots[OriginOf[p]] = "unknown" THEN "lookup" ELSE "verdict",
           page |-> p, target |-> "robots", attempt |-> 1, due |-> 0,
           slot |-> 0, seen |-> robots[OriginOf[p]], hops |-> 0, hits |-> 0,
           warned |-> OriginOf[p] \in informed]]
  BY DEF Start
<1> DEFINE r == [stage |-> IF robots[OriginOf[p]] = "unknown" THEN "lookup" ELSE "verdict",
                 page |-> p, target |-> "robots", attempt |-> 1, due |-> 0,
                 slot |-> 0, seen |-> robots[OriginOf[p]], hops |-> 0, hits |-> 0,
                 warned |-> OriginOf[p] \in informed]
<1>2. OriginOf[p] \in Origins
  BY DEF TypeOK
<1>3. UNCHANGED <<robots, failed>>
  BY DEF Start
<1>4. /\ r.seen = robots[OriginOf[p]] /\ r.page = p /\ r.target = "robots"
      /\ r.stage = IF robots[OriginOf[p]] = "unknown" THEN "lookup" ELSE "verdict"
  OBVIOUS
<1>5. get' = [get EXCEPT ![w] = r]
  BY <1>1
<1> HIDE DEF r
<1>6. Heeds(r, failed')
  BY <1>2, <1>3, <1>4 DEF Heeds, HeedInv, KnowsWhy
<1>7. KnowsWhy'
  BY <1>3 DEF HeedInv, KnowsWhy
<1>8. HeedsNow(w, r)
  BY <1>3, <1>5, <1>6 DEF HeedsNow
<1> QED
  BY <1>7, <1>8, HeedMoves

\* fetchRobots returns: from the cache, with the site's answer or with none.
LEMMA ReturnRobotsKeeps ==
  ASSUME TypeOK, Modest, HeedInv, NEW w \in Workers,
         RobotsCached(w) \/ RobotsAnswered(w) \/ RobotsFailed(w)
  PROVE  HeedInv'
<1>1. get[w] \in Get /\ get[w] # Idle /\ get[w].stage \in {"lookup", "sent", "wait"}
  BY AwakeIsGet DEF RobotsCached, RobotsAnswered, RobotsFailed
<1>2. get[w].target = "robots"
  <2>1. Spent(get[w])
    BY <1>1 DEF Modest, SpentOrIdle
  <2> QED
    BY <1>1, <2>1 DEF Spent, RobotsAnswered, RobotsCached, RobotsFailed
<1>3. PICK seen \in {"nil", "file"} : ReturnRobots(w, seen) /\ robots' = robots
  BY DEF RobotsCached, RobotsAnswered, RobotsFailed
<1> DEFINE r == [get[w] EXCEPT !.stage = "store", !.seen = seen, !.slot = 0, !.hops = 0]
<1>4. get' = [get EXCEPT ![w] = r]
  BY <1>3 DEF ReturnRobots
<1>5. r.page = get[w].page /\ r.target = "robots" /\ r.seen = seen
  BY <1>1, <1>2 DEF Get
<1> HIDE DEF r
<1>6. failed \subseteq failed' /\ (seen = "nil" => Origin(w) \in failed')
  BY <1>3 DEF ReturnRobots
<1>7. Heeds(r, failed')
  BY <1>5, <1>6 DEF Heeds, Origin
<1>8. KnowsWhy'
  BY <1>3, <1>6 DEF HeedInv, KnowsWhy
<1>9. HeedsNow(w, r)
  BY <1>4, <1>6, <1>7 DEF HeedsNow
<1> QED
  BY <1>8, <1>9, HeedMoves

LEMMA StoreKeeps ==
  ASSUME TypeOK, HeedInv, NEW w \in Workers, StoreRobots(w)
  PROVE  HeedInv'
<1>1. get[w] \in Get /\ get[w] # Idle /\ get[w].stage = "store"
  BY AwakeIsGet DEF StoreRobots
<1> DEFINE r == [get[w] EXCEPT !.stage = "verdict"]
<1>2. get' = [get EXCEPT ![w] = r]
  BY DEF StoreRobots, Work
<1>3. robots' = [robots EXCEPT ![Origin(w)] = get[w].seen] /\ failed' = failed
  BY DEF StoreRobots
<1>4. r.page = get[w].page /\ r.target = get[w].target /\ r.seen = get[w].seen
  BY <1>1 DEF Get
<1>5. Heeds(get[w], failed)
  BY <1>1 DEF HeedInv
<1> HIDE DEF r
<1>6. Heeds(r, failed')
  BY <1>1, <1>3, <1>4, <1>5 DEF Heeds
<1>7. KnowsWhy'
  <2>1. ASSUME NEW o \in Origins, robots'[o] = "nil" PROVE o \in failed
    <3>1. CASE o = Origin(w)
      BY <1>3, <1>5, <2>1, <3>1 DEF TypeOK, Heeds, Origin
    <3>2. CASE o # Origin(w)
      BY <1>3, <2>1, <3>2 DEF TypeOK, HeedInv, KnowsWhy
    <3> QED
      BY <3>1, <3>2
  <2> QED
    BY <1>3, <2>1 DEF KnowsWhy
<1>8. HeedsNow(w, r)
  BY <1>2, <1>3, <1>6 DEF HeedsNow
<1> QED
  BY <1>7, <1>8, HeedMoves

LEMMA PageKeeps ==
  ASSUME TypeOK, HeedInv, NEW w \in Workers, PageNotCached(w)
  PROVE  HeedInv'
<1>1. get[w] \in Get /\ get[w] # Idle /\ get[w].stage = "verdict"
  BY AwakeIsGet DEF PageNotCached
<1> DEFINE r == [get[w] EXCEPT !.stage = "queue", !.target = "page"]
<1>2. get' = [get EXCEPT ![w] = r] /\ UNCHANGED <<robots, failed>>
  BY DEF PageNotCached
<1>3. r.page = get[w].page /\ r.stage = "queue" /\ r.seen = get[w].seen
  BY <1>1 DEF Get
<1>4. Heeds(get[w], failed)
  BY <1>1 DEF HeedInv
<1>5. get[w].seen = "file" => Allowed[get[w].page]
  BY DEF PageNotCached, Disallowed
<1> HIDE DEF r
<1>6. Heeds(r, failed')
  BY <1>1, <1>2, <1>3, <1>4, <1>5 DEF Heeds
<1>7. KnowsWhy'
  BY <1>2 DEF HeedInv, KnowsWhy
<1>8. HeedsNow(w, r)
  BY <1>2, <1>6 DEF HeedsNow
<1> QED
  BY <1>7, <1>8, HeedMoves

LEMMA HeedInit == Init => HeedInv
<1> SUFFICES ASSUME Init PROVE HeedInv
  OBVIOUS
<1>1. \A w \in Workers : get[w] = Idle
  BY DEF Init
<1>2. \A o \in Origins : robots[o] # "nil"
  BY DEF Init
<1> QED
  BY <1>1, <1>2 DEF HeedInv, KnowsWhy

LEMMA HeedStep == TypeOK /\ Modest /\ HeedInv /\ [Next]_vars => HeedInv'
<1> SUFFICES ASSUME TypeOK, Modest, HeedInv, [Next]_vars PROVE HeedInv'
  OBVIOUS
<1>1. CASE UNCHANGED vars \/ Tick \/ CtrlC
  <2>1. UNCHANGED <<get, robots, failed>>
    BY <1>1 DEF vars, Tick, CtrlC
  <2> QED
    BY <2>1 DEF HeedInv, KnowsWhy, Heeds, Idle
<1>2. ASSUME NEW w \in Workers, Step(w) PROVE HeedInv'
  BY <1>2, CarryingKeeps, ReturnKeeps, StartKeeps, ReturnRobotsKeeps, StoreKeeps,
     PageKeeps DEF Step, Robotic, Paging, Carrying
<1> QED
  BY <1>1, <1>2 DEF Next

\* A page that its robots.txt forbids, as the file reads line by line, is only
\* ever requested after that file was once asked for in vain: the race of the
\* workers over the map, the cache and the parser let none through
\* (client.go: Get, checkRobots; robots.go: ParseRobots, check).  Of a
\* file in which a token opens two groups the parser reads the first alone.
THEOREM OnlyBlindAsksForbidden ==
  ASSUME NoGroupTwice
  PROVE  Spec => []ForbiddenOnlyBlind
<1>1. TypeOK /\ HeedInv => ForbiddenOnlyBlind
  <2> SUFFICES ASSUME TypeOK, HeedInv, NEW w \in Workers, get[w] # Idle,
                      get[w].target = "page", get[w].page \in Forbidden
               PROVE  Origin(w) \in failed
    BY DEF ForbiddenOnlyBlind
  <2>1. get[w] \in Get /\ Heeds(get[w], failed)
    BY BusyIsGet DEF HeedInv
  <2>2. get[w].page \in Pages /\ get[w].seen \in Reading
    BY <2>1 DEF Get
  <2>3. ~Allowed[get[w].page]
    BY <2>2, AllowedIsNotForbidden
  <2>4. get[w].seen = "nil"
    BY <2>1, <2>2, <2>3 DEF Heeds, Reading
  <2> QED
    BY <2>1, <2>4 DEF Heeds, Origin
<1> QED
  BY <1>1, HeedInit, HeedStep, TypeInvariant, PTL DEF Spec
=============================================================================
