-------------------------- MODULE VodFetch_proofs --------------------------
(***************************************************************************)
(* Proofs about VodFetch, for every number of groups, buffer size, batch   *)
(* and limit: type correctness, that no group is fetched twice, and that   *)
(* neither fetching nor playing passes over a group of the content.        *)
(***************************************************************************)
EXTENDS VodFetch, TLAPS, FiniteSetTheorems, SequenceTheorems, WellFoundedInduction

\* The type of the active fetches' elements.
Fetch == [start : Groups, end : Groups, next : 0 .. Total, isRetry : BOOLEAN]

-----------------------------------------------------------------------------
(* Numbers.                                                                 *)

LEMMA Sizes ==
  /\ Total \in Nat /\ Total > 0 /\ Frames \in Nat /\ Frames > 0
  /\ InitialGops \in Nat /\ InitialGops > 0 /\ MinGops \in Nat /\ MinGops > 0
  /\ Batch \in Nat /\ Batch > 0
  /\ Contents \subseteq 1 .. Total /\ Groups = 0 .. Total - 1
BY VodFetchAssumption DEF Groups

\* Max and Min of two integers.
LEMMA MaxOfTwo ==
  ASSUME NEW a \in Int, NEW b \in Int
  PROVE  Max({a, b}) = IF a <= b THEN b ELSE a
BY DEF Max

LEMMA MinOfTwo ==
  ASSUME NEW a \in Int, NEW b \in Int
  PROVE  Min({a, b}) = IF a <= b THEN a ELSE b
BY DEF Min

\* A set of integers with an upper bound has a largest one, and Max is it.
LEMMA MaxIsLargest ==
  ASSUME NEW S \in SUBSET Int, S # {}, NEW b \in Int, \A x \in S : x <= b
  PROVE  Max(S) \in S /\ \A x \in S : Max(S) >= x
<1> DEFINE D == {n \in Nat : b - n \in S}
<1>1. D # {}
  <2>1. PICK x \in S : TRUE
    OBVIOUS
  <2>2. b - x \in Nat /\ b - (b - x) = x
    BY <2>1
  <2>3. b - x \in D
    BY <2>1, <2>2
  <2>4. QED
    BY <2>3
<1>2. PICK n \in D : \A m \in D : ~ (<<m, n>> \in OpToRel(<, Nat))
  <2>1. D \subseteq Nat
    OBVIOUS
  <2> HIDE DEF D
  <2>2. QED
    BY <1>1, <2>1, NatLessThanWellFounded, WFMin, Zenon
<1>3. \A x \in S : x <= b - n
  <2>0. n \in Nat
    BY <1>2
  <2>1. SUFFICES ASSUME NEW x \in S, x > b - n PROVE FALSE
    BY <2>0
  <2>2. b - x \in D /\ b - x < n /\ b - x \in Nat /\ n \in Nat
    <3>1. x \in Int /\ x <= b
      OBVIOUS
    <3>2. b - x \in Nat /\ b - (b - x) = x /\ b - x < n
      BY <2>0, <2>1, <3>1
    <3>3. QED
      BY <2>0, <3>2
  <2>3. <<b - x, n>> \in OpToRel(<, Nat)
    BY <2>2, Zenon DEF OpToRel
  <2>4. QED
    BY <1>2, <2>2, <2>3
<1>4. b - n \in S
  BY <1>2
<1>5. \E x \in S : \A y \in S : x >= y
  BY <1>3, <1>4
<1>6. QED
  BY <1>5 DEF Max

-----------------------------------------------------------------------------
(* Lists of fetches.                                                        *)

\* A fetch asks for one group at least, and has brought some of the first ones.
Shape(f) == f.start <= f.end /\ f.start <= f.next /\ f.next <= f.end + 1

\* Two fetches have no group in common.
Apart(f, g) == f.end < g.start \/ g.end < f.start

\* What a list of fetches has brought has come, what it has yet to bring has not, and
\* nothing is in it twice.
Sound(fs, rec) ==
  /\ fs \in Seq(Fetch)
  /\ \A i \in 1 .. Len(fs) :
       /\ Shape(fs[i])
       /\ \A g \in Groups : fs[i].start <= g /\ g < fs[i].next => g \in rec
       /\ \A g \in rec : ~ (fs[i].next <= g /\ g <= fs[i].end)
       /\ \A j \in 1 .. Len(fs) : i # j => Apart(fs[i], fs[j])

LEMMA FetchFields ==
  ASSUME NEW f \in Fetch
  PROVE  /\ f.start \in Groups /\ f.end \in Groups /\ f.next \in 0 .. Total
         /\ f.isRetry \in BOOLEAN
         /\ f.start \in Int /\ f.end \in Int /\ f.next \in Int
BY Sizes DEF Fetch

LEMMA Elements ==
  ASSUME NEW fs \in Seq(Fetch)
  PROVE  /\ Len(fs) \in Nat /\ DOMAIN fs = 1 .. Len(fs)
         /\ \A i \in 1 .. Len(fs) : fs[i] \in Fetch
BY LenProperties, ElementOfSeq

\* What is left of a list when a fetch is taken out.
LEMMA WithoutProperties ==
  ASSUME NEW fs \in Seq(Fetch), NEW i \in 1 .. Len(fs)
  PROVE  /\ Without(fs, i) \in Seq(Fetch)
         /\ Len(Without(fs, i)) = Len(fs) - 1
         /\ \A k \in 1 .. Len(fs) - 1 : Without(fs, i)[k] = fs[IF k < i THEN k ELSE k + 1]
<1>1. Len(fs) \in Nat /\ \A k \in 1 .. Len(fs) : fs[k] \in Fetch
  BY Elements
<1>2. /\ SubSeq(fs, 1, i - 1) \in Seq(Fetch)
      /\ Len(SubSeq(fs, 1, i - 1)) = i - 1
      /\ \A k \in 1 .. i - 1 : SubSeq(fs, 1, i - 1)[k] = fs[k]
  <2>1. \A k \in 1 .. i - 1 : fs[k] \in Fetch
    BY <1>1
  <2>2. QED
    BY <1>1, <2>1, SubSeqProperties
<1>3. /\ SubSeq(fs, i + 1, Len(fs)) \in Seq(Fetch)
      /\ Len(SubSeq(fs, i + 1, Len(fs))) = Len(fs) - i
      /\ \A k \in 1 .. Len(fs) - i : SubSeq(fs, i + 1, Len(fs))[k] = fs[i + k]
  <2>1. \A k \in i + 1 .. Len(fs) : fs[k] \in Fetch
    BY <1>1
  <2>2. /\ SubSeq(fs, i + 1, Len(fs)) \in Seq(Fetch)
        /\ Len(SubSeq(fs, i + 1, Len(fs))) = IF i + 1 <= Len(fs) THEN Len(fs) - (i + 1) + 1 ELSE 0
        /\ \A k \in 1 .. Len(fs) - (i + 1) + 1 : SubSeq(fs, i + 1, Len(fs))[k] = fs[i + 1 + k - 1]
    BY <1>1, <2>1, SubSeqProperties
  <2>3. QED
    BY <1>1, <2>2
<1> DEFINE s == SubSeq(fs, 1, i - 1)
           t == SubSeq(fs, i + 1, Len(fs))
<1>4. /\ s \in Seq(Fetch) /\ Len(s) = i - 1 /\ \A k \in 1 .. i - 1 : s[k] = fs[k]
      /\ t \in Seq(Fetch) /\ Len(t) = Len(fs) - i /\ \A k \in 1 .. Len(fs) - i : t[k] = fs[i + k]
  BY <1>2, <1>3
<1>5. Without(fs, i) = s \o t
  BY DEF Without
<1>6. i \in Nat /\ 1 <= i /\ i <= Len(fs)
  BY <1>1
<1> HIDE DEF s, t
<1>7. /\ s \o t \in Seq(Fetch) /\ Len(s \o t) = Len(s) + Len(t)
      /\ \A k \in 1 .. Len(s) + Len(t) : (s \o t)[k] = IF k <= Len(s) THEN s[k] ELSE t[k - Len(s)]
  BY <1>4, ConcatProperties
<1>8. Len(s) + Len(t) = Len(fs) - 1
  BY <1>1, <1>4, <1>6
<1>9. ASSUME NEW k \in 1 .. Len(fs) - 1
      PROVE  (s \o t)[k] = fs[IF k < i THEN k ELSE k + 1]
  <2>0. k \in Int /\ (s \o t)[k] = IF k <= i - 1 THEN s[k] ELSE t[k - (i - 1)]
    BY <1>4, <1>7, <1>8
  <2>1. CASE k < i
    <3>1. k \in 1 .. i - 1 /\ k <= i - 1
      BY <1>6, <2>1
    <3>2. QED
      BY <1>4, <2>0, <2>1, <3>1
  <2>2. CASE k >= i
    <3>1. k - (i - 1) \in 1 .. Len(fs) - i /\ i + (k - (i - 1)) = k + 1 /\ ~ k <= i - 1 /\ ~ k < i
      BY <1>1, <1>6, <2>2
    <3>2. QED
      BY <1>4, <2>0, <3>1
  <2>3. QED
    BY <1>6, <2>0, <2>1, <2>2
<1>10. QED
  BY <1>5, <1>7, <1>8, <1>9

\* Taking a fetch out leaves a list sound.
LEMMA WithoutSound ==
  ASSUME NEW fs, NEW rec, Sound(fs, rec), NEW i \in 1 .. Len(fs)
  PROVE  Sound(Without(fs, i), rec)
<1> DEFINE ws == Without(fs, i)
<1>1. fs \in Seq(Fetch) /\ Len(fs) \in Nat
  BY Elements DEF Sound
<1>2. /\ ws \in Seq(Fetch) /\ Len(ws) = Len(fs) - 1
      /\ \A k \in 1 .. Len(fs) - 1 : ws[k] = fs[IF k < i THEN k ELSE k + 1]
  BY <1>1, WithoutProperties
<1> HIDE DEF ws
<1> DEFINE at(k) == IF k < i THEN k ELSE k + 1
<1>3. \A k \in 1 .. Len(ws) : at(k) \in 1 .. Len(fs) /\ ws[k] = fs[at(k)]
  BY <1>1, <1>2
<1>4. \A k, l \in 1 .. Len(ws) : k # l => at(k) # at(l)
  BY <1>1, <1>2
<1> HIDE DEF at
<1>5. \A k \in 1 .. Len(ws) :
        /\ Shape(ws[k])
        /\ \A g \in Groups : ws[k].start <= g /\ g < ws[k].next => g \in rec
        /\ \A g \in rec : ~ (ws[k].next <= g /\ g <= ws[k].end)
        /\ \A l \in 1 .. Len(ws) : k # l => Apart(ws[k], ws[l])
  BY <1>3, <1>4, Zenon DEF Sound
<1>6. QED
  BY <1>2, <1>5 DEF Sound, ws

\* So does adding one that is apart from the others and asks for what has not come.
LEMMA IssueSound ==
  ASSUME NEW fs, NEW rec, Sound(fs, rec), NEW from \in Groups, NEW to \in Groups, from <= to,
         NEW again \in BOOLEAN,
         \A g \in rec : ~ (from <= g /\ g <= to),
         \A i \in 1 .. Len(fs) : fs[i].end < from \/ to < fs[i].start
  PROVE  /\ Sound(Issue(fs, from, to, again), rec)
         /\ Len(Issue(fs, from, to, again)) = Len(fs) + 1
         /\ \A i \in 1 .. Len(fs) : Issue(fs, from, to, again)[i] = fs[i]
         /\ Issue(fs, from, to, again)[Len(fs) + 1] =
              [start |-> from, end |-> to, next |-> from, isRetry |-> again]
<1> DEFINE f == [start |-> from, end |-> to, next |-> from, isRetry |-> again]
           fs2 == Append(fs, f)
<1>1. f \in Fetch /\ Shape(f)
  BY Sizes DEF Fetch, Shape
<1>2. fs \in Seq(Fetch) /\ Len(fs) \in Nat
  BY Elements DEF Sound
<1>3. fs2 \in Seq(Fetch) /\ Len(fs2) = Len(fs) + 1
  BY <1>1, <1>2, AppendProperties
<1>4. (\A i \in 1 .. Len(fs) : fs2[i] = fs[i]) /\ fs2[Len(fs) + 1] = f
  BY <1>1, <1>2, AppendProperties
<1>5. f.start = from /\ f.end = to /\ f.next = from
  OBVIOUS
<1>6. \A i \in 1 .. Len(fs) : Apart(fs[i], f) /\ Apart(f, fs[i])
  BY <1>5 DEF Apart
<1> HIDE DEF f, fs2
<1>7. ASSUME NEW i \in 1 .. Len(fs2)
      PROVE  /\ Shape(fs2[i])
             /\ \A g \in Groups : fs2[i].start <= g /\ g < fs2[i].next => g \in rec
             /\ \A g \in rec : ~ (fs2[i].next <= g /\ g <= fs2[i].end)
             /\ \A j \in 1 .. Len(fs2) : i # j => Apart(fs2[i], fs2[j])
  <2>1. CASE i = Len(fs) + 1
    <3>1. \A j \in 1 .. Len(fs2) : i # j => j \in 1 .. Len(fs)
      BY <1>2, <1>3, <2>1
    <3>2. \A g \in Groups : fs2[i].start <= g /\ g < fs2[i].next => g \in rec
      BY <1>4, <1>5, <2>1, Sizes
    <3>3. QED
      BY <1>1, <1>4, <1>5, <1>6, <2>1, <3>1, <3>2
  <2>2. CASE i # Len(fs) + 1
    <3>1. i \in 1 .. Len(fs)
      BY <1>2, <1>3, <2>2
    <3>2. ASSUME NEW j \in 1 .. Len(fs2), i # j
          PROVE  Apart(fs2[i], fs2[j])
      <4>1. CASE j = Len(fs) + 1
        BY <1>4, <1>6, <3>1, <4>1
      <4>2. CASE j # Len(fs) + 1
        <5>1. j \in 1 .. Len(fs)
          BY <1>2, <1>3, <4>2
        <5>2. QED
          BY <1>4, <3>1, <3>2, <5>1 DEF Sound
      <4>3. QED
        BY <4>1, <4>2
    <3>3. QED
      BY <1>4, <3>1, <3>2 DEF Sound
  <2>3. QED
    BY <2>1, <2>2
<1>8. QED
  BY <1>3, <1>4, <1>7 DEF Sound, Issue, f, fs2

-----------------------------------------------------------------------------
(* The decision what to fetch next.                                         *)

\* A fetch of the list is to bring group g.
Covers(fs, g) == \E i \in 1 .. Len(fs) : fs[i].start <= g /\ g <= fs[i].end

\* Group g has been counted as fetched, or a fetch reaches it.
Reached(fs, up, g) == g <= up \/ \E i \in 1 .. Len(fs) : g <= fs[i].end

\* What has come counts as fetched, or is part of what a fetch has brought.
Counted(fs, up, rec) ==
  \A g \in rec : g <= up \/ \E i \in 1 .. Len(fs) : fs[i].start <= g /\ g < fs[i].next

\* Each group of the content from b on that was reached has come, is unavailable or on
\* its way, or it follows one that is unavailable.
Asked(fs, up, tot, b, rec, una) ==
  \A g \in Groups : b <= g /\ Reached(fs, up, g) =>
    g >= tot \/ g \in rec \/ g \in una \/ Covers(fs, g) \/ \E u \in una : u < g

\* What every step keeps of the fetches.
Kept(fs, up, tot, b, rec, una) ==
  Sound(fs, rec) /\ Counted(fs, up, rec) /\ Asked(fs, up, tot, b, rec, una)

LEMMA HighestProperties ==
  ASSUME NEW fs \in Seq(Fetch), fetchedUpTo' \in -1 .. Total - 1
  PROVE  /\ Highest(fs) \in -1 .. Total - 1
         /\ fetchedUpTo' <= Highest(fs)
         /\ \A i \in 1 .. Len(fs) : fs[i].end <= Highest(fs)
         /\ Highest(fs) = fetchedUpTo' \/ \E i \in 1 .. Len(fs) : Highest(fs) = fs[i].end
<1> DEFINE S == {fetchedUpTo'} \cup {fs[i].end : i \in DOMAIN fs}
<1>1. DOMAIN fs = 1 .. Len(fs) /\ \A i \in 1 .. Len(fs) : fs[i] \in Fetch
  BY Elements
<1>2. \A i \in 1 .. Len(fs) : fs[i].end \in 0 .. Total - 1
  BY <1>1, FetchFields, Sizes
<1>3. Total - 1 \in Int /\ fetchedUpTo' \in Int /\ fetchedUpTo' <= Total - 1
  BY Sizes
<1>4. S # {} /\ S \subseteq Int /\ \A x \in S : x <= Total - 1
  BY <1>1, <1>2, <1>3
<1>5. fetchedUpTo' \in S /\ \A i \in 1 .. Len(fs) : fs[i].end \in S
  BY <1>1
<1>6. \A x \in S : x \in -1 .. Total - 1
  BY <1>1, <1>2, <1>3
<1>7. \A x \in S : x = fetchedUpTo' \/ \E i \in 1 .. Len(fs) : x = fs[i].end
  BY <1>1
<1>8. Highest(fs) = Max(S)
  BY DEF Highest
<1> HIDE DEF S
<1>9. Max(S) \in S /\ \A x \in S : Max(S) >= x
  BY <1>3, <1>4, MaxIsLargest
<1>10. \A x \in S : x \in Int
  BY <1>4
<1>11. QED
  BY <1>5, <1>6, <1>7, <1>8, <1>9, <1>10

LEMMA BatchSizeType == BatchSize \in Nat /\ BatchSize >= 1
<1>1. Min({2 * Batch, 8}) = IF 2 * Batch <= 8 THEN 2 * Batch ELSE 8
  BY Sizes, MinOfTwo
<1>2. QED
  BY <1>1, Sizes DEF BatchSize

\* The range after group h is within the content, and not empty.
LEMMA NextRange ==
  ASSUME NEW h \in -1 .. Total - 1, NEW tot \in 1 .. Total, h < tot - 1,
         NEW n \in Nat, n >= 1
  PROVE  /\ h \in Int /\ h + 1 \in Groups
         /\ Min({h + n, tot - 1}) \in Groups
         /\ h + 1 <= Min({h + n, tot - 1})
<1>1. h \in Int /\ -1 <= h /\ tot \in Int /\ tot <= Total /\ Total \in Int
  BY Sizes
<1>2. Min({h + n, tot - 1}) = IF h + n <= tot - 1 THEN h + n ELSE tot - 1
  BY <1>1, MinOfTwo
<1>3. QED
  BY <1>1, <1>2, Sizes

\* A new fetch begins where everything under way ends, so it repeats nothing.
LEMMA MaybeIssueKeeps ==
  ASSUME NEW fs, fetchedUpTo' \in -1 .. Total - 1, total' \in 1 .. Total,
         received' \subseteq Groups,
         Kept(fs, fetchedUpTo', total', base', received', unavailable'),
         MaybeIssue(fs)
  PROVE  Kept(fetches', fetchedUpTo', total', base', received', unavailable')
<1> DEFINE up == fetchedUpTo'
           h == Highest(fs)
           to == Min({h + BatchSize, total' - 1})
<1>1. fs \in Seq(Fetch) /\ Sound(fs, received')
  BY DEF Kept, Sound
<1>2. Len(fs) \in Nat /\ \A i \in 1 .. Len(fs) : fs[i] \in Fetch
  BY <1>1, Elements
<1>3. /\ h \in -1 .. Total - 1 /\ up <= h
      /\ \A i \in 1 .. Len(fs) : fs[i].end <= h
      /\ h = up \/ \E i \in 1 .. Len(fs) : h = fs[i].end
  BY <1>1, HighestProperties
<1>4. CASE ~ ShouldFetch(fs)
  BY <1>4 DEF MaybeIssue
<1>5. CASE ShouldFetch(fs)
  <2>1. fetches' = Issue(fs, h + 1, to, FALSE)
    BY <1>5 DEF MaybeIssue
  <2>2. h < total' - 1
    BY <1>5 DEF ShouldFetch
  <2>3. BatchSize \in Nat /\ BatchSize >= 1
    BY BatchSizeType
  <2>4. h \in Int /\ h + 1 \in Groups /\ to \in Groups /\ h + 1 <= to
    BY <1>3, <2>2, <2>3, NextRange
  <2> HIDE DEF h, to
  <2>6. \A g \in received' : ~ (h + 1 <= g /\ g <= to)
    <3>1. SUFFICES ASSUME NEW g \in received' PROVE g <= h
      BY <2>4, Sizes
    <3>2. CASE g <= up
      BY <1>3, <3>2, Sizes
    <3>3. CASE \E i \in 1 .. Len(fs) : fs[i].start <= g /\ g < fs[i].next
      <4>1. PICK i \in 1 .. Len(fs) : g < fs[i].next
        BY <3>3
      <4>2. fs[i].next <= fs[i].end + 1 /\ fs[i].end <= h
        BY <1>1, <1>3 DEF Sound, Shape
      <4>3. g \in Int /\ fs[i].next \in Int /\ fs[i].end \in Int
        BY <1>2, FetchFields, Sizes
      <4>4. QED
        BY <2>4, <4>1, <4>2, <4>3
    <3>4. QED
      BY <3>2, <3>3 DEF Kept, Counted
  <2>7. \A i \in 1 .. Len(fs) : fs[i].end < h + 1
    BY <1>2, <1>3, <2>4, FetchFields
  <2> DEFINE fs2 == Issue(fs, h + 1, to, FALSE)
  <2>8. /\ Sound(fs2, received') /\ Len(fs2) = Len(fs) + 1
        /\ \A i \in 1 .. Len(fs) : fs2[i] = fs[i]
        /\ fs2[Len(fs) + 1] = [start |-> h + 1, end |-> to, next |-> h + 1, isRetry |-> FALSE]
    BY <1>1, <2>4, <2>6, <2>7, IssueSound
  <2> HIDE DEF fs2
  <2>9. \A i \in 1 .. Len(fs) : i \in 1 .. Len(fs2) /\ fs2[i] = fs[i]
    BY <1>2, <2>8
  <2>10. Len(fs) + 1 \in 1 .. Len(fs2)
    BY <1>2, <2>8
  <2>11. Counted(fs2, up, received')
    BY <2>9, Zenon DEF Kept, Counted
  <2>12. ASSUME NEW g \in Groups, base' <= g, Reached(fs2, up, g)
         PROVE  \/ g >= total' \/ g \in received' \/ g \in unavailable' \/ Covers(fs2, g)
                \/ \E u \in unavailable' : u < g
    <3>1. CASE Reached(fs, up, g)
      <4>1. Covers(fs, g) => Covers(fs2, g)
        BY <2>9 DEF Covers
      <4>2. QED
        BY <2>12, <3>1, <4>1 DEF Kept, Asked
    <3>2. CASE ~ Reached(fs, up, g)
      <4>1. g \in Int /\ g <= to
        <5>1. PICK i \in 1 .. Len(fs2) : g <= fs2[i].end
          BY <2>12, <3>2 DEF Reached
        <5>2. i \notin 1 .. Len(fs)
          BY <2>9, <3>2, <5>1 DEF Reached
        <5>3. i = Len(fs) + 1
          BY <1>2, <2>8, <5>2
        <5>4. QED
          BY <2>8, <5>1, <5>3, Sizes
      <4>2. ~ g <= h
        BY <1>3, <3>2 DEF Reached
      <4>3. h + 1 <= g
        BY <2>4, <4>1, <4>2
      <4>4. Covers(fs2, g)
        BY <2>8, <2>10, <4>1, <4>3 DEF Covers
      <4>5. QED
        BY <4>4
    <3>3. QED
      BY <3>1, <3>2
  <2>13. QED
    BY <2>1, <2>8, <2>11, <2>12 DEF Kept, Asked, fs2
<1>6. QED
  BY <1>4, <1>5

-----------------------------------------------------------------------------
(* The ends of a fetch, as changes of the list.                             *)

\* Without fetch i, the others are left.
LEMMA WithoutElements ==
  ASSUME NEW fs \in Seq(Fetch), NEW i \in 1 .. Len(fs)
  PROVE  /\ \A k \in 1 .. Len(Without(fs, i)) :
              \E j \in 1 .. Len(fs) : j # i /\ Without(fs, i)[k] = fs[j]
         /\ \A j \in 1 .. Len(fs) : j # i =>
              \E k \in 1 .. Len(Without(fs, i)) : Without(fs, i)[k] = fs[j]
<1> DEFINE ws == Without(fs, i)
<1>1. Len(fs) \in Nat /\ i \in Int /\ 1 <= i /\ i <= Len(fs)
  BY Elements
<1>2. /\ Len(ws) = Len(fs) - 1
      /\ \A k \in 1 .. Len(fs) - 1 : ws[k] = fs[IF k < i THEN k ELSE k + 1]
  BY WithoutProperties
<1> HIDE DEF ws
<1>3. ASSUME NEW k \in 1 .. Len(ws)
      PROVE  \E j \in 1 .. Len(fs) : j # i /\ ws[k] = fs[j]
  <2>1. (IF k < i THEN k ELSE k + 1) \in 1 .. Len(fs) \ {i}
    BY <1>1, <1>2
  <2>2. QED
    BY <1>2, <2>1
<1>4. ASSUME NEW j \in 1 .. Len(fs), j # i
      PROVE  \E k \in 1 .. Len(ws) : ws[k] = fs[j]
  <2>1. CASE j < i
    <3>1. j \in 1 .. Len(fs) - 1
      BY <1>1, <2>1
    <3>2. QED
      BY <1>2, <2>1, <3>1
  <2>2. CASE j > i
    <3>1. j - 1 \in 1 .. Len(fs) - 1 /\ ~ j - 1 < i /\ (j - 1) + 1 = j
      BY <1>1, <2>2
    <3>2. QED
      BY <1>2, <3>1
  <2>3. QED
    BY <1>1, <1>4, <2>1, <2>2
<1>5. QED
  BY <1>3, <1>4 DEF ws

\* An issued fetch is added to the others.
LEMMA IssueElements ==
  ASSUME NEW fs \in Seq(Fetch), NEW from \in Groups, NEW to \in Groups, NEW again \in BOOLEAN
  PROVE  /\ Len(Issue(fs, from, to, again)) = Len(fs) + 1
         /\ \A i \in 1 .. Len(fs) : Issue(fs, from, to, again)[i] = fs[i]
         /\ Issue(fs, from, to, again)[Len(fs) + 1].start = from
         /\ Issue(fs, from, to, again)[Len(fs) + 1].end = to
<1> DEFINE f == [start |-> from, end |-> to, next |-> from, isRetry |-> again]
<1>1. f \in Fetch
  BY Sizes DEF Fetch
<1>2. f.start = from /\ f.end = to
  OBVIOUS
<1> HIDE DEF f
<1>3. QED
  BY <1>1, <1>2, AppendProperties, Elements DEF Issue, f

\* What the end of fetch i may leave: the others, and perhaps a fetch for some of what it
\* had yet to bring.
Left(fs, i, ws) ==
  /\ \A k \in 1 .. Len(ws) :
       ws[k].end <= fs[i].end \/ \E j \in 1 .. Len(fs) : ws[k] = fs[j]
  /\ \A j \in 1 .. Len(fs) : j # i => \E k \in 1 .. Len(ws) : ws[k] = fs[j]

LEMMA WithoutLeft ==
  ASSUME NEW fs \in Seq(Fetch), NEW i \in 1 .. Len(fs)
  PROVE  Left(fs, i, Without(fs, i))
BY WithoutElements DEF Left

LEMMA IssueLeft ==
  ASSUME NEW fs \in Seq(Fetch), NEW i \in 1 .. Len(fs),
         NEW from \in Groups, NEW to \in Groups, to <= fs[i].end,
         NEW again \in BOOLEAN
  PROVE  /\ Left(fs, i, Issue(Without(fs, i), from, to, again))
         /\ \A g : from <= g /\ g <= to => Covers(Issue(Without(fs, i), from, to, again), g)
<1> DEFINE ws == Without(fs, i)
           is == Issue(ws, from, to, again)
<1>1. ws \in Seq(Fetch)
  BY WithoutProperties
<1>2. Len(ws) \in Nat
  BY <1>1, Elements
<1>3. /\ Len(is) = Len(ws) + 1
      /\ \A k \in 1 .. Len(ws) : is[k] = ws[k]
      /\ is[Len(ws) + 1].start = from /\ is[Len(ws) + 1].end = to
  <2> HIDE DEF ws
  <2>1. QED
    BY <1>1, IssueElements
<1>4. /\ \A k \in 1 .. Len(ws) : \E j \in 1 .. Len(fs) : j # i /\ ws[k] = fs[j]
      /\ \A j \in 1 .. Len(fs) : j # i => \E k \in 1 .. Len(ws) : ws[k] = fs[j]
  BY WithoutElements
<1> HIDE DEF ws, is
<1>5. \A k \in 1 .. Len(is) : k \in 1 .. Len(ws) \/ k = Len(ws) + 1
  BY <1>2, <1>3
<1>6. (\A k \in 1 .. Len(ws) : k \in 1 .. Len(is)) /\ Len(ws) + 1 \in 1 .. Len(is)
  BY <1>2, <1>3
<1>7. \A k \in 1 .. Len(is) : is[k].end <= fs[i].end \/ \E j \in 1 .. Len(fs) : is[k] = fs[j]
  <2>1. SUFFICES ASSUME NEW k \in 1 .. Len(is)
                 PROVE  is[k].end <= fs[i].end \/ \E j \in 1 .. Len(fs) : is[k] = fs[j]
    OBVIOUS
  <2>2. CASE k \in 1 .. Len(ws)
    <3>1. is[k] = ws[k]
      BY <1>3, <2>2
    <3>2. \E j \in 1 .. Len(fs) : ws[k] = fs[j]
      BY <1>4, <2>2
    <3>3. QED
      BY <3>1, <3>2
  <2>3. CASE k = Len(ws) + 1
    BY <1>3, <2>3
  <2>4. QED
    BY <1>5, <2>2, <2>3
<1>8. \A j \in 1 .. Len(fs) : j # i => \E k \in 1 .. Len(is) : is[k] = fs[j]
  BY <1>3, <1>4, <1>6, Zenon
<1>9. \A g : from <= g /\ g <= to => Covers(is, g)
  BY <1>3, <1>6 DEF Covers
<1>10. QED
  BY <1>7, <1>8, <1>9 DEF Left, ws, is

\* Such an end keeps what came counted, and what was asked for asked for, if what fetch i
\* had brought is counted, and the rest of it is past the end, unavailable or asked for
\* again, or something before it is unavailable.
LEMMA EndKeeps ==
  ASSUME NEW fs, NEW up \in -1 .. Total - 1, NEW tot \in 1 .. Total, NEW b,
         NEW rec \in SUBSET Groups, NEW una \in SUBSET Groups,
         Kept(fs, up, tot, b, rec, una), NEW i \in 1 .. Len(fs),
         NEW ws, Sound(ws, rec), Left(fs, i, ws),
         NEW up2 \in -1 .. Total - 1, up <= up2,
         fs[i].start < fs[i].next => fs[i].next - 1 <= up2,
         NEW una2, una \subseteq una2,
         \A g \in Groups : fs[i].next <= g /\ g <= fs[i].end =>
           g >= tot \/ g \in una2 \/ Covers(ws, g),
         \A g \in Groups : g <= up2 => \/ g <= up \/ g <= fs[i].end
                                       \/ \E u \in una2 : u < g
  PROVE  Kept(ws, up2, tot, b, rec, una2)
<1>1. fs \in Seq(Fetch) /\ Sound(fs, rec)
  BY DEF Kept, Sound
<1>2. \A j \in 1 .. Len(fs) :
        fs[j].start \in Int /\ fs[j].end \in Int /\ fs[j].next \in Int
  BY <1>1, Elements, FetchFields
<1>3. \A g \in Groups : g \in Int
  BY Sizes
<1>4. \A k \in 1 .. Len(ws) : ws[k].end \in Int
  BY Elements, FetchFields DEF Sound
<1>5. Counted(ws, up2, rec)
  <2>1. SUFFICES ASSUME NEW g \in rec
                 PROVE  g <= up2 \/ \E k \in 1 .. Len(ws) : ws[k].start <= g /\ g < ws[k].next
    BY DEF Counted
  <2>2. CASE g <= up
    BY <1>3, <2>2
  <2>3. CASE \E j \in 1 .. Len(fs) : fs[j].start <= g /\ g < fs[j].next
    <3>1. PICK j \in 1 .. Len(fs) : fs[j].start <= g /\ g < fs[j].next
      BY <2>3
    <3>2. CASE j = i
      BY <1>2, <1>3, <3>1, <3>2
    <3>3. CASE j # i
      BY <3>1, <3>3 DEF Left
    <3>4. QED
      BY <3>2, <3>3
  <2>4. QED
    BY <2>2, <2>3 DEF Kept, Counted
<1>6. ASSUME NEW g \in Groups, b <= g, Reached(ws, up2, g)
      PROVE  g >= tot \/ g \in rec \/ g \in una2 \/ Covers(ws, g) \/ \E u \in una2 : u < g
  <2>1. CASE Reached(fs, up, g)
    <3>1. CASE Covers(fs, g)
      <4>1. PICK j \in 1 .. Len(fs) : fs[j].start <= g /\ g <= fs[j].end
        BY <3>1 DEF Covers
      <4>2. CASE j # i
        BY <4>1, <4>2 DEF Left, Covers
      <4>3. CASE j = i /\ g < fs[i].next
        BY <1>1, <4>1, <4>3 DEF Sound
      <4>4. CASE j = i /\ fs[i].next <= g
        BY <4>1, <4>4
      <4>5. QED
        BY <1>2, <1>3, <4>2, <4>3, <4>4
    <3>2. CASE ~ Covers(fs, g)
      BY <1>6, <2>1, <3>2 DEF Kept, Asked
    <3>3. QED
      BY <3>1, <3>2
  <2>2. CASE ~ Reached(fs, up, g)
    <3>1. ~ g <= up /\ \A j \in 1 .. Len(fs) : ~ g <= fs[j].end
      BY <2>2 DEF Reached
    <3>2. CASE g <= up2
      BY <3>1, <3>2
    <3>3. CASE \E k \in 1 .. Len(ws) : g <= ws[k].end
      <4>1. PICK k \in 1 .. Len(ws) : g <= ws[k].end
        BY <3>3
      <4>2. ~ \E j \in 1 .. Len(fs) : ws[k] = fs[j]
        BY <3>1, <4>1
      <4>3. ws[k].end <= fs[i].end
        BY <4>2 DEF Left
      <4>4. QED
        BY <1>2, <1>3, <1>4, <3>1, <4>1, <4>3
    <3>4. QED
      BY <1>6, <3>2, <3>3 DEF Reached
  <2>3. QED
    BY <2>1, <2>2
<1>7. QED
  BY <1>5, <1>6 DEF Kept, Asked

-----------------------------------------------------------------------------
(* The inductive invariant.                                                 *)

\* TypeOK but for the fetches, whose type is part of Sound.
Typed ==
  /\ state \in {"idle", "initial-buffering", "playing", "rebuffering", "completed"}
  /\ playbackGroup \in 0 .. Total /\ head \in 0 .. Total /\ base \in 0 .. Total
  /\ fetchedUpTo \in -1 .. Total - 1
  /\ total \in 1 .. Total /\ content \in Contents
  /\ buffered \in 0 .. Total * Frames
  /\ retries \in [Groups -> 0 .. MaxRetries]
  /\ slow \in BOOLEAN
  /\ losses \in 0 .. MaxLosses /\ seeks \in 0 .. MaxSeeks
  /\ frame \in 0 .. Frames - 1
  /\ received \in SUBSET Groups /\ unavailable \in SUBSET Groups

\* Before start() nothing has happened.
Fresh ==
  state = "idle" => /\ fetches = <<>> /\ received = {} /\ unavailable = {}
                    /\ base = 0 /\ playbackGroup = 0 /\ head = 0

\* No more frames are buffered than have come.
Room == buffered <= Frames * Cardinality(received)

\* What the player has passed has come or is unavailable, and at the end that is all.
Played ==
  /\ playbackGroup <= head
  /\ \A g \in Groups : base <= g /\ g < head => g \in received \/ g \in unavailable
  /\ state = "completed" =>
       \A g \in Groups : base <= g /\ g < total => g \in received \/ g \in unavailable

\* The fetches and the counters.
KeptNow == Kept(fetches, fetchedUpTo, total, base, received, unavailable)

IInv == Typed /\ KeptNow /\ Fresh /\ Room /\ Played

LEMMA FetchesTyped ==
  ASSUME IInv
  PROVE  /\ fetches \in Seq(Fetch) /\ DOMAIN fetches = 1 .. Len(fetches)
         /\ Len(fetches) \in Nat
         /\ \A i \in DOMAIN fetches : /\ fetches[i] \in Fetch /\ Shape(fetches[i])
                                      /\ fetches[i].start \in Groups /\ fetches[i].start \in Int
                                      /\ fetches[i].end \in Groups /\ fetches[i].end \in Int
                                      /\ fetches[i].next \in Int
BY Elements, FetchFields DEF IInv, KeptNow, Kept, Sound

LEMMA TypedNumbers ==
  ASSUME Typed
  PROVE  /\ playbackGroup \in Int /\ head \in Int /\ base \in Int /\ fetchedUpTo \in Int
         /\ total \in Int /\ total <= Total /\ content \in Int /\ 0 <= base
BY Sizes DEF Typed

\* Before start() there are no fetches.
LEMMA FetchesStarted ==
  ASSUME IInv, NEW i \in DOMAIN fetches
  PROVE  state # "idle"
<1>1. SUFFICES ASSUME state = "idle" PROVE FALSE
  OBVIOUS
<1>2. fetches = <<>> /\ DOMAIN fetches = 1 .. Len(fetches)
  BY <1>1, FetchesTyped DEF IInv, Fresh
<1>3. DOMAIN fetches = {}
  BY <1>2
<1>4. QED
  BY <1>3

LEMMA InvImpliesTypes ==
  ASSUME IInv
  PROVE  TypeOK
<1>1. \A i \in DOMAIN fetches :
        fetches[i] \in [start : Groups, end : Groups, next : 0 .. Total, isRetry : BOOLEAN]
  BY FetchesTyped DEF Fetch
<1>2. QED
  BY <1>1 DEF IInv, Typed, TypeOK

\* A first fetch makes a sound list.
LEMMA FirstFetch ==
  ASSUME NEW from \in Groups, NEW to \in Groups, from <= to, NEW again \in BOOLEAN,
         NEW fs, fs = Issue(<<>>, from, to, again)
  PROVE  Sound(fs, {}) /\ Len(fs) = 1 /\ fs[1].start = from /\ fs[1].end = to
<1> DEFINE nil == <<>>
           f == [start |-> from, end |-> to, next |-> from, isRetry |-> again]
<1>1. nil \in Seq(Fetch) /\ Len(nil) = 0 /\ fs = Issue(nil, from, to, again)
  BY EmptySeq
<1>2. f.start = from /\ f.end = to
  OBVIOUS
<1> HIDE DEF nil
<1>3. Sound(nil, {})
  BY <1>1 DEF Sound
<1>4. Sound(fs, {}) /\ Len(fs) = Len(nil) + 1 /\ fs[Len(nil) + 1] = f
  <2>1. /\ \A g \in {} : ~ (from <= g /\ g <= to)
        /\ \A i \in 1 .. Len(nil) : nil[i].end < from \/ to < nil[i].start
    BY <1>1
  <2>2. /\ Sound(Issue(nil, from, to, again), {})
        /\ Len(Issue(nil, from, to, again)) = Len(nil) + 1
        /\ Issue(nil, from, to, again)[Len(nil) + 1] = f
    BY <1>3, <2>1, IssueSound
  <2>3. QED
    BY <1>1, <2>2
<1> HIDE DEF f
<1>5. QED
  BY <1>1, <1>2, <1>4

\* start() and seek() begin with a list that keeps all of it.
LEMMA FetchFromKeeps ==
  ASSUME total \in 1 .. Total, NEW g \in Groups, g < total, FetchFrom(g)
  PROVE  Kept(fetches', g - 1, total, g, {}, {})
<1> DEFINE to == Min({g + InitialGops, total}) - 1
<1>1. total \in Int /\ total <= Total /\ g \in Int /\ 0 <= g
  BY Sizes
<1>2. Min({g + InitialGops, total}) = IF g + InitialGops <= total THEN g + InitialGops ELSE total
  BY <1>1, Sizes, MinOfTwo
<1>3. to \in Groups /\ g <= to /\ to \in Int
  BY <1>1, <1>2, Sizes
<1>4. fetches' = Issue(<<>>, g, to, FALSE)
  BY DEF FetchFrom
<1> HIDE DEF to
<1>5. /\ Sound(fetches', {}) /\ Len(fetches') = 1
      /\ fetches'[1].start = g /\ fetches'[1].end = to
  <2>1. PICK again \in BOOLEAN : fetches' = Issue(<<>>, g, to, again)
    BY <1>4
  <2>2. QED
    BY <1>3, <2>1, FirstFetch
<1>6. Counted(fetches', g - 1, {})
  BY DEF Counted
<1>7. Asked(fetches', g - 1, total, g, {}, {})
  <2>1. SUFFICES ASSUME NEW h \in Groups, g <= h, Reached(fetches', g - 1, h)
                 PROVE  Covers(fetches', h)
    BY DEF Asked
  <2>2. h \in Int /\ ~ h <= g - 1
    BY <1>1, <2>1, Sizes
  <2>3. 1 \in 1 .. Len(fetches') /\ \A i \in 1 .. Len(fetches') : i = 1
    BY <1>5
  <2>4. h <= to
    BY <1>5, <2>1, <2>2, <2>3 DEF Reached
  <2>5. QED
    BY <1>5, <2>1, <2>3, <2>4 DEF Covers
<1>8. QED
  BY <1>5, <1>6, <1>7 DEF Kept

-----------------------------------------------------------------------------
(* The steps.                                                               *)

LEMMA InitInv == Init => IInv
<1> SUFFICES ASSUME Init PROVE IInv
  OBVIOUS
<1> USE DEF Init
<1>1. Typed
  <2>1. retries \in [Groups -> 0 .. MaxRetries]
    BY DEF NoRetries, MaxRetries
  <2>2. 0 \in 0 .. Total * Frames /\ 0 \in 0 .. MaxLosses /\ 0 \in 0 .. MaxSeeks
    <3>1. Total * Frames \in Nat
      BY Sizes
    <3>2. QED
      BY <3>1, VodFetchAssumption
  <2>3. total \in 1 .. Total /\ 0 \in 0 .. Total /\ -1 \in -1 .. Total - 1 /\ 0 \in 0 .. Frames - 1
    BY Sizes
  <2>4. slow \in BOOLEAN
    BY Zenon
  <2>5. QED
    BY <2>1, <2>2, <2>3, <2>4, Zenon DEF Typed
<1>2. KeptNow
  <2>1. <<>> \in Seq(Fetch) /\ Len(<<>>) = 0
    BY EmptySeq
  <2>2. Sound(<<>>, {}) /\ Counted(<<>>, -1, {})
    BY <2>1 DEF Sound, Counted
  <2>3. Asked(<<>>, -1, total, 0, {}, {})
    <3>1. \A g \in Groups : ~ g <= -1
      BY Sizes
    <3>2. QED
      BY <2>1, <3>1 DEF Asked, Reached
  <2>4. QED
    BY <2>2, <2>3 DEF KeptNow, Kept
<1>3. Fresh
  BY DEF Fresh
<1>4. Room
  BY FS_EmptySet, Sizes DEF Room
<1>5. Played
  BY Sizes DEF Played
<1>6. QED
  BY <1>1, <1>2, <1>3, <1>4, <1>5 DEF IInv

LEMMA StartStep ==
  ASSUME IInv, Start
  PROVE  IInv'
<1> USE DEF Start, player, history
<1>1. received = {} /\ unavailable = {} /\ base = 0 /\ head = 0
  BY DEF IInv, Fresh
<1>2. Typed'
  BY Sizes DEF IInv, Typed
<1>3. KeptNow'
  <2>1. 0 \in Groups /\ 0 < total /\ total \in 1 .. Total
    BY Sizes DEF IInv, Typed
  <2>2. Kept(fetches', 0 - 1, total, 0, {}, {})
    BY <2>1, FetchFromKeeps
  <2>3. 0 - 1 = -1
    OBVIOUS
  <2>4. QED
    BY <1>1, <2>2, <2>3 DEF KeptNow
<1>4. Fresh' /\ Room' /\ Played'
  BY <1>1, Sizes DEF IInv, Fresh, Room, Played
<1>5. QED
  BY <1>2, <1>3, <1>4 DEF IInv

LEMMA SeekStep ==
  ASSUME IInv, NEW g \in Groups, Seek(g)
  PROVE  IInv'
<1> USE DEF Seek
<1>1. Typed'
  <2>1. retries' \in [Groups -> 0 .. MaxRetries]
    BY DEF NoRetries, MaxRetries
  <2>2. 0 \in 0 .. Total * Frames
    <3>1. Total * Frames \in Nat
      BY Sizes
    <3>2. QED
      BY <3>1
  <2>3. g \in 0 .. Total /\ g - 1 \in -1 .. Total - 1
    BY Sizes
  <2>4. seeks' \in 0 .. MaxSeeks
    BY VodFetchAssumption DEF IInv, Typed
  <2>5. QED
    BY <2>1, <2>2, <2>3, <2>4, Sizes DEF IInv, Typed
<1>2. KeptNow'
  BY FetchFromKeeps DEF KeptNow, IInv, Typed
<1>3. Fresh' /\ Played'
  BY Sizes DEF Fresh, Played
<1>4. Room'
  BY FS_EmptySet, Sizes DEF Room
<1>5. QED
  BY <1>1, <1>2, <1>3, <1>4 DEF IInv

\* Multiples of the frames of a group.
LEMMA Multiples ==
  ASSUME NEW n \in Nat
  PROVE  /\ Frames * n \in Nat /\ Frames * (n + 1) = Frames * n + Frames
         /\ n <= Total => Frames * n <= Total * Frames
<1>1. Frames \in Nat /\ Total \in Nat
  BY Sizes
<1>2. Frames * n \in Nat /\ Frames * (n + 1) = Frames * n + Frames
  BY <1>1
<1>3. ASSUME n <= Total PROVE Frames * n <= Total * Frames
  <2>1. PICK m \in Nat : Total = n + m
    <3>1. Total - n \in Nat /\ Total = n + (Total - n)
      BY <1>1, <1>3
    <3>2. QED
      BY <3>1
  <2>2. Total * Frames = Frames * n + Frames * m
    BY <1>1, <2>1
  <2>3. Frames * m \in Nat
    BY <1>1
  <2>4. QED
    BY <1>2, <2>2, <2>3
<1>4. QED
  BY <1>2, <1>3

\* A group that comes for the first time makes room for its frames.
LEMMA RoomForGroup ==
  ASSUME NEW rec \in SUBSET Groups, NEW g \in Groups, g \notin rec,
         NEW n \in Nat, n <= Frames * Cardinality(rec)
  PROVE  /\ n + Frames <= Frames * Cardinality(rec \cup {g})
         /\ n + Frames \in 0 .. Total * Frames
<1>1. IsFiniteSet(Groups) /\ Cardinality(Groups) = Total
  <2>1. 0 \in Int /\ Total - 1 \in Int /\ ~ 0 > Total - 1 /\ Total - 1 - 0 + 1 = Total
    BY Sizes
  <2>2. IsFiniteSet(0 .. Total - 1) /\ Cardinality(0 .. Total - 1) = Total
    BY <2>1, FS_Interval
  <2>3. QED
    BY <2>2, Sizes
<1>2. IsFiniteSet(rec) /\ Cardinality(rec) \in Nat
  BY <1>1, FS_Subset, FS_CardinalityType
<1>3. rec \cup {g} \in SUBSET Groups
  OBVIOUS
<1>4. Cardinality(rec \cup {g}) = Cardinality(rec) + 1 /\ Cardinality(rec \cup {g}) <= Total
  <2>1. Cardinality(rec \cup {g}) <= Total
    BY <1>1, <1>3, FS_Subset
  <2>2. QED
    BY <1>2, <2>1, FS_AddElement
<1>5. /\ Frames * (Cardinality(rec) + 1) = Frames * Cardinality(rec) + Frames
      /\ Frames * Cardinality(rec) \in Nat
      /\ Frames * (Cardinality(rec) + 1) <= Total * Frames
  <2>1. Cardinality(rec) + 1 \in Nat /\ Cardinality(rec) + 1 <= Total
    BY <1>2, <1>4
  <2>2. QED
    BY <1>2, <2>1, Multiples
<1>6. QED
  <2> DEFINE c == Frames * Cardinality(rec)
             t == Total * Frames
  <2>1. t \in Nat /\ Frames \in Nat
    BY Sizes
  <2>2. Frames * Cardinality(rec \cup {g}) = c + Frames /\ c \in Nat /\ c + Frames <= t /\ n <= c
    BY <1>4, <1>5
  <2> HIDE DEF c, t
  <2>3. n + Frames <= c + Frames /\ n + Frames \in 0 .. t
    BY <2>1, <2>2
  <2>4. QED
    BY <2>2, <2>3 DEF t

LEMMA ReceivedCount ==
  ASSUME NEW rec \in SUBSET Groups
  PROVE  Frames * Cardinality(rec) \in Nat
<1>1. IsFiniteSet(0 .. Total - 1)
  <2>1. 0 \in Int /\ Total - 1 \in Int
    BY Sizes
  <2>2. QED
    BY <2>1, FS_Interval
<1>2. Cardinality(rec) \in Nat
  BY <1>1, Sizes, FS_Subset, FS_CardinalityType
<1>3. QED
  BY <1>2, Multiples

\* The next group of fetch i comes.
LEMMA GroupKeeps ==
  ASSUME NEW fs, NEW up \in -1 .. Total - 1, NEW tot \in 1 .. Total, NEW b,
         NEW rec \in SUBSET Groups, NEW una \in SUBSET Groups,
         Kept(fs, up, tot, b, rec, una), NEW i \in 1 .. Len(fs), fs[i].next <= fs[i].end,
         NEW gs, gs = [fs EXCEPT ![i].next = @ + 1]
  PROVE  /\ fs[i].next \in Groups /\ fs[i].next \notin rec
         /\ Kept(gs, up, tot, b, rec \cup {fs[i].next}, una)
<1> DEFINE n == fs[i].next
           r == rec \cup {n}
<1>1. fs \in Seq(Fetch) /\ Sound(fs, rec)
  BY DEF Kept, Sound
<1>2. /\ Len(fs) \in Nat
      /\ \A j \in 1 .. Len(fs) : /\ fs[j] \in Fetch
                                /\ fs[j].start \in Groups /\ fs[j].start \in Int
                                /\ fs[j].end \in Groups /\ fs[j].end \in Int
                                /\ fs[j].next \in Int
  BY <1>1, Elements, FetchFields
<1>3. /\ Shape(fs[i])
      /\ \A j \in 1 .. Len(fs) : i # j => Apart(fs[i], fs[j])
      /\ \A g \in rec : ~ (n <= g /\ g <= fs[i].end)
  BY <1>1 DEF Sound
<1>4. n \in Groups /\ n \in Int /\ n \notin rec
  BY <1>2, <1>3, Sizes DEF Shape
<1> DEFINE f == [fs[i] EXCEPT !.next = @ + 1]
<1>5. /\ f \in Fetch /\ f.start = fs[i].start /\ f.end = fs[i].end /\ f.next = n + 1
  <2>1. n + 1 \in 0 .. Total
    BY <1>4, Sizes
  <2>2. fs[i] \in Fetch
    BY <1>2
  <2>3. QED
    BY <2>1, <2>2 DEF Fetch
<1>6. gs = [fs EXCEPT ![i] = f]
  BY <1>1
<1> HIDE DEF f, n
<1>7. gs \in Seq(Fetch) /\ Len(gs) = Len(fs) /\ gs[i] = f
      /\ \A j \in 1 .. Len(fs) : j # i => gs[j] = fs[j]
  BY <1>1, <1>5, <1>6, ExceptSeq
<1>8. \A j \in 1 .. Len(fs) : gs[j].start = fs[j].start /\ gs[j].end = fs[j].end
  BY <1>5, <1>7
<1>9. \A j, k \in 1 .. Len(fs) : j # k => Apart(gs[j], gs[k])
  BY <1>1, <1>8 DEF Sound, Apart
<1>10. ASSUME NEW j \in 1 .. Len(fs)
       PROVE  /\ Shape(gs[j])
              /\ \A g \in Groups : gs[j].start <= g /\ g < gs[j].next => g \in r
              /\ \A g \in r : ~ (gs[j].next <= g /\ g <= gs[j].end)
  <2>1. CASE j = i
    <3>1. Shape(f)
      BY <1>2, <1>3, <1>4, <1>5 DEF Shape, n
    <3>2. \A g \in Groups : f.start <= g /\ g < f.next => g \in r
      <4>1. SUFFICES ASSUME NEW g \in Groups, fs[i].start <= g, g < n + 1 PROVE g \in r
        BY <1>5
      <4>2. g < n \/ g = n
        BY <1>4, <4>1, Sizes
      <4>3. g < n => g \in rec
        BY <1>1, <4>1 DEF Sound, n
      <4>4. QED
        BY <4>2, <4>3
    <3>3. \A g \in r : ~ (f.next <= g /\ g <= f.end)
      <4>1. SUFFICES ASSUME NEW g \in r, n + 1 <= g, g <= fs[i].end PROVE FALSE
        BY <1>5
      <4>2. g \in rec /\ g \in Int
        BY <1>4, <4>1, Sizes
      <4>3. n <= g
        BY <1>4, <4>1, <4>2
      <4>4. QED
        BY <1>3, <4>1, <4>2, <4>3
    <3>4. QED
      BY <1>7, <2>1, <3>1, <3>2, <3>3
  <2>2. CASE j # i
    <3>1. gs[j] = fs[j] /\ Apart(fs[i], fs[j])
      BY <1>3, <1>7, <2>2
    <3>2. ~ (fs[j].next <= n /\ n <= fs[j].end)
      <4>1. fs[i].start <= n /\ n <= fs[i].end /\ fs[j].start <= fs[j].next
        BY <1>1, <1>3 DEF Sound, Shape, n
      <4>2. QED
        BY <1>2, <1>4, <3>1, <4>1 DEF Apart
    <3>3. QED
      BY <1>1, <3>1, <3>2 DEF Sound
  <2>3. QED
    BY <2>1, <2>2
<1>11. Sound(gs, r)
  BY <1>7, <1>9, <1>10 DEF Sound
<1>12. Counted(gs, up, r)
  <2>1. SUFFICES ASSUME NEW g \in r
                 PROVE  g <= up \/ \E j \in 1 .. Len(gs) : gs[j].start <= g /\ g < gs[j].next
    BY DEF Counted
  <2>2. CASE g = n
    <3>1. gs[i].start <= n /\ n < gs[i].next
      BY <1>2, <1>3, <1>4, <1>5, <1>7 DEF Shape, n
    <3>2. QED
      BY <1>7, <2>2, <3>1
  <2>3. CASE g \in rec /\ \E j \in 1 .. Len(fs) : fs[j].start <= g /\ g < fs[j].next
    <3>1. PICK j \in 1 .. Len(fs) : fs[j].start <= g /\ g < fs[j].next
      BY <2>3
    <3>2. CASE j = i
      <4>1. g < n + 1
        BY <1>4, <2>3, <3>1, <3>2, Sizes DEF n
      <4>2. QED
        BY <1>5, <1>7, <3>1, <3>2, <4>1
    <3>3. CASE j # i
      BY <1>7, <3>1, <3>3
    <3>4. QED
      BY <3>2, <3>3
  <2>4. QED
    BY <2>2, <2>3 DEF Kept, Counted
<1>13. Asked(gs, up, tot, b, r, una)
  <2>1. SUFFICES ASSUME NEW g \in Groups, b <= g, Reached(gs, up, g)
                 PROVE  \/ g >= tot \/ g \in r \/ g \in una \/ Covers(gs, g)
                        \/ \E u \in una : u < g
    BY DEF Asked
  <2>2. Reached(fs, up, g)
    BY <1>7, <1>8, <2>1 DEF Reached
  <2>3. Covers(fs, g) => Covers(gs, g)
    BY <1>7, <1>8 DEF Covers
  <2>4. QED
    BY <2>1, <2>2, <2>3 DEF Kept, Asked
<1>14. QED
  BY <1>4, <1>11, <1>12, <1>13 DEF Kept, n

LEMMA GroupStep ==
  ASSUME IInv, NEW i \in DOMAIN fetches, GroupReceived(i)
  PROVE  IInv'
<1> DEFINE n == fetches[i].next
           gs == [fetches EXCEPT ![i].next = @ + 1]
<1>1. /\ received' = received \cup {n} /\ buffered' = buffered + Frames
      /\ state' \in {state, "playing"}
      /\ MaybeIssue(gs)
      /\ UNCHANGED <<playbackGroup, fetchedUpTo, total, retries, slow, content, losses, seeks,
                     head, frame, base, unavailable>>
  BY DEF GroupReceived, player
<1>2. n \in RangeOf(fetches[i])
  BY DEF GroupReceived
<1>3. i \in 1 .. Len(fetches) /\ fetches[i].next <= fetches[i].end
  BY <1>2, FetchesTyped DEF RangeOf
<1>4. Typed /\ Kept(fetches, fetchedUpTo, total, base, received, unavailable)
  BY DEF IInv, KeptNow
<1>5. /\ n \in Groups /\ n \notin received
      /\ Kept(gs, fetchedUpTo, total, base, received \cup {n}, unavailable)
  BY <1>3, <1>4, GroupKeeps DEF Typed
<1> HIDE DEF n, gs
<1>6. received' \in SUBSET Groups
  BY <1>1, <1>4, <1>5 DEF Typed
<1>7. KeptNow'
  <2>1. /\ fetchedUpTo' \in -1 .. Total - 1 /\ total' \in 1 .. Total
        /\ Kept(gs, fetchedUpTo', total', base', received', unavailable')
    BY <1>1, <1>4, <1>5 DEF Typed
  <2>2. QED
    BY <1>1, <1>6, <2>1, MaybeIssueKeeps DEF KeptNow
<1>8. buffered' <= Frames * Cardinality(received') /\ buffered' \in 0 .. Total * Frames
  <2>1. buffered \in Nat /\ buffered <= Frames * Cardinality(received)
    <3>1. Total * Frames \in Nat
      BY Sizes
    <3>2. QED
      BY <1>4, <3>1 DEF IInv, Typed, Room
  <2>2. QED
    BY <1>1, <1>4, <1>5, <2>1, RoomForGroup DEF Typed
<1>9. Typed'
  BY <1>1, <1>4, <1>6, <1>8 DEF Typed
<1>10. Fresh'
  BY <1>1, FetchesStarted DEF Fresh
<1>11. Played'
  BY <1>1 DEF IInv, Played
<1>12. QED
  BY <1>7, <1>8, <1>9, <1>10, <1>11 DEF IInv, Room

\* What every end of a fetch keeps, once the list it leaves is kept.
LEMMA EndStep ==
  ASSUME IInv, NEW i \in DOMAIN fetches, NEW bytes \in BOOLEAN, Completed(i, bytes),
         fetchedUpTo' \in -1 .. Total - 1, retries' \in [Groups -> 0 .. MaxRetries],
         unavailable \subseteq unavailable', unavailable' \in SUBSET Groups,
         NEW ws, Kept(ws, fetchedUpTo', total, base, received, unavailable'), MaybeIssue(ws)
  PROVE  IInv'
<1>1. UNCHANGED <<state, playbackGroup, buffered, total, content, seeks, head, frame, base, received>>
  BY DEF Completed, player
<1>2. Typed
  BY DEF IInv
<1>3. slow' \in BOOLEAN
  BY Zenon DEF Completed
<1>4. losses' \in 0 .. MaxLosses
  <2>1. losses' = losses \/ (losses < MaxLosses /\ losses' = losses + 1)
    BY DEF Completed, RelayEnds
  <2>2. losses \in 0 .. MaxLosses /\ MaxLosses \in Nat
    BY <1>2, VodFetchAssumption DEF Typed
  <2>3. QED
    BY <2>1, <2>2
<1>5. Typed'
  BY <1>1, <1>2, <1>3, <1>4, Zenon DEF Typed
<1>6. KeptNow'
  <2>1. /\ total' \in 1 .. Total /\ received' \subseteq Groups
        /\ Kept(ws, fetchedUpTo', total', base', received', unavailable')
    BY <1>1, <1>2 DEF Typed
  <2>2. QED
    BY <2>1, MaybeIssueKeeps DEF KeptNow
<1>7. Fresh'
  BY <1>1, FetchesStarted DEF Fresh
<1>8. Room'
  BY <1>1 DEF IInv, Room
<1>9. Played'
  BY <1>1 DEF IInv, Played
<1>10. QED
  BY <1>5, <1>6, <1>7, <1>8, <1>9 DEF IInv

\* What the ends have in common about the fetch that ends.
LEMMA EndFacts ==
  ASSUME IInv, NEW i \in DOMAIN fetches
  PROVE  /\ i \in 1 .. Len(fetches) /\ fetches \in Seq(Fetch)
         /\ Sound(fetches, received)
         /\ Sound(Without(fetches, i), received)
         /\ Left(fetches, i, Without(fetches, i))
         /\ Kept(fetches, fetchedUpTo, total, base, received, unavailable)
         /\ fetchedUpTo \in -1 .. Total - 1 /\ total \in 1 .. Total
         /\ received \in SUBSET Groups /\ unavailable \in SUBSET Groups
         /\ fetches[i].start \in Groups /\ fetches[i].end \in Groups
         /\ fetches[i].start \in Int /\ fetches[i].end \in Int /\ fetches[i].next \in Int
         /\ Shape(fetches[i])
         /\ fetchedUpTo \in Int /\ total \in Int /\ total <= Total
<1>1. i \in 1 .. Len(fetches) /\ fetches \in Seq(Fetch)
  BY FetchesTyped
<1>2. Kept(fetches, fetchedUpTo, total, base, received, unavailable)
  BY DEF IInv, KeptNow
<1>3. Sound(fetches, received)
  BY <1>2 DEF Kept
<1>4. Typed
  BY DEF IInv
<1>5. QED
  BY <1>1, <1>2, <1>3, <1>4, FetchesTyped, TypedNumbers, WithoutSound, WithoutLeft DEF Typed

\* The counter of retries stays typed.
LEMMA RetriesTyped ==
  ASSUME IInv, NEW i \in DOMAIN fetches, NEW bytes \in BOOLEAN
  PROVE  /\ Retries(i, bytes) \in 0 .. MaxRetries
         /\ \A v \in 0 .. MaxRetries :
              [retries EXCEPT ![fetches[i].start] = v] \in [Groups -> 0 .. MaxRetries]
<1>1. retries \in [Groups -> 0 .. MaxRetries] /\ fetches[i].start \in Groups
  BY EndFacts DEF IInv, Typed
<1>2. 0 \in 0 .. MaxRetries
  BY DEF MaxRetries
<1>3. QED
  BY <1>1, <1>2 DEF Retries

\* Counting up to another group.
LEMMA Raised ==
  ASSUME NEW up \in -1 .. Total - 1, NEW x \in -1 .. Total - 1
  PROVE  /\ Max({up, x}) \in -1 .. Total - 1
         /\ up <= Max({up, x}) /\ x <= Max({up, x})
         /\ \A g \in Groups : g <= Max({up, x}) => g <= up \/ g <= x
<1>1. Total \in Nat /\ up \in Int /\ x \in Int
  BY Sizes
<1> DEFINE m == Max({up, x})
<1>2. m = IF up <= x THEN x ELSE up
  BY <1>1, MaxOfTwo
<1> HIDE DEF m
<1>3. m \in -1 .. Total - 1 /\ up <= m /\ x <= m
  BY <1>1, <1>2
<1>4. \A g \in Groups : g <= m => g <= up \/ g <= x
  BY <1>2
<1>5. QED
  BY <1>3, <1>4 DEF m

\* All groups of the fetch came.
LEMMA DoneStep ==
  ASSUME IInv, NEW i \in DOMAIN fetches, NEW bytes \in BOOLEAN, FetchDone(i, bytes)
  PROVE  IInv'
<1> DEFINE f == fetches[i]
           ws == Without(fetches, i)
<1>1. /\ Completed(i, bytes) /\ f.next > f.end /\ fetchedUpTo' = Max({fetchedUpTo, f.end})
      /\ retries' = [retries EXCEPT ![f.start] = Retries(i, bytes)]
      /\ unavailable' = unavailable /\ MaybeIssue(ws)
  BY DEF FetchDone
<1>2. fetchedUpTo' = (IF fetchedUpTo <= f.end THEN f.end ELSE fetchedUpTo)
  BY <1>1, EndFacts, MaxOfTwo
<1>3. /\ fetchedUpTo' \in -1 .. Total - 1
      /\ fetchedUpTo <= fetchedUpTo' /\ f.next - 1 <= fetchedUpTo'
      /\ \A g \in Groups : g <= fetchedUpTo' => g <= fetchedUpTo \/ g <= f.end
  BY <1>2, EndFacts, Sizes DEF Shape
<1>4. \A g \in Groups : ~ (f.next <= g /\ g <= f.end)
  BY <1>1, EndFacts, Sizes
<1>5. retries' \in [Groups -> 0 .. MaxRetries]
  BY <1>1, RetriesTyped
<1>6. Kept(ws, fetchedUpTo', total, base, received, unavailable')
  BY <1>1, <1>3, <1>4, EndFacts, EndKeeps
<1>7. QED
  BY <1>1, <1>3, <1>5, <1>6, EndStep, EndFacts

\* The first groups of the fetch came.
LEMMA GapStep ==
  ASSUME IInv, NEW i \in DOMAIN fetches, NEW bytes \in BOOLEAN, GapRefetched(i, bytes)
  PROVE  IInv'
<1> DEFINE f == fetches[i]
<1>1. /\ Completed(i, bytes) /\ f.start < f.next /\ f.next <= f.end
      /\ fetchedUpTo' = Max({fetchedUpTo, f.next - 1})
      /\ retries' = [retries EXCEPT ![f.start] = Retries(i, bytes)]
      /\ unavailable' = unavailable
      /\ MaybeIssue(Issue(Without(fetches, i), f.next, f.end, TRUE))
  BY DEF GapRefetched
<1>2. PICK again \in BOOLEAN : MaybeIssue(Issue(Without(fetches, i), f.next, f.end, again))
  BY <1>1
<1> DEFINE ws == Issue(Without(fetches, i), f.next, f.end, again)
<1>3. f.next - 1 \in -1 .. Total - 1 /\ f.next \in Int /\ f.end \in Int
  BY <1>1, EndFacts, Sizes
<1>4. /\ fetchedUpTo' \in -1 .. Total - 1
      /\ fetchedUpTo <= fetchedUpTo' /\ f.next - 1 <= fetchedUpTo'
      /\ \A g \in Groups : g <= fetchedUpTo' => g <= fetchedUpTo \/ g <= f.next - 1
  <2>1. fetchedUpTo \in -1 .. Total - 1
    BY EndFacts
  <2>2. QED
    BY <1>1, <1>3, <2>1, Raised
<1>5. \A g \in Groups : g <= fetchedUpTo' => g <= fetchedUpTo \/ g <= f.end
  <2>1. \A g \in Groups : g <= f.next - 1 => g <= f.end
    BY <1>1, <1>3, Sizes
  <2>2. QED
    BY <1>4, <2>1
<1>6. f.next \in Groups
  BY <1>1, EndFacts, Sizes
<1>7. Sound(ws, received)
  <2>1. \A g \in received : ~ (f.next <= g /\ g <= f.end)
    BY EndFacts DEF Sound
  <2>2. ASSUME NEW k \in 1 .. Len(Without(fetches, i))
        PROVE  Without(fetches, i)[k].end < f.next \/ f.end < Without(fetches, i)[k].start
    <3>1. PICK j \in 1 .. Len(fetches) : j # i /\ Without(fetches, i)[k] = fetches[j]
      BY EndFacts, WithoutElements
    <3>2. Apart(fetches[i], fetches[j])
      BY <3>1, EndFacts DEF Sound
    <3>3. fetches[j].end \in Int
      BY <3>1, FetchesTyped
    <3>4. QED
      BY <1>1, <3>1, <3>2, <3>3, EndFacts DEF Apart
  <2>3. QED
    BY <1>1, <1>6, <2>1, <2>2, EndFacts, IssueSound
<1>8. /\ Left(fetches, i, ws)
      /\ \A g : f.next <= g /\ g <= f.end => Covers(ws, g)
  BY <1>6, EndFacts, IssueLeft
<1>9. retries' \in [Groups -> 0 .. MaxRetries]
  BY <1>1, RetriesTyped
<1>10. Kept(ws, fetchedUpTo', total, base, received, unavailable')
  <2> HIDE DEF ws
  <2>1. QED
    BY <1>1, <1>4, <1>5, <1>7, <1>8, EndFacts, EndKeeps
<1>11. QED
  BY <1>1, <1>2, <1>4, <1>9, <1>10, EndStep, EndFacts

\* No group came: the range is tried again.
LEMMA RetryStep ==
  ASSUME IInv, NEW i \in DOMAIN fetches, NEW bytes \in BOOLEAN, FetchRetried(i, bytes)
  PROVE  IInv'
<1> DEFINE f == fetches[i]
           to == Min({f.end, total - 1})
<1>1. /\ Completed(i, bytes) /\ f.next = f.start /\ f.start < total
      /\ Retries(i, bytes) < MaxRetries
      /\ fetchedUpTo' = Max({fetchedUpTo, f.start - 1})
      /\ retries' = [retries EXCEPT ![f.start] = Retries(i, bytes) + 1]
      /\ unavailable' = unavailable
      /\ MaybeIssue(Issue(Without(fetches, i), f.start, to, TRUE))
  BY DEF FetchRetried
<1>2. PICK again \in BOOLEAN : MaybeIssue(Issue(Without(fetches, i), f.start, to, again))
  BY <1>1
<1>3. f.start - 1 \in -1 .. Total - 1 /\ f.start \in Int /\ f.end \in Int /\ f.start <= f.end
  BY EndFacts, Sizes DEF Shape
<1>4. total - 1 \in Int
  BY EndFacts
<1>5. to = IF f.end <= total - 1 THEN f.end ELSE total - 1
  BY <1>3, <1>4, MinOfTwo
<1> DEFINE ws == Issue(Without(fetches, i), f.start, to, again)
<1> HIDE DEF to
<1>6. to \in Groups /\ to \in Int /\ f.start <= to /\ to <= f.end
  BY <1>1, <1>5, EndFacts, Sizes DEF Shape
<1>7. /\ fetchedUpTo' \in -1 .. Total - 1
      /\ fetchedUpTo <= fetchedUpTo' /\ f.next - 1 <= fetchedUpTo'
      /\ \A g \in Groups : g <= fetchedUpTo' => g <= fetchedUpTo \/ g <= f.end
  <2>1. fetchedUpTo \in -1 .. Total - 1
    BY EndFacts
  <2>2. /\ fetchedUpTo' \in -1 .. Total - 1
        /\ fetchedUpTo <= fetchedUpTo' /\ f.start - 1 <= fetchedUpTo'
        /\ \A g \in Groups : g <= fetchedUpTo' => g <= fetchedUpTo \/ g <= f.start - 1
    BY <1>1, <1>3, <2>1, Raised
  <2>3. \A g \in Groups : g <= f.start - 1 => g <= f.end
    BY <1>3, Sizes
  <2>4. QED
    BY <1>1, <2>2, <2>3
<1>8. Sound(ws, received)
  <2>1. \A g \in received : ~ (f.start <= g /\ g <= to)
    <3>1. \A g \in received : ~ (f.next <= g /\ g <= f.end)
      BY EndFacts DEF Sound
    <3>2. QED
      BY <1>1, <1>6, <3>1, EndFacts, Sizes
  <2>2. ASSUME NEW k \in 1 .. Len(Without(fetches, i))
        PROVE  Without(fetches, i)[k].end < f.start \/ to < Without(fetches, i)[k].start
    <3>1. PICK j \in 1 .. Len(fetches) : j # i /\ Without(fetches, i)[k] = fetches[j]
      BY EndFacts, WithoutElements
    <3>2. Apart(fetches[i], fetches[j])
      BY <3>1, EndFacts DEF Sound
    <3>3. fetches[j].end \in Int /\ fetches[j].start \in Int
      BY <3>1, FetchesTyped
    <3>4. QED
      BY <1>6, <3>1, <3>2, <3>3, EndFacts DEF Apart
  <2>3. QED
    BY <1>6, <2>1, <2>2, EndFacts, IssueSound
<1>9. /\ Left(fetches, i, ws)
      /\ \A g : f.start <= g /\ g <= to => Covers(ws, g)
  BY <1>6, EndFacts, IssueLeft
<1>10. \A g \in Groups : f.next <= g /\ g <= f.end => g >= total \/ Covers(ws, g)
  <2>1. SUFFICES ASSUME NEW g \in Groups, f.start <= g, g <= f.end, ~ g >= total
                 PROVE  Covers(ws, g)
    BY <1>1
  <2>2. g <= to
    BY <1>5, <2>1, EndFacts, Sizes
  <2>3. QED
    BY <1>9, <2>1, <2>2
<1>11. retries' \in [Groups -> 0 .. MaxRetries]
  <2>1. Retries(i, bytes) + 1 \in 0 .. MaxRetries
    BY <1>1, RetriesTyped DEF MaxRetries
  <2>2. QED
    BY <1>1, <2>1, RetriesTyped
<1>12. Kept(ws, fetchedUpTo', total, base, received, unavailable')
  <2> HIDE DEF ws
  <2>1. QED
    BY <1>1, <1>7, <1>8, <1>9, <1>10, EndFacts, EndKeeps
<1>13. QED
  BY <1>1, <1>2, <1>7, <1>11, <1>12, EndStep, EndFacts

\* No group came, and none is expected any more.
LEMMA GivenUpStep ==
  ASSUME IInv, NEW i \in DOMAIN fetches, NEW bytes \in BOOLEAN, FetchGivenUp(i, bytes)
  PROVE  IInv'
<1> DEFINE f == fetches[i]
           ws == Without(fetches, i)
<1>1. /\ Completed(i, bytes) /\ f.next = f.start
      /\ fetchedUpTo' = Max({fetchedUpTo, total - 1})
      /\ retries' = [retries EXCEPT ![f.start] = 0]
      /\ unavailable' = unavailable \cup RangeOf(f) /\ MaybeIssue(ws)
  BY DEF FetchGivenUp
<1>2. total - 1 \in Int
  BY EndFacts
<1>3. fetchedUpTo' = (IF fetchedUpTo <= total - 1 THEN total - 1 ELSE fetchedUpTo)
  BY <1>1, <1>2, EndFacts, MaxOfTwo
<1>4. /\ fetchedUpTo' \in -1 .. Total - 1 /\ fetchedUpTo <= fetchedUpTo'
  BY <1>3, EndFacts, Sizes
<1>5. RangeOf(f) \subseteq Groups /\ f.end \in RangeOf(f)
  BY EndFacts, Sizes DEF RangeOf, Shape
<1>6. ~ f.start < f.next
  BY <1>1, EndFacts
<1>7. \A g \in Groups : f.next <= g /\ g <= f.end => g \in unavailable'
  BY <1>1, EndFacts, Sizes DEF RangeOf
<1>8. \A g \in Groups : g <= fetchedUpTo' => \/ g <= fetchedUpTo \/ g <= f.end
                                            \/ \E u \in unavailable' : u < g
  <2>1. SUFFICES ASSUME NEW g \in Groups, ~ g <= f.end PROVE \E u \in unavailable' : u < g
    OBVIOUS
  <2>2. f.end < g
    BY <2>1, EndFacts, Sizes
  <2>3. QED
    BY <1>1, <1>5, <2>2
<1>9. retries' \in [Groups -> 0 .. MaxRetries]
  BY <1>1, RetriesTyped DEF MaxRetries
<1>10. unavailable \subseteq unavailable' /\ unavailable' \in SUBSET Groups
  BY <1>1, <1>5, EndFacts
<1>11. Kept(ws, fetchedUpTo', total, base, received, unavailable')
  <2> HIDE DEF ws
  <2>1. Sound(ws, received) /\ Left(fetches, i, ws)
    BY EndFacts DEF ws
  <2>2. QED
    BY <1>4, <1>6, <1>7, <1>8, <1>10, <2>1, EndFacts, EndKeeps
<1>12. QED
  BY <1>1, <1>4, <1>9, <1>10, <1>11, EndStep

LEMMA UpdateStep ==
  ASSUME IInv, UpdateTotalGroups
  PROVE  IInv'
<1>1. /\ content < total /\ total' = content
      /\ UNCHANGED <<state, playbackGroup, fetchedUpTo, buffered, retries, fetches, slow, content,
                     losses, seeks, head, frame, base, received, unavailable>>
  BY DEF UpdateTotalGroups, player, history
<1>2. Typed
  BY DEF IInv
<1>3. total' \in 1 .. Total /\ total' \in Int /\ total \in Int /\ total' < total
  BY <1>1, <1>2, Sizes DEF Typed
<1>4. Typed'
  BY <1>1, <1>2, <1>3 DEF Typed
<1>5. \A g \in Groups : g >= total => g >= total'
  BY <1>3, Sizes
<1>6. KeptNow'
  BY <1>1, <1>5 DEF IInv, KeptNow, Kept, Asked
<1>7. Played'
  <2>1. \A g \in Groups : g < total' => g < total
    BY <1>3, Sizes
  <2>2. QED
    BY <1>1, <2>1 DEF IInv, Played
<1>8. Fresh' /\ Room'
  BY <1>1 DEF IInv, Fresh, Room
<1>9. QED
  BY <1>4, <1>6, <1>7, <1>8 DEF IInv

\* Frames that are played or consumed.
LEMMA FrameStep ==
  ASSUME IInv, Play, FrameGone, playbackGroup' \in {playbackGroup, head}
  PROVE  IInv'
<1>1. /\ state = "playing" /\ head \in received
      /\ frame' = (frame + 1) % Frames
      /\ head' \in {head, head + 1}
  BY DEF Play
<1>2. /\ buffered' = Max({0, buffered - 1})
      /\ state' = IF buffered' > 0 THEN state
                  ELSE IF playbackGroup' < total - 1 THEN "rebuffering" ELSE "completed"
      /\ MaybeIssue(fetches)
      /\ UNCHANGED <<fetchedUpTo, total, retries, slow, content, losses, seeks,
                     base, received, unavailable>>
  BY DEF FrameGone, history
<1>3. Typed
  BY DEF IInv
<1>4. /\ head \in Groups /\ head \in Int /\ playbackGroup \in Int /\ playbackGroup <= head
      /\ head' \in 0 .. Total /\ head <= head' /\ playbackGroup' <= head
      /\ playbackGroup' \in 0 .. Total /\ head' \in Int /\ playbackGroup' \in Int
  <2>1. head \in Groups /\ playbackGroup <= head
    BY <1>1, <1>3 DEF Typed, IInv, Played
  <2>2. playbackGroup \in 0 .. Total /\ Total \in Nat
    BY <1>3, Sizes DEF Typed
  <2>3. QED
    BY <1>1, <2>1, <2>2, Sizes
<1>5. buffered' \in 0 .. Total * Frames /\ buffered' <= buffered
  <2>1. Total * Frames \in Nat
    BY Sizes
  <2>2. buffered \in 0 .. Total * Frames
    BY <1>3 DEF Typed
  <2> DEFINE t == Total * Frames
  <2> HIDE DEF t
  <2>3. buffered \in Int /\ 0 <= buffered /\ buffered <= t /\ t \in Nat
    BY <2>1, <2>2 DEF t
  <2>4. buffered' = IF 0 <= buffered - 1 THEN buffered - 1 ELSE 0
    BY <1>2, <2>3, MaxOfTwo
  <2>5. buffered' \in 0 .. t /\ buffered' <= buffered
    BY <2>3, <2>4
  <2>6. QED
    BY <2>5 DEF t
<1>6. frame' \in 0 .. Frames - 1
  <2>1. frame + 1 \in Nat /\ Frames \in Nat /\ Frames > 0
    BY <1>3, Sizes DEF Typed
  <2>2. QED
    BY <1>1, <2>1
<1>7. state' \in {"playing", "rebuffering", "completed"}
  BY <1>1, <1>2
<1>8. Typed'
  BY <1>2, <1>3, <1>4, <1>5, <1>6, <1>7 DEF Typed
<1>9. KeptNow'
  <2>1. /\ fetchedUpTo' \in -1 .. Total - 1 /\ total' \in 1 .. Total /\ received' \subseteq Groups
        /\ Kept(fetches, fetchedUpTo', total', base', received', unavailable')
    BY <1>2, <1>3 DEF Typed, IInv, KeptNow
  <2>2. QED
    BY <1>2, <2>1, MaybeIssueKeeps DEF KeptNow
<1>10. Room'
  <2>1. buffered <= Frames * Cardinality(received) /\ received' = received
    BY <1>2 DEF IInv, Room
  <2>2. buffered \in Int /\ buffered' \in Int
    <3>1. Total * Frames \in Nat
      BY Sizes
    <3>2. QED
      BY <1>3, <1>5, <3>1 DEF Typed
  <2>3. Frames * Cardinality(received) \in Nat
    BY <1>3, ReceivedCount DEF Typed
  <2>4. QED
    BY <1>5, <2>1, <2>2, <2>3 DEF Room
<1>11. \A g \in Groups : base <= g /\ g < head => g \in received \/ g \in unavailable
  BY DEF IInv, Played
<1>12. \A g \in Groups : base <= g /\ g <= head => g \in received \/ g \in unavailable
  <2>1. \A g \in Groups : g <= head => g < head \/ g = head
    BY <1>4, Sizes
  <2>2. QED
    BY <1>1, <1>11, <2>1
<1>13. Played'
  <2>1. \A g \in Groups : g < head' => g <= head
    BY <1>1, <1>4, Sizes
  <2>2. playbackGroup' <= head'
    BY <1>4
  <2>3. ASSUME state' = "completed", NEW g \in Groups, g < total PROVE g <= head
    <3>1. ~ playbackGroup' < total - 1
      BY <1>1, <1>2, <2>3
    <3>2. total \in Int /\ g \in Int
      BY <1>3, TypedNumbers, Sizes
    <3>3. QED
      BY <1>4, <2>3, <3>1, <3>2
  <2>4. QED
    BY <1>2, <1>12, <2>1, <2>2, <2>3 DEF Played
<1>14. Fresh'
  BY <1>7 DEF Fresh
<1>15. QED
  BY <1>8, <1>9, <1>10, <1>13, <1>14 DEF IInv

LEMMA SkipStep ==
  ASSUME IInv, Skip
  PROVE  IInv'
<1>1. /\ head \in unavailable /\ head' = head + 1
      /\ UNCHANGED <<state, playbackGroup, fetchedUpTo, buffered, total, retries, fetches, slow,
                     content, losses, seeks, frame, base, received, unavailable>>
  BY DEF Skip, controller, history
<1>2. Typed
  BY DEF IInv
<1>3. head \in Groups /\ playbackGroup \in Int
  BY <1>1, <1>2, TypedNumbers DEF Typed
<1>4. Typed'
  <2>1. head' \in 0 .. Total
    BY <1>1, <1>3, Sizes
  <2>2. QED
    BY <1>1, <1>2, <2>1 DEF Typed
<1>5. KeptNow' /\ Room'
  BY <1>1 DEF IInv, KeptNow, Room
<1>6. Played'
  <2>1. \A g \in Groups : g < head + 1 => g < head \/ g = head
    BY <1>3, Sizes
  <2>2. playbackGroup <= head + 1
    BY <1>3, Sizes DEF IInv, Played
  <2>3. QED
    BY <1>1, <2>1, <2>2 DEF IInv, Played
<1>7. Fresh'
  BY <1>1 DEF IInv, Fresh
<1>8. QED
  BY <1>4, <1>5, <1>6, <1>7 DEF IInv

LEMMA StutterStep ==
  ASSUME IInv, UNCHANGED vars
  PROVE  IInv'
BY DEF IInv, Typed, KeptNow, Fresh, Room, Played, vars, controller, player, history

LEMMA NextInv == IInv /\ [Next]_vars => IInv'
<1> SUFFICES ASSUME IInv, [Next]_vars PROVE IInv'
  OBVIOUS
<1>1. CASE Start
  BY <1>1, StartStep
<1>2. CASE \E g \in Groups : Seek(g)
  BY <1>2, SeekStep
<1>3. CASE \E i \in DOMAIN fetches : GroupReceived(i)
  BY <1>3, GroupStep
<1>4. CASE \E i \in DOMAIN fetches, bytes \in BOOLEAN : FetchComplete(i, bytes)
  BY <1>4, DoneStep, GapStep, RetryStep, GivenUpStep DEF FetchComplete
<1>5. CASE UpdateTotalGroups
  BY <1>5, UpdateStep
<1>6. CASE FramePlayed
  BY <1>6, FrameStep DEF FramePlayed
<1>7. CASE FrameConsumed
  BY <1>7, FrameStep DEF FrameConsumed
<1>8. CASE Skip
  BY <1>8, SkipStep
<1>9. CASE UNCHANGED vars
  BY <1>9, StutterStep
<1>10. QED
  BY <1>1, <1>2, <1>3, <1>4, <1>5, <1>6, <1>7, <1>8, <1>9 DEF Next

LEMMA Invariance == Spec => []IInv
BY InitInv, NextInv, PTL DEF Spec

-----------------------------------------------------------------------------
(* The theorems.                                                            *)

\* Type correctness: the controller's counters stay within the content, whatever the
\* relay delivers and the application does.
THEOREM TypeCorrect == Spec => []TypeOK
BY Invariance, InvImpliesTypes, PTL

\* No group is on its way twice, nor asked for when it has come (buildContext's
\* highestInFlightGroup and the ranges onFetchComplete asks for again).
THEOREM FetchedOnceAlways == Spec => []FetchedOnce
<1>1. IInv => FetchedOnce
  <2> SUFFICES ASSUME IInv, NEW i \in DOMAIN fetches
               PROVE  /\ fetches[i].next .. fetches[i].end \cap received = {}
                      /\ \A j \in DOMAIN fetches \ {i} :
                           RangeOf(fetches[i]) \cap RangeOf(fetches[j]) = {}
    BY DEF FetchedOnce
  <2>1. Sound(fetches, received) /\ i \in 1 .. Len(fetches)
    BY EndFacts
  <2>2. fetches[i].next .. fetches[i].end \cap received = {}
    BY <2>1, EndFacts DEF Sound
  <2>3. ASSUME NEW j \in DOMAIN fetches \ {i}
        PROVE  RangeOf(fetches[i]) \cap RangeOf(fetches[j]) = {}
    <3>1. Apart(fetches[i], fetches[j])
      BY <2>1, FetchesTyped DEF Sound
    <3>2. QED
      BY <3>1, FetchesTyped DEF Apart, RangeOf
  <2>4. QED
    BY <2>2, <2>3
<1>2. QED
  BY <1>1, Invariance, PTL

\* No group of the content is passed over, by the fetches (onFetchComplete, seek,
\* updateTotalGroups) or by playback (onFrameConsumed), while no range had to be given up.
THEOREM NothingMissedAlways == Spec => []NothingMissed
<1>1. IInv => NothingMissed
  <2> SUFFICES ASSUME IInv, ~ GaveUp PROVE NothingMissed
    BY DEF NothingMissed, NoHole, CompletedPlayedAll
  <2>2. Typed
    BY DEF IInv
  <2>3. \A u \in unavailable : u \in Int /\ ~ u < total
    <3>1. \A u \in unavailable : u \notin 0 .. total - 1
      BY DEF GaveUp
    <3>2. \A u \in unavailable : u \in Int /\ 0 <= u
      BY <2>2, Sizes DEF Typed
    <3>3. QED
      BY <2>2, <3>1, <3>2, TypedNumbers
  <2>4. ASSUME NEW g \in base .. fetchedUpTo, g < total
        PROVE  Accounted(g)
    <3>1. g \in Groups /\ g \in Int /\ base <= g /\ g <= fetchedUpTo
      BY <2>2, <2>4, TypedNumbers, Sizes
    <3>2. g \in received \/ g \in unavailable \/ Covers(fetches, g)
      <4>1. Asked(fetches, fetchedUpTo, total, base, received, unavailable)
        BY DEF IInv, KeptNow, Kept
      <4>2. ~ \E u \in unavailable : u < g
        BY <2>2, <2>3, <2>4, <3>1, TypedNumbers
      <4>3. ~ g >= total
        BY <2>2, <2>4, <3>1, TypedNumbers
      <4>4. QED
        BY <3>1, <4>1, <4>2, <4>3 DEF Asked, Reached
    <3>3. Covers(fetches, g) => \E i \in DOMAIN fetches : g \in RangeOf(fetches[i])
      BY <3>1, FetchesTyped DEF Covers, RangeOf
    <3>4. QED
      BY <3>2, <3>3 DEF Accounted
  <2>5. ASSUME state = "completed", NEW g \in base .. total - 1
        PROVE  g \in received
    <3>1. g \in Groups /\ base <= g /\ g < total
      BY <2>2, TypedNumbers, Sizes
    <3>2. QED
      BY <2>3, <2>5, <3>1 DEF IInv, Played
  <2>6. QED
    BY <2>4, <2>5 DEF NothingMissed, NoHole, CompletedPlayedAll
<1>2. QED
  BY <1>1, Invariance, PTL
=============================================================================
