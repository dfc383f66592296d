------------------------- MODULE TextBufferProofs -------------------------
(***************************************************************************)
(* Theorems about TextBuffer, for any set of replicas, any base text, and  *)
(* any number and size of operations: the copies of a shared file converge *)
(* whatever the order, the batches and the repetitions of delivery.        *)
(*                                                                         *)
(* The argument does not replay histories.  Every fact about an operation  *)
(* is stated from what its author knew (its version): where in that text   *)
(* it starts (Placed), which of those characters it deletes (Doomed).  Two *)
(* replicas that know what the author knew count the same characters up to *)
(* the same character (SharedOffset), so they put and delete the same; and *)
(* what only one of them knows changes none of those counts (GrownAt).     *)
(* That concurrent insertions at one place end in one order rests on the   *)
(* timestamps: the first of the characters only one of two replicas has,   *)
(* before one both have, is younger than it (FirstSharedIsOlder).          *)
(***************************************************************************)
EXTENDS TextBuffer, SequenceTheorems, FiniteSetTheorems, WellFoundedInduction, TLAPS

-----------------------------------------------------------------------------
(* Naturals.                                                               *)

\* A non-empty set of naturals has a least element.
LEMMA LeastOf == ASSUME NEW I \in SUBSET Nat, I # {} PROVE Min(I) \in I /\ \A k \in I : Min(I) <= k
  <1>. DEFINE R == {ss \in Nat \X Nat : ss[1] < ss[2]}
  <1>1. IsWellFoundedOn(R, Nat)
    BY NatLessThanWellFounded DEF OpToRel
  <1>2. PICK x \in I : \A y \in I : ~(<<y, x>> \in R)
    <2>. HIDE DEF R
    <2>. QED
      BY <1>1, WFMin
  <1>3. ASSUME NEW y \in I PROVE x <= y
    <2>1. x \in Nat /\ y \in Nat
      OBVIOUS
    <2>2. ~(y < x)
      BY <1>2, <2>1
    <2>. QED
      BY <2>1, <2>2
  <1>. QED
    BY <1>3 DEF Min

\* A non-empty bounded set of naturals has a greatest element.
LEMMA GreatestOf ==
    ASSUME NEW I \in SUBSET Nat, I # {}, NEW m \in Nat, \A k \in I : k <= m
    PROVE  Max(I) \in I /\ \A k \in I : k <= Max(I)
  <1>. DEFINE J == {n \in Nat : \A k \in I : k <= n}
  <1>1. Min(J) \in J /\ \A n \in J : Min(J) <= n
    BY LeastOf
  <1>2. Min(J) \in I
    <2>. SUFFICES ASSUME Min(J) \notin I PROVE FALSE
      OBVIOUS
    <2>1. PICK k0 \in I : TRUE
      OBVIOUS
    <2>2. PICK h \in Nat : h = Min(J)
      BY <1>1
    <2>3. \A k \in I : k < h
      BY <1>1, <2>2
    <2>4. h - 1 \in J
      BY <2>1, <2>2, <2>3
    <2>. QED
      BY <1>1, <2>2, <2>4
  <1>. QED
    BY <1>1, <1>2 DEF Max

\* Induction up to a bound, over a set: what holds at 0 and passes from each
\* number to the next holds everywhere.
LEMMA UpTo ==
    ASSUME NEW m \in Nat, NEW S \in SUBSET Nat,
           0 \in S, \A n \in 0..(m - 1) : n \in S => n + 1 \in S
    PROVE  0..m \subseteq S
  <1>. DEFINE I == {n \in 0..m : n \notin S}
  <1>. SUFFICES ASSUME I # {} PROVE FALSE
    OBVIOUS
  <1>1. Min(I) \in I /\ \A k \in I : Min(I) <= k
    BY LeastOf
  <1>2. PICK h \in Nat : h = Min(I)
    BY <1>1
  <1>3. h # 0 /\ h <= m /\ h \notin S
    BY <1>1, <1>2
  <1>4. h - 1 \in S
    BY <1>1, <1>2, <1>3
  <1>. QED
    BY <1>3, <1>4

-----------------------------------------------------------------------------
(* Timestamps.                                                             *)

Timestamp == [value : Nat, replica : Replica]
Version == [Replica -> Nat]

LEMMA TimestampFields ==
    /\ \A a \in Timestamp : a.value \in Nat /\ a.replica \in Nat /\ a.replica \in Replica
    /\ \A a, b \in Timestamp : a.value = b.value /\ a.replica = b.replica => a = b
    /\ \A n \in Nat, s \in Replica :
          Stamp(n, s) \in Timestamp /\ Stamp(n, s).value = n /\ Stamp(n, s).replica = s
    /\ \A a \in Timestamp : a = Stamp(a.value, a.replica)
  <1>1. \A a \in Timestamp : a.value \in Nat /\ a.replica \in Nat /\ a.replica \in Replica
    BY ReplicaAssumption DEF Timestamp
  <1>2. \A a, b \in Timestamp : a.value = b.value /\ a.replica = b.replica => a = b
    BY DEF Timestamp
  <1>3. \A n \in Nat, s \in Replica :
           Stamp(n, s) \in Timestamp /\ Stamp(n, s).value = n /\ Stamp(n, s).replica = s
    BY DEF Timestamp, Stamp
  <1>. QED
    BY <1>1, <1>2, <1>3

LEMMA AfterTotal ==
    ASSUME NEW a \in Timestamp, NEW b \in Timestamp
    PROVE  /\ After(a, b) \/ After(b, a) \/ a = b
           /\ ~(After(a, b) /\ After(b, a))
           /\ ~After(a, a)
  <1>1. a.value \in Nat /\ a.replica \in Nat /\ b.value \in Nat /\ b.replica \in Nat
    BY TimestampFields
  <1>2. a.value = b.value /\ a.replica = b.replica => a = b
    BY TimestampFields
  <1>. QED
    BY <1>1, <1>2 DEF After

LEMMA AfterTransitive ==
    ASSUME NEW a \in Timestamp, NEW b \in Timestamp, NEW c \in Timestamp, After(a, b), After(b, c)
    PROVE  After(a, c)
  <1>1. /\ a.value \in Nat /\ a.replica \in Nat /\ b.value \in Nat /\ b.replica \in Nat
        /\ c.value \in Nat /\ c.replica \in Nat
    BY TimestampFields
  <1>. QED
    BY <1>1 DEF After

\* What is not after b is not after anything b is after.
LEMMA NotAfter ==
    ASSUME NEW a \in Timestamp, NEW b \in Timestamp, NEW c \in Timestamp, After(a, b), ~After(a, c)
    PROVE  ~After(b, c)
  BY AfterTransitive

LEMMA ObservedThrough ==
    ASSUME NEW v \in Version, NEW w \in Version, NEW ts \in Timestamp,
           ObservedAll(w, v), Observed(v, ts)
    PROVE  Observed(w, ts)
  BY DEF ObservedAll, Observed, Version, Timestamp

-----------------------------------------------------------------------------
(* Offsets: how many of the first fragments satisfy a condition.           *)

\* How many of 1..i are in S: both offsets of the model are such counts.
Count(S, i) == Cardinality({j \in 1..i : j \in S})

LEMMA CountFacts ==
    ASSUME NEW S
    PROVE  /\ \A i \in Nat : Count(S, i) \in Nat
           /\ Count(S, 0) = 0
           /\ \A i \in Nat : Count(S, i + 1) = Count(S, i) + (IF i + 1 \in S THEN 1 ELSE 0)
           /\ \A i, k \in Nat : i <= k => Count(S, i) <= Count(S, k)
           /\ \A i, k \in Nat : i <= k /\ (\A j \in (i + 1)..k : j \notin S) => Count(S, k) = Count(S, i)
  <1>. DEFINE C(i) == {j \in 1..i : j \in S}
  <1>1. ASSUME NEW i \in Nat PROVE IsFiniteSet(C(i)) /\ Cardinality(C(i)) \in Nat
    <2>1. IsFiniteSet(1..i)
      BY FS_Interval
    <2>2. C(i) \in SUBSET (1..i)
      OBVIOUS
    <2>3. IsFiniteSet(C(i))
      BY <2>1, <2>2, FS_Subset
    <2>. QED
      BY <2>3, FS_CardinalityType
  <1>2. Count(S, 0) = 0
    <2>1. C(0) = {}
      OBVIOUS
    <2>. QED
      BY <2>1, FS_EmptySet DEF Count
  <1>3. ASSUME NEW i \in Nat
        PROVE  Count(S, i + 1) = Count(S, i) + (IF i + 1 \in S THEN 1 ELSE 0)
    <2>1. CASE i + 1 \in S
      <3>1. C(i + 1) = C(i) \cup {i + 1}
        BY <2>1
      <3>2. i + 1 \notin C(i)
        OBVIOUS
      <3>. HIDE DEF C
      <3>3. Cardinality(C(i + 1)) = Cardinality(C(i)) + 1
        BY <1>1, <3>1, <3>2, FS_AddElement
      <3>. QED
        BY <2>1, <3>3 DEF Count, C
    <2>2. CASE i + 1 \notin S
      <3>1. C(i + 1) = C(i)
        BY <2>2
      <3>2. Count(S, i + 1) = Count(S, i)
        BY <3>1 DEF Count
      <3>3. Count(S, i) \in Nat
        BY <1>1 DEF Count
      <3>. QED
        BY <2>2, <3>2, <3>3
    <2>. QED
      BY <2>1, <2>2
  <1>4. ASSUME NEW i \in Nat, NEW k \in Nat, i <= k
        PROVE  Count(S, i) <= Count(S, k)
    <2>1. C(i) \in SUBSET C(k)
      BY <1>4
    <2>. HIDE DEF C
    <2>2. Cardinality(C(i)) <= Cardinality(C(k))
      BY <1>1, <2>1, FS_Subset
    <2>. QED
      BY <2>2 DEF Count, C
  <1>5. ASSUME NEW i \in Nat, NEW k \in Nat, i <= k, \A j \in (i + 1)..k : j \notin S
        PROVE  Count(S, k) = Count(S, i)
    <2>1. C(k) = C(i)
      BY <1>5
    <2>. QED
      BY <2>1 DEF Count
  <1>. QED
    BY <1>1, <1>2, <1>3, <1>4, <1>5 DEF Count

\* A count that grows by at most one reaches every number up to its last.
LEMMA CountReaches ==
    ASSUME NEW S, NEW m \in Nat, NEW c \in Nat, c <= Count(S, m)
    PROVE  \E i \in 0..m : Count(S, i) = c
  <1>. DEFINE I == {i \in 0..m : c <= Count(S, i)}
  <1>1. I \in SUBSET Nat /\ m \in I
    OBVIOUS
  <1>2. Min(I) \in I /\ \A k \in I : Min(I) <= k
    BY <1>1, LeastOf
  <1>3. PICK h \in I : h = Min(I)
    BY <1>2
  <1>4. /\ \A i \in Nat : Count(S, i) \in Nat
        /\ Count(S, 0) = 0
        /\ \A i \in Nat : Count(S, i + 1) = Count(S, i) + (IF i + 1 \in S THEN 1 ELSE 0)
    BY CountFacts
  <1>5. CASE h = 0
    BY <1>4, <1>5
  <1>6. CASE h # 0
    <2>1. h - 1 \in 0..m /\ h - 1 \notin I
      BY <1>2, <1>3, <1>6
    <2>2. Count(S, h - 1) < c /\ c <= Count(S, h) /\ Count(S, h - 1) \in Nat /\ Count(S, h) \in Nat
      BY <2>1, <1>4
    <2>3. Count(S, h - 1 + 1) <= Count(S, h - 1) + 1
      <3>1. h - 1 \in Nat
        BY <2>1
      <3>2. Count(S, h - 1 + 1) = Count(S, h - 1) + (IF h - 1 + 1 \in S THEN 1 ELSE 0)
        BY <1>4, <3>1
      <3>. QED
        BY <2>2, <3>2
    <2>4. h - 1 + 1 = h
      BY <2>1
    <2>5. Count(S, h) = c
      BY <2>2, <2>3, <2>4
    <2>. QED
      BY <2>5
  <1>. QED
    BY <1>5, <1>6

Known(F, v) == {j \in Nat : Observed(v, F[j].ts)}
Shown(F) == {j \in Nat : F[j].visible}

LEMMA OffsetIsCount ==
    /\ \A F, v : \A i \in Nat : FullOffset(F, v, i) = Count(Known(F, v), i)
    /\ \A F : \A i \in Nat : VisibleTo(F, i) = Count(Shown(F), i)
  <1>1. ASSUME NEW F, NEW v, NEW i \in Nat PROVE FullOffset(F, v, i) = Count(Known(F, v), i)
    <2>1. {j \in 1..i : Observed(v, F[j].ts)} = {j \in 1..i : j \in Known(F, v)}
      BY DEF Known
    <2>. QED
      BY <2>1 DEF FullOffset, Count
  <1>2. ASSUME NEW F, NEW i \in Nat PROVE VisibleTo(F, i) = Count(Shown(F), i)
    <2>1. {j \in 1..i : F[j].visible} = {j \in 1..i : j \in Shown(F)}
      BY DEF Shown
    <2>. QED
      BY <2>1 DEF VisibleTo, Count
  <1>. QED
    BY <1>1, <1>2

LEMMA OffsetType ==
    ASSUME NEW F, NEW v, NEW i \in Nat
    PROVE  FullOffset(F, v, i) \in Nat
  <1>1. FullOffset(F, v, i) = Count(Known(F, v), i)
    BY OffsetIsCount
  <1>. QED
    BY <1>1, CountFacts

LEMMA OffsetZero ==
    ASSUME NEW F, NEW v
    PROVE  FullOffset(F, v, 0) = 0
  <1>1. FullOffset(F, v, 0) = Count(Known(F, v), 0)
    BY OffsetIsCount
  <1>. QED
    BY <1>1, CountFacts

LEMMA OffsetNext ==
    ASSUME NEW F, NEW v, NEW i \in Nat
    PROVE  FullOffset(F, v, i + 1) = FullOffset(F, v, i) + (IF Observed(v, F[i + 1].ts) THEN 1 ELSE 0)
  <1>. DEFINE S == Known(F, v)
  <1>1. FullOffset(F, v, i + 1) = Count(S, i + 1) /\ FullOffset(F, v, i) = Count(S, i)
    BY OffsetIsCount
  <1>2. Count(S, i + 1) = Count(S, i) + (IF i + 1 \in S THEN 1 ELSE 0)
    BY CountFacts
  <1>3. i + 1 \in S <=> Observed(v, F[i + 1].ts)
    BY DEF Known
  <1>. QED
    BY <1>1, <1>2, <1>3

LEMMA OffsetMonotone ==
    ASSUME NEW F, NEW v, NEW i \in Nat, NEW k \in Nat, i <= k
    PROVE  FullOffset(F, v, i) <= FullOffset(F, v, k)
  <1>1. FullOffset(F, v, i) = Count(Known(F, v), i) /\ FullOffset(F, v, k) = Count(Known(F, v), k)
    BY OffsetIsCount
  <1>. QED
    BY <1>1, CountFacts

\* Fragments the version does not know do not count.
LEMMA OffsetFlat ==
    ASSUME NEW F, NEW v, NEW i \in Nat, NEW k \in Nat, i <= k,
           \A j \in (i + 1)..k : ~Observed(v, F[j].ts)
    PROVE  FullOffset(F, v, k) = FullOffset(F, v, i)
  <1>1. FullOffset(F, v, i) = Count(Known(F, v), i) /\ FullOffset(F, v, k) = Count(Known(F, v), k)
    BY OffsetIsCount
  <1>2. \A j \in (i + 1)..k : j \notin Known(F, v)
    BY DEF Known
  <1>. QED
    BY <1>1, <1>2, CountFacts

\* The offset of a fragment the version knows is one more than the offset
\* before it.
LEMMA OffsetAt ==
    ASSUME NEW F, NEW v, NEW i \in Nat, i # 0
    PROVE  /\ FullOffset(F, v, i - 1) \in Nat
           /\ Observed(v, F[i].ts) => FullOffset(F, v, i) = FullOffset(F, v, i - 1) + 1
           /\ ~Observed(v, F[i].ts) => FullOffset(F, v, i) = FullOffset(F, v, i - 1)
  <1>1. i - 1 \in Nat /\ i - 1 + 1 = i
    OBVIOUS
  <1>2. FullOffset(F, v, i - 1) \in Nat
    BY <1>1, OffsetType
  <1>3. FullOffset(F, v, i - 1 + 1) = FullOffset(F, v, i - 1) + (IF Observed(v, F[i - 1 + 1].ts) THEN 1 ELSE 0)
    BY <1>1, OffsetNext
  <1>4. FullOffset(F, v, i) = FullOffset(F, v, i - 1) + (IF Observed(v, F[i].ts) THEN 1 ELSE 0)
    BY <1>1, <1>3
  <1>5. CASE Observed(v, F[i].ts)
    BY <1>2, <1>4, <1>5
  <1>6. CASE ~Observed(v, F[i].ts)
    BY <1>2, <1>4, <1>6
  <1>. QED
    BY <1>2, <1>5, <1>6

\* When the version knows every fragment, offsets are positions.
LEMMA OffsetOfAll ==
    ASSUME NEW F, NEW v, NEW m \in Nat, \A j \in 1..m : Observed(v, F[j].ts)
    PROVE  \A i \in 0..m : FullOffset(F, v, i) = i
  <1>. SUFFICES ASSUME NEW i \in 0..m PROVE FullOffset(F, v, i) = i
    OBVIOUS
  <1>1. {j \in 1..i : Observed(v, F[j].ts)} = 1..i
    OBVIOUS
  <1>2. Cardinality(1..i) = i
    BY FS_Interval
  <1>. QED
    BY <1>1, <1>2 DEF FullOffset

-----------------------------------------------------------------------------
(* Insertions.                                                             *)

Frag == [ts : Timestamp, offset : Nat, deletions : SUBSET Timestamp, visible : BOOLEAN]

\* Where fragment i is after n characters were inserted at k.
Shift(k, n, i) == IF i <= k THEN i ELSE i + n

\* G is F with the n characters of ts inserted at k and those of doomed deleted.
Grown(F, G, k, ts, n, doomed) ==
    /\ G \in Seq(Frag)
    /\ Len(G) = Len(F) + n
    /\ \A i \in 1..Len(F) :
          /\ G[Shift(k, n, i)].ts = F[i].ts
          /\ G[Shift(k, n, i)].offset = F[i].offset
          /\ G[Shift(k, n, i)].deletions = F[i].deletions \cup (IF i \in doomed THEN {ts} ELSE {})
          /\ G[Shift(k, n, i)].visible = (F[i].visible /\ i \notin doomed)
    /\ \A j \in 1..n :
          /\ G[k + j].ts = ts
          /\ G[k + j].offset = j - 1
          /\ G[k + j].deletions = {}
          /\ G[k + j].visible = TRUE

LEMMA FragFields ==
    ASSUME NEW F \in Seq(Frag)
    PROVE  /\ Len(F) \in Nat /\ DOMAIN F = 1..Len(F)
           /\ \A i \in 1..Len(F) :
                /\ F[i] \in Frag
                /\ F[i].ts \in Timestamp /\ F[i].offset \in Nat
                /\ F[i].deletions \in SUBSET Timestamp /\ F[i].visible \in BOOLEAN
  <1>1. Len(F) \in Nat /\ DOMAIN F = 1..Len(F)
    BY LenProperties
  <1>2. ASSUME NEW i \in 1..Len(F) PROVE F[i] \in Frag
    BY ElementOfSeq
  <1>. QED
    BY <1>1, <1>2 DEF Frag

LEMMA DeleteFacts ==
    ASSUME NEW F \in Seq(Frag), NEW doomed, NEW ts \in Timestamp
    PROVE  /\ Delete(F, doomed, ts) \in Seq(Frag)
           /\ Len(Delete(F, doomed, ts)) = Len(F)
           /\ \A i \in 1..Len(F) :
                /\ Delete(F, doomed, ts)[i].ts = F[i].ts
                /\ Delete(F, doomed, ts)[i].offset = F[i].offset
                /\ Delete(F, doomed, ts)[i].deletions = F[i].deletions \cup (IF i \in doomed THEN {ts} ELSE {})
                /\ Delete(F, doomed, ts)[i].visible = (F[i].visible /\ i \notin doomed)
  <1>. DEFINE D == Delete(F, doomed, ts)
              e(i) == IF i \in doomed
                      THEN [F[i] EXCEPT !.deletions = @ \cup {ts}, !.visible = FALSE]
                      ELSE F[i]
  <1>1. Len(F) \in Nat /\ DOMAIN F = 1..Len(F)
    BY FragFields
  <1>2. D = [i \in 1..Len(F) |-> e(i)]
    BY <1>1 DEF Delete
  <1>3. ASSUME NEW i \in 1..Len(F)
        PROVE  /\ e(i) \in Frag
               /\ e(i).ts = F[i].ts /\ e(i).offset = F[i].offset
               /\ e(i).deletions = F[i].deletions \cup (IF i \in doomed THEN {ts} ELSE {})
               /\ e(i).visible = (F[i].visible /\ i \notin doomed)
    <2>1. F[i] \in Frag
      BY ElementOfSeq
    <2>2. CASE i \in doomed
      <3>1. e(i) = [F[i] EXCEPT !.deletions = @ \cup {ts}, !.visible = FALSE]
        BY <2>2
      <3>. HIDE DEF e
      <3>2. e(i) \in Frag
        BY <2>1, <3>1 DEF Frag
      <3>3. e(i).ts = F[i].ts /\ e(i).offset = F[i].offset
               /\ e(i).deletions = F[i].deletions \cup {ts} /\ e(i).visible = FALSE
        BY <2>1, <3>1 DEF Frag
      <3>. QED
        BY <2>2, <3>2, <3>3
    <2>3. CASE i \notin doomed
      <3>1. e(i) = F[i]
        BY <2>3
      <3>. HIDE DEF e
      <3>2. F[i].visible \in BOOLEAN
        BY <2>1 DEF Frag
      <3>. QED
        BY <2>1, <2>3, <3>1, <3>2
    <2>. QED
      BY <2>2, <2>3
  <1>. HIDE DEF e
  <1>4. D \in Seq(Frag) /\ Len(D) = Len(F)
    <2>1. D \in [1..Len(F) -> Frag]
      BY <1>2, <1>3
    <2>. HIDE DEF D
    <2>2. D \in Seq(Frag)
      BY <1>1, <2>1, SeqDef
    <2>3. DOMAIN D = 1..Len(F) /\ DOMAIN D = 1..Len(D) /\ Len(D) \in Nat
      BY <2>1, <2>2, LenProperties
    <2>. QED
      BY <1>1, <2>2, <2>3
  <1>5. \A i \in 1..Len(F) : D[i] = e(i)
    BY <1>2
  <1>. HIDE DEF D
  <1>6. /\ D \in Seq(Frag)
        /\ Len(D) = Len(F)
        /\ \A i \in 1..Len(F) :
              /\ D[i].ts = F[i].ts
              /\ D[i].offset = F[i].offset
              /\ D[i].deletions = F[i].deletions \cup (IF i \in doomed THEN {ts} ELSE {})
              /\ D[i].visible = (F[i].visible /\ i \notin doomed)
    BY <1>3, <1>4, <1>5
  <1>. QED
    BY <1>6 DEF D

LEMMA FragmentFields ==
    ASSUME NEW ts \in Timestamp, NEW n \in Nat
    PROVE  /\ Fragment(ts, n) \in Frag
           /\ Fragment(ts, n).ts = ts /\ Fragment(ts, n).offset = n
           /\ Fragment(ts, n).deletions = {} /\ Fragment(ts, n).visible = TRUE
  BY DEF Fragment, Frag

LEMMA InsertFacts ==
    ASSUME NEW D \in Seq(Frag), NEW k \in 0..Len(D), NEW ts \in Timestamp, NEW n \in Nat
    PROVE  /\ Insert(D, k, ts, n) \in Seq(Frag)
           /\ Len(Insert(D, k, ts, n)) = Len(D) + n
           /\ \A i \in 1..Len(D) : Insert(D, k, ts, n)[Shift(k, n, i)] = D[i]
           /\ \A j \in 1..n : Insert(D, k, ts, n)[k + j] = Fragment(ts, j - 1)
  <1>. DEFINE A == SubSeq(D, 1, k)
              M == [j \in 1..n |-> Fragment(ts, j - 1)]
              Z == SubSeq(D, k + 1, Len(D))
              G == Insert(D, k, ts, n)
  <1>0. Len(D) \in Nat
    BY FragFields
  <1>1. A \in Seq(Frag) /\ Len(A) = k /\ \A i \in 1..k : A[i] = D[i]
    <2>1. \A i \in 1..k : D[i] \in Frag
      BY <1>0, ElementOfSeq
    <2>. HIDE DEF A
    <2>2. /\ SubSeq(D, 1, k) \in Seq(Frag)
          /\ Len(SubSeq(D, 1, k)) = IF 1 <= k THEN k - 1 + 1 ELSE 0
          /\ \A i \in 1..(k - 1 + 1) : SubSeq(D, 1, k)[i] = D[1 + i - 1]
      BY <1>0, <2>1, SubSeqProperties
    <2>. QED
      BY <1>0, <2>2 DEF A
  <1>2. M \in Seq(Frag) /\ Len(M) = n /\ \A j \in 1..n : M[j] = Fragment(ts, j - 1)
    <2>1. ASSUME NEW j \in 1..n PROVE Fragment(ts, j - 1) \in Frag
      <3>1. j - 1 \in Nat
        OBVIOUS
      <3>. QED
        BY <3>1, FragmentFields
    <2>2. M \in [1..n -> Frag]
      BY <2>1
    <2>3. \A j \in 1..n : M[j] = Fragment(ts, j - 1)
      OBVIOUS
    <2>. HIDE DEF M
    <2>4. M \in Seq(Frag)
      BY <2>2, SeqDef
    <2>5. DOMAIN M = 1..n /\ DOMAIN M = 1..Len(M) /\ Len(M) \in Nat
      BY <2>2, <2>4, LenProperties
    <2>. QED
      BY <2>3, <2>4, <2>5
  <1>3. Z \in Seq(Frag) /\ Len(Z) = Len(D) - k /\ \A i \in 1..(Len(D) - k) : Z[i] = D[k + i]
    <2>1. \A i \in (k + 1)..Len(D) : D[i] \in Frag
      BY <1>0, ElementOfSeq
    <2>. HIDE DEF Z
    <2>2. /\ SubSeq(D, k + 1, Len(D)) \in Seq(Frag)
          /\ Len(SubSeq(D, k + 1, Len(D))) = IF k + 1 <= Len(D) THEN Len(D) - (k + 1) + 1 ELSE 0
          /\ \A i \in 1..(Len(D) - (k + 1) + 1) : SubSeq(D, k + 1, Len(D))[i] = D[k + 1 + i - 1]
      BY <1>0, <2>1, SubSeqProperties
    <2>. QED
      BY <1>0, <2>2 DEF Z
  <1>4. G = (A \o M) \o Z
    BY DEF Insert
  <1>. HIDE DEF A, M, Z, G
  <1>5. /\ A \o M \in Seq(Frag) /\ Len(A \o M) = k + n
        /\ \A i \in 1..(k + n) : (A \o M)[i] = IF i <= k THEN A[i] ELSE M[i - k]
    BY <1>1, <1>2, ConcatProperties
  <1>6. /\ G \in Seq(Frag) /\ Len(G) = k + n + Len(Z)
        /\ \A i \in 1..(k + n + Len(Z)) : G[i] = IF i <= k + n THEN (A \o M)[i] ELSE Z[i - (k + n)]
    <2>. DEFINE X == A \o M
    <2>1. X \in Seq(Frag) /\ Len(X) = k + n
      BY <1>5
    <2>2. G = X \o Z
      BY <1>4
    <2>. HIDE DEF X
    <2>3. /\ G \in Seq(Frag) /\ Len(G) = Len(X) + Len(Z)
          /\ \A i \in 1..(Len(X) + Len(Z)) : G[i] = IF i <= Len(X) THEN X[i] ELSE Z[i - Len(X)]
      BY <1>3, <2>1, <2>2, ConcatProperties
    <2>. QED
      BY <2>1, <2>3 DEF X
  <1>7. Len(G) = Len(D) + n
    BY <1>0, <1>3, <1>6
  <1>8. ASSUME NEW i \in 1..Len(D) PROVE G[Shift(k, n, i)] = D[i]
    <2>1. CASE i <= k
      <3>1. Shift(k, n, i) = i /\ i \in 1..k
        BY <1>0, <2>1 DEF Shift
      <3>2. i \in 1..(k + n + Len(Z)) /\ i \in 1..(k + n) /\ i <= k + n
        BY <1>0, <1>3, <3>1
      <3>3. G[i] = (A \o M)[i]
        BY <1>6, <3>2
      <3>4. (A \o M)[i] = A[i]
        BY <1>5, <3>2, <2>1
      <3>. QED
        BY <1>1, <3>1, <3>3, <3>4
    <2>2. CASE ~(i <= k)
      <3>1. Shift(k, n, i) = i + n /\ i + n \in 1..(k + n + Len(Z)) /\ ~(i + n <= k + n)
        BY <1>0, <1>3, <2>2 DEF Shift
      <3>2. G[i + n] = Z[i + n - (k + n)]
        BY <1>6, <3>1
      <3>3. i + n - (k + n) = i - k /\ i - k \in 1..(Len(D) - k) /\ k + (i - k) = i
        BY <1>0, <2>2
      <3>4. Z[i - k] = D[k + (i - k)]
        BY <1>3, <3>3
      <3>. QED
        BY <3>1, <3>2, <3>3, <3>4
    <2>. QED
      BY <2>1, <2>2
  <1>9. ASSUME NEW j \in 1..n PROVE G[k + j] = Fragment(ts, j - 1)
    <2>1. k + j \in 1..(k + n + Len(Z)) /\ k + j <= k + n /\ k + j \in 1..(k + n) /\ ~(k + j <= k) /\ k + j - k = j
      BY <1>0, <1>3
    <2>2. G[k + j] = (A \o M)[k + j]
      BY <1>6, <2>1
    <2>3. (A \o M)[k + j] = M[k + j - k]
      <3>. DEFINE X == A \o M
      <3>1. \A i \in 1..(k + n) : X[i] = IF i <= k THEN A[i] ELSE M[i - k]
        BY <1>5
      <3>. HIDE DEF X
      <3>2. X[k + j] = M[k + j - k]
        BY <2>1, <3>1
      <3>. QED
        BY <3>2 DEF X
    <2>. QED
      BY <1>2, <2>1, <2>2, <2>3
  <1>. QED
    BY <1>6, <1>7, <1>8, <1>9 DEF G

LEMMA InsertGrows ==
    ASSUME NEW F \in Seq(Frag), NEW k \in 0..Len(F), NEW ts \in Timestamp, NEW n \in Nat, NEW doomed
    PROVE  Grown(F, Insert(Delete(F, doomed, ts), k, ts, n), k, ts, n, doomed)
  <1>. DEFINE D == Delete(F, doomed, ts)
              G == Insert(D, k, ts, n)
  <1>1. /\ D \in Seq(Frag)
        /\ Len(D) = Len(F)
        /\ \A i \in 1..Len(F) :
              /\ D[i].ts = F[i].ts
              /\ D[i].offset = F[i].offset
              /\ D[i].deletions = F[i].deletions \cup (IF i \in doomed THEN {ts} ELSE {})
              /\ D[i].visible = (F[i].visible /\ i \notin doomed)
    BY DeleteFacts
  <1>. HIDE DEF D
  <1>2. /\ G \in Seq(Frag)
        /\ Len(G) = Len(D) + n
        /\ \A i \in 1..Len(D) : G[Shift(k, n, i)] = D[i]
        /\ \A j \in 1..n : G[k + j] = Fragment(ts, j - 1)
    <2>1. k \in 0..Len(D) /\ D \in Seq(Frag)
      BY <1>1
    <2>. QED
      BY ONLY <2>1, InsertFacts, ts \in Timestamp, n \in Nat
  <1>. HIDE DEF G
  <1>3. ASSUME NEW j \in 1..n
        PROVE  /\ Fragment(ts, j - 1).ts = ts /\ Fragment(ts, j - 1).offset = j - 1
               /\ Fragment(ts, j - 1).deletions = {} /\ Fragment(ts, j - 1).visible = TRUE
    <2>1. j - 1 \in Nat
      OBVIOUS
    <2>. QED
      BY <2>1, FragmentFields
  <1>4. Grown(F, G, k, ts, n, doomed)
    BY <1>1, <1>2, <1>3 DEF Grown
  <1>. QED
    BY <1>4 DEF D, G

LEMMA ShiftFacts ==
    ASSUME NEW len \in Nat, NEW k \in 0..len, NEW n \in Nat
    PROVE  /\ \A i \in 1..len : Shift(k, n, i) \in 1..(len + n)
           /\ \A i, j \in 1..len : i < j <=> Shift(k, n, i) < Shift(k, n, j)
           /\ \A i, j \in 1..len : Shift(k, n, i) = Shift(k, n, j) => i = j
           /\ \A i \in 1..len, m \in 1..n : (Shift(k, n, i) < k + m <=> i <= k) /\ Shift(k, n, i) # k + m
           /\ \A m \in 1..n : k + m \in 1..(len + n)
  <1>1. \A i \in 1..len : Shift(k, n, i) \in 1..(len + n)
    BY DEF Shift
  <1>2. \A i, j \in 1..len : i < j <=> Shift(k, n, i) < Shift(k, n, j)
    BY DEF Shift
  <1>3. \A i, j \in 1..len : Shift(k, n, i) = Shift(k, n, j) => i = j
    BY DEF Shift
  <1>5. \A i \in 1..len, m \in 1..n : (Shift(k, n, i) < k + m <=> i <= k) /\ Shift(k, n, i) # k + m
    BY DEF Shift
  <1>. QED
    BY <1>1, <1>2, <1>3, <1>5

LEMMA ShiftOnto ==
    ASSUME NEW len \in Nat, NEW k \in 0..len, NEW n \in Nat, NEW j \in 1..(len + n)
    PROVE  (\E i \in 1..len : j = Shift(k, n, i)) \/ (\E m \in 1..n : j = k + m)
  <1>1. CASE j <= k
    <2>1. j \in 1..len /\ j = Shift(k, n, j)
      BY <1>1 DEF Shift
    <2>. QED
      BY <2>1
  <1>2. CASE k < j /\ j <= k + n
    <2>1. j - k \in 1..n /\ j = k + (j - k)
      BY <1>2
    <2>. QED
      BY <2>1
  <1>3. CASE k + n < j
    <2>1. j - n \in 1..len /\ j = Shift(k, n, j - n)
      BY <1>3 DEF Shift
    <2>. QED
      BY <2>1
  <1>. QED
    BY <1>1, <1>2, <1>3

\* Characters the version does not know move no offset.
LEMMA GrownBefore ==
    ASSUME NEW F \in Seq(Frag), NEW G, NEW k \in 0..Len(F), NEW ts \in Timestamp, NEW n \in Nat, NEW doomed,
           Grown(F, G, k, ts, n, doomed), NEW v, ~Observed(v, ts), NEW i \in 0..k
    PROVE  FullOffset(G, v, i) = FullOffset(F, v, i)
  <1>a. Len(F) \in Nat
    BY FragFields
  <1>b. \A j \in 1..Len(F) : G[Shift(k, n, j)].ts = F[j].ts
    BY DEF Grown
  <1>1. ASSUME NEW j \in 1..i PROVE G[j].ts = F[j].ts
    <2>1. Shift(k, n, j) = j /\ j \in 1..Len(F)
      BY <1>a DEF Shift
    <2>. QED
      BY <1>b, <2>1
  <1>2. {j \in 1..i : Observed(v, G[j].ts)} = {j \in 1..i : Observed(v, F[j].ts)}
    BY <1>1
  <1>. QED
    BY <1>2 DEF FullOffset

LEMMA GrownWithin ==
    ASSUME NEW F \in Seq(Frag), NEW G, NEW k \in 0..Len(F), NEW ts \in Timestamp, NEW n \in Nat, NEW doomed,
           Grown(F, G, k, ts, n, doomed), NEW v, ~Observed(v, ts), NEW h \in k..(k + n)
    PROVE  FullOffset(G, v, h) = FullOffset(F, v, k)
  <1>a. Len(F) \in Nat
    BY FragFields
  <1>c. \A j \in 1..n : G[k + j].ts = ts
    BY DEF Grown
  <1>1. ASSUME NEW j \in (k + 1)..h PROVE ~Observed(v, G[j].ts)
    <2>1. j - k \in 1..n /\ k + (j - k) = j
      OBVIOUS
    <2>. QED
      BY <1>c, <2>1
  <1>2. k \in Nat /\ h \in Nat /\ k <= h
    OBVIOUS
  <1>3. FullOffset(G, v, h) = FullOffset(G, v, k)
    BY <1>1, <1>2, OffsetFlat
  <1>4. k \in 0..k
    OBVIOUS
  <1>. QED
    BY <1>3, <1>4, GrownBefore

LEMMA GrownAfter ==
    ASSUME NEW F \in Seq(Frag), NEW G, NEW k \in 0..Len(F), NEW ts \in Timestamp, NEW n \in Nat, NEW doomed,
           Grown(F, G, k, ts, n, doomed), NEW v, ~Observed(v, ts), NEW i \in k..Len(F), NEW h, h = i + n
    PROVE  FullOffset(G, v, h) = FullOffset(F, v, i)
  <1>a. Len(F) \in Nat
    BY FragFields
  <1>b. \A j \in 1..Len(F) : G[Shift(k, n, j)].ts = F[j].ts
    BY DEF Grown
  <1>. DEFINE len == Len(F) - k
              S == {d \in Nat : FullOffset(G, v, k + d + n) = FullOffset(F, v, k + d)}
  <1>0. len \in Nat /\ S \in SUBSET Nat
    BY <1>a
  <1>1. 0 \in S
    <2>1. k + n \in k..(k + n) /\ k + 0 + n = k + n /\ k + 0 = k
      OBVIOUS
    <2>2. FullOffset(G, v, k + n) = FullOffset(F, v, k)
      BY GrownWithin, <2>1
    <2>. QED
      BY <2>1, <2>2
  <1>2. ASSUME NEW d \in 0..(len - 1), d \in S PROVE d + 1 \in S
    <2>1. /\ k + d \in Nat /\ k + d + n \in Nat /\ k + d + 1 \in 1..Len(F)
          /\ k + (d + 1) = k + d + 1 /\ k + (d + 1) + n = k + d + n + 1
          /\ Shift(k, n, k + d + 1) = k + d + n + 1
      BY <1>a DEF Shift
    <2>2. FullOffset(F, v, k + d + 1) = FullOffset(F, v, k + d) + (IF Observed(v, F[k + d + 1].ts) THEN 1 ELSE 0)
      BY <2>1, OffsetNext
    <2>3. FullOffset(G, v, k + d + n + 1) = FullOffset(G, v, k + d + n) + (IF Observed(v, G[k + d + n + 1].ts) THEN 1 ELSE 0)
      BY <2>1, OffsetNext
    <2>4. G[k + d + n + 1].ts = F[k + d + 1].ts
      BY <1>b, <2>1
    <2>5. FullOffset(G, v, k + d + n) = FullOffset(F, v, k + d)
      BY <1>2
    <2>6. FullOffset(G, v, k + (d + 1) + n) = FullOffset(F, v, k + (d + 1))
      BY <2>1, <2>2, <2>3, <2>4, <2>5
    <2>. QED
      BY <2>6
  <1>3. \A d \in 0..(len - 1) : d \in S => d + 1 \in S
    BY <1>2
  <1>. HIDE DEF S
  <1>4. 0..len \subseteq S
    BY <1>0, <1>1, <1>3, UpTo
  <1>5. i - k \in 0..len /\ k + (i - k) = i
    BY <1>a
  <1>6. i - k \in S
    BY <1>4, <1>5
  <1>7. FullOffset(G, v, k + (i - k) + n) = FullOffset(F, v, k + (i - k))
    BY <1>6 DEF S
  <1>. QED
    BY <1>5, <1>7

LEMMA GrownAt ==
    ASSUME NEW F \in Seq(Frag), NEW G, NEW k \in 0..Len(F), NEW ts \in Timestamp, NEW n \in Nat, NEW doomed,
           Grown(F, G, k, ts, n, doomed), NEW v, ~Observed(v, ts), NEW i \in 1..Len(F)
    PROVE  /\ FullOffset(G, v, Shift(k, n, i)) = FullOffset(F, v, i)
           /\ FullOffset(G, v, Shift(k, n, i) - 1) = FullOffset(F, v, i - 1)
  <1>a. Len(F) \in Nat
    BY FragFields
  <1>1. CASE i <= k
    <2>1. Shift(k, n, i) = i /\ i \in 0..k /\ i - 1 \in 0..k
      BY <1>1 DEF Shift
    <2>. QED
      BY GrownBefore, <2>1
  <1>2. CASE ~(i <= k)
    <2>1. Shift(k, n, i) = i + n /\ Shift(k, n, i) - 1 = (i - 1) + n /\ i \in k..Len(F) /\ i - 1 \in k..Len(F)
      BY <1>a, <1>2 DEF Shift
    <2>2. FullOffset(G, v, Shift(k, n, i)) = FullOffset(F, v, i)
      BY GrownAfter, <2>1
    <2>3. FullOffset(G, v, Shift(k, n, i) - 1) = FullOffset(F, v, i - 1)
      <3>. DEFINE h == Shift(k, n, i) - 1
                  g == i - 1
      <3>1. g \in k..Len(F) /\ h = g + n
        BY <2>1
      <3>. HIDE DEF h, g
      <3>2. FullOffset(G, v, h) = FullOffset(F, v, g)
        BY GrownAfter, <3>1
      <3>. QED
        BY <3>2 DEF h, g
    <2>. QED
      BY <2>2, <2>3
  <1>. QED
    BY <1>1, <1>2

\* The offset before, and at, a new character.
LEMMA GrownNew ==
    ASSUME NEW F \in Seq(Frag), NEW G, NEW k \in 0..Len(F), NEW ts \in Timestamp, NEW n \in Nat, NEW doomed,
           Grown(F, G, k, ts, n, doomed), NEW v, ~Observed(v, ts), NEW h \in (k + 1)..(k + n)
    PROVE  FullOffset(G, v, h) = FullOffset(F, v, k) /\ FullOffset(G, v, h - 1) = FullOffset(F, v, k)
  <1>1. h \in k..(k + n) /\ h - 1 \in k..(k + n)
    OBVIOUS
  <1>. QED
    BY <1>1, GrownWithin

LEMMA GrownTotal ==
    ASSUME NEW F \in Seq(Frag), NEW G, NEW k \in 0..Len(F), NEW ts \in Timestamp, NEW n \in Nat, NEW doomed,
           Grown(F, G, k, ts, n, doomed), NEW v, ~Observed(v, ts)
    PROVE  FullOffset(G, v, Len(G)) = FullOffset(F, v, Len(F))
  <1>1. Len(G) = Len(F) + n
    BY DEF Grown
  <1>2. Len(F) \in k..Len(F)
    BY FragFields
  <1>. QED
    BY <1>1, <1>2, GrownAfter

-----------------------------------------------------------------------------
(* The inductive invariant.                                                *)

IsEdit(o) == o.kind = "edit"

\* What an undo adds to the undo map.
Entry(o) == [edit |-> o.edit, undo |-> o.ts, count |-> o.count]

\* An operation is one of the variants of crate::Operation, with its fields.
IsOperation(o) ==
    /\ o.kind \in {"edit", "undo"}
    /\ o.ts \in Timestamp
    /\ o.version \in Version
    /\ IsEdit(o) => o.from \in Nat /\ o.to \in Nat /\ o.len \in Nat

\* n is a value a version vector can hold for replica s: nothing, the base
\* text, or an operation of s.
Reached(n, s, O) ==
    \/ n = 0
    \/ BaseLen > 0 /\ s = 0 /\ n = 1
    \/ \E o \in O : o.ts = Stamp(n, s)

\* What the operations themselves say of their causal order.
Causal(O) ==
    /\ IsFiniteSet(O)
    /\ \A o \in O : IsOperation(o)
    /\ \A o, p \in O : o.ts = p.ts => o = p
    /\ \A o, p \in O : o.ts.replica = p.ts.replica /\ o.ts.value < p.ts.value => Observed(p.version, o.ts)
    /\ \A o \in O : \A s \in Replica : o.version[s] < o.ts.value
    /\ \A o, p \in O : Observed(p.version, o.ts) => ObservedAll(p.version, o.version)
    /\ \A o \in O : BaseLen > 0 => o.version[0] >= 1
    /\ \A o \in O : ~IsEdit(o) => \E p \in O : IsEdit(p) /\ p.ts = o.edit /\ Observed(o.version, p.ts)
    /\ \A o \in O : \A s \in Replica : Reached(o.version[s], s, O)

\* The version and the clock of a replica.
Clocked(v, c, O) ==
    /\ v \in Version /\ c \in Nat
    /\ \A s \in Replica : v[s] < c /\ Reached(v[s], s, O)
    /\ BaseLen > 0 => v[0] >= 1
    /\ \A o \in O : Observed(v, o.ts) => ObservedAll(v, o.version)

IsBase(ts, n) == ts = BaseStamp /\ n \in 0..(BaseLen - 1)

\* The characters a replica of version v has: the base text and those of
\* the edits it has observed.
IsChar(ts, n, v, O) ==
    \/ IsBase(ts, n)
    \/ \E o \in O : IsEdit(o) /\ Observed(v, o.ts) /\ ts = o.ts /\ n \in 0..(o.len - 1)

\* No character is there twice.
Distinct(F) == \A i, j \in 1..Len(F) : F[i].ts = F[j].ts /\ F[i].offset = F[j].offset => i = j

\* The fragments are the characters of a version, each once.
Text(F, v, O) ==
    /\ F \in Seq(Frag)
    /\ Distinct(F)
    /\ \A i \in 1..Len(F) : IsChar(F[i].ts, F[i].offset, v, O)
    /\ \A ts, n : IsChar(ts, n, v, O) => \E i \in 1..Len(F) : F[i].ts = ts /\ F[i].offset = n

\* Fragment i is at or after the start of the range of edit o.
Past(F, o, i) == o.from <= FullOffset(F, o.version, i - 1)

\* The characters of edit o stand past its start, in their order, and of those
\* past its start only younger insertions come before them.
Placed(F, o) ==
    \A i \in 1..Len(F) : F[i].ts = o.ts =>
        /\ Past(F, o, i)
        /\ \A j \in 1..Len(F) : j < i /\ Past(F, o, j) =>
              \/ After(F[j].ts, o.ts)
              \/ F[j].ts = o.ts /\ F[j].offset < F[i].offset

\* So does every edit the replica has observed.
AllPlaced(F, v, O) == \A o \in O : IsEdit(o) /\ Observed(v, o.ts) => Placed(F, o)

\* Fragment i is one of those edit o deletes.
Doomed(F, o, U, i) ==
    /\ FullOffset(F, o.version, i) \in (o.from + 1)..o.to
    /\ was_visible(F[i], o.version, U)

\* A fragment is marked with exactly the observed edits that delete it.
Deleted(F, v, U, O) ==
    \A i \in 1..Len(F) :
        /\ \A d \in F[i].deletions : \E o \in O : IsEdit(o) /\ Observed(v, o.ts) /\ o.ts = d
        /\ \A o \in O : IsEdit(o) /\ Observed(v, o.ts) =>
              (o.ts \in F[i].deletions <=> Doomed(F, o, U, i))

\* The undo map holds the observed undos.
Undos(U, v, O) == U = {Entry(o) : o \in {p \in O : ~IsEdit(p) /\ Observed(v, p.ts)}}

\* The visible flags are up to date.
Shows(F, U) == \A i \in 1..Len(F) : F[i].visible <=> is_visible(F[i], U)

\* The buffer of a replica is what the operations it observed make of it.
Replicated(b, O) ==
    /\ Clocked(b.version, b.clock, O)
    /\ Text(b.fragments, b.version, O)
    /\ AllPlaced(b.fragments, b.version, O)
    /\ Deleted(b.fragments, b.version, b.undo_map, O)
    /\ Undos(b.undo_map, b.version, O)
    /\ Shows(b.fragments, b.undo_map)

\* Fragment i of F and fragment k of H are the same character.
Same(F, i, H, k) == F[i].ts = H[k].ts /\ F[i].offset = H[k].offset

\* Two replicas agree on the order of the characters they share.
Agree(F, H) ==
    \A i, j \in 1..Len(F), k, l \in 1..Len(H) :
        Same(F, i, H, k) /\ Same(F, j, H, l) => (i < j <=> k < l)

\* Of the edits both have observed, they agree on what was deleted.
SameDeletions(F, v, H, w, O) ==
    \A i \in 1..Len(F), k \in 1..Len(H) : Same(F, i, H, k) =>
        \A o \in O : Observed(v, o.ts) /\ Observed(w, o.ts) =>
            (o.ts \in F[i].deletions <=> o.ts \in H[k].deletions)

\* A replica has what edit o starts at.
Anchors(b, o) ==
    /\ ObservedAll(b.version, o.version)
    /\ o.from <= FullOffset(b.fragments, o.version, Len(b.fragments))

\* The start of an edit lies in the text its author knew.
Anchored(B, O) == \A o \in O : IsEdit(o) => \E q \in Replica : Anchors(B[q], o)

\* A replica has something that edit o deletes.
Marks(b, o) ==
    /\ ObservedAll(b.version, o.version)
    /\ \E i \in 1..Len(b.fragments) : Doomed(b.fragments, o, b.undo_map, i)

\* An edit of a non-empty range deletes something.
Marked(B, O) == \A o \in O : IsEdit(o) /\ o.from < o.to => \E q \in Replica : Marks(B[q], o)

\* A buffer is a record of its five fields.
IsBuffer(b) ==
    b = [fragments |-> b.fragments, version |-> b.version, clock |-> b.clock,
         undo_map |-> b.undo_map, deferred_ops |-> b.deferred_ops]

\* The replicas B hold the operations O and agree with each other.
Agreed(B, O) ==
    /\ Causal(O)
    /\ B = [r \in Replica |-> B[r]]
    /\ \A r \in Replica : IsBuffer(B[r]) /\ Replicated(B[r], O)
    /\ \A r, q \in Replica :
          /\ Agree(B[r].fragments, B[q].fragments)
          /\ SameDeletions(B[r].fragments, B[r].version, B[q].fragments, B[q].version, O)
    /\ Anchored(B, O) /\ Marked(B, O)

-----------------------------------------------------------------------------
(* The same characters of two replicas.                                    *)

LEMMA BaseIsTimestamp == BaseStamp \in Timestamp /\ BaseStamp.value = 1 /\ BaseStamp.replica = 0
  BY ReplicaAssumption, TimestampFields DEF BaseStamp

LEMMA CharIsObserved ==
    ASSUME NEW O, NEW v, NEW c, Clocked(v, c, O), NEW ts, NEW n, IsChar(ts, n, v, O)
    PROVE  Observed(v, ts)
  <1>1. CASE IsBase(ts, n)
    <2>1. BaseLen > 0
      BY <1>1, BoundAssumption DEF IsBase
    <2>2. v[0] >= 1
      BY <2>1 DEF Clocked
    <2>. QED
      BY <1>1, <2>2, BaseIsTimestamp DEF IsBase, Observed
  <1>2. CASE ~IsBase(ts, n)
    BY <1>2 DEF IsChar
  <1>. QED
    BY <1>1, <1>2

LEMMA CharOfOther ==
    ASSUME NEW O, NEW v, NEW w, NEW ts, NEW n, IsChar(ts, n, v, O), Observed(w, ts)
    PROVE  IsChar(ts, n, w, O)
  BY DEF IsChar

\* The characters among the first i that version x knows.
Seen(F, x, i) == {<<F[j].ts, F[j].offset>> : j \in {h \in 1..i : Observed(x, F[h].ts)}}

\* An offset is the number of characters counted up to there.
LEMMA SeenCount ==
    ASSUME NEW F \in Seq(Frag), Distinct(F), NEW x, NEW i \in 0..Len(F)
    PROVE  FullOffset(F, x, i) = Cardinality(Seen(F, x, i))
  <1>. DEFINE I == {h \in 1..i : Observed(x, F[h].ts)}
              f == [j \in I |-> <<F[j].ts, F[j].offset>>]
  <1>0. Len(F) \in Nat
    BY FragFields
  <1>1. IsFiniteSet(I)
    <2>1. IsFiniteSet(1..i) /\ I \in SUBSET (1..i)
      BY FS_Interval
    <2>. QED
      BY <2>1, FS_Subset
  <1>2. f \in Bijection(I, Seen(F, x, i))
    <2>1. f \in Surjection(I, Seen(F, x, i))
      BY DEF Surjection, Seen
    <2>2. ASSUME NEW a \in I, NEW b \in I, f[a] = f[b] PROVE a = b
      <3>1. F[a].ts = F[b].ts /\ F[a].offset = F[b].offset
        BY <2>2
      <3>2. a \in 1..Len(F) /\ b \in 1..Len(F)
        BY <1>0
      <3>. QED
        BY <3>1, <3>2 DEF Distinct
    <2>3. f \in Injection(I, Seen(F, x, i))
      BY <2>1, <2>2 DEF Surjection, Injection, IsInjective
    <2>. QED
      BY <2>1, <2>3 DEF Bijection
  <1>3. ExistsBijection(I, Seen(F, x, i))
    BY <1>2 DEF ExistsBijection
  <1>. HIDE DEF I
  <1>4. Cardinality(Seen(F, x, i)) = Cardinality(I)
    BY <1>1, <1>3, FS_Bijection
  <1>. QED
    BY <1>4 DEF FullOffset, I

LEMMA AgreeBack ==
    ASSUME NEW F, NEW H, Agree(F, H)
    PROVE  Agree(H, F)
  <1>. SUFFICES ASSUME NEW i \in 1..Len(H), NEW j \in 1..Len(H), NEW k \in 1..Len(F), NEW l \in 1..Len(F),
                       Same(H, i, F, k), Same(H, j, F, l)
                PROVE  i < j <=> k < l
    BY DEF Agree
  <1>1. Same(F, k, H, i) /\ Same(F, l, H, j)
    BY DEF Same
  <1>. QED
    BY <1>1 DEF Agree

LEMMA TextFields ==
    ASSUME NEW F, NEW v, NEW O, Text(F, v, O)
    PROVE  /\ F \in Seq(Frag) /\ Distinct(F)
           /\ Len(F) \in Nat /\ DOMAIN F = 1..Len(F)
           /\ \A i \in 1..Len(F) : F[i].ts \in Timestamp /\ F[i].offset \in Nat
           /\ \A i \in 1..Len(F) : IsChar(F[i].ts, F[i].offset, v, O)
  BY FragFields DEF Text

\* A character whose insertion another replica has observed is there too.
LEMMA InOther ==
    ASSUME NEW O, NEW v, NEW w, NEW F, NEW H, Text(F, v, O), Text(H, w, O),
           NEW i \in 1..Len(F), Observed(w, F[i].ts)
    PROVE  \E k \in 1..Len(H) : Same(F, i, H, k)
  <1>1. IsChar(F[i].ts, F[i].offset, v, O)
    BY DEF Text
  <1>2. IsChar(F[i].ts, F[i].offset, w, O)
    BY <1>1, CharOfOther
  <1>3. \E k \in 1..Len(H) : H[k].ts = F[i].ts /\ H[k].offset = F[i].offset
    <2>1. \A ts, n : IsChar(ts, n, w, O) => \E k \in 1..Len(H) : H[k].ts = ts /\ H[k].offset = n
      BY DEF Text
    <2>. QED
      BY <1>2, <2>1
  <1>. QED
    BY <1>3 DEF Same

LEMMA SeenIncluded ==
    ASSUME NEW O, NEW v, NEW w \in Version, NEW F, NEW H, Text(F, v, O), Text(H, w, O), Agree(F, H),
           NEW x \in Version, ObservedAll(w, x),
           NEW i \in 1..Len(F), NEW k \in 1..Len(H), Same(F, i, H, k)
    PROVE  Seen(F, x, i) \subseteq Seen(H, x, k)
  <1>. SUFFICES ASSUME NEW j \in 1..i, Observed(x, F[j].ts)
                PROVE  <<F[j].ts, F[j].offset>> \in Seen(H, x, k)
    BY DEF Seen
  <1>0. /\ Len(F) \in Nat /\ Len(H) \in Nat /\ Distinct(H) /\ j \in 1..Len(F)
        /\ F[j].ts \in Timestamp
    BY TextFields
  <1>1. Observed(w, F[j].ts)
    BY <1>0, ObservedThrough
  <1>2. PICK l \in 1..Len(H) : Same(F, j, H, l)
    BY <1>0, <1>1, InOther
  <1>3. l <= k
    <2>1. CASE j = i
      <3>1. H[l].ts = H[k].ts /\ H[l].offset = H[k].offset
        BY <1>2, <2>1 DEF Same
      <3>2. l = k
        BY <1>0, <3>1 DEF Distinct
      <3>. QED
        BY <1>0, <3>2
    <2>2. CASE j # i
      <3>1. j < i
        BY <1>0, <2>2
      <3>2. l < k
        BY <1>0, <1>2, <3>1 DEF Agree
      <3>. QED
        BY <1>0, <3>2
    <2>. QED
      BY <2>1, <2>2
  <1>4. l \in 1..k /\ Observed(x, H[l].ts) /\ <<F[j].ts, F[j].offset>> = <<H[l].ts, H[l].offset>>
    BY <1>0, <1>2, <1>3 DEF Same
  <1>. QED
    BY <1>4 DEF Seen

\* An offset of a version that both replicas have observed is the same place
\* in both.
LEMMA SharedOffset ==
    ASSUME NEW O, NEW v \in Version, NEW w \in Version, NEW F, NEW H, Text(F, v, O), Text(H, w, O), Agree(F, H),
           NEW x \in Version, ObservedAll(v, x), ObservedAll(w, x),
           NEW i \in 1..Len(F), NEW k \in 1..Len(H), Same(F, i, H, k)
    PROVE  /\ FullOffset(F, x, i) = FullOffset(H, x, k)
           /\ FullOffset(F, x, i - 1) = FullOffset(H, x, k - 1)
  <1>0. /\ F \in Seq(Frag) /\ Distinct(F) /\ H \in Seq(Frag) /\ Distinct(H)
        /\ Len(F) \in Nat /\ Len(H) \in Nat
    BY TextFields
  <1>1. Seen(F, x, i) \subseteq Seen(H, x, k)
    BY SeenIncluded
  <1>2. Seen(H, x, k) \subseteq Seen(F, x, i)
    <2>1. Agree(H, F) /\ Same(H, k, F, i)
      BY AgreeBack DEF Same
    <2>. QED
      BY <2>1, SeenIncluded
  <1>3. FullOffset(F, x, i) = Cardinality(Seen(F, x, i)) /\ FullOffset(H, x, k) = Cardinality(Seen(H, x, k))
    <2>1. i \in 0..Len(F) /\ k \in 0..Len(H)
      BY <1>0
    <2>. QED
      BY <1>0, <2>1, SeenCount
  <1>4. FullOffset(F, x, i) = FullOffset(H, x, k)
    <2>1. Seen(F, x, i) = Seen(H, x, k)
      BY <1>1, <1>2
    <2>. QED
      BY <1>3, <2>1
  <1>a. i \in Nat /\ i # 0 /\ k \in Nat /\ k # 0
    BY <1>0
  <1>5. /\ FullOffset(F, x, i - 1) \in Nat
        /\ Observed(x, F[i].ts) => FullOffset(F, x, i) = FullOffset(F, x, i - 1) + 1
        /\ ~Observed(x, F[i].ts) => FullOffset(F, x, i) = FullOffset(F, x, i - 1)
    BY <1>0, <1>a, OffsetAt
  <1>6. /\ FullOffset(H, x, k - 1) \in Nat
        /\ Observed(x, H[k].ts) => FullOffset(H, x, k) = FullOffset(H, x, k - 1) + 1
        /\ ~Observed(x, H[k].ts) => FullOffset(H, x, k) = FullOffset(H, x, k - 1)
    BY <1>0, <1>a, OffsetAt
  <1>7. F[i].ts = H[k].ts
    BY DEF Same
  <1>8. CASE Observed(x, F[i].ts)
    <2>1. FullOffset(F, x, i) = FullOffset(F, x, i - 1) + 1 /\ FullOffset(H, x, k) = FullOffset(H, x, k - 1) + 1
      BY <1>5, <1>6, <1>7, <1>8
    <2>. QED
      <3>. DEFINE a == FullOffset(F, x, i - 1)
                  b == FullOffset(H, x, k - 1)
      <3>1. a \in Nat /\ b \in Nat /\ a + 1 = b + 1
        BY <1>4, <1>5, <1>6, <2>1
      <3>. HIDE DEF a, b
      <3>2. a = b
        BY <3>1
      <3>. QED
        BY <1>4, <3>2 DEF a, b
  <1>9. CASE ~Observed(x, F[i].ts)
    <2>1. FullOffset(F, x, i) = FullOffset(F, x, i - 1) /\ FullOffset(H, x, k) = FullOffset(H, x, k - 1)
      BY <1>5, <1>6, <1>7, <1>9
    <2>. QED
      BY <1>4, <2>1
  <1>. QED
    BY <1>8, <1>9

LEMMA AllSeenIncluded ==
    ASSUME NEW O, NEW v, NEW w \in Version, NEW F, NEW H, Text(F, v, O), Text(H, w, O),
           NEW x \in Version, ObservedAll(w, x)
    PROVE  Seen(F, x, Len(F)) \subseteq Seen(H, x, Len(H))
  <1>. SUFFICES ASSUME NEW j \in 1..Len(F), Observed(x, F[j].ts)
                PROVE  <<F[j].ts, F[j].offset>> \in Seen(H, x, Len(H))
    BY DEF Seen
  <1>0. F[j].ts \in Timestamp
    BY TextFields
  <1>1. Observed(w, F[j].ts)
    BY <1>0, ObservedThrough
  <1>2. PICK l \in 1..Len(H) : Same(F, j, H, l)
    BY <1>1, InOther
  <1>3. Observed(x, H[l].ts) /\ <<F[j].ts, F[j].offset>> = <<H[l].ts, H[l].offset>>
    BY <1>2 DEF Same
  <1>. QED
    BY <1>3 DEF Seen

LEMMA SharedTotal ==
    ASSUME NEW O, NEW v \in Version, NEW w \in Version, NEW F, NEW H, Text(F, v, O), Text(H, w, O),
           NEW x \in Version, ObservedAll(v, x), ObservedAll(w, x)
    PROVE  FullOffset(F, x, Len(F)) = FullOffset(H, x, Len(H))
  <1>0. /\ F \in Seq(Frag) /\ Distinct(F) /\ H \in Seq(Frag) /\ Distinct(H)
        /\ Len(F) \in Nat /\ Len(H) \in Nat
    BY TextFields
  <1>1. Seen(F, x, Len(F)) \subseteq Seen(H, x, Len(H)) /\ Seen(H, x, Len(H)) \subseteq Seen(F, x, Len(F))
    BY AllSeenIncluded
  <1>2. Seen(F, x, Len(F)) = Seen(H, x, Len(H))
    BY <1>1
  <1>3. Len(F) \in 0..Len(F) /\ Len(H) \in 0..Len(H)
    BY <1>0
  <1>4. FullOffset(F, x, Len(F)) = Cardinality(Seen(F, x, Len(F)))
    BY <1>0, <1>3, SeenCount
  <1>5. FullOffset(H, x, Len(H)) = Cardinality(Seen(H, x, Len(H)))
    BY <1>0, <1>3, SeenCount
  <1>. QED
    BY <1>2, <1>4, <1>5

-----------------------------------------------------------------------------
(* Where an edit is inserted.                                              *)

\* After the first k fragments is where apply_remote_edit inserts edit e.
Lands(F, e, k) ==
    /\ k \in 0..Len(F)
    /\ e.from <= FullOffset(F, e.version, k)
    /\ \A i \in 1..Len(F) : k < i => Past(F, e, i)
    /\ \A i \in 1..Len(F) : i <= k /\ Past(F, e, i) => After(F[i].ts, e.ts)
    /\ k < Len(F) => ~After(F[k + 1].ts, e.ts)

LEMMA StartIs ==
    ASSUME NEW b, b.fragments \in Seq(Frag), NEW e, e.from \in Nat,
           e.from <= FullOffset(b.fragments, e.version, Len(b.fragments))
    PROVE  /\ ObservedStart(b, e) \in 0..Len(b.fragments)
           /\ \A i \in 1..Len(b.fragments) : Past(b.fragments, e, i) <=> ObservedStart(b, e) < i
           /\ FullOffset(b.fragments, e.version, ObservedStart(b, e)) = e.from
  <1>. DEFINE F == b.fragments
              I == {i \in 0..Len(F) : FullOffset(F, e.version, i) = e.from}
              s == ObservedStart(b, e)
  <1>0. Len(F) \in Nat
    BY FragFields
  <1>1. I \in SUBSET Nat /\ I # {}
    <2>1. FullOffset(F, e.version, Len(F)) = Count(Known(F, e.version), Len(F))
      BY <1>0, OffsetIsCount
    <2>2. \E i \in 0..Len(F) : Count(Known(F, e.version), i) = e.from
      BY <1>0, <2>1, CountReaches
    <2>3. PICK i \in 0..Len(F) : Count(Known(F, e.version), i) = e.from
      BY <2>2
    <2>4. i \in Nat /\ FullOffset(F, e.version, i) = Count(Known(F, e.version), i)
      BY OffsetIsCount
    <2>5. i \in I
      BY <2>3, <2>4
    <2>. QED
      BY <2>5
  <1>2. Min(I) \in I /\ \A k \in I : Min(I) <= k
    BY <1>1, LeastOf
  <1>3. s = Min(I)
    BY DEF ObservedStart
  <1>. HIDE DEF s
  <1>4. s \in 0..Len(F) /\ FullOffset(F, e.version, s) = e.from
    BY <1>2, <1>3
  <1>5. ASSUME NEW i \in 1..Len(F) PROVE Past(F, e, i) <=> s < i
    <2>1. i - 1 \in Nat /\ s \in Nat
      BY <1>4
    <2>2. FullOffset(F, e.version, i - 1) \in Nat
      BY <2>1, OffsetType
    <2>3. CASE s < i
      <3>1. s <= i - 1
        BY <2>1, <2>3
      <3>2. FullOffset(F, e.version, s) <= FullOffset(F, e.version, i - 1)
        BY <2>1, <3>1, OffsetMonotone
      <3>. QED
        BY <1>4, <2>3, <3>2 DEF Past
    <2>4. CASE ~(s < i)
      <3>1. i - 1 <= s /\ i - 1 < s /\ i - 1 \in 0..Len(F)
        BY <1>0, <2>1, <2>4
      <3>2. FullOffset(F, e.version, i - 1) <= FullOffset(F, e.version, s)
        BY <2>1, <3>1, OffsetMonotone
      <3>3. i - 1 \notin I
        BY <1>2, <1>3, <2>1, <3>1
      <3>4. FullOffset(F, e.version, i - 1) # e.from
        BY <3>1, <3>3
      <3>5. FullOffset(F, e.version, i - 1) < e.from
        BY <1>4, <2>2, <3>2, <3>4
      <3>6. ~Past(F, e, i)
        BY <2>2, <3>5 DEF Past
      <3>. QED
        BY <2>4, <3>6
    <2>. QED
      BY <2>3, <2>4
  <1>. QED
    BY <1>4, <1>5 DEF s

\* InsertionPoint is that place.
LEMMA PointLands ==
    ASSUME NEW b, b.fragments \in Seq(Frag), NEW e, e.from \in Nat,
           e.from <= FullOffset(b.fragments, e.version, Len(b.fragments))
    PROVE  Lands(b.fragments, e, InsertionPoint(b, e))
  <1>. DEFINE F == b.fragments
              s == ObservedStart(b, e)
              K == {k \in s..Len(F) : \A i \in (s + 1)..k : After(F[i].ts, e.ts)}
              p == InsertionPoint(b, e)
  <1>0. Len(F) \in Nat
    BY FragFields
  <1>1. s \in 0..Len(F) /\ (\A i \in 1..Len(F) : Past(F, e, i) <=> s < i) /\ FullOffset(F, e.version, s) = e.from
    BY StartIs
  <1>2. p = Max(K)
    BY DEF InsertionPoint
  <1>. HIDE DEF s, p
  <1>3. K \in SUBSET Nat /\ s \in K /\ \A k \in K : k <= Len(F)
    BY <1>0, <1>1
  <1>4. Max(K) \in K /\ \A k \in K : k <= Max(K)
    <2>. HIDE DEF K
    <2>. QED
      BY <1>0, <1>3, GreatestOf
  <1>5. p \in s..Len(F) /\ (\A i \in (s + 1)..p : After(F[i].ts, e.ts)) /\ \A k \in K : k <= p
    BY <1>2, <1>4
  <1>6. e.from <= FullOffset(F, e.version, p)
    <2>1. s \in Nat /\ p \in Nat /\ s <= p
      BY <1>0, <1>1, <1>5
    <2>2. FullOffset(F, e.version, s) <= FullOffset(F, e.version, p)
      BY <2>1, OffsetMonotone
    <2>. QED
      BY <1>1, <2>2
  <1>7. ASSUME NEW i \in 1..Len(F), i <= p, Past(F, e, i) PROVE After(F[i].ts, e.ts)
    <2>1. s < i
      BY <1>1, <1>7
    <2>2. i \in (s + 1)..p
      BY <1>0, <1>1, <1>5, <1>7, <2>1
    <2>. QED
      BY <1>5, <2>2
  <1>8. ASSUME p < Len(F), After(F[p + 1].ts, e.ts) PROVE FALSE
    <2>1. p + 1 \in s..Len(F) /\ p + 1 \in Nat /\ p \in Nat /\ s \in Nat
      BY <1>0, <1>1, <1>5, <1>8
    <2>2. ASSUME NEW i \in (s + 1)..(p + 1) PROVE After(F[i].ts, e.ts)
      <3>1. i = p + 1 \/ i \in (s + 1)..p
        BY <2>1
      <3>. QED
        BY <1>5, <1>8, <3>1
    <2>3. p + 1 \in K
      BY <2>1, <2>2
    <2>4. p + 1 <= p
      BY <1>5, <2>3
    <2>. QED
      BY <2>1, <2>4
  <1>9. ASSUME NEW i \in 1..Len(F), p < i PROVE Past(F, e, i)
    <2>1. s < i
      BY <1>0, <1>1, <1>5, <1>9
    <2>. QED
      BY <1>1, <2>1
  <1>10. p \in 0..Len(F)
    BY <1>0, <1>1, <1>5
  <1>11. Lands(F, e, p)
    BY <1>6, <1>7, <1>8, <1>9, <1>10 DEF Lands
  <1>. QED
    BY <1>11 DEF p

-----------------------------------------------------------------------------
(* Versions.                                                               *)

LEMMA OpFields ==
    ASSUME NEW O, Causal(O), NEW o \in O
    PROVE  /\ o.ts \in Timestamp /\ o.ts.value \in Nat /\ o.ts.replica \in Replica
           /\ o.version \in Version /\ \A s \in Replica : o.version[s] \in Nat
           /\ IsEdit(o) => o.from \in Nat /\ o.to \in Nat /\ o.len \in Nat
  <1>1. IsOperation(o)
    BY DEF Causal
  <1>2. o.ts \in Timestamp /\ o.version \in Version /\ (IsEdit(o) => o.from \in Nat /\ o.to \in Nat /\ o.len \in Nat)
    BY <1>1 DEF IsOperation
  <1>. QED
    BY <1>2, TimestampFields DEF Version

\* No operation observed itself.
LEMMA NotItself ==
    ASSUME NEW O, Causal(O), NEW o \in O
    PROVE  ~Observed(o.version, o.ts)
  <1>1. o.ts.replica \in Replica /\ o.ts.value \in Nat /\ o.version[o.ts.replica] \in Nat
    BY OpFields
  <1>2. o.version[o.ts.replica] < o.ts.value
    BY <1>1 DEF Causal
  <1>. QED
    BY <1>1, <1>2 DEF Observed

\* What a replica has observed did not know what it has not.
LEMMA NotYetKnown ==
    ASSUME NEW O, Causal(O), NEW v, NEW c, Clocked(v, c, O), NEW e \in O, ~Observed(v, e.ts),
           NEW o \in O, Observed(v, o.ts)
    PROVE  ~Observed(o.version, e.ts)
  <1>1. o.version \in Version /\ e.ts \in Timestamp
    BY OpFields
  <1>2. v \in Version /\ ObservedAll(v, o.version)
    BY DEF Clocked
  <1>. QED
    BY <1>1, <1>2, ObservedThrough

\* The base text is older than every operation.
LEMMA BaseIsOld ==
    ASSUME NEW O, Causal(O), NEW e \in O, BaseLen > 0
    PROVE  BaseStamp # e.ts /\ ~After(BaseStamp, e.ts)
  <1>1. e.ts.value \in Nat /\ e.version[0] \in Nat /\ 0 \in Replica
    BY OpFields, ReplicaAssumption
  <1>2. e.version[0] >= 1 /\ e.version[0] < e.ts.value
    BY <1>1 DEF Causal
  <1>3. e.ts.value > 1
    BY <1>1, <1>2
  <1>4. BaseStamp.value = 1
    BY BaseIsTimestamp
  <1>. QED
    BY <1>1, <1>3, <1>4 DEF After

LEMMA ObserveType ==
    ASSUME NEW v \in Version, NEW ts \in Timestamp
    PROVE  /\ Observe(v, ts) \in Version
           /\ Observe(v, ts)[ts.replica] = IF v[ts.replica] > ts.value THEN v[ts.replica] ELSE ts.value
           /\ \A s \in Replica : s # ts.replica => Observe(v, ts)[s] = v[s]
           /\ \A s \in Replica : v[s] \in Nat /\ Observe(v, ts)[s] \in Nat /\ Observe(v, ts)[s] >= v[s]
  <1>1. ts.replica \in Replica /\ ts.value \in Nat
    BY TimestampFields
  <1>2. v \in [Replica -> Nat]
    BY DEF Version
  <1>3. Observe(v, ts) = [v EXCEPT ![ts.replica] = IF v[ts.replica] > ts.value THEN v[ts.replica] ELSE ts.value]
    BY DEF Observe
  <1>4. (IF v[ts.replica] > ts.value THEN v[ts.replica] ELSE ts.value) \in Nat
    BY <1>1, <1>2
  <1>5. Observe(v, ts) \in [Replica -> Nat]
    BY <1>1, <1>2, <1>3, <1>4
  <1>6. Observe(v, ts)[ts.replica] = IF v[ts.replica] > ts.value THEN v[ts.replica] ELSE ts.value
    BY <1>1, <1>2, <1>3
  <1>7. \A s \in Replica : s # ts.replica => Observe(v, ts)[s] = v[s]
    BY <1>1, <1>2, <1>3
  <1>8. ASSUME NEW s \in Replica PROVE v[s] \in Nat /\ Observe(v, ts)[s] \in Nat /\ Observe(v, ts)[s] >= v[s]
    <2>1. v[s] \in Nat /\ Observe(v, ts)[s] \in Nat
      BY <1>2, <1>5
    <2>2. CASE s = ts.replica
      BY <1>1, <1>6, <2>1, <2>2
    <2>3. CASE s # ts.replica
      BY <1>7, <2>1, <2>3
    <2>. QED
      BY <2>1, <2>2, <2>3
  <1>. QED
    BY <1>5, <1>6, <1>7, <1>8 DEF Version

\* Applying a ready operation makes it, and nothing else, observed.
LEMMA ObserveOne ==
    ASSUME NEW O, Causal(O), NEW v, NEW c, Clocked(v, c, O), NEW e \in O, ObservedAll(v, e.version)
    PROVE  \A o \in O : Observed(Observe(v, e.ts), o.ts) <=> Observed(v, o.ts) \/ o = e
  <1>. SUFFICES ASSUME NEW o \in O
                PROVE  Observed(Observe(v, e.ts), o.ts) <=> Observed(v, o.ts) \/ o = e
    OBVIOUS
  <1>. DEFINE w == Observe(v, e.ts)
  <1>1. /\ e.ts \in Timestamp /\ e.ts.value \in Nat /\ e.ts.replica \in Replica /\ e.version \in Version
        /\ o.ts \in Timestamp /\ o.ts.value \in Nat /\ o.ts.replica \in Replica
    BY OpFields
  <1>2. v \in Version
    BY DEF Clocked
  <1>3. /\ w[e.ts.replica] = IF v[e.ts.replica] > e.ts.value THEN v[e.ts.replica] ELSE e.ts.value
        /\ \A s \in Replica : s # e.ts.replica => w[s] = v[s]
        /\ \A s \in Replica : v[s] \in Nat /\ w[s] \in Nat /\ w[s] >= v[s]
    BY <1>1, <1>2, ObserveType
  <1>. HIDE DEF w
  <1>4. ASSUME Observed(v, o.ts) PROVE Observed(w, o.ts)
    BY <1>1, <1>3, <1>4 DEF Observed
  <1>5. ASSUME o = e PROVE Observed(w, o.ts)
    BY <1>1, <1>3, <1>5 DEF Observed
  <1>6. ASSUME Observed(w, o.ts), ~Observed(v, o.ts), o # e PROVE FALSE
    <2>1. o.ts.replica = e.ts.replica
      BY <1>1, <1>3, <1>6 DEF Observed
    <2>2. o.ts.value <= e.ts.value
      BY <1>1, <1>3, <1>6, <2>1 DEF Observed
    <2>3. o.ts # e.ts
      BY <1>6 DEF Causal
    <2>4. o.ts.value < e.ts.value
      BY <1>1, <2>1, <2>2, <2>3, TimestampFields
    <2>5. Observed(e.version, o.ts)
      BY <2>1, <2>4 DEF Causal
    <2>6. Observed(v, o.ts)
      BY <1>1, <1>2, <2>5, ObservedThrough
    <2>. QED
      BY <1>6, <2>6
  <1>7. Observed(w, o.ts) <=> Observed(v, o.ts) \/ o = e
    BY <1>4, <1>5, <1>6
  <1>. QED
    BY <1>7 DEF w

LEMMA AdvanceType ==
    ASSUME NEW c \in Nat, NEW ts \in Timestamp
    PROVE  Advance(c, ts) \in Nat /\ Advance(c, ts) > c /\ Advance(c, ts) > ts.value
  <1>1. ts.value \in Nat
    BY TimestampFields
  <1>. QED
    BY <1>1 DEF Advance

LEMMA ClockedNext ==
    ASSUME NEW O, Causal(O), NEW v, NEW c, Clocked(v, c, O), NEW e \in O, ObservedAll(v, e.version)
    PROVE  Clocked(Observe(v, e.ts), Advance(c, e.ts), O)
  <1>. DEFINE w == Observe(v, e.ts)
              d == Advance(c, e.ts)
  <1>1. /\ e.ts \in Timestamp /\ e.ts.value \in Nat /\ e.ts.replica \in Replica /\ e.version \in Version
        /\ e.ts = Stamp(e.ts.value, e.ts.replica)
    BY OpFields, TimestampFields
  <1>2. v \in Version /\ c \in Nat
    BY DEF Clocked
  <1>3. /\ w \in Version
        /\ w[e.ts.replica] = IF v[e.ts.replica] > e.ts.value THEN v[e.ts.replica] ELSE e.ts.value
        /\ \A s \in Replica : s # e.ts.replica => w[s] = v[s]
        /\ \A s \in Replica : v[s] \in Nat /\ w[s] \in Nat /\ w[s] >= v[s]
    BY <1>1, <1>2, ObserveType
  <1>4. d \in Nat /\ d > c /\ d > e.ts.value
    BY <1>1, <1>2, AdvanceType
  <1>5. \A o \in O : Observed(w, o.ts) <=> Observed(v, o.ts) \/ o = e
    BY ObserveOne
  <1>. HIDE DEF w, d
  <1>6. ASSUME NEW s \in Replica PROVE w[s] < d /\ Reached(w[s], s, O)
    <2>1. v[s] < c /\ Reached(v[s], s, O)
      BY DEF Clocked
    <2>2. w[s] = v[s] \/ (s = e.ts.replica /\ w[s] = e.ts.value)
      BY <1>3
    <2>3. CASE w[s] = v[s]
      BY <1>2, <1>3, <1>4, <2>1, <2>3
    <2>4. CASE s = e.ts.replica /\ w[s] = e.ts.value
      <3>1. Reached(w[s], s, O)
        BY <1>1, <2>4 DEF Reached
      <3>. QED
        BY <1>4, <2>4, <3>1
    <2>. QED
      BY <2>2, <2>3, <2>4
  <1>7. BaseLen > 0 => w[0] >= 1
    <2>1. BaseLen > 0 => v[0] >= 1
      BY DEF Clocked
    <2>2. w[0] >= v[0] /\ w[0] \in Nat /\ v[0] \in Nat
      BY <1>3, ReplicaAssumption
    <2>. QED
      BY <2>1, <2>2
  <1>8. ASSUME NEW o \in O, Observed(w, o.ts) PROVE ObservedAll(w, o.version)
    <2>1. ObservedAll(v, o.version)
      BY <1>5, <1>8 DEF Clocked
    <2>2. \A s \in Replica : o.version[s] \in Nat
      BY OpFields
    <2>3. ASSUME NEW s \in Replica PROVE w[s] >= o.version[s]
      <3>1. v[s] >= o.version[s]
        BY <2>1 DEF ObservedAll
      <3>. QED
        BY <1>3, <2>2, <3>1
    <2>. QED
      BY <2>3 DEF ObservedAll
  <1>9. Clocked(w, d, O)
    BY <1>3, <1>4, <1>6, <1>7, <1>8 DEF Clocked
  <1>. QED
    BY <1>9 DEF w, d

-----------------------------------------------------------------------------
(* One edit applied.                                                       *)

\* Edit e, ready and not yet observed, turns the fragments F of a replica
\* of version v into G.
Editing(O, e, v, c, F, G, k, doomed) ==
    /\ Causal(O)
    /\ e \in O /\ IsEdit(e)
    /\ Clocked(v, c, O)
    /\ ~Observed(v, e.ts)
    /\ ObservedAll(v, e.version)
    /\ Text(F, v, O)
    /\ AllPlaced(F, v, O)
    /\ Lands(F, e, k)
    /\ Grown(F, G, k, e.ts, e.len, doomed)

LEMMA EditingFacts ==
    ASSUME NEW O, NEW e, NEW v, NEW c, NEW F, NEW G, NEW k, NEW doomed, Editing(O, e, v, c, F, G, k, doomed)
    PROVE  /\ e.ts \in Timestamp /\ e.version \in Version /\ e.from \in Nat /\ e.to \in Nat /\ e.len \in Nat
           /\ v \in Version /\ Observe(v, e.ts) \in Version
           /\ Len(F) \in Nat /\ k \in 0..Len(F) /\ Len(G) = Len(F) + e.len /\ G \in Seq(Frag)
           /\ F \in Seq(Frag) /\ Distinct(F)
           /\ \A i \in 1..Len(F) : /\ F[i].ts \in Timestamp /\ F[i].offset \in Nat
                                   /\ IsChar(F[i].ts, F[i].offset, v, O)
                                   /\ Observed(v, F[i].ts) /\ F[i].ts # e.ts
           /\ \A o \in O : Observed(Observe(v, e.ts), o.ts) <=> Observed(v, o.ts) \/ o = e
           /\ \A o \in O : Observed(v, o.ts) => ~Observed(o.version, e.ts)
           /\ ~Observed(e.version, e.ts)
  <1>1. e.ts \in Timestamp /\ e.version \in Version /\ e.from \in Nat /\ e.to \in Nat /\ e.len \in Nat
    BY OpFields DEF Editing
  <1>2. v \in Version
    BY DEF Editing, Clocked
  <1>3. Observe(v, e.ts) \in Version
    BY <1>1, <1>2, ObserveType
  <1>4. /\ Len(F) \in Nat /\ F \in Seq(Frag) /\ Distinct(F)
        /\ \A i \in 1..Len(F) : F[i].ts \in Timestamp /\ F[i].offset \in Nat /\ IsChar(F[i].ts, F[i].offset, v, O)
    BY TextFields DEF Editing
  <1>5. k \in 0..Len(F) /\ Len(G) = Len(F) + e.len /\ G \in Seq(Frag)
    BY DEF Editing, Lands, Grown
  <1>6. ASSUME NEW i \in 1..Len(F) PROVE Observed(v, F[i].ts) /\ F[i].ts # e.ts
    <2>1. Observed(v, F[i].ts)
      BY <1>4, CharIsObserved DEF Editing
    <2>. QED
      BY <2>1 DEF Editing
  <1>7. \A o \in O : Observed(Observe(v, e.ts), o.ts) <=> Observed(v, o.ts) \/ o = e
    BY ObserveOne DEF Editing
  <1>8. \A o \in O : Observed(v, o.ts) => ~Observed(o.version, e.ts)
    BY NotYetKnown DEF Editing
  <1>9. ~Observed(e.version, e.ts)
    BY NotItself DEF Editing
  <1>. QED
    BY <1>1, <1>2, <1>3, <1>4, <1>5, <1>6, <1>7, <1>8, <1>9

\* Every fragment of G is one of F, moved, or one of the new characters.
LEMMA EditingPlaces ==
    ASSUME NEW O, NEW e, NEW v, NEW c, NEW F, NEW G, NEW k, NEW doomed, Editing(O, e, v, c, F, G, k, doomed)
    PROVE  /\ \A i \in 1..Len(F) : /\ Shift(k, e.len, i) \in 1..Len(G)
                                   /\ G[Shift(k, e.len, i)].ts = F[i].ts
                                   /\ G[Shift(k, e.len, i)].offset = F[i].offset
           /\ \A i, j \in 1..Len(F) : i < j <=> Shift(k, e.len, i) < Shift(k, e.len, j)
           /\ \A j \in 1..Len(G) : (\E i \in 1..Len(F) : j = Shift(k, e.len, i)) \/ (\E m \in 1..e.len : j = k + m)
           /\ \A i \in 1..Len(F), m \in 1..e.len : Shift(k, e.len, i) < k + m <=> i <= k
           /\ \A m \in 1..e.len : k + m \in 1..Len(G) /\ G[k + m].ts = e.ts /\ G[k + m].offset = m - 1
  <1>1. Len(F) \in Nat /\ k \in 0..Len(F) /\ e.len \in Nat /\ Len(G) = Len(F) + e.len
    BY EditingFacts
  <1>2. /\ \A i \in 1..Len(F) : G[Shift(k, e.len, i)].ts = F[i].ts /\ G[Shift(k, e.len, i)].offset = F[i].offset
        /\ \A m \in 1..e.len : G[k + m].ts = e.ts /\ G[k + m].offset = m - 1
    BY DEF Editing, Grown
  <1>3. /\ \A i \in 1..Len(F) : Shift(k, e.len, i) \in 1..Len(G)
        /\ \A i, j \in 1..Len(F) : i < j <=> Shift(k, e.len, i) < Shift(k, e.len, j)
        /\ \A j \in 1..Len(G) : (\E i \in 1..Len(F) : j = Shift(k, e.len, i)) \/ (\E m \in 1..e.len : j = k + m)
        /\ \A i \in 1..Len(F), m \in 1..e.len : (Shift(k, e.len, i) < k + m <=> i <= k)
        /\ \A m \in 1..e.len : k + m \in 1..Len(G)
    <2>. DEFINE len == Len(F)
                n == e.len
    <2>1. len \in Nat /\ k \in 0..len /\ n \in Nat /\ Len(G) = len + n
      BY <1>1
    <2>. HIDE DEF len, n
    <2>2. \A i \in 1..len : Shift(k, n, i) \in 1..(len + n)
      BY ONLY <2>1, ShiftFacts
    <2>3. \A i, j \in 1..len : i < j <=> Shift(k, n, i) < Shift(k, n, j)
      BY ONLY <2>1 DEF Shift
    <2>4. \A j \in 1..(len + n) : (\E i \in 1..len : j = Shift(k, n, i)) \/ (\E m \in 1..n : j = k + m)
      BY <2>1, ShiftOnto
    <2>5. \A i \in 1..len, m \in 1..n : (Shift(k, n, i) < k + m <=> i <= k)
      BY ONLY <2>1, ShiftFacts
    <2>6. \A m \in 1..n : k + m \in 1..(len + n)
      BY ONLY <2>1, ShiftFacts
    <2>. QED
      BY <2>1, <2>2, <2>3, <2>4, <2>5, <2>6 DEF len, n
  <1>. QED
    BY <1>2, <1>3

\* The text after an edit was applied.
LEMMA TextNext ==
    ASSUME NEW O, NEW e, NEW v, NEW c, NEW F, NEW G, NEW k, NEW doomed, Editing(O, e, v, c, F, G, k, doomed)
    PROVE  Text(G, Observe(v, e.ts), O)
  <1>. DEFINE w == Observe(v, e.ts)
              S(i) == Shift(k, e.len, i)
  <1>1. /\ Len(F) \in Nat /\ k \in 0..Len(F) /\ G \in Seq(Frag) /\ Distinct(F) /\ e.len \in Nat
        /\ \A i \in 1..Len(F) : IsChar(F[i].ts, F[i].offset, v, O) /\ F[i].ts # e.ts
        /\ \A o \in O : Observed(w, o.ts) <=> Observed(v, o.ts) \/ o = e
    BY EditingFacts
  <1>2. e \in O /\ IsEdit(e) /\ Text(F, v, O)
    BY DEF Editing
  <1>. HIDE DEF w, S
  <1>3. /\ \A i \in 1..Len(F) : S(i) \in 1..Len(G) /\ G[S(i)].ts = F[i].ts /\ G[S(i)].offset = F[i].offset
        /\ \A j \in 1..Len(G) : (\E i \in 1..Len(F) : j = S(i)) \/ (\E m \in 1..e.len : j = k + m)
        /\ \A m \in 1..e.len : k + m \in 1..Len(G) /\ G[k + m].ts = e.ts /\ G[k + m].offset = m - 1
    BY EditingPlaces DEF S
  <1>4. ASSUME NEW j \in 1..Len(G) PROVE IsChar(G[j].ts, G[j].offset, w, O)
    <2>1. CASE \E i \in 1..Len(F) : j = S(i)
      <3>1. PICK i \in 1..Len(F) : j = S(i)
        BY <2>1
      <3>2. IsChar(F[i].ts, F[i].offset, w, O)
        BY <1>1 DEF IsChar
      <3>. QED
        BY <1>3, <3>1, <3>2
    <2>2. CASE \E m \in 1..e.len : j = k + m
      <3>1. PICK m \in 1..e.len : j = k + m
        BY <2>2
      <3>2. m - 1 \in 0..(e.len - 1)
        BY <1>1
      <3>3. IsChar(e.ts, m - 1, w, O)
        BY <1>1, <1>2, <3>2 DEF IsChar
      <3>. QED
        BY <1>3, <3>1, <3>3
    <2>. QED
      BY <1>3, <2>1, <2>2
  <1>5. ASSUME NEW ts, NEW n, IsChar(ts, n, w, O)
        PROVE  \E j \in 1..Len(G) : G[j].ts = ts /\ G[j].offset = n
    <2>1. CASE IsChar(ts, n, v, O)
      <3>1. \A t, h : IsChar(t, h, v, O) => \E i \in 1..Len(F) : F[i].ts = t /\ F[i].offset = h
        BY <1>2 DEF Text
      <3>2. PICK i \in 1..Len(F) : F[i].ts = ts /\ F[i].offset = n
        BY <2>1, <3>1
      <3>. QED
        BY <1>3, <3>2
    <2>2. CASE ~IsChar(ts, n, v, O)
      <3>1. ts = e.ts /\ n \in 0..(e.len - 1)
        BY <1>1, <1>5, <2>2 DEF IsChar
      <3>2. \E m \in 1..e.len : m - 1 = n
        <4>1. n + 1 \in 1..e.len /\ n \in Int
          BY <1>1, <3>1
        <4>. DEFINE m == n + 1
        <4>2. m \in 1..e.len /\ m - 1 = n
          BY <4>1
        <4>. QED
          BY <4>2
      <3>x. PICK m \in 1..e.len : m - 1 = n
        BY <3>2
      <3>3. k + m \in 1..Len(G) /\ G[k + m].ts = e.ts /\ G[k + m].offset = n
        BY <1>3, <3>x
      <3>. QED
        BY <3>1, <3>3
    <2>. QED
      BY <2>1, <2>2
  <1>6. ASSUME NEW a \in 1..Len(G), NEW b \in 1..Len(G), G[a].ts = G[b].ts, G[a].offset = G[b].offset
        PROVE  a = b
    <2>1. CASE \E i \in 1..Len(F) : a = S(i)
      <3>1. PICK i \in 1..Len(F) : a = S(i)
        BY <2>1
      <3>2. ~(\E m \in 1..e.len : b = k + m)
        BY <1>1, <1>3, <1>6, <3>1
      <3>3. PICK l \in 1..Len(F) : b = S(l)
        BY <1>3, <3>2
      <3>4. F[i].ts = F[l].ts /\ F[i].offset = F[l].offset
        BY <1>3, <1>6, <3>1, <3>3
      <3>5. i = l
        BY <1>1, <3>4 DEF Distinct
      <3>. QED
        BY <3>1, <3>3, <3>5
    <2>2. CASE \E m \in 1..e.len : a = k + m
      <3>1. PICK m \in 1..e.len : a = k + m
        BY <2>2
      <3>2. ~(\E i \in 1..Len(F) : b = S(i))
        BY <1>1, <1>3, <1>6, <3>1
      <3>3. PICK l \in 1..e.len : b = k + l
        BY <1>3, <3>2
      <3>4. m - 1 = l - 1
        BY <1>3, <1>6, <3>1, <3>3
      <3>. QED
        BY <1>1, <3>1, <3>3, <3>4
    <2>. QED
      BY <1>3, <2>1, <2>2
  <1>7. Text(G, w, O)
    BY <1>1, <1>4, <1>5, <1>6 DEF Text, Distinct
  <1>. QED
    BY <1>7 DEF w

\* Where the fragments of F and the new characters stand to an operation
\* that did not know the edit.
LEMMA PastNext ==
    ASSUME NEW O, NEW e, NEW v, NEW c, NEW F, NEW G, NEW k, NEW doomed, Editing(O, e, v, c, F, G, k, doomed),
           NEW o, ~Observed(o.version, e.ts)
    PROVE  /\ \A i \in 1..Len(F) : Past(G, o, Shift(k, e.len, i)) <=> Past(F, o, i)
           /\ \A m \in 1..e.len : Past(G, o, k + m) <=> o.from <= FullOffset(F, o.version, k)
  <1>1. /\ Grown(F, G, k, e.ts, e.len, doomed) /\ F \in Seq(Frag) /\ k \in 0..Len(F)
        /\ e.ts \in Timestamp /\ e.len \in Nat
    BY EditingFacts DEF Editing
  <1>. DEFINE x == o.version
              n == e.len
  <1>2. ~Observed(x, e.ts) /\ Grown(F, G, k, e.ts, n, doomed) /\ n \in Nat
    BY <1>1
  <1>. HIDE DEF x, n
  <1>4. ASSUME NEW i \in 1..Len(F) PROVE Past(G, o, Shift(k, n, i)) <=> Past(F, o, i)
    <2>1. /\ FullOffset(G, x, Shift(k, n, i)) = FullOffset(F, x, i)
          /\ FullOffset(G, x, Shift(k, n, i) - 1) = FullOffset(F, x, i - 1)
      BY <1>1, <1>2, GrownAt
    <2>. QED
      BY <2>1 DEF Past, x
  <1>5. ASSUME NEW m \in 1..n PROVE Past(G, o, k + m) <=> o.from <= FullOffset(F, x, k)
    <2>. DEFINE h == k + m
    <2>1. h \in (k + 1)..(k + n)
      BY <1>1, <1>2
    <2>. HIDE DEF h
    <2>2. FullOffset(G, x, h) = FullOffset(F, x, k) /\ FullOffset(G, x, h - 1) = FullOffset(F, x, k)
      BY <1>1, <1>2, <2>1, GrownNew
    <2>3. Past(G, o, h) <=> o.from <= FullOffset(F, x, k)
      BY <2>2 DEF Past, x
    <2>. QED
      BY <2>3 DEF h
  <1>. QED
    BY <1>4, <1>5 DEF x, n

LEMMA OldPlacedNext ==
    ASSUME NEW O, NEW e, NEW v, NEW c, NEW F, NEW G, NEW k, NEW doomed, Editing(O, e, v, c, F, G, k, doomed),
           NEW o \in O, IsEdit(o), Observed(v, o.ts)
    PROVE  Placed(G, o)
  <1>. DEFINE S(i) == Shift(k, e.len, i)
  <1>1. /\ Len(F) \in Nat /\ k \in 0..Len(F) /\ e.len \in Nat
        /\ \A i \in 1..Len(F) : F[i].ts \in Timestamp
        /\ e.ts \in Timestamp /\ o.ts \in Timestamp
        /\ ~Observed(o.version, e.ts)
    BY EditingFacts, OpFields DEF Editing
  <1>2. o.ts # e.ts
    BY DEF Editing
  <1>. HIDE DEF S
  <1>3. /\ \A i \in 1..Len(F) : S(i) \in 1..Len(G) /\ G[S(i)].ts = F[i].ts /\ G[S(i)].offset = F[i].offset
        /\ \A i, j \in 1..Len(F) : i < j <=> S(i) < S(j)
        /\ \A j \in 1..Len(G) : (\E i \in 1..Len(F) : j = S(i)) \/ (\E m \in 1..e.len : j = k + m)
        /\ \A i \in 1..Len(F), m \in 1..e.len : S(i) < k + m <=> i <= k
        /\ \A m \in 1..e.len : k + m \in 1..Len(G) /\ G[k + m].ts = e.ts
    BY EditingPlaces DEF S
  <1>4. /\ \A i \in 1..Len(F) : Past(G, o, S(i)) <=> Past(F, o, i)
        /\ \A m \in 1..e.len : Past(G, o, k + m) <=> o.from <= FullOffset(F, o.version, k)
    BY <1>1, PastNext DEF S
  <1>5. Placed(F, o)
    BY DEF Editing, AllPlaced
  <1>6. k < Len(F) => ~After(F[k + 1].ts, e.ts)
    BY DEF Editing, Lands
  <1>. SUFFICES ASSUME NEW a \in 1..Len(G), G[a].ts = o.ts
                PROVE  /\ Past(G, o, a)
                       /\ \A b \in 1..Len(G) : b < a /\ Past(G, o, b) =>
                             After(G[b].ts, o.ts) \/ (G[b].ts = o.ts /\ G[b].offset < G[a].offset)
    BY DEF Placed
  <1>7. PICK i \in 1..Len(F) : a = S(i)
    BY <1>2, <1>3
  <1>8. F[i].ts = o.ts /\ F[i].offset = G[a].offset
    BY <1>3, <1>7
  <1>9. Past(F, o, i)
    BY <1>5, <1>8 DEF Placed
  <1>10. ASSUME NEW b \in 1..Len(G), b < a, Past(G, o, b)
         PROVE  After(G[b].ts, o.ts) \/ (G[b].ts = o.ts /\ G[b].offset < G[a].offset)
    <2>1. CASE \E j \in 1..Len(F) : b = S(j)
      <3>1. PICK j \in 1..Len(F) : b = S(j)
        BY <2>1
      <3>2. j < i /\ Past(F, o, j)
        BY <1>3, <1>4, <1>7, <1>10, <3>1
      <3>3. After(F[j].ts, o.ts) \/ (F[j].ts = o.ts /\ F[j].offset < F[i].offset)
        BY <1>5, <1>8, <3>2 DEF Placed
      <3>. QED
        BY <1>3, <1>8, <3>1, <3>3
    <2>2. CASE \E m \in 1..e.len : b = k + m
      <3>1. PICK m \in 1..e.len : b = k + m
        BY <2>2
      <3>2. o.from <= FullOffset(F, o.version, k)
        BY <1>4, <1>10, <3>1
      <3>3. ~(i <= k)
        <4>1. S(i) \in 1..Len(G) /\ ~(S(i) < k + m)
          BY <1>1, <1>3, <1>7, <1>10, <3>1
        <4>. QED
          BY <1>3, <4>1
      <3>4. k + 1 \in 1..Len(F) /\ k < Len(F) /\ (k + 1 = i \/ k + 1 < i) /\ k + 1 - 1 = k
        BY <1>1, <3>3
      <3>5. Past(F, o, k + 1)
        <4>. DEFINE h == k + 1
        <4>1. h - 1 = k
          BY <1>1
        <4>. HIDE DEF h
        <4>2. Past(F, o, h)
          BY <3>2, <4>1 DEF Past
        <4>. QED
          BY <4>2 DEF h
      <3>6. ~After(F[k + 1].ts, e.ts)
        BY <1>6, <3>4
      <3>7. ~After(o.ts, e.ts)
        <4>1. CASE F[k + 1].ts = o.ts
          BY <3>6, <4>1
        <4>2. CASE F[k + 1].ts # o.ts
          <5>1. k + 1 < i
            BY <1>8, <3>4, <4>2
          <5>2. After(F[k + 1].ts, o.ts)
            BY <1>5, <1>8, <3>4, <3>5, <4>2, <5>1 DEF Placed
          <5>. QED
            BY <1>1, <3>4, <3>6, <5>2, NotAfter
        <4>. QED
          BY <4>1, <4>2
      <3>8. After(e.ts, o.ts)
        BY <1>1, <1>2, <3>7, AfterTotal
      <3>. QED
        BY <1>3, <3>1, <3>8
    <2>. QED
      BY <1>3, <2>1, <2>2
  <1>11. Past(G, o, a)
    BY <1>4, <1>7, <1>9
  <1>. QED
    BY <1>10, <1>11

LEMMA NewPlaced ==
    ASSUME NEW O, NEW e, NEW v, NEW c, NEW F, NEW G, NEW k, NEW doomed, Editing(O, e, v, c, F, G, k, doomed)
    PROVE  Placed(G, e)
  <1>. DEFINE S(i) == Shift(k, e.len, i)
  <1>1. /\ Len(F) \in Nat /\ k \in 0..Len(F) /\ e.len \in Nat
        /\ \A i \in 1..Len(F) : F[i].ts # e.ts
        /\ ~Observed(e.version, e.ts)
    BY EditingFacts
  <1>. HIDE DEF S
  <1>3. /\ \A i \in 1..Len(F) : S(i) \in 1..Len(G) /\ G[S(i)].ts = F[i].ts /\ G[S(i)].offset = F[i].offset
        /\ \A j \in 1..Len(G) : (\E i \in 1..Len(F) : j = S(i)) \/ (\E m \in 1..e.len : j = k + m)
        /\ \A i \in 1..Len(F), m \in 1..e.len : S(i) < k + m <=> i <= k
        /\ \A m \in 1..e.len : k + m \in 1..Len(G) /\ G[k + m].ts = e.ts /\ G[k + m].offset = m - 1
    BY EditingPlaces DEF S
  <1>4. /\ \A i \in 1..Len(F) : Past(G, e, S(i)) <=> Past(F, e, i)
        /\ \A m \in 1..e.len : Past(G, e, k + m) <=> e.from <= FullOffset(F, e.version, k)
    BY <1>1, PastNext DEF S
  <1>5. /\ e.from <= FullOffset(F, e.version, k)
        /\ \A i \in 1..Len(F) : i <= k /\ Past(F, e, i) => After(F[i].ts, e.ts)
    BY DEF Editing, Lands
  <1>. SUFFICES ASSUME NEW a \in 1..Len(G), G[a].ts = e.ts
                PROVE  /\ Past(G, e, a)
                       /\ \A b \in 1..Len(G) : b < a /\ Past(G, e, b) =>
                             After(G[b].ts, e.ts) \/ (G[b].ts = e.ts /\ G[b].offset < G[a].offset)
    BY DEF Placed
  <1>7. PICK m \in 1..e.len : a = k + m
    BY <1>1, <1>3
  <1>8. Past(G, e, a)
    BY <1>4, <1>5, <1>7
  <1>9. ASSUME NEW b \in 1..Len(G), b < a, Past(G, e, b)
        PROVE  After(G[b].ts, e.ts) \/ (G[b].ts = e.ts /\ G[b].offset < G[a].offset)
    <2>1. CASE \E j \in 1..Len(F) : b = S(j)
      <3>1. PICK j \in 1..Len(F) : b = S(j)
        BY <2>1
      <3>2. j <= k /\ Past(F, e, j)
        BY <1>3, <1>4, <1>7, <1>9, <3>1
      <3>. QED
        BY <1>3, <1>5, <3>1, <3>2
    <2>2. CASE \E l \in 1..e.len : b = k + l
      <3>1. PICK l \in 1..e.len : b = k + l
        BY <2>2
      <3>2. l - 1 < m - 1
        BY <1>1, <1>7, <1>9, <3>1
      <3>. QED
        BY <1>3, <1>7, <3>1, <3>2
    <2>. QED
      BY <1>3, <2>1, <2>2
  <1>. QED
    BY <1>8, <1>9

\* The places after an edit was applied.
LEMMA PlacedNext ==
    ASSUME NEW O, NEW e, NEW v, NEW c, NEW F, NEW G, NEW k, NEW doomed, Editing(O, e, v, c, F, G, k, doomed)
    PROVE  AllPlaced(G, Observe(v, e.ts), O)
  <1>1. \A o \in O : Observed(Observe(v, e.ts), o.ts) <=> Observed(v, o.ts) \/ o = e
    BY EditingFacts
  <1>. SUFFICES ASSUME NEW o \in O, IsEdit(o), Observed(Observe(v, e.ts), o.ts)
                PROVE  Placed(G, o)
    BY DEF AllPlaced
  <1>2. CASE o = e
    BY <1>2, NewPlaced
  <1>3. CASE Observed(v, o.ts)
    BY <1>3, OldPlacedNext
  <1>. QED
    BY <1>1, <1>2, <1>3

-----------------------------------------------------------------------------
(* The order of the characters in two replicas.                            *)

\* The first character at or after fragment p that another replica has too
\* was inserted there by an edit that passed over the ones it lacks: it is
\* older than p.
LEMMA FirstSharedIsOlder ==
    ASSUME NEW O, Causal(O), NEW u, NEW uc, Clocked(u, uc, O), NEW t, NEW tc, Clocked(t, tc, O),
           NEW X, Text(X, u, O), AllPlaced(X, u, O),
           NEW p \in 1..Len(X), NEW z \in 1..Len(X), p < z,
           Observed(t, X[z].ts), \A j \in p..(z - 1) : ~Observed(t, X[j].ts)
    PROVE  After(X[p].ts, X[z].ts)
  <1>1. /\ Len(X) \in Nat /\ X[p].ts \in Timestamp /\ X[z].ts \in Timestamp
        /\ IsChar(X[p].ts, X[p].offset, u, O) /\ IsChar(X[z].ts, X[z].offset, u, O)
    BY TextFields
  <1>2. p \in p..(z - 1)
    BY <1>1
  <1>3. ~Observed(t, X[p].ts)
    BY <1>2
  <1>4. ~IsBase(X[p].ts, X[p].offset)
    <2>1. IsBase(X[p].ts, X[p].offset) => IsChar(X[p].ts, X[p].offset, t, O)
      BY DEF IsChar
    <2>. QED
      BY <1>3, <2>1, CharIsObserved
  <1>5. PICK f \in O : IsEdit(f) /\ Observed(u, f.ts) /\ X[p].ts = f.ts
    BY <1>1, <1>4 DEF IsChar
  <1>6. CASE IsBase(X[z].ts, X[z].offset)
    <2>1. X[z].ts = BaseStamp /\ BaseLen > 0
      BY <1>6, BoundAssumption DEF IsBase
    <2>2. BaseStamp # f.ts /\ ~After(BaseStamp, f.ts)
      BY <2>1, BaseIsOld
    <2>. QED
      BY <1>1, <1>5, <2>1, <2>2, AfterTotal
  <1>7. CASE ~IsBase(X[z].ts, X[z].offset)
    <2>1. PICK g \in O : IsEdit(g) /\ Observed(u, g.ts) /\ X[z].ts = g.ts
      BY <1>1, <1>7 DEF IsChar
    <2>2. g.version \in Version /\ t \in Version /\ ObservedAll(t, g.version)
      BY <2>1, OpFields DEF Clocked
    <2>3. ASSUME NEW j \in p..(z - 1) PROVE ~Observed(g.version, X[j].ts)
      <3>1. j \in 1..Len(X)
        BY <1>1
      <3>2. X[j].ts \in Timestamp
        BY <3>1, TextFields
      <3>. QED
        BY <2>2, <3>2, ObservedThrough
    <2>4. FullOffset(X, g.version, z - 1) = FullOffset(X, g.version, p - 1)
      <3>. DEFINE a == p - 1
                  b == z - 1
      <3>1. a \in Nat /\ b \in Nat /\ a <= b /\ a + 1 = p
        BY <1>1
      <3>2. \A j \in (a + 1)..b : ~Observed(g.version, X[j].ts)
        BY <2>3, <3>1
      <3>. HIDE DEF a, b
      <3>3. FullOffset(X, g.version, b) = FullOffset(X, g.version, a)
        BY <3>1, <3>2, OffsetFlat
      <3>. QED
        BY <3>3 DEF a, b
    <2>5. Placed(X, g)
      BY <2>1 DEF AllPlaced
    <2>6. Past(X, g, z)
      BY <2>1, <2>5 DEF Placed
    <2>7. Past(X, g, p)
      BY <2>4, <2>6 DEF Past
    <2>8. After(X[p].ts, g.ts) \/ X[p].ts = g.ts
      BY <2>1, <2>5, <2>7 DEF Placed
    <2>9. X[p].ts # g.ts
      BY <1>3, <2>1
    <2>. QED
      BY <2>1, <2>8, <2>9
  <1>. QED
    BY <1>6, <1>7

\* Another replica, that has observed edit e already.
Knowing(O, e, w, d, H, F) ==
    /\ Clocked(w, d, O)
    /\ Text(H, w, O)
    /\ AllPlaced(H, w, O)
    /\ Agree(F, H)
    /\ Observed(w, e.ts)

LEMMA PastShared ==
    ASSUME NEW O, NEW e, NEW v, NEW c, NEW F, NEW G, NEW k, NEW doomed, Editing(O, e, v, c, F, G, k, doomed),
           NEW w, NEW d, NEW H, Knowing(O, e, w, d, H, F),
           NEW i \in 1..Len(F), NEW l \in 1..Len(H), Same(F, i, H, l)
    PROVE  Past(F, e, i) <=> Past(H, e, l)
  <1>1. e.version \in Version /\ v \in Version
    BY EditingFacts
  <1>2. /\ ObservedAll(v, e.version) /\ Text(F, v, O) /\ Text(H, w, O) /\ Agree(F, H)
        /\ w \in Version /\ ObservedAll(w, e.version)
    BY DEF Editing, Knowing, Clocked
  <1>3. FullOffset(F, e.version, i - 1) = FullOffset(H, e.version, l - 1)
    <2>1. /\ FullOffset(F, e.version, i) = FullOffset(H, e.version, l)
          /\ FullOffset(F, e.version, i - 1) = FullOffset(H, e.version, l - 1)
      BY <1>1, <1>2, SharedOffset
    <2>. QED
      BY <2>1
  <1>. QED
    BY <1>3 DEF Past

LEMMA PastMonotone ==
    ASSUME NEW O, Causal(O), NEW H \in Seq(Frag), NEW e \in O, IsEdit(e), NEW h \in 1..Len(H), NEW l \in 1..Len(H), h <= l, Past(H, e, h)
    PROVE  Past(H, e, l)
  <1>. DEFINE a == h - 1
              b == l - 1
  <1>1. a \in Nat /\ b \in Nat /\ a <= b
    BY FragFields
  <1>2. e.from \in Nat
    BY OpFields
  <1>3. e.from <= FullOffset(H, e.version, a)
    BY DEF Past
  <1>. HIDE DEF a, b
  <1>4. FullOffset(H, e.version, a) <= FullOffset(H, e.version, b)
    BY <1>1, OffsetMonotone
  <1>5. FullOffset(H, e.version, a) \in Nat /\ FullOffset(H, e.version, b) \in Nat
    BY <1>1, OffsetType
  <1>6. e.from <= FullOffset(H, e.version, b)
    BY <1>2, <1>3, <1>4, <1>5
  <1>. QED
    BY <1>6 DEF Past, b

\* What the other replica has before the edit is before it here too.
LEMMA BeforeStaysBefore ==
    ASSUME NEW O, NEW e, NEW v, NEW c, NEW F, NEW G, NEW k, NEW doomed, Editing(O, e, v, c, F, G, k, doomed),
           NEW w, NEW d, NEW H, Knowing(O, e, w, d, H, F),
           NEW i \in 1..Len(F), NEW l \in 1..Len(H), Same(F, i, H, l),
           NEW h \in 1..Len(H), H[h].ts = e.ts, l < h
    PROVE  i <= k
  <1>1. /\ Causal(O) /\ e \in O /\ IsEdit(e) /\ Clocked(v, c, O) /\ Text(F, v, O) /\ AllPlaced(F, v, O)
        /\ Clocked(w, d, O) /\ Text(H, w, O) /\ AllPlaced(H, w, O) /\ Agree(F, H) /\ Observed(w, e.ts)
    BY DEF Editing, Knowing
  <1>2. /\ Len(F) \in Nat /\ k \in 0..Len(F) /\ Len(H) \in Nat /\ e.ts \in Timestamp
        /\ \A j \in 1..Len(F) : F[j].ts \in Timestamp /\ F[j].ts # e.ts
    BY <1>1, EditingFacts, TextFields
  <1>3. Placed(H, e)
    BY <1>1 DEF AllPlaced
  <1>4. ASSUME NEW j \in 1..Len(F), NEW m \in 1..Len(H), Same(F, j, H, m), k < j, m < h
        PROVE  After(F[j].ts, e.ts)
    <2>1. Past(F, e, j)
      BY <1>4 DEF Editing, Lands
    <2>2. Past(H, e, m)
      BY <1>4, <2>1, PastShared
    <2>3. H[m].ts = F[j].ts /\ F[j].ts # e.ts
      BY <1>2, <1>4 DEF Same
    <2>. QED
      BY <1>3, <1>4, <2>2, <2>3 DEF Placed
  <1>. SUFFICES ASSUME k < i PROVE FALSE
    BY <1>2
  <1>5. After(F[i].ts, e.ts)
    BY <1>4
  <1>6. k + 1 \in 1..Len(F) /\ k < Len(F) /\ k + 1 <= i
    BY <1>2
  <1>7. ~After(F[k + 1].ts, e.ts)
    BY <1>6 DEF Editing, Lands
  <1>. DEFINE Z == {j \in (k + 1)..i : Observed(w, F[j].ts)}
  <1>8. i \in Z
    <2>1. IsChar(H[l].ts, H[l].offset, w, O)
      BY <1>1, TextFields
    <2>2. Observed(w, H[l].ts)
      BY <1>1, <2>1, CharIsObserved
    <2>. QED
      BY <1>2, <1>6, <2>2 DEF Same
  <1>9. Z \in SUBSET Nat
    BY <1>2
  <1>10. Min(Z) \in Z /\ \A j \in Z : Min(Z) <= j
    BY <1>8, <1>9, LeastOf
  <1>11. PICK z \in Z : z = Min(Z)
    BY <1>10
  <1>12. z \in (k + 1)..i /\ Observed(w, F[z].ts) /\ z \in 1..Len(F) /\ k < z
    BY <1>2
  <1>13. ~After(F[z].ts, e.ts)
    <2>1. CASE z = k + 1
      BY <1>7, <2>1
    <2>2. CASE z # k + 1
      <3>1. k + 1 < z
        BY <1>2, <1>12, <2>2
      <3>2. ASSUME NEW j \in (k + 1)..(z - 1) PROVE ~Observed(w, F[j].ts)
        <4>1. j \in (k + 1)..i /\ ~(z <= j)
          BY <1>2, <1>12
        <4>. QED
          BY <1>10, <1>11, <4>1
      <3>. DEFINE p == k + 1
      <3>3. p \in 1..Len(F) /\ p < z /\ \A j \in p..(z - 1) : ~Observed(w, F[j].ts)
        BY <1>6, <3>1, <3>2
      <3>4. ~After(F[p].ts, e.ts)
        BY <1>7
      <3>. HIDE DEF p, Z
      <3>5. After(F[p].ts, F[z].ts)
        BY <1>1, <1>12, <3>3, FirstSharedIsOlder
      <3>. QED
        BY <1>2, <1>12, <3>3, <3>4, <3>5, NotAfter
    <2>. QED
      BY <2>1, <2>2
  <1>14. z < i
    <2>1. z # i
      BY <1>5, <1>13
    <2>. QED
      BY <1>2, <1>12, <2>1
  <1>15. PICK m \in 1..Len(H) : Same(F, z, H, m)
    BY <1>1, <1>12, InOther
  <1>16. m < l
    BY <1>1, <1>12, <1>14, <1>15 DEF Agree
  <1>17. m < h
    BY <1>2, <1>16
  <1>. QED
    BY <1>4, <1>12, <1>13, <1>15, <1>17

\* What the other replica has after the edit is after it here too.
LEMMA AfterStaysAfter ==
    ASSUME NEW O, NEW e, NEW v, NEW c, NEW F, NEW G, NEW k, NEW doomed, Editing(O, e, v, c, F, G, k, doomed),
           NEW w, NEW d, NEW H, Knowing(O, e, w, d, H, F),
           NEW i \in 1..Len(F), NEW l \in 1..Len(H), Same(F, i, H, l),
           NEW h \in 1..Len(H), H[h].ts = e.ts, h < l
    PROVE  k < i
  <1>1. /\ Causal(O) /\ e \in O /\ IsEdit(e) /\ Clocked(v, c, O) /\ Text(F, v, O) /\ AllPlaced(F, v, O)
        /\ Clocked(w, d, O) /\ Text(H, w, O) /\ AllPlaced(H, w, O) /\ Agree(F, H) /\ Observed(w, e.ts)
        /\ ~Observed(v, e.ts)
    BY DEF Editing, Knowing
  <1>2. /\ Len(F) \in Nat /\ k \in 0..Len(F) /\ Len(H) \in Nat /\ e.ts \in Timestamp /\ Distinct(F)
        /\ H \in Seq(Frag)
        /\ \A j \in 1..Len(H) : H[j].ts \in Timestamp
    BY <1>1, EditingFacts, TextFields
  <1>3. Placed(H, e)
    BY <1>1 DEF AllPlaced
  <1>4. Past(H, e, h)
    BY <1>3 DEF Placed
  <1>. SUFFICES ASSUME ~(k < i) PROVE FALSE
    BY <1>2
  <1>5. i <= k
    BY <1>2
  <1>. DEFINE Z == {j \in (h + 1)..l : Observed(v, H[j].ts)}
  <1>6. l \in Z
    <2>1. Observed(v, F[i].ts)
      BY EditingFacts
    <2>. QED
      BY <1>2, <2>1 DEF Same
  <1>7. Z \in SUBSET Nat
    BY <1>2
  <1>8. Min(Z) \in Z /\ \A j \in Z : Min(Z) <= j
    BY <1>6, <1>7, LeastOf
  <1>9. PICK z \in Z : z = Min(Z)
    BY <1>8
  <1>10. z \in (h + 1)..l /\ Observed(v, H[z].ts) /\ z \in 1..Len(H) /\ h < z
    BY <1>2
  <1>11. After(e.ts, H[z].ts)
    <2>1. ASSUME NEW j \in h..(z - 1) PROVE ~Observed(v, H[j].ts)
      <3>1. CASE j = h
        BY <1>1, <3>1
      <3>2. CASE j # h
        <4>1. j \in (h + 1)..l /\ ~(z <= j)
          BY <1>2, <1>10, <3>2
        <4>. QED
          BY <1>8, <1>9, <4>1
      <3>. QED
        BY <3>1, <3>2
    <2>. HIDE DEF Z
    <2>2. After(H[h].ts, H[z].ts)
      BY <1>1, <1>10, <2>1, FirstSharedIsOlder
    <2>. QED
      BY <2>2
  <1>12. ~After(H[z].ts, e.ts)
    BY <1>2, <1>10, <1>11, AfterTotal
  <1>13. PICK g \in 1..Len(F) : Same(H, z, F, g)
    BY <1>1, <1>10, InOther
  <1>14. Same(F, g, H, z)
    BY <1>13 DEF Same
  <1>15. g <= k
    <2>1. CASE z = l
      <3>1. F[g].ts = F[i].ts /\ F[g].offset = F[i].offset
        BY <1>14, <2>1 DEF Same
      <3>2. g = i
        BY <1>2, <3>1 DEF Distinct
      <3>. QED
        BY <1>5, <3>2
    <2>2. CASE z # l
      <3>1. z < l
        BY <1>2, <1>10, <2>2
      <3>2. g < i
        BY <1>1, <1>10, <1>14, <3>1 DEF Agree
      <3>. QED
        BY <1>2, <1>5, <3>2
    <2>. QED
      BY <2>1, <2>2
  <1>16. Past(H, e, z)
    <2>1. h <= z
      BY <1>2, <1>10
    <2>. QED
      BY <1>1, <1>2, <1>4, <1>10, <2>1, PastMonotone
  <1>17. Past(F, e, g)
    BY <1>10, <1>14, <1>16, PastShared
  <1>18. After(F[g].ts, e.ts)
    BY <1>15, <1>17 DEF Editing, Lands
  <1>. QED
    BY <1>12, <1>14, <1>18 DEF Same

LEMMA AgreeKnowing ==
    ASSUME NEW O, NEW e, NEW v, NEW c, NEW F, NEW G, NEW k, NEW doomed, Editing(O, e, v, c, F, G, k, doomed),
           NEW w, NEW d, NEW H, Knowing(O, e, w, d, H, F)
    PROVE  Agree(G, H)
  <1>. DEFINE S(i) == Shift(k, e.len, i)
  <1>1. /\ Len(F) \in Nat /\ k \in 0..Len(F) /\ e.len \in Nat /\ e.ts \in Timestamp
        /\ \A i \in 1..Len(F) : F[i].ts # e.ts
    BY EditingFacts
  <1>2. Agree(F, H) /\ Placed(H, e)
    BY DEF Editing, Knowing, AllPlaced
  <1>. HIDE DEF S
  <1>3. /\ \A i \in 1..Len(F) : S(i) \in 1..Len(G) /\ G[S(i)].ts = F[i].ts /\ G[S(i)].offset = F[i].offset
        /\ \A i, j \in 1..Len(F) : i < j <=> S(i) < S(j)
        /\ \A j \in 1..Len(G) : (\E i \in 1..Len(F) : j = S(i)) \/ (\E m \in 1..e.len : j = k + m)
        /\ \A i \in 1..Len(F), m \in 1..e.len : S(i) < k + m <=> i <= k
        /\ \A m \in 1..e.len : k + m \in 1..Len(G) /\ G[k + m].ts = e.ts /\ G[k + m].offset = m - 1
    BY EditingPlaces DEF S
  <1>4. \A p, q \in 1..Len(H) : H[p].ts = e.ts /\ H[q].ts = e.ts /\ p < q => H[p].offset < H[q].offset
    <2>. SUFFICES ASSUME NEW p \in 1..Len(H), NEW q \in 1..Len(H), H[p].ts = e.ts, H[q].ts = e.ts, p < q
                  PROVE  H[p].offset < H[q].offset
      OBVIOUS
    <2>1. Past(H, e, p)
      BY <1>2 DEF Placed
    <2>2. After(H[p].ts, e.ts) \/ (H[p].ts = e.ts /\ H[p].offset < H[q].offset)
      BY <1>2, <2>1 DEF Placed
    <2>. QED
      BY <1>1, <2>2, AfterTotal
  <1>. SUFFICES ASSUME NEW a \in 1..Len(G), NEW b \in 1..Len(G), NEW p \in 1..Len(H), NEW q \in 1..Len(H),
                       Same(G, a, H, p), Same(G, b, H, q)
                PROVE  a < b <=> p < q
    BY DEF Agree
  <1>5. CASE (\E i \in 1..Len(F) : a = S(i)) /\ (\E j \in 1..Len(F) : b = S(j))
    <2>1. PICK i \in 1..Len(F) : a = S(i)
      BY <1>5
    <2>2. PICK j \in 1..Len(F) : b = S(j)
      BY <1>5
    <2>3. Same(F, i, H, p) /\ Same(F, j, H, q)
      BY <1>3, <2>1, <2>2 DEF Same
    <2>4. i < j <=> p < q
      BY <1>2, <2>3 DEF Agree
    <2>. QED
      BY <1>3, <2>1, <2>2, <2>4
  <1>6. CASE (\E i \in 1..Len(F) : a = S(i)) /\ (\E m \in 1..e.len : b = k + m)
    <2>1. PICK i \in 1..Len(F) : a = S(i)
      BY <1>6
    <2>2. PICK m \in 1..e.len : b = k + m
      BY <1>6
    <2>3. Same(F, i, H, p) /\ H[q].ts = e.ts /\ H[p].ts = F[i].ts
      BY <1>3, <2>1, <2>2 DEF Same
    <2>4. p # q
      BY <1>1, <2>3
    <2>5. a < b <=> i <= k
      BY <1>3, <2>1, <2>2
    <2>6. p < q => i <= k
      BY <2>3, BeforeStaysBefore
    <2>7. q < p => k < i
      BY <2>3, AfterStaysAfter
    <2>8. p < q \/ q < p
      BY <2>4
    <2>. QED
      BY <1>1, <2>5, <2>6, <2>7, <2>8
  <1>7. CASE (\E m \in 1..e.len : a = k + m) /\ (\E i \in 1..Len(F) : b = S(i))
    <2>1. PICK i \in 1..Len(F) : b = S(i)
      BY <1>7
    <2>2. PICK m \in 1..e.len : a = k + m
      BY <1>7
    <2>3. Same(F, i, H, q) /\ H[p].ts = e.ts /\ H[q].ts = F[i].ts /\ G[a].ts = e.ts /\ G[b].ts = F[i].ts
      BY <1>3, <2>1, <2>2 DEF Same
    <2>4. p # q /\ a # b
      BY <1>1, <2>3
    <2>5. b < a <=> i <= k
      BY <1>3, <2>1, <2>2
    <2>6. q < p => i <= k
      BY <2>3, BeforeStaysBefore
    <2>7. p < q => k < i
      BY <2>3, AfterStaysAfter
    <2>8. (p < q \/ q < p) /\ (a < b \/ b < a)
      BY <2>4
    <2>. QED
      BY <1>1, <2>5, <2>6, <2>7, <2>8
  <1>8. CASE (\E m \in 1..e.len : a = k + m) /\ (\E m \in 1..e.len : b = k + m)
    <2>1. PICK m \in 1..e.len : a = k + m
      BY <1>8
    <2>2. PICK n \in 1..e.len : b = k + n
      BY <1>8
    <2>3. H[p].ts = e.ts /\ H[q].ts = e.ts /\ H[p].offset = m - 1 /\ H[q].offset = n - 1
      BY <1>3, <2>1, <2>2 DEF Same
    <2>4. p < q => m - 1 < n - 1
      BY <1>4, <2>3
    <2>5. q < p => n - 1 < m - 1
      BY <1>4, <2>3
    <2>6. p = q => m - 1 = n - 1
      BY <2>3
    <2>7. p < q \/ q < p \/ p = q
      OBVIOUS
    <2>8. m \in Nat /\ n \in Nat /\ k \in Nat
      BY <1>1
    <2>. QED
      BY <2>1, <2>2, <2>4, <2>5, <2>6, <2>7, <2>8
  <1>. QED
    BY <1>3, <1>5, <1>6, <1>7, <1>8

LEMMA AgreeUnaware ==
    ASSUME NEW O, NEW e, NEW v, NEW c, NEW F, NEW G, NEW k, NEW doomed, Editing(O, e, v, c, F, G, k, doomed),
           NEW w, NEW d, NEW H, Clocked(w, d, O), Text(H, w, O), Agree(F, H), ~Observed(w, e.ts)
    PROVE  Agree(G, H)
  <1>. DEFINE S(i) == Shift(k, e.len, i)
  <1>. HIDE DEF S
  <1>3. /\ \A i \in 1..Len(F) : S(i) \in 1..Len(G) /\ G[S(i)].ts = F[i].ts /\ G[S(i)].offset = F[i].offset
        /\ \A i, j \in 1..Len(F) : i < j <=> S(i) < S(j)
        /\ \A j \in 1..Len(G) : (\E i \in 1..Len(F) : j = S(i)) \/ (\E m \in 1..e.len : j = k + m)
        /\ \A m \in 1..e.len : k + m \in 1..Len(G) /\ G[k + m].ts = e.ts /\ G[k + m].offset = m - 1
    BY EditingPlaces DEF S
  <1>4. \A p \in 1..Len(H) : H[p].ts # e.ts
    <2>1. ASSUME NEW p \in 1..Len(H) PROVE Observed(w, H[p].ts)
      BY TextFields, CharIsObserved
    <2>. QED
      BY <2>1
  <1>. SUFFICES ASSUME NEW a \in 1..Len(G), NEW b \in 1..Len(G), NEW p \in 1..Len(H), NEW q \in 1..Len(H),
                       Same(G, a, H, p), Same(G, b, H, q)
                PROVE  a < b <=> p < q
    BY DEF Agree
  <1>g. G[a].ts # e.ts /\ G[b].ts # e.ts
    BY <1>4 DEF Same
  <1>h. \A z \in 1..Len(G) : G[z].ts # e.ts => \E i \in 1..Len(F) : z = S(i)
    BY ONLY <1>3
  <1>5. PICK i \in 1..Len(F) : a = S(i)
    BY ONLY <1>g, <1>h, a \in 1..Len(G)
  <1>6. PICK j \in 1..Len(F) : b = S(j)
    BY ONLY <1>g, <1>h, b \in 1..Len(G)
  <1>7. Same(F, i, H, p) /\ Same(F, j, H, q)
    BY <1>3, <1>5, <1>6 DEF Same
  <1>8. i < j <=> p < q
    BY <1>7 DEF Agree
  <1>. QED
    BY <1>3, <1>5, <1>6, <1>8

\* Applying an edit leaves the shared order as it is, whether the other replica
\* knows the edit or not.
LEMMA AgreeNext ==
    ASSUME NEW O, NEW e, NEW v, NEW c, NEW F, NEW G, NEW k, NEW doomed, Editing(O, e, v, c, F, G, k, doomed),
           NEW w, NEW d, NEW H, Clocked(w, d, O), Text(H, w, O), AllPlaced(H, w, O), Agree(F, H)
    PROVE  Agree(G, H)
  <1>1. CASE Observed(w, e.ts)
    <2>1. Knowing(O, e, w, d, H, F)
      BY <1>1 DEF Knowing
    <2>. QED
      BY <2>1, AgreeKnowing
  <1>2. CASE ~Observed(w, e.ts)
    BY <1>2, AgreeUnaware
  <1>. QED
    BY <1>1, <1>2

LEMMA AgreeSelf ==
    ASSUME NEW G, Distinct(G)
    PROVE  Agree(G, G)
  BY DEF Distinct, Agree, Same

-----------------------------------------------------------------------------
(* Undos and deletions.                                                    *)

LEMMA EntryFields ==
    ASSUME NEW O, NEW U, NEW v, Undos(U, v, O)
    PROVE  /\ \A u \in U : \E p \in O : ~IsEdit(p) /\ Observed(v, p.ts) /\ u = Entry(p) /\ u.undo = p.ts /\ u.edit = p.edit
           /\ \A p \in O : ~IsEdit(p) /\ Observed(v, p.ts) => Entry(p) \in U /\ Entry(p).undo = p.ts
  BY DEF Undos, Entry

\* Two replicas hold the same undos of what both have observed.
LEMMA SharedUndos ==
    ASSUME NEW O, Causal(O), NEW v \in Version, NEW t \in Version, NEW U, NEW V, Undos(U, v, O), Undos(V, t, O),
           NEW x \in Version, ObservedAll(v, x), ObservedAll(t, x)
    PROVE  {u \in U : Observed(x, u.undo)} = {u \in V : Observed(x, u.undo)}
  <1>1. \A p \in O : p.ts \in Timestamp
    BY OpFields
  <1>2. \A p \in O : Observed(x, p.ts) => Observed(v, p.ts) /\ Observed(t, p.ts)
    BY <1>1, ObservedThrough
  <1>3. \A u \in U : Observed(x, u.undo) => u \in V
    BY <1>2, EntryFields
  <1>4. \A u \in V : Observed(x, u.undo) => u \in U
    BY <1>2, EntryFields
  <1>. QED
    BY <1>3, <1>4

\* A version sees a fragment as visible by its timestamp and by the deletions
\* and the undos the version knows.
LEMMA SameVisibility ==
    ASSUME NEW f, NEW g, f.ts = g.ts, NEW x, NEW U, NEW V,
           {u \in U : Observed(x, u.undo)} = {u \in V : Observed(x, u.undo)},
           \A d : Observed(x, d) => (d \in f.deletions <=> d \in g.deletions)
    PROVE  was_visible(f, x, U) <=> was_visible(g, x, V)
  <1>1. \A d : was_undone(U, d, x) <=> was_undone(V, d, x)
    BY DEF was_undone
  <1>. QED
    BY <1>1 DEF was_visible

\* An edit that has not been observed has not been undone either.
LEMMA NotUndone ==
    ASSUME NEW O, Causal(O), NEW v, NEW c, Clocked(v, c, O), NEW U, Undos(U, v, O),
           NEW e \in O, IsEdit(e), ~Observed(v, e.ts)
    PROVE  ~is_undone(U, e.ts)
  <1>1. \A u \in U : u.edit # e.ts
    <2>. SUFFICES ASSUME NEW u \in U, u.edit = e.ts PROVE FALSE
      OBVIOUS
    <2>1. PICK p \in O : ~IsEdit(p) /\ Observed(v, p.ts) /\ u.edit = p.edit
      BY EntryFields
    <2>2. PICK q \in O : IsEdit(q) /\ q.ts = p.edit /\ Observed(p.version, q.ts)
      BY <2>1 DEF Causal
    <2>3. ~Observed(p.version, e.ts)
      BY <2>1, NotYetKnown
    <2>. QED
      BY <2>1, <2>2, <2>3
  <1>2. {w \in U : w.edit = e.ts} = {}
    BY <1>1
  <1>3. undo_count(U, e.ts) = Max({0})
    <2>1. {0} \cup {u.count : u \in {w \in U : w.edit = e.ts}} = {0}
      BY <1>2
    <2>. QED
      BY <2>1 DEF undo_count
  <1>4. Max({0}) = 0
    <2>1. Max({0}) \in {0}
      BY GreatestOf
    <2>. QED
      BY <2>1
  <1>. QED
    BY <1>3, <1>4 DEF is_undone

\* The fragments the edit deletes are those its author saw in its range.
Dooms(F, e, U, doomed) == \A i \in 1..Len(F) : i \in doomed <=> Doomed(F, e, U, i)

LEMMA DeletionsAreEdits ==
    ASSUME NEW O, NEW F, NEW v, NEW U, Deleted(F, v, U, O), NEW i \in 1..Len(F), NEW d \in F[i].deletions
    PROVE  \E o \in O : IsEdit(o) /\ Observed(v, o.ts) /\ o.ts = d
  BY DEF Deleted

LEMMA DoomedNext ==
    ASSUME NEW O, NEW e, NEW v, NEW c, NEW F, NEW G, NEW k, NEW doomed, Editing(O, e, v, c, F, G, k, doomed),
           NEW U, NEW o, ~Observed(o.version, e.ts)
    PROVE  /\ \A i \in 1..Len(F) : Doomed(G, o, U, Shift(k, e.len, i)) <=> Doomed(F, o, U, i)
           /\ \A m \in 1..e.len : ~Doomed(G, o, U, k + m)
  <1>1. /\ Grown(F, G, k, e.ts, e.len, doomed) /\ F \in Seq(Frag) /\ k \in 0..Len(F)
        /\ e.ts \in Timestamp /\ e.len \in Nat
    BY EditingFacts DEF Editing
  <1>. DEFINE x == o.version
              n == e.len
  <1>2. ~Observed(x, e.ts) /\ Grown(F, G, k, e.ts, n, doomed) /\ n \in Nat
    BY <1>1
  <1>. HIDE DEF x, n
  <1>3. ASSUME NEW i \in 1..Len(F)
        PROVE  Doomed(G, o, U, Shift(k, n, i)) <=> Doomed(F, o, U, i)
    <2>1. /\ FullOffset(G, x, Shift(k, n, i)) = FullOffset(F, x, i)
          /\ FullOffset(G, x, Shift(k, n, i) - 1) = FullOffset(F, x, i - 1)
      BY <1>1, <1>2, GrownAt
    <2>. DEFINE f == F[i]
                g == G[Shift(k, n, i)]
    <2>2. f.ts = g.ts
      BY <1>2 DEF Grown
    <2>3. \A d : Observed(x, d) => (d \in f.deletions <=> d \in g.deletions)
      <3>1. g.deletions = f.deletions \cup (IF i \in doomed THEN {e.ts} ELSE {})
        BY <1>2 DEF Grown
      <3>. HIDE DEF f, g
      <3>. QED
        BY <1>2, <3>1
    <2>. HIDE DEF f, g
    <2>4. was_visible(f, x, U) <=> was_visible(g, x, U)
      BY <2>2, <2>3, SameVisibility
    <2>. QED
      BY <2>1, <2>4 DEF Doomed, f, g, x
  <1>4. ASSUME NEW m \in 1..n PROVE ~Doomed(G, o, U, k + m)
    <2>1. G[k + m].ts = e.ts
      BY <1>2 DEF Grown
    <2>2. ~was_visible(G[k + m], x, U)
      BY <1>2, <2>1 DEF was_visible
    <2>. QED
      BY <2>2 DEF Doomed, x
  <1>. QED
    BY <1>3, <1>4 DEF n

\* The deletions after an edit was applied.
LEMMA DeletedNext ==
    ASSUME NEW O, NEW e, NEW v, NEW c, NEW F, NEW G, NEW k, NEW doomed, Editing(O, e, v, c, F, G, k, doomed),
           NEW U, Deleted(F, v, U, O), Dooms(F, e, U, doomed)
    PROVE  Deleted(G, Observe(v, e.ts), U, O)
  <1>. DEFINE w == Observe(v, e.ts)
              S(i) == Shift(k, e.len, i)
  <1>1. /\ e \in O /\ IsEdit(e) /\ ~Observed(v, e.ts)
        /\ \A o \in O : Observed(w, o.ts) <=> Observed(v, o.ts) \/ o = e
        /\ \A o \in O : Observed(w, o.ts) => ~Observed(o.version, e.ts)
        /\ \A o \in O : o.ts = e.ts => o = e
    <2>1. e \in O /\ IsEdit(e) /\ ~Observed(v, e.ts)
      BY DEF Editing
    <2>2. /\ \A o \in O : Observed(w, o.ts) <=> Observed(v, o.ts) \/ o = e
          /\ \A o \in O : Observed(v, o.ts) => ~Observed(o.version, e.ts)
          /\ ~Observed(e.version, e.ts)
      BY EditingFacts
    <2>3. \A o \in O : o.ts = e.ts => o = e
      BY <2>1 DEF Editing, Causal
    <2>. HIDE DEF w
    <2>. QED
      BY <2>1, <2>2, <2>3
  <1>. HIDE DEF w, S
  <1>2. /\ \A i \in 1..Len(F) : S(i) \in 1..Len(G)
        /\ \A j \in 1..Len(G) : (\E i \in 1..Len(F) : j = S(i)) \/ (\E m \in 1..e.len : j = k + m)
    BY EditingPlaces DEF S
  <1>3. /\ \A i \in 1..Len(F) : G[S(i)].deletions = F[i].deletions \cup (IF i \in doomed THEN {e.ts} ELSE {})
        /\ \A m \in 1..e.len : G[k + m].deletions = {}
    BY DEF Editing, Grown, S
  <1>4. ASSUME NEW o \in O, IsEdit(o), Observed(w, o.ts)
        PROVE  /\ \A i \in 1..Len(F) : Doomed(G, o, U, S(i)) <=> Doomed(F, o, U, i)
               /\ \A m \in 1..e.len : ~Doomed(G, o, U, k + m)
    <2>1. ~Observed(o.version, e.ts)
      BY <1>1, <1>4
    <2>. QED
      BY <2>1, DoomedNext DEF S
  <1>5. ASSUME NEW i \in 1..Len(F)
        PROVE  /\ \A d \in G[S(i)].deletions : \E o \in O : IsEdit(o) /\ Observed(w, o.ts) /\ o.ts = d
               /\ \A o \in O : IsEdit(o) /\ Observed(w, o.ts) =>
                     (o.ts \in G[S(i)].deletions <=> Doomed(G, o, U, S(i)))
    <2>1. \A d \in F[i].deletions : \E o \in O : IsEdit(o) /\ Observed(v, o.ts) /\ o.ts = d
      BY DEF Deleted
    <2>2. ASSUME NEW d \in G[S(i)].deletions PROVE \E o \in O : IsEdit(o) /\ Observed(w, o.ts) /\ o.ts = d
      <3>1. d \in F[i].deletions \/ d = e.ts
        BY <1>3
      <3>. QED
        BY <1>1, <2>1, <3>1
    <2>3. ASSUME NEW o \in O, IsEdit(o), Observed(w, o.ts)
          PROVE  o.ts \in G[S(i)].deletions <=> Doomed(G, o, U, S(i))
      <3>1. Doomed(G, o, U, S(i)) <=> Doomed(F, o, U, i)
        BY <1>4, <2>3
      <3>2. CASE o = e
        <4>1. e.ts \notin F[i].deletions
          BY <1>1, <2>1
        <4>2. e.ts \in G[S(i)].deletions <=> i \in doomed
          BY <1>3, <4>1
        <4>3. i \in doomed <=> Doomed(F, e, U, i)
          BY DEF Dooms
        <4>. QED
          BY <3>1, <3>2, <4>2, <4>3
      <3>3. CASE o # e
        <4>1. Observed(v, o.ts) /\ o.ts # e.ts
          BY <1>1, <2>3, <3>3
        <4>2. o.ts \in G[S(i)].deletions <=> o.ts \in F[i].deletions
          BY <1>3, <4>1
        <4>3. o.ts \in F[i].deletions <=> Doomed(F, o, U, i)
          BY <2>3, <4>1 DEF Deleted
        <4>. QED
          BY <3>1, <4>2, <4>3
      <3>. QED
        BY <3>2, <3>3
    <2>. QED
      BY <2>2, <2>3
  <1>6. ASSUME NEW m \in 1..e.len
        PROVE  /\ \A d \in G[k + m].deletions : \E o \in O : IsEdit(o) /\ Observed(w, o.ts) /\ o.ts = d
               /\ \A o \in O : IsEdit(o) /\ Observed(w, o.ts) =>
                     (o.ts \in G[k + m].deletions <=> Doomed(G, o, U, k + m))
    BY <1>3, <1>4
  <1>7. Deleted(G, w, U, O)
    <2>. SUFFICES ASSUME NEW a \in 1..Len(G)
                  PROVE  /\ \A d \in G[a].deletions : \E o \in O : IsEdit(o) /\ Observed(w, o.ts) /\ o.ts = d
                         /\ \A o \in O : IsEdit(o) /\ Observed(w, o.ts) =>
                               (o.ts \in G[a].deletions <=> Doomed(G, o, U, a))
      BY DEF Deleted
    <2>1. CASE \E i \in 1..Len(F) : a = S(i)
      BY <1>5, <2>1
    <2>2. CASE \E m \in 1..e.len : a = k + m
      BY <1>6, <2>2
    <2>. QED
      BY <1>2, <2>1, <2>2
  <1>. QED
    BY <1>7 DEF w

\* Two replicas that both have a character agree on whether an edit both
\* know of deletes it, when they agree on what the edit's author knew.
LEMMA SharedDoom ==
    ASSUME NEW O, Causal(O), NEW v \in Version, NEW t \in Version,
           NEW F, NEW H, Text(F, v, O), Text(H, t, O), Agree(F, H), NEW U, NEW V, Undos(U, v, O), Undos(V, t, O),
           Deleted(F, v, U, O), Deleted(H, t, V, O), SameDeletions(F, v, H, t, O),
           NEW o \in O, ObservedAll(v, o.version), ObservedAll(t, o.version),
           NEW i \in 1..Len(F), NEW p \in 1..Len(H), Same(F, i, H, p)
    PROVE  Doomed(F, o, U, i) <=> Doomed(H, o, V, p)
  <1>. DEFINE x == o.version
              f == F[i]
              g == H[p]
  <1>1. x \in Version /\ ObservedAll(v, x) /\ ObservedAll(t, x)
    BY OpFields
  <1>. HIDE DEF x
  <1>2. /\ FullOffset(F, x, i) = FullOffset(H, x, p)
        /\ FullOffset(F, x, i - 1) = FullOffset(H, x, p - 1)
    BY <1>1, SharedOffset
  <1>3. {u \in U : Observed(x, u.undo)} = {u \in V : Observed(x, u.undo)}
    BY <1>1, SharedUndos
  <1>4. \A q \in O : q.ts \in Timestamp
    BY OpFields
  <1>5. \A q \in O : Observed(x, q.ts) => Observed(v, q.ts) /\ Observed(t, q.ts)
    BY <1>1, <1>4, ObservedThrough
  <1>6. \A d \in F[i].deletions : \E q \in O : IsEdit(q) /\ Observed(v, q.ts) /\ q.ts = d
    BY DeletionsAreEdits
  <1>7. \A d \in H[p].deletions : \E q \in O : IsEdit(q) /\ Observed(t, q.ts) /\ q.ts = d
    BY DeletionsAreEdits
  <1>8. \A q \in O : Observed(x, q.ts) => (q.ts \in F[i].deletions <=> q.ts \in H[p].deletions)
    BY <1>5 DEF SameDeletions
  <1>9. \A d : Observed(x, d) => (d \in f.deletions <=> d \in g.deletions)
    BY <1>6, <1>7, <1>8
  <1>10. f.ts = g.ts
    BY DEF Same
  <1>. HIDE DEF f, g
  <1>11. was_visible(f, x, U) <=> was_visible(g, x, V)
    BY <1>3, <1>9, <1>10, SameVisibility
  <1>. QED
    BY <1>2, <1>11 DEF Doomed, f, g, x

\* What a replica that has the edit already marked it too: the same fragments.
LEMMA SameDeletionsNext ==
    ASSUME NEW O, NEW e, NEW v, NEW c, NEW F, NEW G, NEW k, NEW doomed, Editing(O, e, v, c, F, G, k, doomed),
           NEW U, Undos(U, v, O), Deleted(F, v, U, O), Dooms(F, e, U, doomed),
           NEW t, NEW d, NEW H, NEW V, Clocked(t, d, O), Text(H, t, O), Undos(V, t, O), Deleted(H, t, V, O),
           Agree(F, H), SameDeletions(F, v, H, t, O)
    PROVE  SameDeletions(G, Observe(v, e.ts), H, t, O)
  <1>. DEFINE w == Observe(v, e.ts)
              S(i) == Shift(k, e.len, i)
  <1>1. /\ Causal(O) /\ e \in O /\ IsEdit(e) /\ ~Observed(v, e.ts) /\ ObservedAll(v, e.version) /\ Text(F, v, O)
        /\ v \in Version /\ t \in Version
    BY DEF Editing, Clocked
  <1>2. /\ \A o \in O : Observed(w, o.ts) <=> Observed(v, o.ts) \/ o = e
        /\ \A o \in O : Observed(w, o.ts) => ~Observed(o.version, e.ts)
        /\ \A o \in O : o.ts = e.ts => o = e
        /\ \A o \in O : Observed(t, o.ts) => ObservedAll(t, o.version)
    <2>2. /\ \A o \in O : Observed(w, o.ts) <=> Observed(v, o.ts) \/ o = e
          /\ \A o \in O : Observed(v, o.ts) => ~Observed(o.version, e.ts)
          /\ ~Observed(e.version, e.ts)
      BY EditingFacts
    <2>3. \A o \in O : o.ts = e.ts => o = e
      BY <1>1 DEF Causal
    <2>4. \A o \in O : Observed(t, o.ts) => ObservedAll(t, o.version)
      BY DEF Clocked
    <2>. HIDE DEF w
    <2>. QED
      BY <2>2, <2>3, <2>4
  <1>. HIDE DEF w, S
  <1>3. /\ \A i \in 1..Len(F) : S(i) \in 1..Len(G) /\ G[S(i)].ts = F[i].ts /\ G[S(i)].offset = F[i].offset
        /\ \A j \in 1..Len(G) : (\E i \in 1..Len(F) : j = S(i)) \/ (\E m \in 1..e.len : j = k + m)
        /\ \A m \in 1..e.len : k + m \in 1..Len(G) /\ G[k + m].ts = e.ts
    <2>1. \A i \in 1..Len(F) : S(i) \in 1..Len(G) /\ G[S(i)].ts = F[i].ts /\ G[S(i)].offset = F[i].offset
      BY EditingPlaces DEF S
    <2>2. \A j \in 1..Len(G) : (\E i \in 1..Len(F) : j = S(i)) \/ (\E m \in 1..e.len : j = k + m)
      BY EditingPlaces DEF S
    <2>3. \A m \in 1..e.len : k + m \in 1..Len(G) /\ G[k + m].ts = e.ts
      BY EditingPlaces
    <2>. QED
      BY <2>1, <2>2, <2>3
  <1>4. /\ \A i \in 1..Len(F) : G[S(i)].deletions = F[i].deletions \cup (IF i \in doomed THEN {e.ts} ELSE {})
        /\ \A m \in 1..e.len : G[k + m].deletions = {}
    BY DEF Editing, Grown, S
  <1>5. SUFFICES ASSUME NEW a \in 1..Len(G), NEW p \in 1..Len(H), Same(G, a, H, p),
                        NEW o \in O, Observed(w, o.ts), Observed(t, o.ts)
                 PROVE  o.ts \in G[a].deletions <=> o.ts \in H[p].deletions
    BY DEF SameDeletions, w
  <1>6. \A q \in H[p].deletions : \E l \in O : IsEdit(l) /\ Observed(t, l.ts) /\ l.ts = q
    BY DeletionsAreEdits
  <1>7. \A l \in O : IsEdit(l) /\ Observed(t, l.ts) => (l.ts \in H[p].deletions <=> Doomed(H, l, V, p))
    BY DEF Deleted
  <1>8. CASE \E i \in 1..Len(F) : a = S(i)
    <2>1. PICK i \in 1..Len(F) : a = S(i)
      BY <1>8
    <2>2. Same(F, i, H, p)
      BY <1>3, <1>5, <2>1 DEF Same
    <2>3. CASE o = e
      <3>1. \A d1 \in F[i].deletions : \E q \in O : IsEdit(q) /\ Observed(v, q.ts) /\ q.ts = d1
        BY DeletionsAreEdits
      <3>2. e.ts \notin F[i].deletions
        BY <1>1, <1>2, <3>1
      <3>3. e.ts \in G[a].deletions <=> i \in doomed
        BY <1>4, <2>1, <3>2
      <3>4. i \in doomed <=> Doomed(F, e, U, i)
        BY DEF Dooms
      <3>5. ObservedAll(t, e.version)
        BY <1>1, <1>2, <1>5, <2>3
      <3>6. Doomed(F, e, U, i) <=> Doomed(H, e, V, p)
        BY <1>1, <2>2, <3>5, SharedDoom
      <3>. QED
        BY <1>1, <1>5, <1>7, <2>3, <3>3, <3>4, <3>6
    <2>4. CASE o # e
      <3>1. Observed(v, o.ts) /\ o.ts # e.ts
        BY <1>2, <1>5, <2>4
      <3>2. o.ts \in G[a].deletions <=> o.ts \in F[i].deletions
        BY <1>4, <2>1, <3>1
      <3>. QED
        BY <1>5, <2>2, <3>1, <3>2 DEF SameDeletions
    <2>. QED
      BY <2>3, <2>4
  <1>9. CASE \E m \in 1..e.len : a = k + m
    <2>1. PICK m \in 1..e.len : a = k + m
      BY <1>9
    <2>2. G[a].ts = e.ts /\ G[a].deletions = {}
      BY <1>3, <1>4, <2>1
    <2>3. ~Observed(o.version, H[p].ts)
      BY <1>2, <1>5, <2>2 DEF Same
    <2>4. ~Doomed(H, o, V, p)
      BY <2>3 DEF Doomed, was_visible
    <2>5. o.ts \notin H[p].deletions
      <3>. SUFFICES ASSUME o.ts \in H[p].deletions PROVE FALSE
        OBVIOUS
      <3>1. PICK l \in O : IsEdit(l) /\ Observed(t, l.ts) /\ l.ts = o.ts
        BY <1>6
      <3>2. l = o
        BY <1>1, <3>1 DEF Causal
      <3>. QED
        BY <1>7, <2>4, <3>1, <3>2
    <2>. QED
      BY <2>2, <2>5
  <1>. QED
    BY <1>3, <1>8, <1>9

\* The visible flags: a deletion by an edit nobody here has undone hides.
LEMMA ShowsNext ==
    ASSUME NEW O, NEW e, NEW v, NEW c, NEW F, NEW G, NEW k, NEW doomed, Editing(O, e, v, c, F, G, k, doomed),
           NEW U, Undos(U, v, O), Shows(F, U)
    PROVE  Shows(G, U)
  <1>. DEFINE S(i) == Shift(k, e.len, i)
  <1>1. ~is_undone(U, e.ts)
    BY NotUndone DEF Editing
  <1>. HIDE DEF S
  <1>2. \A j \in 1..Len(G) : (\E i \in 1..Len(F) : j = S(i)) \/ (\E m \in 1..e.len : j = k + m)
    BY EditingPlaces DEF S
  <1>3. /\ \A i \in 1..Len(F) : /\ G[S(i)].ts = F[i].ts
                                /\ G[S(i)].deletions = F[i].deletions \cup (IF i \in doomed THEN {e.ts} ELSE {})
                                /\ G[S(i)].visible = (F[i].visible /\ i \notin doomed)
        /\ \A m \in 1..e.len : G[k + m].ts = e.ts /\ G[k + m].deletions = {} /\ G[k + m].visible = TRUE
    BY DEF Editing, Grown, S
  <1>4. ASSUME NEW i \in 1..Len(F) PROVE G[S(i)].visible <=> is_visible(G[S(i)], U)
    <2>1. F[i].visible <=> is_visible(F[i], U)
      BY DEF Shows
    <2>. DEFINE f == F[i]
                g == G[S(i)]
    <2>2. /\ g.ts = f.ts
          /\ g.deletions = f.deletions \cup (IF i \in doomed THEN {e.ts} ELSE {})
          /\ g.visible = (f.visible /\ i \notin doomed)
          /\ f.visible <=> is_visible(f, U)
      BY <1>3, <2>1
    <2>. HIDE DEF f, g
    <2>3. CASE i \in doomed
      <3>1. e.ts \in g.deletions /\ g.visible = FALSE
        BY <2>2, <2>3
      <3>2. ~is_visible(g, U)
        BY <1>1, <3>1 DEF is_visible
      <3>. QED
        BY <3>1, <3>2 DEF g
    <2>4. CASE i \notin doomed
      <3>1. g.deletions = f.deletions /\ g.visible = f.visible
        BY <2>2, <2>4
      <3>2. is_visible(g, U) <=> is_visible(f, U)
        BY <2>2, <3>1 DEF is_visible
      <3>. QED
        BY <2>2, <3>1, <3>2 DEF g
    <2>. QED
      BY <2>3, <2>4
  <1>5. ASSUME NEW m \in 1..e.len PROVE G[k + m].visible <=> is_visible(G[k + m], U)
    BY <1>1, <1>3 DEF is_visible
  <1>. SUFFICES ASSUME NEW a \in 1..Len(G) PROVE G[a].visible <=> is_visible(G[a], U)
    BY DEF Shows
  <1>6. CASE \E i \in 1..Len(F) : a = S(i)
    BY <1>4, <1>6
  <1>7. CASE \E m \in 1..e.len : a = k + m
    BY <1>5, <1>7
  <1>. QED
    BY <1>2, <1>6, <1>7

LEMMA UndosNext ==
    ASSUME NEW O, NEW e, IsEdit(e), NEW v, NEW w, \A o \in O : Observed(w, o.ts) <=> Observed(v, o.ts) \/ o = e,
           NEW U, Undos(U, v, O)
    PROVE  Undos(U, w, O)
  <1>1. {p \in O : ~IsEdit(p) /\ Observed(v, p.ts)} = {p \in O : ~IsEdit(p) /\ Observed(w, p.ts)}
    OBVIOUS
  <1>. QED
    BY <1>1 DEF Undos

\* Two copies of one text.
LEMMA SameDeletionsSelf ==
    ASSUME NEW O, NEW G, Distinct(G), NEW w
    PROVE  SameDeletions(G, w, G, w, O)
  BY DEF Distinct, SameDeletions, Same

LEMMA SameDeletionsBack ==
    ASSUME NEW O, NEW F, NEW v, NEW H, NEW w, SameDeletions(F, v, H, w, O)
    PROVE  SameDeletions(H, w, F, v, O)
  BY DEF SameDeletions, Same

-----------------------------------------------------------------------------
(* One undo applied.                                                       *)

\* Fragments that differ in their visible flags only.
Alike(F, G) ==
    /\ G \in Seq(Frag)
    /\ Len(G) = Len(F)
    /\ \A i \in 1..Len(F) : G[i].ts = F[i].ts /\ G[i].offset = F[i].offset /\ G[i].deletions = F[i].deletions

LEMMA AlikeOffset ==
    ASSUME NEW F \in Seq(Frag), NEW G, Alike(F, G), NEW x, NEW i \in 0..Len(F)
    PROVE  FullOffset(G, x, i) = FullOffset(F, x, i)
  <1>1. Len(F) \in Nat
    BY FragFields
  <1>2. \A j \in 1..i : G[j].ts = F[j].ts
    BY <1>1 DEF Alike
  <1>3. {j \in 1..i : Observed(x, G[j].ts)} = {j \in 1..i : Observed(x, F[j].ts)}
    BY <1>2
  <1>. QED
    BY <1>3 DEF FullOffset

LEMMA AlikePast ==
    ASSUME NEW F \in Seq(Frag), NEW G, Alike(F, G), NEW o, NEW i \in 1..Len(F)
    PROVE  Past(G, o, i) <=> Past(F, o, i)
  <1>. DEFINE h == i - 1
  <1>1. h \in 0..Len(F)
    BY FragFields
  <1>. HIDE DEF h
  <1>2. FullOffset(G, o.version, h) = FullOffset(F, o.version, h)
    BY <1>1, AlikeOffset
  <1>. QED
    BY <1>2 DEF Past, h

LEMMA AlikePlaced ==
    ASSUME NEW F \in Seq(Frag), NEW G, Alike(F, G), NEW o, Placed(F, o)
    PROVE  Placed(G, o)
  <1>1. \A i \in 1..Len(F) : Past(G, o, i) <=> Past(F, o, i)
    BY AlikePast
  <1>2. Len(G) = Len(F) /\ \A i \in 1..Len(F) : G[i].ts = F[i].ts /\ G[i].offset = F[i].offset
    BY DEF Alike
  <1>. QED
    BY <1>1, <1>2 DEF Placed

\* An undo changes visible flags alone.
LEMMA AlikeDoomed ==
    ASSUME NEW F \in Seq(Frag), NEW G, Alike(F, G), NEW o, NEW i \in 1..Len(F), NEW U, NEW V,
           {u \in U : Observed(o.version, u.undo)} = {u \in V : Observed(o.version, u.undo)}
    PROVE  Doomed(G, o, V, i) <=> Doomed(F, o, U, i)
  <1>1. i \in 0..Len(F)
    BY FragFields
  <1>2. FullOffset(G, o.version, i) = FullOffset(F, o.version, i)
    BY <1>1, AlikeOffset
  <1>. DEFINE f == F[i]
              g == G[i]
              x == o.version
  <1>3. f.ts = g.ts /\ f.deletions = g.deletions
    BY DEF Alike
  <1>4. {u \in U : Observed(x, u.undo)} = {u \in V : Observed(x, u.undo)}
    OBVIOUS
  <1>. HIDE DEF f, g, x
  <1>5. was_visible(f, x, U) <=> was_visible(g, x, V)
    BY <1>3, <1>4, SameVisibility
  <1>. QED
    BY <1>2, <1>5 DEF Doomed, f, g, x

\* The flags of the fragments that edit e.edit inserted or deleted are new.
Refreshes(F, G, e, V) ==
    \A i \in 1..Len(F) :
        IF F[i].ts = e.edit \/ e.edit \in F[i].deletions
        THEN G[i].visible = is_visible(F[i], V)
        ELSE G[i].visible = F[i].visible

\* Undo e, ready and not yet observed, turns the fragments F and the undos U
\* of a replica into G and V.
Undoing(O, e, v, c, F, U, G, V) ==
    /\ Causal(O)
    /\ e \in O /\ ~IsEdit(e)
    /\ Clocked(v, c, O)
    /\ ~Observed(v, e.ts)
    /\ ObservedAll(v, e.version)
    /\ Text(F, v, O) /\ AllPlaced(F, v, O) /\ Deleted(F, v, U, O) /\ Undos(U, v, O) /\ Shows(F, U)
    /\ Alike(F, G)
    /\ V = U \cup {Entry(e)}
    /\ Refreshes(F, G, e, V)

LEMMA UndoingFacts ==
    ASSUME NEW O, NEW e, NEW v, NEW c, NEW F, NEW U, NEW G, NEW V, Undoing(O, e, v, c, F, U, G, V)
    PROVE  /\ e.ts \in Timestamp /\ v \in Version /\ Observe(v, e.ts) \in Version
           /\ F \in Seq(Frag) /\ Distinct(F) /\ Alike(F, G) /\ Len(G) = Len(F)
           /\ \A o \in O : Observed(Observe(v, e.ts), o.ts) <=> Observed(v, o.ts) \/ o = e
           /\ \A o \in O : IsEdit(o) => (Observed(Observe(v, e.ts), o.ts) <=> Observed(v, o.ts))
           /\ \A o \in O : Observed(v, o.ts) => ~Observed(o.version, e.ts)
           /\ \A ts, n : IsChar(ts, n, Observe(v, e.ts), O) <=> IsChar(ts, n, v, O)
  <1>1. e.ts \in Timestamp
    BY OpFields DEF Undoing
  <1>2. v \in Version
    BY DEF Undoing, Clocked
  <1>3. Observe(v, e.ts) \in Version
    BY <1>1, <1>2, ObserveType
  <1>4. F \in Seq(Frag) /\ Distinct(F)
    BY TextFields DEF Undoing
  <1>5. Alike(F, G) /\ Len(G) = Len(F)
    BY DEF Undoing, Alike
  <1>6. \A o \in O : Observed(Observe(v, e.ts), o.ts) <=> Observed(v, o.ts) \/ o = e
    BY ObserveOne DEF Undoing
  <1>7. \A o \in O : IsEdit(o) => (Observed(Observe(v, e.ts), o.ts) <=> Observed(v, o.ts))
    BY <1>6 DEF Undoing
  <1>8. \A o \in O : Observed(v, o.ts) => ~Observed(o.version, e.ts)
    BY NotYetKnown DEF Undoing
  <1>9. \A ts, n : IsChar(ts, n, Observe(v, e.ts), O) <=> IsChar(ts, n, v, O)
    BY <1>7 DEF IsChar
  <1>. QED
    BY <1>1, <1>2, <1>3, <1>4, <1>5, <1>6, <1>7, <1>8, <1>9

LEMMA UndoText ==
    ASSUME NEW O, NEW e, NEW v, NEW c, NEW F, NEW U, NEW G, NEW V, Undoing(O, e, v, c, F, U, G, V)
    PROVE  Text(G, Observe(v, e.ts), O) /\ AllPlaced(G, Observe(v, e.ts), O)
  <1>. DEFINE w == Observe(v, e.ts)
  <1>1. /\ F \in Seq(Frag) /\ Distinct(F) /\ Alike(F, G) /\ Len(G) = Len(F)
        /\ \A ts, n : IsChar(ts, n, w, O) <=> IsChar(ts, n, v, O)
        /\ \A o \in O : IsEdit(o) => (Observed(w, o.ts) <=> Observed(v, o.ts))
    BY UndoingFacts
  <1>. HIDE DEF w
  <1>2. Text(F, v, O) /\ AllPlaced(F, v, O)
    BY DEF Undoing
  <1>3. /\ \A i \in 1..Len(F) : IsChar(F[i].ts, F[i].offset, v, O)
        /\ \A ts, n : IsChar(ts, n, v, O) => \E i \in 1..Len(F) : F[i].ts = ts /\ F[i].offset = n
    BY <1>2 DEF Text
  <1>4. G \in Seq(Frag) /\ \A i \in 1..Len(F) : G[i].ts = F[i].ts /\ G[i].offset = F[i].offset
    BY <1>1 DEF Alike
  <1>5. Distinct(G)
    BY <1>1, <1>4 DEF Distinct
  <1>6. ASSUME NEW ts, NEW n, IsChar(ts, n, w, O) PROVE \E i \in 1..Len(G) : G[i].ts = ts /\ G[i].offset = n
    <2>1. IsChar(ts, n, v, O)
      BY <1>1, <1>6
    <2>2. PICK i \in 1..Len(F) : F[i].ts = ts /\ F[i].offset = n
      BY <1>3, <2>1
    <2>. QED
      BY <1>1, <1>4, <2>2
  <1>7. \A i \in 1..Len(G) : IsChar(G[i].ts, G[i].offset, w, O)
    BY <1>1, <1>3, <1>4
  <1>8. Text(G, w, O)
    BY <1>4, <1>5, <1>6, <1>7 DEF Text
  <1>9. AllPlaced(G, w, O)
    <2>. SUFFICES ASSUME NEW o \in O, IsEdit(o), Observed(w, o.ts) PROVE Placed(G, o)
      BY DEF AllPlaced
    <2>1. Placed(F, o)
      BY <1>1, <1>2 DEF AllPlaced
    <2>. QED
      BY <1>1, <2>1, AlikePlaced
  <1>. QED
    BY <1>8, <1>9 DEF w

LEMMA UndoDeleted ==
    ASSUME NEW O, NEW e, NEW v, NEW c, NEW F, NEW U, NEW G, NEW V, Undoing(O, e, v, c, F, U, G, V)
    PROVE  Deleted(G, Observe(v, e.ts), V, O)
  <1>. DEFINE w == Observe(v, e.ts)
  <1>1. /\ F \in Seq(Frag) /\ Alike(F, G) /\ Len(G) = Len(F)
        /\ \A o \in O : IsEdit(o) => (Observed(w, o.ts) <=> Observed(v, o.ts))
        /\ \A o \in O : Observed(v, o.ts) => ~Observed(o.version, e.ts)
    BY UndoingFacts
  <1>. HIDE DEF w
  <1>2. Deleted(F, v, U, O) /\ V = U \cup {Entry(e)} /\ Entry(e).undo = e.ts
    BY DEF Undoing, Entry
  <1>3. ASSUME NEW o \in O, IsEdit(o), Observed(v, o.ts), NEW i \in 1..Len(F)
        PROVE  Doomed(G, o, V, i) <=> Doomed(F, o, U, i)
    <2>1. {u \in U : Observed(o.version, u.undo)} = {u \in V : Observed(o.version, u.undo)}
      BY <1>1, <1>2, <1>3
    <2>. QED
      BY <1>1, <2>1, AlikeDoomed
  <1>4. \A i \in 1..Len(F) : G[i].deletions = F[i].deletions
    BY <1>1 DEF Alike
  <1>5. Deleted(G, w, V, O)
    BY <1>1, <1>2, <1>3, <1>4 DEF Deleted
  <1>. QED
    BY <1>5 DEF w

LEMMA UndoUndos ==
    ASSUME NEW O, NEW e, NEW v, NEW c, NEW F, NEW U, NEW G, NEW V, Undoing(O, e, v, c, F, U, G, V)
    PROVE  Undos(V, Observe(v, e.ts), O)
  <1>. DEFINE w == Observe(v, e.ts)
  <1>1. \A o \in O : Observed(w, o.ts) <=> Observed(v, o.ts) \/ o = e
    BY UndoingFacts
  <1>. HIDE DEF w
  <1>2. e \in O /\ ~IsEdit(e) /\ V = U \cup {Entry(e)}
    BY DEF Undoing
  <1>3. U = {Entry(o) : o \in {p \in O : ~IsEdit(p) /\ Observed(v, p.ts)}}
    BY DEF Undoing, Undos
  <1>4. {p \in O : ~IsEdit(p) /\ Observed(w, p.ts)} = {p \in O : ~IsEdit(p) /\ Observed(v, p.ts)} \cup {e}
    BY <1>1, <1>2
  <1>5. V = {Entry(o) : o \in {p \in O : ~IsEdit(p) /\ Observed(w, p.ts)}}
    BY <1>2, <1>3, <1>4
  <1>. QED
    BY <1>5 DEF Undos, w

LEMMA UndoShows ==
    ASSUME NEW O, NEW e, NEW v, NEW c, NEW F, NEW U, NEW G, NEW V, Undoing(O, e, v, c, F, U, G, V)
    PROVE  Shows(G, V)
  <1>. SUFFICES ASSUME NEW i \in 1..Len(F) PROVE G[i].visible <=> is_visible(G[i], V)
    BY UndoingFacts DEF Shows
  <1>1. /\ Shows(F, U) /\ V = U \cup {Entry(e)} /\ Entry(e).edit = e.edit
        /\ G[i].ts = F[i].ts /\ G[i].deletions = F[i].deletions
    <2>1. Shows(F, U) /\ V = U \cup {Entry(e)} /\ Alike(F, G)
      BY DEF Undoing
    <2>2. Entry(e).edit = e.edit
      BY DEF Entry
    <2>. QED
      BY <2>1, <2>2 DEF Alike
  <1>2. is_visible(G[i], V) <=> is_visible(F[i], V)
    BY <1>1 DEF is_visible
  <1>3. CASE F[i].ts = e.edit \/ e.edit \in F[i].deletions
    BY <1>2, <1>3 DEF Undoing, Refreshes
  <1>4. CASE ~(F[i].ts = e.edit \/ e.edit \in F[i].deletions)
    <2>1. G[i].visible = F[i].visible
      BY <1>4 DEF Undoing, Refreshes
    <2>2. ASSUME NEW x, x # e.edit PROVE is_undone(V, x) <=> is_undone(U, x)
      <3>1. {y \in V : y.edit = x} = {y \in U : y.edit = x}
        BY <1>1, <2>2
      <3>. QED
        BY <3>1 DEF is_undone, undo_count
    <2>3. is_undone(V, F[i].ts) <=> is_undone(U, F[i].ts)
      BY <1>4, <2>2
    <2>4. \A d \in F[i].deletions : is_undone(V, d) <=> is_undone(U, d)
      BY <1>4, <2>2
    <2>5. is_visible(F[i], V) <=> is_visible(F[i], U)
      BY <2>3, <2>4 DEF is_visible
    <2>6. F[i].visible <=> is_visible(F[i], U)
      BY <1>1 DEF Shows
    <2>. QED
      BY <1>2, <2>1, <2>5, <2>6
  <1>. QED
    BY <1>3, <1>4

LEMMA AlikeAgree ==
    ASSUME NEW F \in Seq(Frag), NEW G, Alike(F, G), NEW H, Agree(F, H)
    PROVE  Agree(G, H)
  <1>1. Len(G) = Len(F) /\ \A i \in 1..Len(F) : G[i].ts = F[i].ts /\ G[i].offset = F[i].offset
    BY DEF Alike
  <1>. QED
    BY <1>1 DEF Agree, Same

LEMMA UndoSameDeletions ==
    ASSUME NEW O, NEW e, NEW v, NEW c, NEW F, NEW U, NEW G, NEW V, Undoing(O, e, v, c, F, U, G, V),
           NEW t, NEW W, NEW H, Deleted(H, t, W, O), SameDeletions(F, v, H, t, O)
    PROVE  SameDeletions(G, Observe(v, e.ts), H, t, O)
  <1>. DEFINE w == Observe(v, e.ts)
  <1>1. /\ F \in Seq(Frag) /\ Alike(F, G) /\ Len(G) = Len(F)
        /\ \A o \in O : Observed(w, o.ts) <=> Observed(v, o.ts) \/ o = e
    BY UndoingFacts
  <1>2. \A i \in 1..Len(F) : G[i].ts = F[i].ts /\ G[i].offset = F[i].offset /\ G[i].deletions = F[i].deletions
    BY <1>1 DEF Alike
  <1>. HIDE DEF w
  <1>3. e \in O /\ ~IsEdit(e) /\ Deleted(F, v, U, O) /\ \A q \in O : q.ts = e.ts => q = e
    BY DEF Undoing, Causal
  <1>4. SUFFICES ASSUME NEW i \in 1..Len(F), NEW p \in 1..Len(H), Same(G, i, H, p),
                        NEW o \in O, Observed(w, o.ts), Observed(t, o.ts)
                 PROVE  o.ts \in G[i].deletions <=> o.ts \in H[p].deletions
    BY <1>1 DEF SameDeletions, w
  <1>5. Same(F, i, H, p)
    BY <1>2, <1>4 DEF Same
  <1>6. CASE o = e
    <2>1. \A d \in F[i].deletions : \E q \in O : IsEdit(q) /\ Observed(v, q.ts) /\ q.ts = d
      BY <1>3, DeletionsAreEdits
    <2>2. \A d \in H[p].deletions : \E q \in O : IsEdit(q) /\ Observed(t, q.ts) /\ q.ts = d
      BY DeletionsAreEdits
    <2>. QED
      BY <1>2, <1>3, <1>6, <2>1, <2>2
  <1>7. CASE o # e
    <2>1. Observed(v, o.ts)
      BY <1>1, <1>4, <1>7
    <2>. QED
      BY <1>2, <1>4, <1>5, <2>1 DEF SameDeletions
  <1>. QED
    BY <1>6, <1>7

-----------------------------------------------------------------------------
(* One operation applied.                                                  *)

\* The buffer b can take the place of replica r.
Joins(b, r, B, O) ==
    /\ IsBuffer(b) /\ Replicated(b, O)
    /\ \A q \in Replica : q # r =>
          /\ Agree(b.fragments, B[q].fragments)
          /\ SameDeletions(b.fragments, b.version, B[q].fragments, B[q].version, O)
    /\ \A o \in O : IsEdit(o) /\ Anchors(B[r], o) => Anchors(b, o)
    /\ \A o \in O : Marks(B[r], o) => Marks(b, o)

\* One replica may take the place of its old buffer.
LEMMA AgreedWith ==
    ASSUME NEW O, NEW B, Agreed(B, O), NEW r \in Replica, NEW b, Joins(b, r, B, O)
    PROVE  Agreed([B EXCEPT ![r] = b], O)
  <1>. DEFINE C == [B EXCEPT ![r] = b]
  <1>1. B = [q \in Replica |-> B[q]]
    BY DEF Agreed
  <1>2. C = [q \in Replica |-> C[q]] /\ C[r] = b /\ \A q \in Replica : q # r => C[q] = B[q]
    BY <1>1
  <1>. HIDE DEF C
  <1>3. Causal(O)
    BY DEF Agreed
  <1>4. \A q \in Replica : IsBuffer(C[q]) /\ Replicated(C[q], O)
    BY <1>2 DEF Agreed, Joins
  <1>5. \A q \in Replica : Agree(C[r].fragments, C[q].fragments)
    <2>. SUFFICES ASSUME NEW q \in Replica PROVE Agree(C[r].fragments, C[q].fragments)
      OBVIOUS
    <2>1. CASE q = r
      <3>1. Distinct(b.fragments)
        BY TextFields DEF Joins, Replicated
      <3>. QED
        BY <1>2, <2>1, <3>1, AgreeSelf
    <2>2. CASE q # r
      BY <1>2, <2>2 DEF Joins
    <2>. QED
      BY <2>1, <2>2
  <1>6. \A q \in Replica : SameDeletions(C[r].fragments, C[r].version, C[q].fragments, C[q].version, O)
    <2>. SUFFICES ASSUME NEW q \in Replica
                  PROVE  SameDeletions(C[r].fragments, C[r].version, C[q].fragments, C[q].version, O)
      OBVIOUS
    <2>1. CASE q = r
      <3>1. Distinct(b.fragments)
        BY TextFields DEF Joins, Replicated
      <3>. QED
        BY <1>2, <2>1, <3>1, SameDeletionsSelf
    <2>2. CASE q # r
      BY <1>2, <2>2 DEF Joins
    <2>. QED
      BY <2>1, <2>2
  <1>7. ASSUME NEW p \in Replica, NEW q \in Replica
        PROVE  /\ Agree(C[p].fragments, C[q].fragments)
               /\ SameDeletions(C[p].fragments, C[p].version, C[q].fragments, C[q].version, O)
    <2>1. CASE p = r
      BY <1>5, <1>6, <2>1
    <2>2. CASE q = r
      <3>1. Agree(C[p].fragments, C[q].fragments)
        BY <1>5, <2>2, AgreeBack
      <3>2. SameDeletions(C[p].fragments, C[p].version, C[q].fragments, C[q].version, O)
        BY <1>6, <2>2, SameDeletionsBack
      <3>. QED
        BY <3>1, <3>2
    <2>3. CASE p # r /\ q # r
      BY <1>2, <2>3 DEF Agreed
    <2>. QED
      BY <2>1, <2>2, <2>3
  <1>8. Anchored(C, O)
    <2>. SUFFICES ASSUME NEW o \in O, IsEdit(o) PROVE \E q \in Replica : Anchors(C[q], o)
      BY DEF Anchored
    <2>1. PICK q \in Replica : Anchors(B[q], o)
      BY DEF Agreed, Anchored
    <2>2. CASE q = r
      BY <1>2, <2>1, <2>2 DEF Joins
    <2>3. CASE q # r
      BY <1>2, <2>1, <2>3
    <2>. QED
      BY <2>2, <2>3
  <1>m. Marked(C, O)
    <2>. SUFFICES ASSUME NEW o \in O, IsEdit(o), o.from < o.to PROVE \E q \in Replica : Marks(C[q], o)
      BY DEF Marked
    <2>1. PICK q \in Replica : Marks(B[q], o)
      BY DEF Agreed, Marked
    <2>2. CASE q = r
      BY <1>2, <2>1, <2>2 DEF Joins
    <2>3. CASE q # r
      BY <1>2, <2>1, <2>3
    <2>. QED
      BY <2>2, <2>3
  <1>9. Agreed(C, O)
    BY <1>2, <1>3, <1>4, <1>7, <1>8, <1>m DEF Agreed
  <1>. QED
    BY <1>9 DEF C

\* A replica that is ready for an edit has what the edit starts at.
LEMMA ReadyIsAnchored ==
    ASSUME NEW O, NEW B, Agreed(B, O), NEW r \in Replica, NEW e \in O, IsEdit(e), ObservedAll(B[r].version, e.version)
    PROVE  e.from <= FullOffset(B[r].fragments, e.version, Len(B[r].fragments))
  <1>1. PICK q \in Replica : Anchors(B[q], e)
    BY DEF Agreed, Anchored
  <1>2. /\ Text(B[q].fragments, B[q].version, O) /\ Text(B[r].fragments, B[r].version, O)
        /\ B[q].version \in Version /\ B[r].version \in Version
    BY DEF Agreed, Replicated, Clocked
  <1>3. e.version \in Version
    BY OpFields DEF Agreed
  <1>4. FullOffset(B[q].fragments, e.version, Len(B[q].fragments)) = FullOffset(B[r].fragments, e.version, Len(B[r].fragments))
    BY <1>1, <1>2, <1>3, SharedTotal DEF Anchors
  <1>. QED
    BY <1>1, <1>4 DEF Anchors

LEMMA RecordFields ==
    ASSUME NEW b, IsBuffer(b), NEW ts
    PROVE  /\ IsBuffer(Record(b, ts))
           /\ Record(b, ts).version = Observe(b.version, ts)
           /\ Record(b, ts).clock = Advance(b.clock, ts)
           /\ Record(b, ts).fragments = b.fragments
           /\ Record(b, ts).undo_map = b.undo_map
           /\ Record(b, ts).deferred_ops = b.deferred_ops
  <1>. DEFINE F == b.fragments
              v == b.version
              c == b.clock
              U == b.undo_map
              D == b.deferred_ops
  <1>1. b = [fragments |-> F, version |-> v, clock |-> c, undo_map |-> U, deferred_ops |-> D]
    BY DEF IsBuffer
  <1>2. Record(b, ts) = [b EXCEPT !.version = Observe(v, ts), !.clock = Advance(c, ts)]
    BY DEF Record
  <1>. HIDE DEF F, v, c, U, D
  <1>3. Record(b, ts) = [fragments |-> F, version |-> Observe(v, ts), clock |-> Advance(c, ts), undo_map |-> U, deferred_ops |-> D]
    BY <1>1, <1>2
  <1>. QED
    BY <1>3 DEF IsBuffer, F, v, c, U, D

LEMMA ObserveGrows ==
    ASSUME NEW v \in Version, NEW ts \in Timestamp, NEW x \in Version, ObservedAll(v, x)
    PROVE  ObservedAll(Observe(v, ts), x)
  <1>1. \A s \in Replica : v[s] \in Nat /\ Observe(v, ts)[s] \in Nat /\ Observe(v, ts)[s] >= v[s]
    BY ObserveType
  <1>2. \A s \in Replica : x[s] \in Nat
    BY DEF Version
  <1>3. ASSUME NEW s \in Replica PROVE Observe(v, ts)[s] >= x[s]
    <2>1. v[s] >= x[s]
      BY DEF ObservedAll
    <2>. QED
      BY <1>1, <1>2, <2>1
  <1>. QED
    BY <1>3 DEF ObservedAll

\* The buffer with the fragments edit e makes and e recorded.
LEMMA EditJoins ==
    ASSUME NEW O, NEW B, Agreed(B, O), NEW r \in Replica, NEW e \in O, IsEdit(e),
           NEW v, NEW c, NEW F, NEW U, v = B[r].version, c = B[r].clock, F = B[r].fragments, U = B[r].undo_map,
           NEW G, NEW k, NEW doomed, Editing(O, e, v, c, F, G, k, doomed), Dooms(F, e, U, doomed),
           NEW b, IsBuffer(b), b.fragments = G, b.version = Observe(v, e.ts), b.clock = Advance(c, e.ts), b.undo_map = U
    PROVE  Joins(b, r, B, O)
  <1>. DEFINE w == Observe(v, e.ts)
              d == Advance(c, e.ts)
  <1>0. /\ Causal(O) /\ Clocked(v, c, O) /\ Text(F, v, O) /\ AllPlaced(F, v, O) /\ Deleted(F, v, U, O)
        /\ Undos(U, v, O) /\ Shows(F, U)
    BY DEF Agreed, Replicated
  <1>1. ObservedAll(v, e.version) /\ ~Observed(v, e.ts)
    BY DEF Editing
  <1>2. \A o \in O : Observed(w, o.ts) <=> Observed(v, o.ts) \/ o = e
    BY EditingFacts
  <1>3. Clocked(w, d, O)
    BY <1>0, <1>1, ClockedNext
  <1>4. Text(G, w, O)
    BY TextNext
  <1>5. AllPlaced(G, w, O)
    BY PlacedNext
  <1>6. Deleted(G, w, U, O)
    BY <1>0, DeletedNext
  <1>7. Shows(G, U)
    BY <1>0, ShowsNext
  <1>. HIDE DEF w, d
  <1>8. Undos(U, w, O)
    BY <1>0, <1>2, UndosNext
  <1>9. Replicated(b, O)
    BY <1>3, <1>4, <1>5, <1>6, <1>7, <1>8 DEF Replicated, w, d
  <1>10. ASSUME NEW q \in Replica, q # r
         PROVE  /\ Agree(b.fragments, B[q].fragments)
                /\ SameDeletions(b.fragments, b.version, B[q].fragments, B[q].version, O)
    <2>1. PICK t, tc, H, V : t = B[q].version /\ tc = B[q].clock /\ H = B[q].fragments /\ V = B[q].undo_map
      OBVIOUS
    <2>2. /\ Clocked(t, tc, O) /\ Text(H, t, O) /\ AllPlaced(H, t, O) /\ Deleted(H, t, V, O) /\ Undos(V, t, O)
      BY <2>1 DEF Agreed, Replicated
    <2>3. Agree(F, H) /\ SameDeletions(F, v, H, t, O)
      BY <2>1 DEF Agreed
    <2>4. Agree(G, H)
      BY <2>2, <2>3, AgreeNext
    <2>5. SameDeletions(G, Observe(v, e.ts), H, t, O)
      BY <1>0, <2>2, <2>3, SameDeletionsNext
    <2>. QED
      BY <2>1, <2>4, <2>5
  <1>v. v \in Version /\ e.ts \in Timestamp /\ \A o \in O : o.version \in Version
    BY <1>0, OpFields DEF Clocked
  <1>13. \A o \in O : ObservedAll(v, o.version) => ObservedAll(b.version, o.version)
    BY <1>v, ObserveGrows
  <1>14. \A o \in O : ObservedAll(v, o.version) => ~Observed(o.version, e.ts)
    BY <1>1, <1>v, ObservedThrough
  <1>11. ASSUME NEW o \in O, IsEdit(o), Anchors(B[r], o) PROVE Anchors(b, o)
    <2>1. ObservedAll(v, o.version) /\ o.from <= FullOffset(F, o.version, Len(F))
      BY <1>11 DEF Anchors
    <2>2. e.ts \in Timestamp
      BY <1>v
    <2>3. ~Observed(o.version, e.ts)
      BY <1>14, <2>1
    <2>4. FullOffset(G, o.version, Len(G)) = FullOffset(F, o.version, Len(F))
      <3>. DEFINE x == o.version
                  n == e.len
      <3>a. ~Observed(x, e.ts) /\ Grown(F, G, k, e.ts, n, doomed)
        BY <2>3 DEF Editing
      <3>b. n \in Nat /\ k \in 0..Len(F) /\ F \in Seq(Frag)
        BY EditingFacts
      <3>1. ~Observed(x, e.ts) /\ n \in Nat /\ k \in 0..Len(F) /\ F \in Seq(Frag) /\ Grown(F, G, k, e.ts, n, doomed)
        BY <3>a, <3>b
      <3>. HIDE DEF x, n
      <3>2. FullOffset(G, x, Len(G)) = FullOffset(F, x, Len(F))
        BY <2>2, <3>1, GrownTotal
      <3>. QED
        BY <3>2 DEF x
    <2>5. ObservedAll(b.version, o.version)
      BY <1>13, <2>1
    <2>. QED
      BY <2>1, <2>4, <2>5 DEF Anchors
  <1>12. ASSUME NEW o \in O, Marks(B[r], o) PROVE Marks(b, o)
    <2>1. PICK i \in 1..Len(F) : Doomed(F, o, U, i)
      BY <1>12 DEF Marks
    <2>2. ObservedAll(v, o.version) /\ ~Observed(o.version, e.ts)
      BY <1>12, <1>14 DEF Marks
    <2>3. Shift(k, e.len, i) \in 1..Len(G)
      BY EditingPlaces
    <2>4. Doomed(G, o, U, Shift(k, e.len, i))
      BY <2>1, <2>2, DoomedNext
    <2>5. ObservedAll(b.version, o.version)
      BY <2>2, <1>13
    <2>. QED
      BY <2>3, <2>4, <2>5 DEF Marks
  <1>. QED
    BY <1>9, <1>10, <1>11, <1>12 DEF Joins

\* The buffer with the fragments and undos that undo e makes and e recorded.
LEMMA UndoJoins ==
    ASSUME NEW O, NEW B, Agreed(B, O), NEW r \in Replica, NEW e \in O, ~IsEdit(e),
           NEW v, NEW c, NEW F, NEW U, v = B[r].version, c = B[r].clock, F = B[r].fragments, U = B[r].undo_map,
           NEW G, NEW V, Undoing(O, e, v, c, F, U, G, V),
           NEW b, IsBuffer(b), b.fragments = G, b.version = Observe(v, e.ts), b.clock = Advance(c, e.ts), b.undo_map = V
    PROVE  Joins(b, r, B, O)
  <1>. DEFINE w == Observe(v, e.ts)
              d == Advance(c, e.ts)
  <1>0. /\ Causal(O) /\ Clocked(v, c, O)
    BY DEF Agreed, Replicated
  <1>1. ObservedAll(v, e.version) /\ ~Observed(v, e.ts)
    BY DEF Undoing
  <1>3. Clocked(w, d, O)
    BY <1>0, <1>1, ClockedNext
  <1>4. Text(G, w, O) /\ AllPlaced(G, w, O)
    BY UndoText
  <1>6. Deleted(G, w, V, O)
    BY UndoDeleted
  <1>7. Shows(G, V)
    BY UndoShows
  <1>8. Undos(V, w, O)
    BY UndoUndos
  <1>f. F \in Seq(Frag) /\ Alike(F, G) /\ Len(G) = Len(F) /\ Len(F) \in Nat
    BY UndoingFacts, FragFields
  <1>. HIDE DEF w, d
  <1>9. Replicated(b, O)
    BY <1>3, <1>4, <1>6, <1>7, <1>8 DEF Replicated, w, d
  <1>10. ASSUME NEW q \in Replica, q # r
         PROVE  /\ Agree(b.fragments, B[q].fragments)
                /\ SameDeletions(b.fragments, b.version, B[q].fragments, B[q].version, O)
    <2>1. PICK t, H, V1 : t = B[q].version /\ H = B[q].fragments /\ V1 = B[q].undo_map
      OBVIOUS
    <2>2. Deleted(H, t, V1, O)
      BY <2>1 DEF Agreed, Replicated
    <2>3. Agree(F, H) /\ SameDeletions(F, v, H, t, O)
      BY <2>1 DEF Agreed
    <2>4. Agree(G, H)
      BY <1>f, <2>3, AlikeAgree
    <2>5. SameDeletions(G, Observe(v, e.ts), H, t, O)
      BY <2>2, <2>3, UndoSameDeletions
    <2>. QED
      BY <2>1, <2>4, <2>5
  <1>v. v \in Version /\ e.ts \in Timestamp /\ \A o \in O : o.version \in Version
    BY <1>0, OpFields DEF Clocked
  <1>13. \A o \in O : ObservedAll(v, o.version) => ObservedAll(b.version, o.version)
    BY <1>v, ObserveGrows
  <1>14. \A o \in O : ObservedAll(v, o.version) => ~Observed(o.version, e.ts)
    BY <1>1, <1>v, ObservedThrough
  <1>11. ASSUME NEW o \in O, IsEdit(o), Anchors(B[r], o) PROVE Anchors(b, o)
    <2>1. ObservedAll(v, o.version) /\ o.from <= FullOffset(F, o.version, Len(F))
      BY <1>11 DEF Anchors
    <2>4. FullOffset(G, o.version, Len(G)) = FullOffset(F, o.version, Len(F))
      <3>1. Len(F) \in 0..Len(F)
        BY <1>f
      <3>. QED
        BY <1>f, <3>1, AlikeOffset
    <2>5. ObservedAll(b.version, o.version)
      BY <1>13, <2>1
    <2>. QED
      BY <2>1, <2>4, <2>5 DEF Anchors
  <1>12. ASSUME NEW o \in O, Marks(B[r], o) PROVE Marks(b, o)
    <2>1. PICK i \in 1..Len(F) : Doomed(F, o, U, i)
      BY <1>12 DEF Marks
    <2>2. ObservedAll(v, o.version) /\ ~Observed(o.version, e.ts)
      BY <1>12, <1>14 DEF Marks
    <2>3. {x \in U : Observed(o.version, x.undo)} = {x \in V : Observed(o.version, x.undo)}
      BY <2>2 DEF Undoing, Entry
    <2>4. Doomed(G, o, V, i)
      BY <1>f, <2>1, <2>3, AlikeDoomed
    <2>5. ObservedAll(b.version, o.version)
      BY <2>2, <1>13
    <2>. QED
      BY <1>f, <2>4, <2>5 DEF Marks
  <1>. QED
    BY <1>9, <1>10, <1>11, <1>12 DEF Joins

\* What apply_remote_edit deletes.
KnownRange(b, e) ==
    {i \in DOMAIN b.fragments :
        /\ FullOffset(b.fragments, e.version, i) \in (e.from + 1)..e.to
        /\ was_visible(b.fragments[i], e.version, b.undo_map)}

LEMMA RemoteEditFields ==
    ASSUME NEW b, IsBuffer(b), NEW e
    PROVE  /\ IsBuffer(apply_remote_edit(b, e))
           /\ apply_remote_edit(b, e).fragments =
                 Insert(Delete(b.fragments, KnownRange(b, e), e.ts), InsertionPoint(b, e), e.ts, e.len)
           /\ apply_remote_edit(b, e).version = b.version
           /\ apply_remote_edit(b, e).clock = b.clock
           /\ apply_remote_edit(b, e).undo_map = b.undo_map
           /\ apply_remote_edit(b, e).deferred_ops = b.deferred_ops
  <1>. DEFINE F == b.fragments
              v == b.version
              c == b.clock
              U == b.undo_map
              D == b.deferred_ops
              G == Insert(Delete(b.fragments, KnownRange(b, e), e.ts), InsertionPoint(b, e), e.ts, e.len)
  <1>1. b = [fragments |-> F, version |-> v, clock |-> c, undo_map |-> U, deferred_ops |-> D]
    BY DEF IsBuffer
  <1>2. apply_remote_edit(b, e) = [b EXCEPT !.fragments = G]
    BY DEF apply_remote_edit, KnownRange
  <1>. HIDE DEF F, v, c, U, D, G
  <1>3. apply_remote_edit(b, e) = [fragments |-> G, version |-> v, clock |-> c, undo_map |-> U, deferred_ops |-> D]
    BY <1>1, <1>2
  <1>. QED
    BY <1>3 DEF IsBuffer, F, v, c, U, D, G

\* What apply_undo makes of the fragments.
Refreshed(b, e) ==
    [i \in DOMAIN b.fragments |->
        IF b.fragments[i].ts = e.edit \/ e.edit \in b.fragments[i].deletions
        THEN [b.fragments[i] EXCEPT !.visible = is_visible(b.fragments[i], b.undo_map \cup {Entry(e)})]
        ELSE b.fragments[i]]

LEMMA UndoFields ==
    ASSUME NEW b, IsBuffer(b), NEW e
    PROVE  /\ IsBuffer(apply_undo(b, e))
           /\ apply_undo(b, e).fragments = Refreshed(b, e)
           /\ apply_undo(b, e).version = b.version
           /\ apply_undo(b, e).clock = b.clock
           /\ apply_undo(b, e).undo_map = b.undo_map \cup {Entry(e)}
           /\ apply_undo(b, e).deferred_ops = b.deferred_ops
  <1>. DEFINE F == b.fragments
              v == b.version
              c == b.clock
              U == b.undo_map
              D == b.deferred_ops
              G == Refreshed(b, e)
              V == b.undo_map \cup {Entry(e)}
  <1>1. b = [fragments |-> F, version |-> v, clock |-> c, undo_map |-> U, deferred_ops |-> D]
    BY DEF IsBuffer
  <1>2. apply_undo(b, e) = [b EXCEPT !.undo_map = V, !.fragments = G]
    BY DEF apply_undo, Refreshed, Entry
  <1>. HIDE DEF F, v, c, U, D, G, V
  <1>3. apply_undo(b, e) = [fragments |-> G, version |-> v, clock |-> c, undo_map |-> V, deferred_ops |-> D]
    BY <1>1, <1>2
  <1>. QED
    BY <1>3 DEF IsBuffer, F, v, c, U, D, G, V

LEMMA RefreshedFacts ==
    ASSUME NEW b, NEW F, F = b.fragments, F \in Seq(Frag), NEW e, NEW V, V = b.undo_map \cup {Entry(e)}
    PROVE  /\ Alike(F, Refreshed(b, e))
           /\ Refreshes(F, Refreshed(b, e), e, V)
  <1>. DEFINE G == Refreshed(b, e)
  <1>1. Len(F) \in Nat /\ DOMAIN F = 1..Len(F) /\ \A i \in 1..Len(F) : F[i] \in Frag
    BY FragFields
  <1>2. G = [i \in 1..Len(F) |->
                IF F[i].ts = e.edit \/ e.edit \in F[i].deletions
                THEN [F[i] EXCEPT !.visible = is_visible(F[i], V)]
                ELSE F[i]]
    BY <1>1 DEF Refreshed
  <1>. HIDE DEF G
  <1>3. ASSUME NEW i \in 1..Len(F)
        PROVE  /\ G[i] \in Frag
               /\ G[i].ts = F[i].ts /\ G[i].offset = F[i].offset /\ G[i].deletions = F[i].deletions
               /\ IF F[i].ts = e.edit \/ e.edit \in F[i].deletions
                  THEN G[i].visible = is_visible(F[i], V)
                  ELSE G[i].visible = F[i].visible
    <2>. DEFINE f == F[i]
                shown == is_visible(F[i], V)
    <2>1. f \in Frag /\ f = F[i]
      BY <1>1
    <2>2. shown \in BOOLEAN
      BY DEF is_visible
    <2>3. G[i] = IF F[i].ts = e.edit \/ e.edit \in F[i].deletions THEN [f EXCEPT !.visible = shown] ELSE f
      BY <1>2
    <2>. HIDE DEF f, shown
    <2>4. /\ [f EXCEPT !.visible = shown] \in Frag
          /\ [f EXCEPT !.visible = shown].ts = f.ts /\ [f EXCEPT !.visible = shown].offset = f.offset
          /\ [f EXCEPT !.visible = shown].deletions = f.deletions
          /\ [f EXCEPT !.visible = shown].visible = shown
      BY <2>1, <2>2 DEF Frag
    <2>5. CASE F[i].ts = e.edit \/ e.edit \in F[i].deletions
      <3>1. G[i] = [f EXCEPT !.visible = shown]
        BY <2>3, <2>5
      <3>. QED
        BY <2>1, <2>4, <2>5, <3>1 DEF shown
    <2>6. CASE ~(F[i].ts = e.edit \/ e.edit \in F[i].deletions)
      <3>1. G[i] = f
        BY <2>3, <2>6
      <3>. QED
        BY <2>1, <2>6, <3>1
    <2>. QED
      BY <2>5, <2>6
  <1>4. G \in Seq(Frag) /\ Len(G) = Len(F)
    <2>1. DOMAIN G = 1..Len(F) /\ Len(F) \in Nat
      BY <1>1, <1>2
    <2>2. G \in [1..Len(F) -> Frag]
      BY <1>2, <1>3
    <2>. QED
      BY <1>1, <2>1, <2>2
  <1>. QED
    BY <1>3, <1>4 DEF Alike, Refreshes, G

\* Applying a ready operation that is new.
LEMMA ApplyJoins ==
    ASSUME NEW O, NEW B, Agreed(B, O), NEW r \in Replica, NEW e \in O,
           ~Observed(B[r].version, e.ts), ObservedAll(B[r].version, e.version)
    PROVE  Joins(apply_op(B[r], e), r, B, O)
  <1>. DEFINE b == B[r]
              v == b.version
              c == b.clock
              F == b.fragments
              U == b.undo_map
  <1>1. /\ Causal(O) /\ IsBuffer(b) /\ Clocked(v, c, O) /\ Text(F, v, O) /\ AllPlaced(F, v, O)
        /\ Deleted(F, v, U, O) /\ Undos(U, v, O) /\ Shows(F, U)
    BY DEF Agreed, Replicated
  <1>2. F \in Seq(Frag) /\ DOMAIN F = 1..Len(F) /\ e.ts \in Timestamp
    BY <1>1, TextFields, OpFields
  <1>3. CASE IsEdit(e)
    <2>. DEFINE m == apply_remote_edit(b, e)
                k == InsertionPoint(b, e)
                doomed == KnownRange(b, e)
    <2>1. apply_op(b, e) = Record(m, e.ts)
      BY <1>3 DEF apply_op, IsEdit
    <2>2. /\ IsBuffer(m) /\ m.version = v /\ m.clock = c /\ m.undo_map = U
          /\ m.fragments = Insert(Delete(F, doomed, e.ts), k, e.ts, e.len)
      BY <1>1, RemoteEditFields
    <2>3. e.from \in Nat /\ e.len \in Nat
      BY <1>1, <1>3, OpFields
    <2>4. e.from <= FullOffset(F, e.version, Len(F))
      BY <1>3, ReadyIsAnchored
    <2>5. Lands(F, e, k)
      BY <1>2, <2>3, <2>4, PointLands
    <2>6. k \in 0..Len(F)
      BY <2>5 DEF Lands
    <2>7. Dooms(F, e, U, doomed)
      BY <1>2 DEF Dooms, Doomed, KnownRange
    <2>. HIDE DEF k, doomed, m
    <2>8. Grown(F, m.fragments, k, e.ts, e.len, doomed)
      BY <1>2, <2>2, <2>3, <2>6, InsertGrows
    <2>9. Editing(O, e, v, c, F, m.fragments, k, doomed)
      BY <1>1, <1>3, <2>5, <2>8 DEF Editing
    <2>. DEFINE n == Record(m, e.ts)
    <2>10. /\ IsBuffer(n) /\ n.fragments = m.fragments /\ n.version = Observe(v, e.ts)
           /\ n.clock = Advance(c, e.ts) /\ n.undo_map = U
      BY <2>2, RecordFields
    <2>. HIDE DEF n
    <2>. PICK v1, c1, F1, U1, G1 : v1 = v /\ c1 = c /\ F1 = F /\ U1 = U /\ G1 = m.fragments
      OBVIOUS
    <2>11. /\ v1 = B[r].version /\ c1 = B[r].clock /\ F1 = B[r].fragments /\ U1 = B[r].undo_map
           /\ Editing(O, e, v1, c1, F1, G1, k, doomed) /\ Dooms(F1, e, U1, doomed)
           /\ IsBuffer(n) /\ n.fragments = G1 /\ n.version = Observe(v1, e.ts)
           /\ n.clock = Advance(c1, e.ts) /\ n.undo_map = U1
      BY <2>7, <2>9, <2>10
    <2>12. Joins(n, r, B, O)
      BY ONLY <1>3, <2>11, EditJoins, Agreed(B, O), e \in O, r \in Replica
    <2>. QED
      BY <2>1, <2>12 DEF n
  <1>4. CASE ~IsEdit(e)
    <2>. DEFINE m == apply_undo(b, e)
                V == U \cup {Entry(e)}
                G == Refreshed(b, e)
    <2>1. apply_op(b, e) = Record(m, e.ts)
      BY <1>4 DEF apply_op, IsEdit
    <2>2. /\ IsBuffer(m) /\ m.version = v /\ m.clock = c /\ m.undo_map = V
          /\ m.fragments = G
      BY <1>1, UndoFields
    <2>3. /\ Alike(F, G)
          /\ Refreshes(F, G, e, V)
      <3>. PICK b1, F1, V1 : b1 = b /\ F1 = F /\ V1 = V
        OBVIOUS
      <3>1. F1 = b1.fragments /\ F1 \in Seq(Frag) /\ V1 = b1.undo_map \cup {Entry(e)}
        BY <1>2
      <3>2. Alike(F1, Refreshed(b1, e)) /\ Refreshes(F1, Refreshed(b1, e), e, V1)
        BY ONLY <3>1, RefreshedFacts
      <3>. QED
        BY <3>2
    <2>4. V = U \cup {Entry(e)}
      OBVIOUS
    <2>. HIDE DEF m, V, G
    <2>5. Undoing(O, e, v, c, F, U, G, V)
      BY <1>1, <1>4, <2>3, <2>4 DEF Undoing
    <2>. DEFINE n == Record(m, e.ts)
    <2>6. /\ IsBuffer(n) /\ n.fragments = m.fragments /\ n.version = Observe(v, e.ts)
          /\ n.clock = Advance(c, e.ts) /\ n.undo_map = V
      BY <2>2, RecordFields
    <2>. HIDE DEF n
    <2>. PICK v1, c1, F1, U1 : v1 = v /\ c1 = c /\ F1 = F /\ U1 = U
      OBVIOUS
    <2>7. /\ v1 = B[r].version /\ c1 = B[r].clock /\ F1 = B[r].fragments /\ U1 = B[r].undo_map
          /\ Undoing(O, e, v1, c1, F1, U1, G, V)
          /\ IsBuffer(n) /\ n.fragments = G /\ n.version = Observe(v1, e.ts)
          /\ n.clock = Advance(c1, e.ts) /\ n.undo_map = V
      BY <2>2, <2>5, <2>6
    <2>8. Joins(n, r, B, O)
      BY ONLY <1>4, <2>7, UndoJoins, Agreed(B, O), e \in O, r \in Replica
    <2>. QED
      BY <2>1, <2>8 DEF n
  <1>. QED
    BY <1>3, <1>4

LEMMA ApplyOpFields ==
    ASSUME NEW b, IsBuffer(b), NEW e, ~Observed(b.version, e.ts)
    PROVE  /\ IsBuffer(apply_op(b, e))
           /\ apply_op(b, e).version = Observe(b.version, e.ts)
           /\ apply_op(b, e).deferred_ops = b.deferred_ops
  <1>1. CASE IsEdit(e)
    <2>1. apply_op(b, e) = Record(apply_remote_edit(b, e), e.ts)
      BY <1>1 DEF apply_op, IsEdit
    <2>. DEFINE m == apply_remote_edit(b, e)
    <2>2. IsBuffer(m) /\ m.version = b.version /\ m.deferred_ops = b.deferred_ops
      BY RemoteEditFields
    <2>. HIDE DEF m
    <2>3. /\ IsBuffer(Record(m, e.ts)) /\ Record(m, e.ts).version = Observe(m.version, e.ts)
          /\ Record(m, e.ts).deferred_ops = m.deferred_ops
      BY <2>2, RecordFields
    <2>. QED
      BY <2>1, <2>2, <2>3 DEF m
  <1>2. CASE ~IsEdit(e)
    <2>1. apply_op(b, e) = Record(apply_undo(b, e), e.ts)
      BY <1>2 DEF apply_op, IsEdit
    <2>. DEFINE m == apply_undo(b, e)
    <2>2. IsBuffer(m) /\ m.version = b.version /\ m.deferred_ops = b.deferred_ops
      BY UndoFields
    <2>. HIDE DEF m
    <2>3. /\ IsBuffer(Record(m, e.ts)) /\ Record(m, e.ts).version = Observe(m.version, e.ts)
          /\ Record(m, e.ts).deferred_ops = m.deferred_ops
      BY <2>2, RecordFields
    <2>. QED
      BY <2>1, <2>2, <2>3 DEF m
  <1>. QED
    BY <1>1, <1>2

\* Applying a ready operation, new or not.
LEMMA ApplyAgrees ==
    ASSUME NEW O, NEW B, Agreed(B, O), NEW r \in Replica, NEW e \in O, ObservedAll(B[r].version, e.version)
    PROVE  Agreed([B EXCEPT ![r] = apply_op(B[r], e)], O)
  <1>1. CASE Observed(B[r].version, e.ts)
    <2>1. apply_op(B[r], e) = B[r] /\ B = [q \in Replica |-> B[q]]
      BY <1>1 DEF apply_op, Agreed
    <2>2. [B EXCEPT ![r] = B[r]] = B
      BY <2>1
    <2>. QED
      BY <2>1, <2>2
  <1>2. CASE ~Observed(B[r].version, e.ts)
    BY <1>2, ApplyJoins, AgreedWith
  <1>. QED
    BY <1>1, <1>2

LEMMA ApplyDefers ==
    ASSUME NEW O, NEW B, Agreed(B, O), NEW r \in Replica, NEW e
    PROVE  apply_op(B[r], e).deferred_ops = B[r].deferred_ops
  <1>1. IsBuffer(B[r])
    BY DEF Agreed
  <1>2. CASE Observed(B[r].version, e.ts)
    BY <1>2 DEF apply_op
  <1>3. CASE ~Observed(B[r].version, e.ts)
    BY <1>1, <1>3, ApplyOpFields
  <1>. QED
    BY <1>2, <1>3

LEMMA ApplyVersion ==
    ASSUME NEW O, NEW B, Agreed(B, O), NEW r \in Replica, NEW e \in O, NEW s \in Replica
    PROVE  \/ apply_op(B[r], e).version[s] = B[r].version[s]
           \/ s = e.ts.replica /\ apply_op(B[r], e).version[s] = e.ts.value
  <1>1. IsBuffer(B[r]) /\ B[r].version \in Version /\ e.ts \in Timestamp
    BY OpFields DEF Agreed, Replicated, Clocked
  <1>2. CASE Observed(B[r].version, e.ts)
    BY <1>2 DEF apply_op
  <1>3. CASE ~Observed(B[r].version, e.ts)
    <2>. PICK v : v = B[r].version
      OBVIOUS
    <2>1. apply_op(B[r], e).version = Observe(v, e.ts)
      BY <1>1, <1>3, ApplyOpFields
    <2>2. Observe(v, e.ts)[s] = v[s] \/ (s = e.ts.replica /\ Observe(v, e.ts)[s] = e.ts.value)
      BY <1>1, ObserveType
    <2>. QED
      BY <2>1, <2>2
  <1>. QED
    BY <1>2, <1>3

LEMMA ApplyObserves ==
    ASSUME NEW O, NEW B, Agreed(B, O), NEW r \in Replica, NEW e \in O, ObservedAll(B[r].version, e.version), NEW o \in O
    PROVE  Observed(apply_op(B[r], e).version, o.ts) <=> Observed(B[r].version, o.ts) \/ o = e
  <1>1. IsBuffer(B[r]) /\ Causal(O) /\ Clocked(B[r].version, B[r].clock, O)
    BY DEF Agreed, Replicated
  <1>2. CASE Observed(B[r].version, e.ts)
    BY <1>2 DEF apply_op
  <1>3. CASE ~Observed(B[r].version, e.ts)
    <2>1. apply_op(B[r], e).version = Observe(B[r].version, e.ts)
      BY <1>1, <1>3, ApplyOpFields
    <2>2. Observed(Observe(B[r].version, e.ts), o.ts) <=> Observed(B[r].version, o.ts) \/ o = e
      BY <1>1, ObserveOne
    <2>. QED
      BY <2>1, <2>2
  <1>. QED
    BY <1>2, <1>3

\* The queue of deferred operations changes nothing else.
LEMMA DeferFields ==
    ASSUME NEW b, IsBuffer(b), NEW queue, NEW n, n = [b EXCEPT !.deferred_ops = queue]
    PROVE  /\ IsBuffer(n) /\ n.fragments = b.fragments /\ n.version = b.version /\ n.clock = b.clock
           /\ n.undo_map = b.undo_map /\ n.deferred_ops = queue
  <1>. PICK F, v, c, U, D : /\ F = b.fragments /\ v = b.version /\ c = b.clock /\ U = b.undo_map
                            /\ D = b.deferred_ops
    OBVIOUS
  <1>1. b = [fragments |-> F, version |-> v, clock |-> c, undo_map |-> U, deferred_ops |-> D]
    BY DEF IsBuffer
  <1>2. n = [fragments |-> F, version |-> v, clock |-> c, undo_map |-> U, deferred_ops |-> queue]
    BY <1>1
  <1>. QED
    BY <1>2 DEF IsBuffer

LEMMA DeferAgrees ==
    ASSUME NEW O, NEW B, Agreed(B, O), NEW r \in Replica, NEW queue, NEW n, n = [B[r] EXCEPT !.deferred_ops = queue]
    PROVE  Agreed([B EXCEPT ![r] = n], O)
  <1>. PICK b : b = B[r]
    OBVIOUS
  <1>1. IsBuffer(b)
    BY DEF Agreed
  <1>2. /\ IsBuffer(n) /\ n.fragments = b.fragments /\ n.version = b.version /\ n.clock = b.clock
        /\ n.undo_map = b.undo_map
    BY <1>1, DeferFields
  <1>3. Joins(n, r, B, O)
    <2>1. Replicated(n, O)
      BY <1>2 DEF Agreed, Replicated
    <2>2. \A q \in Replica : Agree(n.fragments, B[q].fragments)
                             /\ SameDeletions(n.fragments, n.version, B[q].fragments, B[q].version, O)
      BY <1>2 DEF Agreed
    <2>3. \A o \in O : (Anchors(B[r], o) => Anchors(n, o)) /\ (Marks(B[r], o) => Marks(n, o))
      BY <1>2 DEF Anchors, Marks
    <2>. QED
      BY <1>2, <2>1, <2>2, <2>3 DEF Joins
  <1>. QED
    BY <1>3, AgreedWith

-----------------------------------------------------------------------------
(* One pass over a list of operations.                                     *)

\* g is the sequence of the states of the pass, up to operation m.
Rounds(g, b, late, list, m) ==
    g = [n \in 0..m |-> IF n = 0 THEN [buf |-> b, late |-> late, kept |-> {}]
                        ELSE ApplyOrDefer(g[n - 1], list[n])]

LEMMA RoundsExist ==
    ASSUME NEW b, NEW late, NEW list, NEW m \in Nat
    PROVE  \E g : Rounds(g, b, late, list, m)
  <1>. DEFINE start == [buf |-> b, late |-> late, kept |-> {}]
              S == {n \in Nat : \E g : Rounds(g, b, late, list, n)}
  <1>. HIDE DEF start
  <1>1. 0 \in S
    <2>. DEFINE g == [n \in 0..0 |-> start]
    <2>1. Rounds(g, b, late, list, 0)
      BY DEF Rounds, start
    <2>. HIDE DEF g
    <2>. QED
      BY <2>1
  <1>2. ASSUME NEW n \in 0..(m - 1), n \in S PROVE n + 1 \in S
    <2>1. PICK g : Rounds(g, b, late, list, n)
      BY <1>2
    <2>2. n \in Nat
      OBVIOUS
    <2>. DEFINE p == n + 1
                last == ApplyOrDefer(g[n], list[p])
                h == [j \in 0..p |-> IF j <= n THEN g[j] ELSE last]
    <2>3. g = [j \in 0..n |-> IF j = 0 THEN start ELSE ApplyOrDefer(g[j - 1], list[j])]
      BY <2>1 DEF Rounds, start
    <2>4. ASSUME NEW j \in 0..p
          PROVE  h[j] = IF j = 0 THEN start ELSE ApplyOrDefer(h[j - 1], list[j])
      <3>. HIDE DEF last
      <3>1. CASE j = 0
        BY <2>2, <2>3, <3>1
      <3>2. CASE j # 0 /\ j <= n
        <4>1. j \in 0..n /\ j - 1 \in 0..p /\ j - 1 <= n
          BY <2>2, <3>2
        <4>2. h[j] = g[j] /\ h[j - 1] = g[j - 1]
          BY <3>2, <4>1
        <4>3. g[j] = ApplyOrDefer(g[j - 1], list[j])
          BY <2>3, <3>2, <4>1
        <4>. HIDE DEF h
        <4>. QED
          BY <3>2, <4>2, <4>3
      <3>3. CASE ~(j <= n)
        <4>1. j = p /\ j # 0 /\ j - 1 = n /\ n \in 0..p /\ n <= n
          BY <2>2, <3>3
        <4>2. h[j] = last /\ h[n] = g[n]
          BY <3>3, <4>1
        <4>. HIDE DEF h
        <4>. QED
          BY <4>1, <4>2 DEF last
      <3>. QED
        BY <3>1, <3>2, <3>3
    <2>5. h = [j \in 0..p |-> h[j]]
      OBVIOUS
    <2>. HIDE DEF h
    <2>6. h = [j \in 0..p |-> IF j = 0 THEN start ELSE ApplyOrDefer(h[j - 1], list[j])]
      BY <2>4, <2>5
    <2>7. Rounds(h, b, late, list, p)
      BY <2>6 DEF Rounds, start
    <2>8. p \in Nat
      BY <2>2
    <2>. HIDE DEF p
    <2>9. p \in S
      BY <2>7, <2>8
    <2>. QED
      BY <2>9 DEF p
  <1>3. S \in SUBSET Nat
    OBVIOUS
  <1>. HIDE DEF S
  <1>4. 0..m \subseteq S
    BY <1>1, <1>2, <1>3, UpTo
  <1>5. m \in 0..m
    OBVIOUS
  <1>6. m \in S
    BY <1>4, <1>5
  <1>. QED
    BY <1>6 DEF S

LEMMA PassIs ==
    ASSUME NEW b, NEW late, NEW list, Len(list) \in Nat
    PROVE  \E g : Rounds(g, b, late, list, Len(list)) /\ Pass(b, late, list) = g[Len(list)]
  <1>. DEFINE round[n \in 0..Len(list)] ==
                  IF n = 0 THEN [buf |-> b, late |-> late, kept |-> {}]
                  ELSE ApplyOrDefer(round[n - 1], list[n])
  <1>1. Pass(b, late, list) = round[Len(list)]
    BY DEF Pass
  <1>2. round = CHOOSE g : g = [n \in 0..Len(list) |->
                                   IF n = 0 THEN [buf |-> b, late |-> late, kept |-> {}]
                                   ELSE ApplyOrDefer(g[n - 1], list[n])]
    OBVIOUS
  <1>3. Rounds(round, b, late, list, Len(list))
    <2>1. PICK g : Rounds(g, b, late, list, Len(list))
      BY RoundsExist
    <2>. HIDE DEF round
    <2>. QED
      BY <1>2, <2>1 DEF Rounds
  <1>. HIDE DEF round
  <1>. QED
    BY <1>1, <1>3

\* What holds of the state acc of a pass of replica r after n operations.
Going(acc, B, r, O, late, list, n) ==
    /\ acc = [buf |-> acc.buf, late |-> acc.late, kept |-> acc.kept]
    /\ Agreed([B EXCEPT ![r] = acc.buf], O)
    /\ acc.buf.deferred_ops = B[r].deferred_ops
    /\ \A o \in O : Observed(B[r].version, o.ts) => Observed(acc.buf.version, o.ts)
    /\ \A o \in acc.kept : \E i \in 1..n : o = list[i]
    /\ acc.late = late \cup Replicas(acc.kept)

\* Nothing kept could be applied.
Unready(acc) == \A p \in acc.kept : ~ObservedAll(acc.buf.version, p.version)

LEMMA Replaced ==
    ASSUME NEW O, NEW B, Agreed(B, O), NEW r \in Replica, NEW b
    PROVE  [B EXCEPT ![r] = b][r] = b
  BY DEF Agreed

LEMMA NotReplaced ==
    ASSUME NEW O, NEW B, Agreed(B, O), NEW r \in Replica, NEW b, NEW q \in Replica, q # r
    PROVE  [B EXCEPT ![r] = b][q] = B[q]
  BY DEF Agreed

LEMMA ReplacedTwice ==
    ASSUME NEW O, NEW B, Agreed(B, O), NEW r \in Replica, NEW b, NEW c
    PROVE  [[B EXCEPT ![r] = b] EXCEPT ![r] = c] = [B EXCEPT ![r] = c]
  <1>1. B = [q \in Replica |-> B[q]]
    BY DEF Agreed
  <1>. QED
    BY <1>1

LEMMA ReplacedBySelf ==
    ASSUME NEW O, NEW B, Agreed(B, O), NEW r \in Replica
    PROVE  [B EXCEPT ![r] = B[r]] = B
  <1>1. B = [q \in Replica |-> B[q]]
    BY DEF Agreed
  <1>. QED
    BY <1>1

LEMMA RoundSplit ==
    ASSUME NEW acc, NEW op, acc = [buf |-> acc.buf, late |-> acc.late, kept |-> acc.kept]
    PROVE  /\ can_apply_op(acc.buf, acc.late, op) =>
                 ApplyOrDefer(acc, op) = [buf |-> apply_op(acc.buf, op), late |-> acc.late, kept |-> acc.kept]
           /\ ~can_apply_op(acc.buf, acc.late, op) =>
                 ApplyOrDefer(acc, op) = [buf |-> acc.buf, late |-> acc.late \cup {op.ts.replica}, kept |-> acc.kept \cup {op}]
  <1>. PICK b, l, k, c, late, kept :
          /\ b = acc.buf /\ l = acc.late /\ k = acc.kept
          /\ c = apply_op(b, op) /\ late = l \cup {op.ts.replica} /\ kept = k \cup {op}
    OBVIOUS
  <1>1. acc = [buf |-> b, late |-> l, kept |-> k]
    OBVIOUS
  <1>2. /\ can_apply_op(b, l, op) => ApplyOrDefer(acc, op) = [acc EXCEPT !.buf = c]
        /\ ~can_apply_op(b, l, op) => ApplyOrDefer(acc, op) = [acc EXCEPT !.late = late, !.kept = kept]
    BY DEF ApplyOrDefer
  <1>3. [acc EXCEPT !.buf = c] = [buf |-> c, late |-> l, kept |-> k]
    BY ONLY <1>1
  <1>4. [acc EXCEPT !.late = late, !.kept = kept] = [buf |-> b, late |-> late, kept |-> kept]
    <2>1. PICK m : m = [acc EXCEPT !.late = late]
      OBVIOUS
    <2>2. m = [buf |-> b, late |-> late, kept |-> k]
      BY ONLY <1>1, <2>1
    <2>3. [m EXCEPT !.kept = kept] = [buf |-> b, late |-> late, kept |-> kept]
      BY ONLY <2>2
    <2>4. [acc EXCEPT !.late = late, !.kept = kept] = [m EXCEPT !.kept = kept]
      BY ONLY <2>1
    <2>. QED
      BY ONLY <2>3, <2>4
  <1>. QED
    BY <1>2, <1>3, <1>4

LEMMA RoundNext ==
    ASSUME NEW O, NEW B, Agreed(B, O), NEW r \in Replica, NEW late, NEW list, NEW n \in Nat, NEW m, m = n + 1,
           list[m] \in O, NEW acc, Going(acc, B, r, O, late, list, n)
    PROVE  Going(ApplyOrDefer(acc, list[m]), B, r, O, late, list, m)
  <1>. PICK op \in O : op = list[m]
    OBVIOUS
  <1>. DEFINE next == ApplyOrDefer(acc, op)
              C == [B EXCEPT ![r] = acc.buf]
  <1>1. /\ acc = [buf |-> acc.buf, late |-> acc.late, kept |-> acc.kept]
        /\ Agreed(C, O) /\ acc.buf.deferred_ops = B[r].deferred_ops
        /\ \A o \in O : Observed(B[r].version, o.ts) => Observed(acc.buf.version, o.ts)
        /\ acc.late = late \cup Replicas(acc.kept)
    BY DEF Going
  <1>2. \A o \in acc.kept : \E i \in 1..m : o = list[i]
    <2>1. \A o \in acc.kept : \E i \in 1..n : o = list[i]
      BY DEF Going
    <2>2. 1..n \subseteq 1..m /\ m \in 1..m
      OBVIOUS
    <2>. QED
      BY <2>1, <2>2
  <1>3. C[r] = acc.buf
    BY Replaced
  <1>4. CASE can_apply_op(acc.buf, acc.late, op)
    <2>1. next = [buf |-> apply_op(acc.buf, op), late |-> acc.late, kept |-> acc.kept]
      BY <1>1, <1>4, RoundSplit
    <2>2. ObservedAll(C[r].version, op.version)
      BY <1>3, <1>4 DEF can_apply_op
    <2>. HIDE DEF C, next
    <2>3. /\ Agreed([C EXCEPT ![r] = apply_op(C[r], op)], O)
          /\ apply_op(C[r], op).deferred_ops = C[r].deferred_ops
          /\ \A o \in O : Observed(apply_op(C[r], op).version, o.ts) <=> Observed(C[r].version, o.ts) \/ o = op
      BY <1>1, <2>2, ApplyAgrees, ApplyDefers, ApplyObserves
    <2>4. [C EXCEPT ![r] = apply_op(C[r], op)] = [B EXCEPT ![r] = next.buf]
      <3>. DEFINE c == apply_op(C[r], op)
      <3>1. next.buf = c
        BY <1>3, <2>1
      <3>. HIDE DEF c
      <3>. QED
        BY <3>1, ReplacedTwice DEF C, c
    <2>5. next.buf = apply_op(C[r], op) /\ next.late = acc.late /\ next.kept = acc.kept
          /\ next = [buf |-> next.buf, late |-> next.late, kept |-> next.kept]
      BY <1>3, <2>1
    <2>6. Going(next, B, r, O, late, list, m)
      BY <1>1, <1>2, <1>3, <2>3, <2>4, <2>5 DEF Going
    <2>. QED
      BY <2>6 DEF next
  <1>5. CASE ~can_apply_op(acc.buf, acc.late, op)
    <2>1. next = [buf |-> acc.buf, late |-> acc.late \cup {op.ts.replica}, kept |-> acc.kept \cup {op}]
      BY <1>1, <1>5, RoundSplit
    <2>. HIDE DEF next
    <2>2. next.late = late \cup Replicas(next.kept)
      BY <1>1, <2>1 DEF Replicas
    <2>3. \A o \in next.kept : \E i \in 1..m : o = list[i]
      <3>1. m \in 1..m
        OBVIOUS
      <3>. QED
        BY <1>2, <2>1, <3>1
    <2>4. Going(next, B, r, O, late, list, m)
      BY <1>1, <2>1, <2>2, <2>3 DEF Going
    <2>. QED
      BY <2>4 DEF next
  <1>. QED
    BY <1>4, <1>5

\* The queue is in the order of the timestamps: applying an operation makes
\* none ready that comes before it.
LEMMA UnreadyNext ==
    ASSUME NEW O, NEW B, Agreed(B, O), NEW r \in Replica, NEW list, NEW n \in Nat, NEW m, m = n + 1,
           \A i \in 1..m : list[i] \in O, \A i, j \in 1..m : i < j => After(list[j].ts, list[i].ts),
           NEW acc, Going(acc, B, r, O, {}, list, n), Unready(acc)
    PROVE  Unready(ApplyOrDefer(acc, list[m]))
  <1>. PICK op : op = list[m]
    OBVIOUS
  <1>. PICK C : C = [B EXCEPT ![r] = acc.buf]
    OBVIOUS
  <1>. DEFINE next == ApplyOrDefer(acc, op)
  <1>1. /\ acc = [buf |-> acc.buf, late |-> acc.late, kept |-> acc.kept]
        /\ Agreed(C, O) /\ acc.late = Replicas(acc.kept)
    BY DEF Going
  <1>2. op \in O
    OBVIOUS
  <1>3. \A p \in acc.kept : p \in O /\ After(op.ts, p.ts)
    <2>. SUFFICES ASSUME NEW p \in acc.kept PROVE p \in O /\ After(op.ts, p.ts)
      OBVIOUS
    <2>1. PICK i \in 1..n : p = list[i]
      BY DEF Going
    <2>2. i \in 1..m /\ m \in 1..m /\ i < m
      OBVIOUS
    <2>. QED
      BY <2>1, <2>2
  <1>4. C[r] = acc.buf
    BY Replaced
  <1>5. /\ Causal(O) /\ Clocked(acc.buf.version, acc.buf.clock, O) /\ acc.buf.version \in Version
    BY <1>1, <1>4 DEF Agreed, Replicated, Clocked
  <1>6. CASE can_apply_op(acc.buf, acc.late, op)
    <2>. DEFINE v == acc.buf.version
                w == apply_op(C[r], op).version
    <2>1. next = [buf |-> apply_op(acc.buf, op), late |-> acc.late, kept |-> acc.kept]
      BY <1>1, <1>6, RoundSplit
    <2>2. ObservedAll(C[r].version, op.version)
      BY <1>4, <1>6 DEF can_apply_op
    <2>a. /\ \A s \in Replica : w[s] = C[r].version[s] \/ (s = op.ts.replica /\ w[s] = op.ts.value)
          /\ \A o \in O : Observed(w, o.ts) <=> Observed(C[r].version, o.ts) \/ o = op
      <3>1. \A o \in O : Observed(apply_op(C[r], op).version, o.ts) <=> Observed(C[r].version, o.ts) \/ o = op
        BY ONLY <1>1, <1>2, <2>2, ApplyObserves, r \in Replica
      <3>2. ASSUME NEW s \in Replica
            PROVE  \/ apply_op(C[r], op).version[s] = C[r].version[s]
                   \/ s = op.ts.replica /\ apply_op(C[r], op).version[s] = op.ts.value
        BY ONLY <1>1, <1>2, ApplyVersion, r \in Replica, s \in Replica
      <3>. QED
        BY <3>1, <3>2
    <2>3. /\ \A s \in Replica : w[s] = v[s] \/ (s = op.ts.replica /\ w[s] = op.ts.value)
          /\ \A o \in O : Observed(w, o.ts) <=> Observed(v, o.ts) \/ o = op
      BY <1>4, <2>a
    <2>4. next.kept = acc.kept /\ next.buf.version = w
      BY <1>4, <2>1
    <2>5. \A s \in Replica : v[s] \in Nat
      BY <1>5 DEF Version
    <2>6. BaseLen > 0 => v[0] >= 1
      BY <1>5 DEF Clocked
    <2>. HIDE DEF v, w, next
    <2>7. ASSUME NEW p \in acc.kept, ObservedAll(w, p.version) PROVE FALSE
      <3>1. p \in O /\ After(op.ts, p.ts)
        BY <1>3
      <3>2. ~ObservedAll(v, p.version)
        BY DEF Unready, v
      <3>3. PICK s \in Replica : ~(v[s] >= p.version[s])
        BY <3>2 DEF ObservedAll
      <3>4. w[s] >= p.version[s]
        BY <2>7 DEF ObservedAll
      <3>5. p.version[s] \in Nat /\ p.version[s] < p.ts.value /\ Reached(p.version[s], s, O)
            /\ p.ts.value \in Nat /\ op.ts.value \in Nat /\ op.ts \in Timestamp
        BY <1>2, <1>5, <3>1, OpFields DEF Causal
      <3>6. s = op.ts.replica /\ w[s] = op.ts.value
        BY <2>3, <3>3, <3>4
      <3>7. p.version[s] # 0
        BY <2>5, <3>3, <3>5
      <3>8. ~(BaseLen > 0 /\ s = 0 /\ p.version[s] = 1)
        BY <2>5, <2>6, <3>3
      <3>9. PICK o \in O : o.ts = Stamp(p.version[s], s)
        BY <3>5, <3>7, <3>8 DEF Reached
      <3>10. o.ts.value = p.version[s] /\ o.ts.replica = s
        BY <3>9 DEF Stamp
      <3>11. Observed(w, o.ts) /\ ~Observed(v, o.ts)
        BY <3>3, <3>4, <3>10 DEF Observed
      <3>12. o = op
        BY <2>3, <3>11
      <3>13. op.ts.value < p.ts.value
        BY <3>5, <3>10, <3>12
      <3>. QED
        BY <3>1, <3>5, <3>13 DEF After
    <2>8. Unready(next)
      BY <2>4, <2>7 DEF Unready
    <2>. QED
      BY <2>8 DEF next
  <1>7. CASE ~can_apply_op(acc.buf, acc.late, op)
    <2>1. next = [buf |-> acc.buf, late |-> acc.late \cup {op.ts.replica}, kept |-> acc.kept \cup {op}]
      BY <1>1, <1>7, RoundSplit
    <2>2. ~ObservedAll(acc.buf.version, op.version)
      <3>. SUFFICES ASSUME ObservedAll(acc.buf.version, op.version) PROVE FALSE
        OBVIOUS
      <3>1. op.ts.replica \in acc.late
        BY <1>7 DEF can_apply_op
      <3>2. PICK p \in acc.kept : p.ts.replica = op.ts.replica
        BY <1>1, <3>1 DEF Replicas
      <3>3. p \in O /\ After(op.ts, p.ts)
        BY <1>3
      <3>4. p.ts.value \in Nat /\ op.ts.value \in Nat /\ p.ts.replica \in Nat /\ p.ts \in Timestamp /\ op.version \in Version
        BY <1>2, <1>5, <3>3, OpFields, TimestampFields
      <3>5. p.ts.value < op.ts.value
        BY <3>2, <3>3, <3>4 DEF After
      <3>6. Observed(op.version, p.ts)
        BY <1>2, <1>5, <3>2, <3>3, <3>5 DEF Causal
      <3>7. Observed(acc.buf.version, p.ts)
        BY <1>5, <3>4, <3>6, ObservedThrough
      <3>8. ObservedAll(acc.buf.version, p.version)
        BY <1>5, <3>3, <3>7 DEF Clocked
      <3>. QED
        BY <3>8 DEF Unready
    <2>. HIDE DEF next
    <2>3. Unready(next)
      BY <2>1, <2>2 DEF Unready
    <2>. QED
      BY <2>3 DEF next
  <1>. QED
    BY <1>6, <1>7

LEMMA StartIsGoing ==
    ASSUME NEW O, NEW B, Agreed(B, O), NEW r \in Replica, NEW late, NEW list
    PROVE  /\ Going([buf |-> B[r], late |-> late, kept |-> {}], B, r, O, late, list, 0)
           /\ Unready([buf |-> B[r], late |-> late, kept |-> {}])
  <1>. PICK acc : acc = [buf |-> B[r], late |-> late, kept |-> {}]
    OBVIOUS
  <1>1. acc.buf = B[r] /\ acc.late = late /\ acc.kept = {}
    OBVIOUS
  <1>2. acc = [buf |-> acc.buf, late |-> acc.late, kept |-> acc.kept]
    OBVIOUS
  <1>3. Agreed([B EXCEPT ![r] = acc.buf], O)
    BY <1>1, ReplacedBySelf
  <1>4. acc.late = late \cup Replicas(acc.kept)
    BY <1>1 DEF Replicas
  <1>5. Going(acc, B, r, O, late, list, 0) /\ Unready(acc)
    BY <1>1, <1>2, <1>3, <1>4 DEF Going, Unready
  <1>. QED
    BY <1>5

LEMMA RoundsFacts ==
    ASSUME NEW b, NEW late, NEW list, NEW m \in Nat, NEW g, Rounds(g, b, late, list, m)
    PROVE  /\ g[0] = [buf |-> b, late |-> late, kept |-> {}]
           /\ \A n \in 1..m : g[n] = ApplyOrDefer(g[n - 1], list[n])
  <1>. DEFINE start == [buf |-> b, late |-> late, kept |-> {}]
  <1>1. g = [n \in 0..m |-> IF n = 0 THEN start ELSE ApplyOrDefer(g[n - 1], list[n])]
    BY DEF Rounds
  <1>. HIDE DEF start
  <1>2. 0 \in 0..m /\ \A n \in 1..m : n \in 0..m /\ n # 0
    OBVIOUS
  <1>3. g[0] = start
    BY <1>1, <1>2
  <1>4. ASSUME NEW n \in 1..m PROVE g[n] = ApplyOrDefer(g[n - 1], list[n])
    BY <1>1, <1>2
  <1>. QED
    BY <1>3, <1>4 DEF start

\* A pass of apply_ops keeps the replicas in agreement.
LEMMA PassGoes ==
    ASSUME NEW O, NEW B, Agreed(B, O), NEW r \in Replica, NEW late, NEW list, Len(list) \in Nat,
           \A i \in 1..Len(list) : list[i] \in O
    PROVE  Going(Pass(B[r], late, list), B, r, O, late, list, Len(list))
  <1>. PICK b, m : b = B[r] /\ m = Len(list)
    OBVIOUS
  <1>1. PICK g : Rounds(g, b, late, list, m) /\ Pass(b, late, list) = g[m]
    BY PassIs
  <1>2. g[0] = [buf |-> b, late |-> late, kept |-> {}] /\ \A n \in 1..m : g[n] = ApplyOrDefer(g[n - 1], list[n])
    BY <1>1, RoundsFacts
  <1>. DEFINE S == {n \in 0..m : Going(g[n], B, r, O, late, list, n)}
  <1>3. 0 \in S
    BY <1>2, StartIsGoing
  <1>4. ASSUME NEW n \in 0..(m - 1), n \in S PROVE n + 1 \in S
    <2>. PICK p : p = n + 1
      OBVIOUS
    <2>1. p \in 1..m /\ p \in 0..m /\ p - 1 = n /\ n \in Nat
      OBVIOUS
    <2>2. g[p] = ApplyOrDefer(g[n], list[p])
      BY <1>2, <2>1
    <2>3. list[p] \in O
      BY <2>1
    <2>4. Going(g[n], B, r, O, late, list, n)
      BY <1>4
    <2>. PICK acc : acc = g[n]
      OBVIOUS
    <2>5. Going(ApplyOrDefer(acc, list[p]), B, r, O, late, list, p)
      BY <2>1, <2>3, <2>4, RoundNext
    <2>. QED
      BY <2>1, <2>2, <2>5
  <1>5. S \in SUBSET Nat /\ m \in Nat
    OBVIOUS
  <1>. HIDE DEF S
  <1>6. 0..m \subseteq S
    BY <1>3, <1>4, <1>5, UpTo
  <1>7. m \in S
    BY <1>5, <1>6
  <1>. QED
    BY <1>1, <1>7 DEF S

\* What a pass in the order of the timestamps sets aside was not ready, and is
\* not at its end.
LEMMA PassUnready ==
    ASSUME NEW O, NEW B, Agreed(B, O), NEW r \in Replica, NEW list, Len(list) \in Nat,
           \A i \in 1..Len(list) : list[i] \in O,
           \A i, j \in 1..Len(list) : i < j => After(list[j].ts, list[i].ts)
    PROVE  Unready(Pass(B[r], {}, list))
  <1>. PICK b, m : b = B[r] /\ m = Len(list)
    OBVIOUS
  <1>1. PICK g : Rounds(g, b, {}, list, m) /\ Pass(b, {}, list) = g[m]
    BY PassIs
  <1>2. g[0] = [buf |-> b, late |-> {}, kept |-> {}] /\ \A n \in 1..m : g[n] = ApplyOrDefer(g[n - 1], list[n])
    <2>. PICK late : late = {}
      OBVIOUS
    <2>1. Rounds(g, b, late, list, m) /\ m \in Nat
      BY <1>1
    <2>2. g[0] = [buf |-> b, late |-> late, kept |-> {}] /\ \A n \in 1..m : g[n] = ApplyOrDefer(g[n - 1], list[n])
      BY ONLY <2>1, RoundsFacts
    <2>. QED
      BY <2>2
  <1>. DEFINE S == {n \in 0..m : Going(g[n], B, r, O, {}, list, n) /\ Unready(g[n])}
  <1>3. 0 \in S
    <2>1. Going(g[0], B, r, O, {}, list, 0) /\ Unready(g[0])
      BY <1>2, StartIsGoing
    <2>. QED
      BY <2>1
  <1>4. ASSUME NEW n \in 0..(m - 1), n \in S PROVE n + 1 \in S
    <2>. PICK p : p = n + 1
      OBVIOUS
    <2>1. p \in 1..m /\ p \in 0..m /\ p - 1 = n /\ n \in Nat
      OBVIOUS
    <2>2. g[p] = ApplyOrDefer(g[n], list[p])
      BY <1>2, <2>1
    <2>3. list[p] \in O
      BY <2>1
    <2>4. Going(g[n], B, r, O, {}, list, n) /\ Unready(g[n])
      BY <1>4
    <2>. PICK acc : acc = g[n]
      OBVIOUS
    <2>5. Going(ApplyOrDefer(acc, list[p]), B, r, O, {}, list, p)
      BY <2>1, <2>3, <2>4, RoundNext
    <2>6. /\ \A i \in 1..p : list[i] \in O
          /\ \A i, j \in 1..p : i < j => After(list[j].ts, list[i].ts)
      <3>1. 1..p \subseteq 1..m
        BY <2>1
      <3>. QED
        BY <3>1
    <2>7. Unready(ApplyOrDefer(acc, list[p]))
      BY <2>1, <2>4, <2>6, UnreadyNext
    <2>. QED
      BY <2>1, <2>2, <2>5, <2>7
  <1>5. S \in SUBSET Nat /\ m \in Nat
    OBVIOUS
  <1>. HIDE DEF S
  <1>6. 0..m \subseteq S
    BY <1>3, <1>4, <1>5, UpTo
  <1>7. m \in S
    BY <1>5, <1>6
  <1>. QED
    BY <1>1, <1>7 DEF S

-----------------------------------------------------------------------------
(* The queue in the order of the timestamps.                               *)

\* The place of an operation in a queue: how many are not after it.
Rank(queue, d) == Cardinality({x \in queue : ~After(x.ts, d.ts)})

LEMMA RankFacts ==
    ASSUME NEW queue, IsFiniteSet(queue), \A x \in queue : x.ts \in Timestamp,
           \A x, y \in queue : x.ts = y.ts => x = y
    PROVE  /\ \A d \in queue : Rank(queue, d) \in 1..Cardinality(queue)
           /\ \A d, x \in queue : After(d.ts, x.ts) => Rank(queue, x) < Rank(queue, d)
  <1>. DEFINE Upto(d) == {x \in queue : ~After(x.ts, d.ts)}
  <1>1. \A d \in queue : Upto(d) \in SUBSET queue /\ d \in Upto(d)
    BY AfterTotal
  <1>2. ASSUME NEW d \in queue
        PROVE  IsFiniteSet(Upto(d)) /\ Cardinality(Upto(d)) <= Cardinality(queue) /\ Cardinality(Upto(d)) \in Nat
    <2>1. Upto(d) \in SUBSET queue
      BY <1>1
    <2>. HIDE DEF Upto
    <2>. QED
      BY <2>1, FS_Subset, FS_CardinalityType
  <1>3. Cardinality(queue) \in Nat
    BY FS_CardinalityType
  <1>4. ASSUME NEW d \in queue PROVE Cardinality(Upto(d)) # 0
    <2>1. Upto(d) # {}
      BY <1>1
    <2>. HIDE DEF Upto
    <2>. QED
      BY <1>2, <2>1, FS_EmptySet
  <1>5. ASSUME NEW d \in queue, NEW x \in queue, After(d.ts, x.ts)
        PROVE  Cardinality(Upto(x)) < Cardinality(Upto(d))
    <2>1. Upto(x) \subseteq Upto(d)
      <3>. SUFFICES ASSUME NEW y \in queue, ~After(y.ts, x.ts), After(y.ts, d.ts) PROVE FALSE
        OBVIOUS
      <3>. QED
        BY <1>5, AfterTransitive
    <2>2. d \in Upto(d) /\ d \notin Upto(x)
      BY <1>1, <1>5
    <2>3. IsFiniteSet(Upto(d)) /\ IsFiniteSet(Upto(x)) /\ Cardinality(Upto(d)) \in Nat /\ Cardinality(Upto(x)) \in Nat
      BY <1>2
    <2>. HIDE DEF Upto
    <2>4. Upto(x) \in SUBSET Upto(d) /\ Upto(x) # Upto(d)
      BY <2>1, <2>2
    <2>5. Cardinality(Upto(x)) <= Cardinality(Upto(d)) /\ (Cardinality(Upto(x)) = Cardinality(Upto(d)) => Upto(x) = Upto(d))
      BY <2>3, <2>4, FS_Subset
    <2>. QED
      BY <2>3, <2>4, <2>5
  <1>. HIDE DEF Upto
  <1>6. \A d \in queue : Cardinality(Upto(d)) \in 1..Cardinality(queue)
    BY <1>2, <1>3, <1>4
  <1>. QED
    BY <1>5, <1>6 DEF Rank, Upto

\* A finite queue can be put in the order of its timestamps.
LEMMA InOrderFacts ==
    ASSUME NEW queue, IsFiniteSet(queue), \A x \in queue : x.ts \in Timestamp,
           \A x, y \in queue : x.ts = y.ts => x = y
    PROVE  /\ InOrder(queue) \in [1..Cardinality(queue) -> queue]
           /\ \A i, j \in 1..Cardinality(queue) : i < j => After(InOrder(queue)[j].ts, InOrder(queue)[i].ts)
  <1>. PICK n : n = Cardinality(queue)
    OBVIOUS
  <1>1. n \in Nat
    BY FS_CardinalityType
  <1>. DEFINE R == [d \in queue |-> Rank(queue, d)]
  <1>2. \A d \in queue : R[d] \in 1..n
    BY RankFacts
  <1>3. \A d, x \in queue : After(d.ts, x.ts) => R[x] < R[d]
    BY RankFacts
  <1>4. R \in [queue -> 1..n]
    BY <1>2
  <1>. HIDE DEF R
  <1>5. \A d, x \in queue : R[d] = R[x] => d = x
    <2>. SUFFICES ASSUME NEW d \in queue, NEW x \in queue, R[d] = R[x], d # x PROVE FALSE
      OBVIOUS
    <2>1. After(d.ts, x.ts) \/ After(x.ts, d.ts)
      BY AfterTotal
    <2>. QED
      BY <1>2, <1>3, <2>1
  <1>6. R \in Injection(queue, 1..n)
    BY <1>4, <1>5 DEF Injection, IsInjective
  <1>7. \A i \in 1..n : \E d \in queue : R[d] = i
    <2>1. IsFiniteSet(1..n) /\ Cardinality(1..n) = n
      BY <1>1, FS_Interval
    <2>2. R \in Surjection(queue, 1..n)
      BY <1>6, <2>1, FS_Injection
    <2>. QED
      BY <2>2 DEF Surjection
  <1>. DEFINE s == [i \in 1..n |-> CHOOSE d \in queue : R[d] = i]
  <1>8. \A i \in 1..n : s[i] \in queue /\ R[s[i]] = i
    BY <1>7
  <1>9. s \in [1..n -> queue]
    BY <1>8
  <1>. HIDE DEF s
  <1>10. ASSUME NEW i \in 1..n, NEW j \in 1..n, i < j PROVE After(s[j].ts, s[i].ts)
    <2>1. s[i] \in queue /\ s[j] \in queue /\ R[s[i]] = i /\ R[s[j]] = j
      BY <1>8
    <2>2. ~After(s[i].ts, s[j].ts)
      <3>1. ~(R[s[j]] < R[s[i]])
        BY <1>10, <2>1
      <3>. QED
        BY <1>3, <2>1, <3>1
    <2>3. s[i].ts # s[j].ts
      BY <1>10, <2>1
    <2>. QED
      BY <2>1, <2>2, <2>3, AfterTotal
  <1>11. \E t \in [1..n -> queue] : \A i, j \in DOMAIN t : i < j => After(t[j].ts, t[i].ts)
    BY <1>9, <1>10
  <1>. DEFINE t == InOrder(queue)
  <1>12. t \in [1..n -> queue] /\ \A i, j \in DOMAIN t : i < j => After(t[j].ts, t[i].ts)
    BY <1>11 DEF InOrder
  <1>. HIDE DEF t
  <1>13. \A i, j \in 1..n : i < j => After(t[j].ts, t[i].ts)
    BY <1>12
  <1>. QED
    BY <1>12, <1>13 DEF t

\* Version w has observed all the operations v has.
Keeps(v, w, O) == \A o \in O : Observed(v, o.ts) => Observed(w, o.ts)

\* No operation the buffer has deferred could be applied.
NoneReady(b) == \A p \in b.deferred_ops : ~ObservedAll(b.version, p.version)

\* What a pass leaves in the buffer, once its queue is put back.
LEMMA Requeued ==
    ASSUME NEW O, NEW B, Agreed(B, O), NEW r \in Replica, NEW late, NEW list, NEW m, NEW acc,
           Going(acc, B, r, O, late, list, m), NEW queue, NEW n, n = [acc.buf EXCEPT !.deferred_ops = queue]
    PROVE  /\ Agreed([B EXCEPT ![r] = n], O)
           /\ n.deferred_ops = queue
           /\ n.version = acc.buf.version
           /\ Keeps(B[r].version, n.version, O)
  <1>. PICK C : C = [B EXCEPT ![r] = acc.buf]
    OBVIOUS
  <1>1. Agreed(C, O) /\ C[r] = acc.buf
    BY Replaced DEF Going
  <1>2. n = [C[r] EXCEPT !.deferred_ops = queue] /\ IsBuffer(C[r])
    BY <1>1 DEF Agreed
  <1>3. n.deferred_ops = queue /\ n.version = C[r].version
    <2>. PICK b : b = C[r]
      OBVIOUS
    <2>1. IsBuffer(b) /\ n = [b EXCEPT !.deferred_ops = queue]
      BY <1>2
    <2>2. n.deferred_ops = queue /\ n.version = b.version
      BY ONLY <2>1, DeferFields
    <2>. QED
      BY <2>2
  <1>4. Agreed([C EXCEPT ![r] = n], O)
    BY <1>1, <1>2, DeferAgrees
  <1>5. [C EXCEPT ![r] = n] = [B EXCEPT ![r] = n]
    BY ReplacedTwice
  <1>6. Keeps(B[r].version, n.version, O)
    BY <1>1, <1>3 DEF Going, Keeps
  <1>. QED
    BY <1>1, <1>3, <1>4, <1>5, <1>6

LEMMA QueueFacts ==
    ASSUME NEW O, Causal(O), NEW queue \in SUBSET O, NEW list, list = InOrder(queue)
    PROVE  /\ Len(list) \in Nat /\ \A i \in 1..Len(list) : list[i] \in queue
           /\ \A i, j \in 1..Len(list) : i < j => After(list[j].ts, list[i].ts)
  <1>1. IsFiniteSet(queue)
    BY FS_Subset DEF Causal
  <1>2. /\ \A x \in queue : x.ts \in Timestamp
        /\ \A x, y \in queue : x.ts = y.ts => x = y
    BY OpFields DEF Causal
  <1>3. /\ InOrder(queue) \in [1..Cardinality(queue) -> queue]
        /\ \A i, j \in 1..Cardinality(queue) : i < j => After(InOrder(queue)[j].ts, InOrder(queue)[i].ts)
    BY <1>1, <1>2, InOrderFacts
  <1>4. Cardinality(queue) \in Nat
    BY <1>1, FS_CardinalityType
  <1>5. Len(list) = Cardinality(queue)
    BY <1>3, <1>4
  <1>. QED
    BY <1>3, <1>4, <1>5

\* flush_deferred_ops.
LEMMA FlushFacts ==
    ASSUME NEW O, NEW B, Agreed(B, O), NEW r \in Replica, B[r].deferred_ops \subseteq O,
           NEW n, n = flush_deferred_ops(B[r])
    PROVE  /\ Agreed([B EXCEPT ![r] = n], O)
           /\ Keeps(B[r].version, n.version, O)
           /\ n.deferred_ops \subseteq B[r].deferred_ops
           /\ NoneReady(n)
  <1>. PICK queue, list : queue = B[r].deferred_ops /\ list = InOrder(queue)
    OBVIOUS
  <1>. PICK acc : acc = Pass(B[r], {}, list)
    OBVIOUS
  <1>. PICK late, kept : late = {} /\ kept = acc.kept
    OBVIOUS
  <1>1. n = [acc.buf EXCEPT !.deferred_ops = kept]
    BY DEF flush_deferred_ops
  <1>2. Causal(O) /\ queue \in SUBSET O
    BY DEF Agreed
  <1>3. /\ Len(list) \in Nat /\ \A i \in 1..Len(list) : list[i] \in queue
        /\ \A i, j \in 1..Len(list) : i < j => After(list[j].ts, list[i].ts)
    BY <1>2, QueueFacts
  <1>4. \A i \in 1..Len(list) : list[i] \in O
    BY <1>2, <1>3
  <1>5. Going(acc, B, r, O, late, list, Len(list))
    BY <1>3, <1>4, PassGoes
  <1>6. Unready(acc)
    BY <1>3, <1>4, PassUnready
  <1>7. /\ Agreed([B EXCEPT ![r] = n], O)
        /\ n.deferred_ops = kept
        /\ n.version = acc.buf.version
        /\ Keeps(B[r].version, n.version, O)
    BY ONLY <1>1, <1>5, Requeued, Agreed(B, O), r \in Replica
  <1>8. kept \subseteq queue
    BY <1>3, <1>5 DEF Going
  <1>9. NoneReady(n)
    BY <1>6, <1>7 DEF Unready, NoneReady
  <1>. QED
    BY <1>7, <1>8, <1>9

\* apply_ops.
LEMMA ReceiveFacts ==
    ASSUME NEW O, NEW B, Agreed(B, O), NEW r \in Replica, B[r].deferred_ops \subseteq O,
           NEW batch, Len(batch) \in Nat, \A i \in 1..Len(batch) : batch[i] \in O,
           NEW n, n = apply_ops(B[r], batch)
    PROVE  /\ Agreed([B EXCEPT ![r] = n], O)
           /\ Keeps(B[r].version, n.version, O)
           /\ \A p \in n.deferred_ops : p \in B[r].deferred_ops \/ \E i \in 1..Len(batch) : p = batch[i]
           /\ NoneReady(n)
  <1>. PICK late : late = Replicas(B[r].deferred_ops)
    OBVIOUS
  <1>. PICK acc : acc = Pass(B[r], late, batch)
    OBVIOUS
  <1>. PICK queue : queue = B[r].deferred_ops \cup acc.kept
    OBVIOUS
  <1>. PICK m : m = [acc.buf EXCEPT !.deferred_ops = queue]
    OBVIOUS
  <1>. PICK C : C = [B EXCEPT ![r] = m]
    OBVIOUS
  <1>. PICK len : len = Len(batch)
    OBVIOUS
  <1>1. Going(acc, B, r, O, late, batch, len)
    BY PassGoes
  <1>2. n = flush_deferred_ops(m)
    <2>1. acc.buf.deferred_ops = B[r].deferred_ops
      BY <1>1 DEF Going
    <2>2. n = flush_deferred_ops([acc.buf EXCEPT !.deferred_ops = acc.buf.deferred_ops \cup acc.kept])
      BY DEF apply_ops
    <2>. QED
      BY <2>1, <2>2
  <1>3. /\ Agreed([B EXCEPT ![r] = m], O)
        /\ m.deferred_ops = queue
        /\ Keeps(B[r].version, m.version, O)
    BY ONLY <1>1, Requeued, Agreed(B, O), r \in Replica, m = [acc.buf EXCEPT !.deferred_ops = queue]
  <1>4. Agreed(C, O)
    BY <1>3
  <1>r. C[r] = m
    BY ONLY Agreed(B, O), r \in Replica, C = [B EXCEPT ![r] = m], Replaced
  <1>5. \A p \in acc.kept : \E i \in 1..len : p = batch[i]
    BY <1>1 DEF Going
  <1>6. C[r].deferred_ops \subseteq O /\ n = flush_deferred_ops(C[r])
    BY <1>2, <1>3, <1>r, <1>5
  <1>7. /\ Agreed([C EXCEPT ![r] = n], O)
        /\ Keeps(C[r].version, n.version, O)
        /\ n.deferred_ops \subseteq C[r].deferred_ops
        /\ NoneReady(n)
    BY <1>4, <1>6, FlushFacts
  <1>8. [C EXCEPT ![r] = n] = [B EXCEPT ![r] = n]
    BY ReplacedTwice
  <1>9. Keeps(B[r].version, n.version, O)
    BY <1>3, <1>r, <1>7 DEF Keeps
  <1>. QED
    BY <1>3, <1>r, <1>5, <1>7, <1>8, <1>9

-----------------------------------------------------------------------------
(* A new operation.                                                        *)

\* Replica r, that has observed all its own operations, makes operation op.
Made(op, r, B, O) ==
    /\ Agreed(B, O)
    /\ r \in Replica
    /\ \A o \in O : o.ts.replica = r => Observed(B[r].version, o.ts)
    /\ op.kind \in {"edit", "undo"}
    /\ op.ts = Stamp(B[r].clock, r)
    /\ op.version = B[r].version
    /\ IsEdit(op) => /\ op.from \in Nat /\ op.to \in Nat /\ op.len \in Nat
                     /\ Anchors(B[r], op)
                     /\ op.from < op.to => Marks(B[r], op)
    /\ ~IsEdit(op) => \E p \in O : IsEdit(p) /\ p.ts = op.edit /\ Observed(op.version, p.ts)

LEMMA MadeFacts ==
    ASSUME NEW op, NEW r, NEW B, NEW O, Made(op, r, B, O)
    PROVE  /\ Causal(O) /\ r \in Replica /\ B[r].clock \in Nat /\ B[r].version \in Version
           /\ op.ts \in Timestamp /\ op.ts.value = B[r].clock /\ op.ts.replica = r
           /\ \A s \in Replica : B[r].version[s] \in Nat /\ B[r].version[s] < B[r].clock
  <1>1. Causal(O) /\ r \in Replica /\ Clocked(B[r].version, B[r].clock, O) /\ op.ts = Stamp(B[r].clock, r)
    BY DEF Made, Agreed, Replicated
  <1>2. /\ B[r].clock \in Nat /\ B[r].version \in Version /\ \A s \in Replica : B[r].version[s] < B[r].clock
    BY <1>1 DEF Clocked
  <1>3. op.ts \in Timestamp /\ op.ts.value = B[r].clock /\ op.ts.replica = r
    BY <1>1, <1>2, TimestampFields
  <1>. QED
    BY <1>1, <1>2, <1>3 DEF Version

\* No version has observed it yet.
LEMMA IsFresh ==
    ASSUME NEW op, NEW r, NEW B, NEW O, Made(op, r, B, O), NEW x \in Version, Reached(x[r], r, O)
    PROVE  ~Observed(x, op.ts)
  <1>1. /\ Causal(O) /\ r \in Replica /\ B[r].clock \in Nat
        /\ op.ts.value = B[r].clock /\ op.ts.replica = r
        /\ \A s \in Replica : B[r].version[s] \in Nat /\ B[r].version[s] < B[r].clock
    BY MadeFacts
  <1>2. x[r] \in Nat
    BY <1>1 DEF Version
  <1>. SUFFICES ASSUME x[r] >= B[r].clock PROVE FALSE
    BY <1>1 DEF Observed
  <1>3. CASE x[r] = 0
    BY <1>1, <1>2, <1>3
  <1>4. CASE BaseLen > 0 /\ r = 0 /\ x[r] = 1
    <2>1. B[r].version[0] >= 1
      BY <1>4 DEF Made, Agreed, Replicated, Clocked
    <2>. QED
      BY <1>1, <1>4, <2>1
  <1>5. CASE \E o \in O : o.ts = Stamp(x[r], r)
    <2>1. PICK o \in O : o.ts = Stamp(x[r], r)
      BY <1>5
    <2>2. o.ts.value = x[r] /\ o.ts.replica = r
      BY <2>1 DEF Stamp
    <2>3. Observed(B[r].version, o.ts)
      BY <2>2 DEF Made
    <2>4. B[r].version[r] >= x[r]
      BY <2>2, <2>3 DEF Observed
    <2>. QED
      BY <1>1, <1>2, <2>4
  <1>. QED
    BY <1>3, <1>4, <1>5 DEF Reached

LEMMA NobodyKnows ==
    ASSUME NEW op, NEW r, NEW B, NEW O, Made(op, r, B, O)
    PROVE  /\ \A q \in Replica : ~Observed(B[q].version, op.ts)
           /\ \A p \in O : ~Observed(p.version, op.ts)
           /\ ~Observed(op.version, op.ts)
           /\ \A p \in O : p.ts # op.ts
  <1>1. r \in Replica /\ Causal(O) /\ \A q \in Replica : Clocked(B[q].version, B[q].clock, O)
    BY DEF Made, Agreed, Replicated
  <1>2. \A q \in Replica : B[q].version \in Version /\ Reached(B[q].version[r], r, O)
    BY <1>1 DEF Clocked
  <1>3. \A p \in O : p.version \in Version /\ Reached(p.version[r], r, O)
    BY <1>1, OpFields DEF Causal
  <1>4. \A q \in Replica : ~Observed(B[q].version, op.ts)
    BY <1>2, IsFresh
  <1>5. \A p \in O : ~Observed(p.version, op.ts)
    BY <1>3, IsFresh
  <1>6. ~Observed(op.version, op.ts)
    BY <1>1, <1>4 DEF Made
  <1>7. ASSUME NEW p \in O, p.ts = op.ts PROVE FALSE
    <2>1. p.ts.replica = r
      BY <1>7, MadeFacts
    <2>2. Observed(B[r].version, p.ts)
      BY <2>1 DEF Made
    <2>. QED
      BY <1>1, <1>4, <1>7, <2>2
  <1>. QED
    BY <1>4, <1>5, <1>6, <1>7

\* A new operation keeps the causal order.
LEMMA CausalNext ==
    ASSUME NEW op, NEW r, NEW B, NEW O, Made(op, r, B, O)
    PROVE  Causal(O \cup {op})
  <1>. PICK P : P = O \cup {op}
    OBVIOUS
  <1>1. /\ Causal(O) /\ r \in Replica /\ B[r].clock \in Nat /\ B[r].version \in Version
        /\ op.ts \in Timestamp /\ op.ts.value = B[r].clock /\ op.ts.replica = r
        /\ \A s \in Replica : B[r].version[s] \in Nat /\ B[r].version[s] < B[r].clock
    BY MadeFacts
  <1>2. /\ \A p \in O : ~Observed(p.version, op.ts)
        /\ ~Observed(op.version, op.ts)
        /\ \A p \in O : p.ts # op.ts
    BY NobodyKnows
  <1>3. op.version = B[r].version /\ Clocked(B[r].version, B[r].clock, O)
        /\ \A o \in O : o.ts.replica = r => Observed(B[r].version, o.ts)
    BY DEF Made, Agreed, Replicated
  <1>4. IsFiniteSet(P)
    BY <1>1, FS_AddElement DEF Causal
  <1>5. \A o \in P : IsOperation(o)
    <2>1. IsOperation(op)
      BY <1>1, <1>3 DEF Made, IsOperation
    <2>2. \A o \in O : IsOperation(o)
      BY <1>1 DEF Causal
    <2>. QED
      BY <2>1, <2>2
  <1>6. \A o, p \in P : o.ts = p.ts => o = p
    <2>1. \A o, p \in O : o.ts = p.ts => o = p
      BY <1>1 DEF Causal
    <2>. QED
      BY <1>2, <2>1
  <1>7. \A o, p \in P : o.ts.replica = p.ts.replica /\ o.ts.value < p.ts.value => Observed(p.version, o.ts)
    <2>. SUFFICES ASSUME NEW o \in P, NEW p \in P, o.ts.replica = p.ts.replica, o.ts.value < p.ts.value
                  PROVE  Observed(p.version, o.ts)
      OBVIOUS
    <2>1. CASE o \in O /\ p \in O
      BY <1>1, <2>1 DEF Causal
    <2>2. CASE o \in O /\ p = op
      BY <1>1, <1>3, <2>2
    <2>3. CASE o = op
      <3>1. p \in O
        BY <1>1, <2>3
      <3>2. Observed(B[r].version, p.ts)
        BY <1>1, <1>3, <2>3, <3>1
      <3>3. B[r].version[r] >= p.ts.value /\ p.ts.value \in Nat
        BY <1>1, <2>3, <3>1, <3>2, OpFields DEF Observed
      <3>. QED
        BY <1>1, <2>3, <3>3
    <2>. QED
      BY <2>1, <2>2, <2>3
  <1>8. \A o \in P : \A s \in Replica : o.version[s] < o.ts.value
    <2>1. \A o \in O : \A s \in Replica : o.version[s] < o.ts.value
      BY <1>1 DEF Causal
    <2>. QED
      BY <1>1, <1>3, <2>1
  <1>9. \A o, p \in P : Observed(p.version, o.ts) => ObservedAll(p.version, o.version)
    <2>1. \A o, p \in O : Observed(p.version, o.ts) => ObservedAll(p.version, o.version)
      BY <1>1 DEF Causal
    <2>2. \A o \in O : Observed(op.version, o.ts) => ObservedAll(op.version, o.version)
      BY <1>3 DEF Clocked
    <2>. QED
      BY <1>2, <2>1, <2>2
  <1>10. \A o \in P : BaseLen > 0 => o.version[0] >= 1
    <2>1. \A o \in O : BaseLen > 0 => o.version[0] >= 1
      BY <1>1 DEF Causal
    <2>2. BaseLen > 0 => op.version[0] >= 1
      BY <1>3 DEF Clocked
    <2>. QED
      BY <2>1, <2>2
  <1>11. \A o \in P : ~IsEdit(o) => \E p \in P : IsEdit(p) /\ p.ts = o.edit /\ Observed(o.version, p.ts)
    <2>1. \A o \in O : ~IsEdit(o) => \E p \in O : IsEdit(p) /\ p.ts = o.edit /\ Observed(o.version, p.ts)
      BY <1>1 DEF Causal
    <2>2. ~IsEdit(op) => \E p \in O : IsEdit(p) /\ p.ts = op.edit /\ Observed(op.version, p.ts)
      BY DEF Made
    <2>. QED
      BY <2>1, <2>2
  <1>12. \A o \in P : \A s \in Replica : Reached(o.version[s], s, P)
    <2>1. \A n, s : Reached(n, s, O) => Reached(n, s, P)
      BY DEF Reached
    <2>2. \A o \in O : \A s \in Replica : Reached(o.version[s], s, O)
      BY <1>1 DEF Causal
    <2>3. \A s \in Replica : Reached(op.version[s], s, O)
      BY <1>3 DEF Clocked
    <2>. QED
      BY <2>1, <2>2, <2>3
  <1>13. Causal(P)
    BY <1>4, <1>5, <1>6, <1>7, <1>8, <1>9, <1>10, <1>11, <1>12 DEF Causal
  <1>. QED
    BY <1>13

\* Until somebody applies it, it changes nothing.
LEMMA AgreedAnyway ==
    ASSUME NEW op, NEW r, NEW B, NEW O, Made(op, r, B, O)
    PROVE  Agreed(B, O \cup {op})
  <1>. PICK P : P = O \cup {op}
    OBVIOUS
  <1>1. \A q \in Replica : ~Observed(B[q].version, op.ts)
    BY NobodyKnows
  <1>2. Agreed(B, O) /\ r \in Replica
    BY DEF Made
  <1>3. ASSUME NEW q \in Replica PROVE Replicated(B[q], P)
    <2>. PICK v, c, F, U : v = B[q].version /\ c = B[q].clock /\ F = B[q].fragments /\ U = B[q].undo_map
      OBVIOUS
    <2>1. /\ Clocked(v, c, O) /\ Text(F, v, O) /\ AllPlaced(F, v, O) /\ Deleted(F, v, U, O)
          /\ Undos(U, v, O) /\ Shows(F, U)
      BY <1>2 DEF Agreed, Replicated
    <2>2. ~Observed(v, op.ts)
      BY <1>1
    <2>3. \A n, s : Reached(n, s, O) => Reached(n, s, P)
      BY DEF Reached
    <2>4. Clocked(v, c, P)
      BY <2>1, <2>2, <2>3 DEF Clocked
    <2>5. \A ts, n : IsChar(ts, n, v, P) <=> IsChar(ts, n, v, O)
      BY <2>2 DEF IsChar
    <2>6. Text(F, v, P)
      <3>1. F \in Seq(Frag) /\ Distinct(F)
        BY <2>1 DEF Text
      <3>2. \A i \in 1..Len(F) : IsChar(F[i].ts, F[i].offset, v, P)
        <4>1. \A i \in 1..Len(F) : IsChar(F[i].ts, F[i].offset, v, O)
          BY <2>1 DEF Text
        <4>. QED
          BY ONLY <2>5, <4>1
      <3>3. ASSUME NEW ts, NEW n, IsChar(ts, n, v, P)
            PROVE  \E i \in 1..Len(F) : F[i].ts = ts /\ F[i].offset = n
        <4>1. IsChar(ts, n, v, O)
          BY ONLY <2>5, <3>3
        <4>. QED
          BY ONLY <2>1, <4>1 DEF Text
      <3>. QED
        BY ONLY <3>1, <3>2, <3>3 DEF Text
    <2>7. AllPlaced(F, v, P)
      BY <2>1, <2>2 DEF AllPlaced
    <2>8. Deleted(F, v, U, P)
      BY <2>1, <2>2 DEF Deleted
    <2>9. Undos(U, v, P)
      <3>1. {p \in P : ~IsEdit(p) /\ Observed(v, p.ts)} = {p \in O : ~IsEdit(p) /\ Observed(v, p.ts)}
        BY <2>2
      <3>. QED
        BY <2>1, <3>1 DEF Undos
    <2>. QED
      BY <2>1, <2>4, <2>6, <2>7, <2>8, <2>9 DEF Replicated
  <1>4. ASSUME NEW p \in Replica, NEW q \in Replica
        PROVE  SameDeletions(B[p].fragments, B[p].version, B[q].fragments, B[q].version, P)
    <2>1. SameDeletions(B[p].fragments, B[p].version, B[q].fragments, B[q].version, O)
      BY <1>2 DEF Agreed
    <2>. QED
      BY <1>1, <2>1 DEF SameDeletions
  <1>5. Anchored(B, P) /\ Marked(B, P)
    <2>1. Anchored(B, O) /\ Marked(B, O)
      BY <1>2 DEF Agreed
    <2>2. IsEdit(op) => Anchors(B[r], op) /\ (op.from < op.to => Marks(B[r], op))
      BY DEF Made
    <2>3. Anchored(B, P)
      BY <1>2, <2>1, <2>2 DEF Anchored
    <2>4. Marked(B, P)
      BY <1>2, <2>1, <2>2 DEF Marked
    <2>. QED
      BY <2>3, <2>4
  <1>6. Causal(P)
    BY CausalNext
  <1>7. Agreed(B, P)
    BY <1>2, <1>3, <1>4, <1>5, <1>6 DEF Agreed
  <1>. QED
    BY <1>7

\* The author applies it.
LEMMA MadeAndApplied ==
    ASSUME NEW op, NEW r, NEW B, NEW O, Made(op, r, B, O)
    PROVE  Agreed([B EXCEPT ![r] = apply_op(B[r], op)], O \cup {op})
  <1>. PICK P : P = O \cup {op}
    OBVIOUS
  <1>1. Agreed(B, P) /\ op \in P
    BY AgreedAnyway
  <1>2. ObservedAll(B[r].version, op.version) /\ r \in Replica
    <2>1. \A s \in Replica : B[r].version[s] \in Nat
      BY MadeFacts
    <2>. QED
      BY <2>1 DEF Made, ObservedAll
  <1>3. Agreed([B EXCEPT ![r] = apply_op(B[r], op)], P)
    BY <1>1, <1>2, ApplyAgrees
  <1>. QED
    BY <1>3

-----------------------------------------------------------------------------
(* Local edits.                                                            *)

\* The author of an edit knows all the text before him.
LEMMA OwnOffset ==
    ASSUME NEW O, NEW v, NEW c, Clocked(v, c, O), NEW F, Text(F, v, O)
    PROVE  /\ Len(F) \in Nat
           /\ \A i \in 0..Len(F) : FullOffset(F, v, i) = i
  <1>1. Len(F) \in Nat /\ \A i \in 1..Len(F) : IsChar(F[i].ts, F[i].offset, v, O)
    BY TextFields
  <1>2. \A i \in 1..Len(F) : Observed(v, F[i].ts)
    BY <1>1, CharIsObserved
  <1>. QED
    BY <1>1, <1>2, OffsetOfAll

LEMMA OwnVisibility ==
    ASSUME NEW O, NEW v, NEW c, Clocked(v, c, O), NEW F, Text(F, v, O), NEW U,
           Deleted(F, v, U, O), Undos(U, v, O), Shows(F, U), NEW i \in 1..Len(F)
    PROVE  was_visible(F[i], v, U) <=> F[i].visible
  <1>1. IsChar(F[i].ts, F[i].offset, v, O)
    BY TextFields
  <1>2. Observed(v, F[i].ts)
    BY <1>1, CharIsObserved
  <1>3. \A u \in U : Observed(v, u.undo)
    BY EntryFields
  <1>4. {u \in U : Observed(v, u.undo)} = U
    BY <1>3
  <1>5. \A e : was_undone(U, e, v) <=> is_undone(U, e)
    BY <1>4 DEF was_undone
  <1>6. \A d \in F[i].deletions : Observed(v, d)
    BY DeletionsAreEdits
  <1>7. F[i].visible <=> is_visible(F[i], U)
    BY DEF Shows
  <1>. QED
    BY <1>2, <1>5, <1>6, <1>7 DEF was_visible, is_visible

LEMMA VisibleFacts ==
    ASSUME NEW F, NEW m \in Nat
    PROVE  /\ VisibleTo(F, 0) = 0
           /\ \A i \in 0..m : VisibleTo(F, i) \in Nat
           /\ \A i, k \in 0..m : i <= k => VisibleTo(F, i) <= VisibleTo(F, k)
           /\ \A i \in 1..m : ~F[i].visible => VisibleTo(F, i - 1) = VisibleTo(F, i)
           /\ \A c \in 0..VisibleTo(F, m) : \E i \in 0..m : VisibleTo(F, i) = c
  <1>. PICK S : S = Shown(F)
    OBVIOUS
  <1>1. \A i \in Nat : VisibleTo(F, i) = Count(S, i)
    BY OffsetIsCount
  <1>2. /\ \A i \in Nat : Count(S, i) \in Nat
        /\ Count(S, 0) = 0
        /\ \A i, k \in Nat : i <= k => Count(S, i) <= Count(S, k)
    BY ONLY CountFacts
  <1>5. \A i, k \in Nat : i <= k /\ (\A j \in (i + 1)..k : j \notin S) => Count(S, k) = Count(S, i)
    BY ONLY CountFacts
  <1>3. \A c \in 0..VisibleTo(F, m) : \E i \in 0..m : VisibleTo(F, i) = c
    <2>. SUFFICES ASSUME NEW c \in Nat, c <= VisibleTo(F, m) PROVE \E i \in 0..m : VisibleTo(F, i) = c
      BY <1>1, <1>2
    <2>1. c <= Count(S, m)
      BY <1>1
    <2>2. PICK i \in 0..m : Count(S, i) = c
      BY <2>1, CountReaches
    <2>. QED
      BY <1>1, <2>2
  <1>4. ASSUME NEW i \in 1..m, ~F[i].visible PROVE VisibleTo(F, i - 1) = VisibleTo(F, i)
    <2>. PICK h \in Nat : h + 1 = i
      BY SMT
    <2>1. i \notin S
      BY <1>4 DEF Shown
    <2>2. i \in Nat /\ h <= i /\ \A j \in (h + 1)..i : j \notin S
      BY <2>1
    <2>4. Count(S, i) = Count(S, h)
      BY <1>5, <2>2
    <2>5. VisibleTo(F, h) = Count(S, h) /\ VisibleTo(F, i) = Count(S, i)
      BY <1>1, <2>2
    <2>6. h = i - 1
      OBVIOUS
    <2>. QED
      BY <2>4, <2>5, <2>6
  <1>. QED
    BY <1>1, <1>2, <1>3, <1>4

LEMMA StartOfFacts ==
    ASSUME NEW b, NEW F, F = b.fragments, Len(F) \in Nat, NEW lo \in 0..VisibleTo(F, Len(F))
    PROVE  StartOf(b, lo) \in 0..Len(F) /\ VisibleTo(F, StartOf(b, lo)) = lo
  <1>. PICK I : I = {i \in 0..Len(F) : VisibleTo(F, i) <= lo}
    OBVIOUS
  <1>1. StartOf(b, lo) = Max(I)
    BY DEF StartOf
  <1>2. /\ VisibleTo(F, 0) = 0
        /\ \A i \in 0..Len(F) : VisibleTo(F, i) \in Nat
        /\ \A i, k \in 0..Len(F) : i <= k => VisibleTo(F, i) <= VisibleTo(F, k)
        /\ \A c \in 0..VisibleTo(F, Len(F)) : \E i \in 0..Len(F) : VisibleTo(F, i) = c
    BY VisibleFacts
  <1>3. lo \in Nat
    BY <1>2
  <1>4. I \in SUBSET Nat /\ I # {} /\ \A k \in I : k <= Len(F)
    BY <1>2, <1>3
  <1>5. Max(I) \in I /\ \A k \in I : k <= Max(I)
    BY <1>4, GreatestOf
  <1>6. PICK i \in 0..Len(F) : VisibleTo(F, i) = lo
    BY <1>2
  <1>7. i <= Max(I)
    BY <1>3, <1>5, <1>6
  <1>8. Max(I) \in 0..Len(F) /\ VisibleTo(F, Max(I)) <= lo
    BY <1>5
  <1>9. VisibleTo(F, Max(I)) >= lo
    BY <1>2, <1>6, <1>7, <1>8
  <1>. QED
    BY <1>1, <1>2, <1>3, <1>8, <1>9

LEMMA EndOfFacts ==
    ASSUME NEW b, NEW F, F = b.fragments, Len(F) \in Nat, NEW lo \in 0..VisibleTo(F, Len(F)), NEW hi \in 0..VisibleTo(F, Len(F))
    PROVE  /\ lo = hi => EndOf(b, lo, hi) = StartOf(b, lo)
           /\ lo < hi => /\ EndOf(b, lo, hi) \in 1..Len(F)
                         /\ StartOf(b, lo) < EndOf(b, lo, hi)
                         /\ F[EndOf(b, lo, hi)].visible
  <1>1. CASE lo = hi
    BY <1>1 DEF EndOf
  <1>2. CASE lo < hi
    <2>. PICK I : I = {i \in 0..Len(F) : VisibleTo(F, i) = hi}
      OBVIOUS
    <2>0. /\ VisibleTo(F, 0) = 0
          /\ \A i \in 0..Len(F) : VisibleTo(F, i) \in Nat
          /\ \A i, k \in 0..Len(F) : i <= k => VisibleTo(F, i) <= VisibleTo(F, k)
          /\ \A c \in 0..VisibleTo(F, Len(F)) : \E i \in 0..Len(F) : VisibleTo(F, i) = c
      BY VisibleFacts
    <2>10. \A i \in 1..Len(F) : ~F[i].visible => VisibleTo(F, i - 1) = VisibleTo(F, i)
      BY VisibleFacts
    <2>1. lo \in Nat /\ hi \in Nat
      BY <2>0
    <2>2. EndOf(b, lo, hi) = Min(I)
      BY <1>2, <2>1 DEF EndOf
    <2>3. I \in SUBSET Nat /\ I # {}
      BY <2>0
    <2>4. Min(I) \in I /\ \A k \in I : Min(I) <= k
      BY <2>3, LeastOf
    <2>. PICK e : e = Min(I)
      OBVIOUS
    <2>5. e \in 0..Len(F) /\ VisibleTo(F, e) = hi
      BY <2>4
    <2>6. e # 0
      BY <1>2, <2>0, <2>1, <2>5
    <2>7. F[e].visible
      <3>. SUFFICES ASSUME ~F[e].visible PROVE FALSE
        OBVIOUS
      <3>1. e \in 1..Len(F) /\ e - 1 \in 0..Len(F)
        BY <2>5, <2>6
      <3>2. VisibleTo(F, e - 1) = hi
        BY <2>5, <2>10, <3>1
      <3>3. e - 1 \in I
        BY <3>1, <3>2
      <3>. QED
        BY <2>4, <2>5, <3>3
    <2>8. StartOf(b, lo) \in 0..Len(F) /\ VisibleTo(F, StartOf(b, lo)) = lo
      BY StartOfFacts
    <2>9. StartOf(b, lo) < e
      BY <1>2, <2>0, <2>1, <2>5, <2>8
    <2>. QED
      BY <1>2, <2>1, <2>2, <2>5, <2>6, <2>7, <2>9
  <1>3. VisibleTo(F, Len(F)) \in Nat
    BY VisibleFacts
  <1>. QED
    BY <1>1, <1>2, <1>3

\* What the author does at once is what the others do when they are told.
LEMMA LocalIsRemote ==
    ASSUME NEW O, NEW B, Agreed(B, O), NEW r \in Replica, NEW b, b = B[r], NEW op,
           op.ts = Stamp(b.clock, r), op.version = b.version,
           op.from \in 0..Len(b.fragments), op.to \in 0..Len(b.fragments)
    PROVE  apply_local_edit(b, op) = apply_remote_edit(b, op)
  <1>. PICK F, v, c, U : F = b.fragments /\ v = b.version /\ c = b.clock /\ U = b.undo_map
    OBVIOUS
  <1>1. /\ Clocked(v, c, O) /\ Text(F, v, O) /\ Deleted(F, v, U, O) /\ Undos(U, v, O) /\ Shows(F, U)
    BY DEF Agreed, Replicated
  <1>2. Len(F) \in Nat /\ \A i \in 0..Len(F) : FullOffset(F, v, i) = i
    BY <1>1, OwnOffset
  <1>3. /\ F \in Seq(Frag) /\ DOMAIN F = 1..Len(F)
        /\ \A i \in 1..Len(F) : F[i].ts \in Timestamp /\ IsChar(F[i].ts, F[i].offset, v, O)
    BY <1>1, TextFields
  <1>4. \A i \in 1..Len(F) : was_visible(F[i], v, U) <=> F[i].visible
    BY <1>1, OwnVisibility
  <1>5. c \in Nat /\ v \in Version /\ \A s \in Replica : v[s] \in Nat /\ v[s] < c
    BY <1>1 DEF Clocked, Version
  <1>6. op.ts.value = c /\ op.ts.replica = r
    BY DEF Stamp
  <1>7. \A i \in 1..Len(F) : ~After(F[i].ts, op.ts)
    <2>. SUFFICES ASSUME NEW i \in 1..Len(F) PROVE ~After(F[i].ts, op.ts)
      OBVIOUS
    <2>1. Observed(v, F[i].ts)
      BY <1>1, <1>3, CharIsObserved
    <2>2. F[i].ts.value \in Nat /\ F[i].ts.replica \in Replica
      BY <1>3, TimestampFields
    <2>. PICK s \in Replica : s = F[i].ts.replica
      BY <2>2
    <2>4. v[s] >= F[i].ts.value /\ v[s] \in Nat /\ v[s] < c
      BY <1>5, <2>1 DEF Observed
    <2>3. F[i].ts.value < c
      BY <1>5, <2>2, <2>4
    <2>. QED
      BY <1>5, <1>6, <2>2, <2>3 DEF After
  <1>8. op.from \in Nat /\ op.to \in Nat /\ op.from <= Len(F) /\ op.to <= Len(F)
    BY <1>2
  <1>9. InsertionPoint(b, op) = op.from
    <2>. PICK k : k = InsertionPoint(b, op)
      OBVIOUS
    <2>1. op.from <= FullOffset(F, op.version, Len(F))
      BY <1>2, <1>8
    <2>2. Lands(F, op, k)
      BY <1>3, <1>8, <2>1, PointLands
    <2>3. k \in 0..Len(F) /\ op.from <= FullOffset(F, v, k)
      BY <2>2 DEF Lands
    <2>4. op.from <= k /\ k \in Nat
      BY <1>2, <2>3
    <2>5. CASE k > op.from
      <3>1. k \in 1..Len(F) /\ k - 1 \in 0..Len(F) /\ op.from <= k - 1
        BY <1>2, <1>8, <2>3, <2>5
      <3>2. FullOffset(F, v, k - 1) = k - 1
        BY <1>2, <3>1
      <3>3. Past(F, op, k)
        BY <3>1, <3>2 DEF Past
      <3>4. After(F[k].ts, op.ts)
        BY <2>2, <2>4, <3>1, <3>3 DEF Lands
      <3>. QED
        BY <1>7, <3>1, <3>4
    <2>. QED
      BY <1>8, <2>4, <2>5
  <1>. PICK D : D = KnownRange(b, op)
    OBVIOUS
  <1>10. {i \in (op.from + 1)..op.to : F[i].visible} = D
    <2>1. \A i \in 1..Len(F) : FullOffset(F, v, i) = i
      BY <1>2
    <2>2. \A i \in (op.from + 1)..op.to : i \in 1..Len(F)
      BY <1>2, <1>8
    <2>3. D = {i \in 1..Len(F) : i \in (op.from + 1)..op.to /\ F[i].visible}
      BY <1>3, <1>4, <2>1 DEF KnownRange
    <2>. QED
      BY <2>2, <2>3
  <1>. PICK k : k = op.from
    OBVIOUS
  <1>11. apply_local_edit(b, op) = [b EXCEPT !.fragments = Insert(Delete(b.fragments, D, op.ts), k, op.ts, op.len)]
    BY ONLY <1>10, F = b.fragments, k = op.from DEF apply_local_edit
  <1>12. apply_remote_edit(b, op) =
           [b EXCEPT !.fragments = Insert(Delete(b.fragments, KnownRange(b, op), op.ts), InsertionPoint(b, op), op.ts, op.len)]
    BY ONLY DEF apply_remote_edit, KnownRange
  <1>13. apply_remote_edit(b, op) = [b EXCEPT !.fragments = Insert(Delete(b.fragments, D, op.ts), k, op.ts, op.len)]
    BY ONLY <1>9, <1>12, D = KnownRange(b, op), k = op.from
  <1>. QED
    BY ONLY <1>11, <1>13

\* The buffer Publish leaves.
Published(b, ts) == [b EXCEPT !.version = Observe(@, ts), !.clock = @ + 1]

LEMMA PublishIsApply ==
    ASSUME NEW O, NEW B, Agreed(B, O), NEW r \in Replica, NEW b, b = B[r], NEW op, op.ts = Stamp(b.clock, r),
           NEW n, IsBuffer(n), n.version = b.version, n.clock = b.clock
    PROVE  Published(n, op.ts) = Record(n, op.ts)
  <1>1. b.clock \in Nat
    BY DEF Agreed, Replicated, Clocked
  <1>2. op.ts.value = b.clock
    BY DEF Stamp
  <1>3. Advance(n.clock, op.ts) = n.clock + 1
    BY <1>1, <1>2 DEF Advance
  <1>. PICK w, k : w = Observe(n.version, op.ts) /\ k = n.clock + 1
    OBVIOUS
  <1>4. Published(n, op.ts) = [n EXCEPT !.version = w, !.clock = k]
    BY DEF Published
  <1>5. Record(n, op.ts) = [n EXCEPT !.version = w, !.clock = k]
    BY <1>3 DEF Record
  <1>. QED
    BY ONLY <1>4, <1>5

\* What edit publishes is an operation made by this replica, and its new
\* buffer is what apply_op makes of it.
LEMMA EditIsMade ==
    ASSUME NEW O, NEW B, Agreed(B, O), NEW r \in Replica, NEW b, b = B[r],
           \A o \in O : o.ts.replica = r => Observed(b.version, o.ts),
           NEW lo \in 0..VisibleTo(b.fragments, Len(b.fragments)),
           NEW hi \in 0..VisibleTo(b.fragments, Len(b.fragments)), lo <= hi, NEW n \in Nat,
           NEW op, op = EditOperation(r, b, lo, hi, n)
    PROVE  /\ Made(op, r, B, O)
           /\ apply_local_edit(b, op) = apply_remote_edit(b, op)
  <1>. PICK F, v, c, U : F = b.fragments /\ v = b.version /\ c = b.clock /\ U = b.undo_map
    OBVIOUS
  <1>1. /\ Clocked(v, c, O) /\ Text(F, v, O) /\ Deleted(F, v, U, O) /\ Undos(U, v, O) /\ Shows(F, U)
    BY DEF Agreed, Replicated
  <1>2. Len(F) \in Nat /\ \A i \in 0..Len(F) : FullOffset(F, v, i) = i
    BY <1>1, OwnOffset
  <1>3. op.kind = "edit" /\ op.ts = Stamp(b.clock, r) /\ op.version = b.version /\ op.len = n
        /\ op.from = StartOf(b, lo) /\ op.to = EndOf(b, lo, hi)
    BY DEF EditOperation
  <1>4. StartOf(b, lo) \in 0..Len(F)
    BY <1>2, StartOfFacts
  <1>5. /\ lo = hi => EndOf(b, lo, hi) = StartOf(b, lo)
        /\ lo < hi => /\ EndOf(b, lo, hi) \in 1..Len(F)
                      /\ StartOf(b, lo) < EndOf(b, lo, hi)
                      /\ F[EndOf(b, lo, hi)].visible
    BY <1>2, EndOfFacts
  <1>6. VisibleTo(F, Len(F)) \in Nat
    BY <1>2, VisibleFacts
  <1>7. lo \in Nat /\ hi \in Nat /\ (lo = hi \/ lo < hi)
    BY <1>6
  <1>8. op.from \in 0..Len(F) /\ op.to \in 0..Len(F) /\ op.from \in Nat /\ op.to \in Nat /\ op.from <= Len(F)
    BY <1>2, <1>3, <1>4, <1>5, <1>7
  <1>9. op.from < op.to => op.to \in 1..Len(F) /\ F[op.to].visible
    BY <1>3, <1>5, <1>7, <1>8
  <1>10. ObservedAll(b.version, op.version)
    <2>1. \A s \in Replica : v[s] \in Nat
      BY <1>1 DEF Clocked, Version
    <2>. QED
      BY <1>3, <2>1 DEF ObservedAll
  <1>11. Anchors(b, op)
    <2>1. FullOffset(F, v, Len(F)) = Len(F)
      BY <1>2
    <2>. QED
      BY <1>3, <1>8, <1>10, <2>1 DEF Anchors
  <1>12. op.from < op.to => Marks(b, op)
    <2>. SUFFICES ASSUME op.from < op.to PROVE Marks(b, op)
      OBVIOUS
    <2>. PICK i : i = op.to
      OBVIOUS
    <2>1. i \in 1..Len(F) /\ F[i].visible
      BY <1>9
    <2>2. was_visible(F[i], v, U)
      BY <1>1, <2>1, OwnVisibility
    <2>3. FullOffset(F, v, i) = i
      BY <1>2, <2>1
    <2>4. FullOffset(F, v, i) \in (op.from + 1)..op.to
      BY <1>8, <2>3
    <2>5. Doomed(F, op, U, i)
      BY <1>3, <2>2, <2>4 DEF Doomed
    <2>. QED
      BY <1>10, <2>1, <2>5 DEF Marks
  <1>13. Made(op, r, B, O)
    BY <1>3, <1>8, <1>11, <1>12 DEF Made, IsEdit
  <1>14. apply_local_edit(b, op) = apply_remote_edit(b, op)
    BY <1>3, <1>8, LocalIsRemote
  <1>. QED
    BY <1>13, <1>14

LEMMA EditPublishes ==
    ASSUME NEW O, NEW B, NEW r, NEW b, b = B[r], NEW op, Made(op, r, B, O), IsEdit(op),
           apply_local_edit(b, op) = apply_remote_edit(b, op)
    PROVE  Published(apply_local_edit(b, op), op.ts) = apply_op(b, op)
  <1>. PICK m : m = apply_remote_edit(b, op)
    OBVIOUS
  <1>1. Agreed(B, O) /\ r \in Replica /\ op.ts = Stamp(b.clock, r) /\ IsBuffer(b)
    BY DEF Made, Agreed
  <1>2. IsBuffer(m) /\ m.version = b.version /\ m.clock = b.clock
    BY <1>1, RemoteEditFields
  <1>3. Published(m, op.ts) = Record(m, op.ts)
    BY <1>1, <1>2, PublishIsApply
  <1>4. ~Observed(b.version, op.ts)
    BY <1>1, NobodyKnows
  <1>5. apply_op(b, op) = Record(m, op.ts)
    BY <1>4 DEF apply_op, IsEdit
  <1>6. apply_local_edit(b, op) = m
    OBVIOUS
  <1>. QED
    BY ONLY <1>3, <1>5, <1>6

LEMMA UndoIsMade ==
    ASSUME NEW O, NEW B, Agreed(B, O), NEW r \in Replica, NEW b, b = B[r],
           \A o \in O : o.ts.replica = r => Observed(b.version, o.ts),
           NEW e \in O, IsEdit(e), Observed(b.version, e.ts),
           NEW op, op = UndoOperation(r, b, e.ts)
    PROVE  Made(op, r, B, O) /\ ~IsEdit(op)
  <1>1. op.kind = "undo" /\ op.ts = Stamp(b.clock, r) /\ op.version = b.version /\ op.edit = e.ts
    BY DEF UndoOperation
  <1>2. ~IsEdit(op)
    BY <1>1 DEF IsEdit
  <1>. QED
    BY <1>1, <1>2 DEF Made

LEMMA UndoPublishes ==
    ASSUME NEW O, NEW B, NEW r, NEW b, b = B[r], NEW op, Made(op, r, B, O), ~IsEdit(op)
    PROVE  Published(apply_undo(b, op), op.ts) = apply_op(b, op)
  <1>. PICK m : m = apply_undo(b, op)
    OBVIOUS
  <1>1. Agreed(B, O) /\ r \in Replica /\ op.ts = Stamp(b.clock, r) /\ IsBuffer(b)
    BY DEF Made, Agreed
  <1>2. IsBuffer(m) /\ m.version = b.version /\ m.clock = b.clock
    BY <1>1, UndoFields
  <1>3. Published(m, op.ts) = Record(m, op.ts)
    BY <1>1, <1>2, PublishIsApply
  <1>4. ~Observed(b.version, op.ts)
    BY <1>1, NobodyKnows
  <1>5. apply_op(b, op) = Record(m, op.ts)
    BY <1>4 DEF apply_op, IsEdit
  <1>. QED
    BY ONLY <1>3, <1>5, m = apply_undo(b, op)

-----------------------------------------------------------------------------
(* The invariant of the whole system.                                      *)

\* A replica knows its own operations.
Own(B, O) == \A o \in O : Observed(B[o.ts.replica].version, o.ts)

\* The queues hold operations of others.
Waiting(B, O) == \A r \in Replica : B[r].deferred_ops \subseteq {o \in O : o.ts.replica # r}

\* The inductive invariant, of buffers and operations.
Sound(B, O) ==
    /\ Agreed(B, O)
    /\ Own(B, O)
    /\ Waiting(B, O)
    /\ \A r \in Replica : NoneReady(B[r])

\* Nobody knows an operation of a replica that it does not know itself.
LEMMA OwnVersion ==
    ASSUME NEW O, NEW B, Agreed(B, O), Own(B, O), NEW r \in Replica, NEW p \in O
    PROVE  p.version[r] \in Nat /\ B[r].version[r] \in Nat /\ p.version[r] <= B[r].version[r]
  <1>. PICK v, x : v = B[r].version[r] /\ x = p.version[r]
    OBVIOUS
  <1>1. Causal(O) /\ Clocked(B[r].version, B[r].clock, O)
    BY DEF Agreed, Replicated
  <1>2. v \in Nat /\ x \in Nat
    BY <1>1, OpFields DEF Clocked, Version
  <1>3. Reached(x, r, O)
    BY <1>1 DEF Causal
  <1>4. CASE x = 0
    BY <1>2, <1>4
  <1>5. CASE BaseLen > 0 /\ r = 0 /\ x = 1
    <2>1. v >= 1
      BY <1>1, <1>5 DEF Clocked
    <2>. QED
      BY <1>2, <1>5, <2>1
  <1>6. CASE \E o \in O : o.ts = Stamp(x, r)
    <2>1. PICK o \in O : o.ts = Stamp(x, r)
      BY <1>6
    <2>2. o.ts.value = x /\ o.ts.replica = r
      BY <2>1 DEF Stamp
    <2>3. Observed(B[r].version, o.ts)
      BY <2>2 DEF Own
    <2>. QED
      BY <1>2, <2>2, <2>3 DEF Observed
  <1>. QED
    BY <1>2, <1>3, <1>4, <1>5, <1>6 DEF Reached

\* Edit and UndoOrRedo.
LEMMA MadeIsSound ==
    ASSUME NEW op, NEW r, NEW B, NEW O, Made(op, r, B, O), Sound(B, O), NEW C, C = [B EXCEPT ![r] = apply_op(B[r], op)]
    PROVE  Sound(C, O \cup {op})
  <1>. PICK P, n : P = O \cup {op} /\ n = apply_op(B[r], op)
    OBVIOUS
  <1>1. r \in Replica /\ Agreed(B, O) /\ Own(B, O) /\ Waiting(B, O) /\ \A q \in Replica : NoneReady(B[q])
    BY DEF Made, Sound
  <1>2. Agreed(C, P)
    BY MadeAndApplied
  <1>3. Agreed(B, P) /\ op \in P /\ \A o \in O : o \in P
    BY AgreedAnyway
  <1>4. C[r] = n /\ \A q \in Replica : q # r => C[q] = B[q]
    BY <1>1, Replaced, NotReplaced
  <1>5. ObservedAll(B[r].version, op.version)
    <2>1. \A s \in Replica : B[r].version[s] \in Nat
      BY MadeFacts
    <2>. QED
      BY <2>1 DEF Made, ObservedAll
  <1>6. op.ts.replica = r
    BY MadeFacts
  <1>7. \A o \in P : Observed(n.version, o.ts) <=> Observed(B[r].version, o.ts) \/ o = op
    BY <1>1, <1>3, <1>5, ApplyObserves
  <1>8. n.deferred_ops = B[r].deferred_ops
    BY <1>1, <1>3, ApplyDefers
  <1>9. Own(C, P)
    <2>. SUFFICES ASSUME NEW o \in P PROVE Observed(C[o.ts.replica].version, o.ts)
      BY DEF Own
    <2>1. CASE o = op
      BY <1>4, <1>6, <1>7, <2>1
    <2>2. CASE o \in O
      <3>1. Observed(B[o.ts.replica].version, o.ts)
        BY <1>1, <2>2 DEF Own
      <3>2. o.ts.replica \in Replica
        BY <1>1, <2>2, OpFields DEF Agreed
      <3>3. CASE o.ts.replica = r
        BY <1>4, <1>7, <3>1, <3>3
      <3>4. CASE o.ts.replica # r
        BY <1>4, <3>1, <3>2, <3>4
      <3>. QED
        BY <3>3, <3>4
    <2>. QED
      BY <2>1, <2>2
  <1>10. Waiting(C, P)
    <2>. SUFFICES ASSUME NEW q \in Replica, NEW p \in C[q].deferred_ops PROVE p \in P /\ p.ts.replica # q
      BY DEF Waiting
    <2>1. p \in B[q].deferred_ops
      BY <1>4, <1>8
    <2>. QED
      BY <1>1, <2>1 DEF Waiting
  <1>11. ASSUME NEW q \in Replica PROVE NoneReady(C[q])
    <2>1. CASE q # r
      BY <1>1, <1>4, <2>1
    <2>2. CASE q = r
      <3>. SUFFICES ASSUME NEW p \in B[r].deferred_ops, ObservedAll(n.version, p.version) PROVE FALSE
        BY <1>4, <1>8, <2>2 DEF NoneReady
      <3>1. p \in O
        BY <1>1 DEF Waiting
      <3>2. p.version[r] \in Nat /\ B[r].version[r] \in Nat /\ p.version[r] <= B[r].version[r]
        BY <1>1, <3>1, OwnVersion
      <3>3. \A s \in Replica : s # r => n.version[s] = B[r].version[s]
        BY <1>1, <1>3, <1>6, ApplyVersion
      <3>4. ObservedAll(B[r].version, p.version)
        BY <3>2, <3>3 DEF ObservedAll
      <3>. QED
        BY <1>1, <3>4 DEF NoneReady
    <2>. QED
      BY <2>1, <2>2
  <1>12. Sound(C, P)
    BY <1>2, <1>9, <1>10, <1>11 DEF Sound
  <1>. QED
    BY <1>12

\* Receive.
LEMMA ReceiveIsSound ==
    ASSUME NEW O, NEW B, Sound(B, O), NEW r \in Replica, NEW batch, Len(batch) \in Nat,
           \A i \in 1..Len(batch) : batch[i] \in O /\ batch[i].ts.replica # r,
           NEW C, C = [B EXCEPT ![r] = apply_ops(B[r], batch)]
    PROVE  Sound(C, O)
  <1>. PICK n : n = apply_ops(B[r], batch)
    OBVIOUS
  <1>1. Agreed(B, O) /\ Own(B, O) /\ Waiting(B, O) /\ \A q \in Replica : NoneReady(B[q])
    BY DEF Sound
  <1>2. /\ B[r].deferred_ops \subseteq O
        /\ Len(batch) \in Nat
        /\ \A i \in 1..Len(batch) : batch[i] \in O
        /\ n = apply_ops(B[r], batch)
    BY <1>1 DEF Waiting
  <1>3. /\ Agreed([B EXCEPT ![r] = n], O)
        /\ Keeps(B[r].version, n.version, O)
        /\ \A p \in n.deferred_ops : p \in B[r].deferred_ops \/ \E i \in 1..Len(batch) : p = batch[i]
        /\ NoneReady(n)
    BY ONLY <1>1, <1>2, r \in Replica, ReceiveFacts
  <1>4. C[r] = n /\ \A q \in Replica : q # r => C[q] = B[q]
    <2>1. C = [B EXCEPT ![r] = n]
      OBVIOUS
    <2>2. [B EXCEPT ![r] = n][r] = n
      BY ONLY <1>1, r \in Replica, Replaced
    <2>3. \A q \in Replica : q # r => [B EXCEPT ![r] = n][q] = B[q]
      BY ONLY <1>1, r \in Replica, NotReplaced
    <2>. QED
      BY <2>1, <2>2, <2>3
  <1>5. Agreed(C, O)
    BY <1>3
  <1>6. Own(C, O)
    <2>. SUFFICES ASSUME NEW o \in O PROVE Observed(C[o.ts.replica].version, o.ts)
      BY DEF Own
    <2>1. Observed(B[o.ts.replica].version, o.ts)
      BY <1>1 DEF Own
    <2>2. o.ts.replica \in Replica
      BY <1>1, OpFields DEF Agreed
    <2>3. CASE o.ts.replica = r
      BY <1>3, <1>4, <2>1, <2>3 DEF Keeps
    <2>4. CASE o.ts.replica # r
      BY <1>4, <2>1, <2>2, <2>4
    <2>. QED
      BY <2>3, <2>4
  <1>7. Waiting(C, O)
    <2>. SUFFICES ASSUME NEW q \in Replica, NEW p \in C[q].deferred_ops PROVE p \in O /\ p.ts.replica # q
      BY DEF Waiting
    <2>1. CASE q # r
      BY <1>1, <1>4, <2>1 DEF Waiting
    <2>2. CASE q = r
      <3>1. p \in B[r].deferred_ops \/ \E i \in 1..Len(batch) : p = batch[i]
        BY <1>3, <1>4, <2>2
      <3>. QED
        BY <1>1, <2>2, <3>1 DEF Waiting
    <2>. QED
      BY <2>1, <2>2
  <1>8. \A q \in Replica : NoneReady(C[q])
    BY <1>1, <1>3, <1>4
  <1>. QED
    BY <1>5, <1>6, <1>7, <1>8 DEF Sound

LEMMA NewBufferFields ==
    /\ IsBuffer(NewBuffer)
    /\ NewBuffer.fragments = [i \in 1..BaseLen |-> Fragment(BaseStamp, i - 1)]
    /\ NewBuffer.version = [r \in Replica |-> IF r = 0 /\ BaseLen > 0 THEN 1 ELSE 0]
    /\ NewBuffer.clock = IF BaseLen > 0 THEN Advance(1, BaseStamp) ELSE 1
    /\ NewBuffer.undo_map = {}
    /\ NewBuffer.deferred_ops = {}
  BY DEF NewBuffer, IsBuffer

LEMMA NothingUndone ==
    ASSUME NEW e
    PROVE  ~is_undone({}, e)
  <1>1. {0} \cup {u.count : u \in {w \in {} : w.edit = e}} = {0}
    OBVIOUS
  <1>. PICK I : I = {0}
    OBVIOUS
  <1>2. I \in SUBSET Nat /\ I # {} /\ \A k \in I : k <= 0
    OBVIOUS
  <1>3. Max(I) \in I
    BY <1>2, GreatestOf
  <1>4. Max({0}) = 0
    BY <1>3
  <1>5. undo_count({}, e) = 0
    BY <1>1, <1>4 DEF undo_count
  <1>. QED
    BY <1>5 DEF is_undone

LEMMA NewFragments ==
    ASSUME NEW F, F = NewBuffer.fragments
    PROVE  /\ F \in Seq(Frag) /\ Len(F) = BaseLen /\ BaseLen \in Nat
           /\ \A i \in 1..Len(F) : /\ F[i].ts = BaseStamp /\ F[i].offset = i - 1
                                   /\ F[i].deletions = {} /\ F[i].visible = TRUE
  <1>1. BaseLen \in Nat
    BY BoundAssumption
  <1>2. F = [i \in 1..BaseLen |-> Fragment(BaseStamp, i - 1)]
    BY NewBufferFields
  <1>3. ASSUME NEW i \in 1..BaseLen
        PROVE  /\ F[i] \in Frag /\ F[i].ts = BaseStamp /\ F[i].offset = i - 1
               /\ F[i].deletions = {} /\ F[i].visible = TRUE
    <2>. PICK n \in Nat : n = i - 1
      BY <1>1
    <2>1. F[i] = Fragment(BaseStamp, n)
      BY <1>2
    <2>2. /\ Fragment(BaseStamp, n) \in Frag
          /\ Fragment(BaseStamp, n).ts = BaseStamp /\ Fragment(BaseStamp, n).offset = n
          /\ Fragment(BaseStamp, n).deletions = {} /\ Fragment(BaseStamp, n).visible = TRUE
      BY BaseIsTimestamp, FragmentFields
    <2>. QED
      BY <2>1, <2>2
  <1>4. F \in [1..BaseLen -> Frag]
    BY <1>2, <1>3
  <1>5. F \in Seq(Frag) /\ Len(F) = BaseLen
    BY <1>1, <1>4
  <1>. QED
    BY <1>1, <1>3, <1>5

\* Buffer::new.
LEMMA NewIsReplicated == Replicated(NewBuffer, {})
  <1>. PICK v, c, F, U : v = NewBuffer.version /\ c = NewBuffer.clock /\ F = NewBuffer.fragments /\ U = NewBuffer.undo_map
    OBVIOUS
  <1>1. /\ F \in Seq(Frag) /\ Len(F) = BaseLen /\ BaseLen \in Nat
        /\ \A i \in 1..Len(F) : /\ F[i].ts = BaseStamp /\ F[i].offset = i - 1
                                /\ F[i].deletions = {} /\ F[i].visible = TRUE
    BY NewFragments
  <1>2. /\ v = [r \in Replica |-> IF r = 0 /\ BaseLen > 0 THEN 1 ELSE 0]
        /\ c = IF BaseLen > 0 THEN Advance(1, BaseStamp) ELSE 1
        /\ U = {}
    BY NewBufferFields
  <1>3. Clocked(v, c, {})
    <2>1. v \in Version /\ \A s \in Replica : v[s] = IF s = 0 /\ BaseLen > 0 THEN 1 ELSE 0
      BY <1>2 DEF Version
    <2>2. c = IF BaseLen > 0 THEN 2 ELSE 1
      BY <1>2, BaseIsTimestamp DEF Advance
    <2>3. \A s \in Replica : v[s] < c
      BY <2>1, <2>2
    <2>4. \A s \in Replica : Reached(v[s], s, {})
      BY <2>1 DEF Reached
    <2>5. BaseLen > 0 => v[0] >= 1
      BY <2>1, ReplicaAssumption
    <2>. QED
      BY <2>1, <2>2, <2>3, <2>4, <2>5 DEF Clocked
  <1>4. Text(F, v, {})
    <2>1. Distinct(F)
      <3>. SUFFICES ASSUME NEW i \in 1..Len(F), NEW j \in 1..Len(F), F[i].offset = F[j].offset PROVE i = j
        BY DEF Distinct
      <3>1. F[i].offset = i - 1 /\ F[j].offset = j - 1
        BY <1>1
      <3>2. i \in Int /\ j \in Int
        BY <1>1
      <3>3. i - 1 = j - 1
        BY <3>1
      <3>. QED
        BY ONLY <3>2, <3>3
    <2>2. ASSUME NEW i \in 1..Len(F) PROVE IsChar(F[i].ts, F[i].offset, v, {})
      <3>1. F[i].ts = BaseStamp /\ F[i].offset = i - 1
        BY <1>1
      <3>2. F[i].offset \in 0..(BaseLen - 1)
        BY <1>1, <3>1
      <3>. QED
        BY <3>1, <3>2 DEF IsChar, IsBase
    <2>3. ASSUME NEW ts, NEW n, IsChar(ts, n, v, {})
          PROVE  \E i \in 1..Len(F) : F[i].ts = ts /\ F[i].offset = n
      <3>1. ts = BaseStamp /\ n \in 0..(BaseLen - 1)
        BY <2>3 DEF IsChar, IsBase
      <3>. PICK i : i = n + 1
        OBVIOUS
      <3>4. i \in 1..Len(F)
        BY <1>1, <3>1
      <3>2. F[i].ts = ts /\ F[i].offset = i - 1
        BY <1>1, <3>1, <3>4
      <3>3. F[i].offset = n
        BY <3>1, <3>2
      <3>. QED
        BY <3>2, <3>3, <3>4
    <2>. QED
      BY <1>1, <2>1, <2>2, <2>3 DEF Text
  <1>5. AllPlaced(F, v, {})
    BY DEF AllPlaced
  <1>6. Deleted(F, v, U, {})
    BY <1>1 DEF Deleted
  <1>7. Undos(U, v, {})
    BY <1>2 DEF Undos
  <1>8. Shows(F, U)
    <2>1. \A e : ~is_undone(U, e)
      BY <1>2, NothingUndone
    <2>. QED
      BY <1>1, <2>1 DEF Shows, is_visible
  <1>. QED
    BY <1>3, <1>4, <1>5, <1>6, <1>7, <1>8 DEF Replicated

LEMMA NewIsSound ==
    ASSUME NEW B, B = [r \in Replica |-> NewBuffer]
    PROVE  Sound(B, {})
  <1>1. \A r \in Replica : B[r] = NewBuffer
    OBVIOUS
  <1>2. Replicated(NewBuffer, {}) /\ IsBuffer(NewBuffer) /\ NewBuffer.deferred_ops = {}
    BY NewIsReplicated, NewBufferFields
  <1>. PICK F, v : F = NewBuffer.fragments /\ v = NewBuffer.version
    OBVIOUS
  <1>3. Text(F, v, {})
    BY <1>2 DEF Replicated
  <1>4. Distinct(F)
    BY <1>3, TextFields
  <1>5. Agree(F, F) /\ SameDeletions(F, v, F, v, {})
    BY <1>4, AgreeSelf, SameDeletionsSelf
  <1>6. Causal({})
    BY FS_EmptySet DEF Causal
  <1>7. Anchored(B, {}) /\ Marked(B, {})
    BY DEF Anchored, Marked
  <1>8. B = [r \in Replica |-> B[r]]
    OBVIOUS
  <1>9. \A r \in Replica : IsBuffer(B[r]) /\ Replicated(B[r], {})
    BY <1>1, <1>2
  <1>10. \A r, q \in Replica :
           /\ Agree(B[r].fragments, B[q].fragments)
           /\ SameDeletions(B[r].fragments, B[r].version, B[q].fragments, B[q].version, {})
    BY <1>1, <1>5
  <1>11. Agreed(B, {})
    BY <1>6, <1>7, <1>8, <1>9, <1>10 DEF Agreed
  <1>12. \A r \in Replica : B[r].deferred_ops = {}
    BY <1>1, <1>2
  <1>13. Own(B, {}) /\ Waiting(B, {}) /\ \A r \in Replica : NoneReady(B[r])
    BY <1>12 DEF Own, Waiting, NoneReady
  <1>. QED
    BY <1>11, <1>13 DEF Sound

-----------------------------------------------------------------------------
(* The theorems.                                                           *)

\* ... and of the state.
IInv == Sound(buf, ops)

LEMMA EditKeeps ==
    ASSUME IInv, NEW r \in Replica, Edit(r)
    PROVE  IInv'
  <1>. PICK B, O, b : B = buf /\ O = ops /\ b = B[r]
    OBVIOUS
  <1>1. Sound(B, O) /\ Agreed(B, O)
    BY DEF IInv, Sound
  <1>2. PICK lo, hi \in 0..VisibleTo(b.fragments, Len(b.fragments)), n \in 0..MaxInsert :
           /\ lo <= hi
           /\ Publish(r, apply_local_edit(b, EditOperation(r, b, lo, hi, n)), EditOperation(r, b, lo, hi, n))
    BY DEF Edit
  <1>. PICK op : op = EditOperation(r, b, lo, hi, n)
    OBVIOUS
  <1>3. /\ ops' = O \cup {op}
        /\ buf' = [B EXCEPT ![r] = Published(apply_local_edit(b, op), op.ts)]
    BY <1>2 DEF Publish, Published
  <1>4. \A o \in O : o.ts.replica = r => Observed(b.version, o.ts)
    BY <1>1 DEF Sound, Own
  <1>5. n \in Nat
    BY <1>2, BoundAssumption
  <1>6. Made(op, r, B, O) /\ apply_local_edit(b, op) = apply_remote_edit(b, op)
    BY <1>1, <1>2, <1>4, <1>5, EditIsMade
  <1>7. IsEdit(op)
    BY DEF EditOperation, IsEdit
  <1>8. Published(apply_local_edit(b, op), op.ts) = apply_op(b, op)
    BY <1>6, <1>7, EditPublishes
  <1>. PICK C : C = [B EXCEPT ![r] = apply_op(B[r], op)]
    OBVIOUS
  <1>9. Sound(C, O \cup {op})
    BY <1>1, <1>6, MadeIsSound
  <1>10. buf' = C
    BY <1>3, <1>8
  <1>. QED
    BY <1>3, <1>9, <1>10 DEF IInv

LEMMA UndoKeeps ==
    ASSUME IInv, NEW r \in Replica, UndoOrRedo(r)
    PROVE  IInv'
  <1>. PICK B, O, b : B = buf /\ O = ops /\ b = B[r]
    OBVIOUS
  <1>1. Sound(B, O) /\ Agreed(B, O)
    BY DEF IInv, Sound
  <1>2. PICK e \in {o \in O : o.kind = "edit" /\ Observed(b.version, o.ts)} :
           Publish(r, apply_undo(b, UndoOperation(r, b, e.ts)), UndoOperation(r, b, e.ts))
    BY DEF UndoOrRedo
  <1>. PICK op : op = UndoOperation(r, b, e.ts)
    OBVIOUS
  <1>3. /\ ops' = O \cup {op}
        /\ buf' = [B EXCEPT ![r] = Published(apply_undo(b, op), op.ts)]
    BY <1>2 DEF Publish, Published
  <1>4. \A o \in O : o.ts.replica = r => Observed(b.version, o.ts)
    BY <1>1 DEF Sound, Own
  <1>5. e \in O /\ IsEdit(e) /\ Observed(b.version, e.ts)
    BY <1>2 DEF IsEdit
  <1>6. Made(op, r, B, O) /\ ~IsEdit(op)
    BY <1>1, <1>4, <1>5, UndoIsMade
  <1>8. Published(apply_undo(b, op), op.ts) = apply_op(b, op)
    BY <1>6, UndoPublishes
  <1>. PICK C : C = [B EXCEPT ![r] = apply_op(B[r], op)]
    OBVIOUS
  <1>9. Sound(C, O \cup {op})
    BY <1>1, <1>6, MadeIsSound
  <1>10. buf' = C
    BY <1>3, <1>8
  <1>. QED
    BY <1>3, <1>9, <1>10 DEF IInv

LEMMA ReceiveKeeps ==
    ASSUME IInv, NEW r \in Replica, NEW batch \in Batches(r), Receive(r, batch)
    PROVE  IInv'
  <1>. PICK B, O, t : B = buf /\ O = ops /\ t = batch
    OBVIOUS
  <1>1. Sound(B, O)
    BY DEF IInv
  <1>2. PICK n \in 1..MaxBatch : t \in [1..n -> {o \in O : o.ts.replica # r}]
    BY DEF Batches
  <1>3. n \in Nat
    BY <1>2, BoundAssumption
  <1>4. Len(t) \in Nat /\ \A i \in 1..Len(t) : t[i] \in O /\ t[i].ts.replica # r
    BY <1>2, <1>3
  <1>. PICK C : C = [B EXCEPT ![r] = apply_ops(B[r], t)]
    OBVIOUS
  <1>5. Sound(C, O)
    BY <1>1, <1>4, ReceiveIsSound
  <1>6. ops' = O /\ buf' = C
    BY DEF Receive
  <1>. QED
    BY <1>5, <1>6 DEF IInv

\* The invariant holds in every state.
LEMMA Invariance == Spec => []IInv
  <1>1. Init => IInv
    <2>. SUFFICES ASSUME Init PROVE Sound(buf, ops)
      BY DEF IInv
    <2>. PICK B : B = [r \in Replica |-> NewBuffer]
      OBVIOUS
    <2>1. Sound(B, {})
      BY NewIsSound
    <2>. QED
      BY <2>1 DEF Init
  <1>2. IInv /\ [Next]_vars => IInv'
    <2>. SUFFICES ASSUME IInv, [Next]_vars PROVE IInv'
      OBVIOUS
    <2>1. ASSUME NEW r \in Replica, Edit(r) PROVE IInv'
      BY <2>1, EditKeeps
    <2>2. ASSUME NEW r \in Replica, UndoOrRedo(r) PROVE IInv'
      BY <2>2, UndoKeeps
    <2>3. ASSUME NEW r \in Replica, NEW batch \in Batches(r), Receive(r, batch) PROVE IInv'
      BY <2>3, ReceiveKeeps
    <2>4. CASE UNCHANGED vars
      BY <2>4 DEF IInv, vars
    <2>. QED
      BY <2>1, <2>2, <2>3, <2>4 DEF Next
  <1>. QED
    BY <1>1, <1>2, PTL DEF Spec

LEMMA SoundFields ==
    ASSUME NEW B, NEW O, Sound(B, O), NEW r \in Replica, NEW F, NEW v, NEW c, NEW U,
           F = B[r].fragments, v = B[r].version, c = B[r].clock, U = B[r].undo_map
    PROVE  /\ Causal(O) /\ Clocked(v, c, O) /\ v \in Version /\ Text(F, v, O)
           /\ Deleted(F, v, U, O) /\ Undos(U, v, O) /\ Shows(F, U)
           /\ F \in Seq(Frag) /\ Distinct(F) /\ Len(F) \in Nat /\ DOMAIN F = 1..Len(F)
           /\ ObservedAll(v, v)
  <1>1. /\ Causal(O) /\ Clocked(v, c, O) /\ Text(F, v, O)
        /\ Deleted(F, v, U, O) /\ Undos(U, v, O) /\ Shows(F, U)
    BY DEF Sound, Agreed, Replicated
  <1>2. v \in Version
    BY <1>1 DEF Clocked
  <1>3. F \in Seq(Frag) /\ Distinct(F) /\ Len(F) \in Nat /\ DOMAIN F = 1..Len(F)
    BY <1>1, TextFields
  <1>4. ObservedAll(v, v)
    BY <1>2 DEF ObservedAll, Version
  <1>. QED
    BY <1>1, <1>2, <1>3, <1>4

LEMMA EveryCharacterOnce ==
    ASSUME NEW B, NEW O, Sound(B, O), NEW r \in Replica
    PROVE  Cardinality(Keys(B[r])) = Len(B[r].fragments)
  <1>. PICK F, v, c, U : F = B[r].fragments /\ v = B[r].version /\ c = B[r].clock /\ U = B[r].undo_map
    OBVIOUS
  <1>1. /\ Clocked(v, c, O) /\ Text(F, v, O) /\ F \in Seq(Frag) /\ Distinct(F)
        /\ Len(F) \in Nat /\ DOMAIN F = 1..Len(F)
    BY SoundFields
  <1>2. \A i \in 0..Len(F) : FullOffset(F, v, i) = i
    BY <1>1, OwnOffset
  <1>3. FullOffset(F, v, Len(F)) = Cardinality(Seen(F, v, Len(F)))
    BY <1>1, SeenCount
  <1>4. \A i \in 1..Len(F) : Observed(v, F[i].ts)
    <2>. SUFFICES ASSUME NEW i \in 1..Len(F) PROVE Observed(v, F[i].ts)
      OBVIOUS
    <2>1. IsChar(F[i].ts, F[i].offset, v, O)
      BY <1>1, TextFields
    <2>. QED
      BY <1>1, <2>1, CharIsObserved
  <1>5. Keys(B[r]) = Seen(F, v, Len(F))
    BY <1>1, <1>4 DEF Keys, Key, Seen
  <1>. QED
    BY <1>1, <1>2, <1>3, <1>5

LEMMA SoundIsTyped ==
    ASSUME NEW B, NEW O, Sound(B, O), NEW r \in Replica
    PROVE  /\ B[r].version \in [Replica -> Nat]
           /\ B[r].undo_map \subseteq {[edit |-> o.edit, undo |-> o.ts, count |-> o.count] :
                                         o \in {p \in O : p.kind = "undo"}}
           /\ B[r].deferred_ops \subseteq {o \in O : o.ts.replica # r /\ ~Observed(B[r].version, o.ts)}
  <1>. PICK F, v, c, U : F = B[r].fragments /\ v = B[r].version /\ c = B[r].clock /\ U = B[r].undo_map
    OBVIOUS
  <1>1. Causal(O) /\ Clocked(v, c, O) /\ v \in Version /\ Undos(U, v, O)
    BY SoundFields
  <1>2. ASSUME NEW u \in U
        PROVE  u \in {[edit |-> o.edit, undo |-> o.ts, count |-> o.count] : o \in {p \in O : p.kind = "undo"}}
    <2>1. PICK p \in O : ~IsEdit(p) /\ Observed(v, p.ts) /\ u = Entry(p)
      BY <1>1, EntryFields
    <2>2. p.kind = "undo"
      BY <1>1, <2>1 DEF Causal, IsOperation, IsEdit
    <2>. QED
      BY <2>1, <2>2 DEF Entry
  <1>3. ASSUME NEW p \in B[r].deferred_ops
        PROVE  p \in O /\ p.ts.replica # r /\ ~Observed(v, p.ts)
    <2>1. p \in O /\ p.ts.replica # r
      BY DEF Sound, Waiting
    <2>2. ~ObservedAll(v, p.version)
      BY DEF Sound, NoneReady
    <2>. QED
      BY <1>1, <2>1, <2>2 DEF Clocked
  <1>. QED
    BY <1>1, <1>2, <1>3 DEF Version

LEMMA SoundIsApplied ==
    ASSUME NEW B, NEW O, Sound(B, O), NEW r \in Replica, NEW op \in O, Observed(B[r].version, op.ts)
    PROVE  /\ ObservedAll(B[r].version, op.version)
           /\ op.kind = "edit" => {<<op.ts, j - 1>> : j \in 1..op.len} \subseteq Keys(B[r])
           /\ op.kind = "edit" /\ op.from < op.to =>
                 \E i \in DOMAIN B[r].fragments : op.ts \in B[r].fragments[i].deletions
           /\ op.kind = "undo" => \E u \in B[r].undo_map : u.undo = op.ts
  <1>. PICK F, v, c, U : F = B[r].fragments /\ v = B[r].version /\ c = B[r].clock /\ U = B[r].undo_map
    OBVIOUS
  <1>1. /\ Causal(O) /\ Clocked(v, c, O) /\ v \in Version /\ Text(F, v, O)
        /\ Deleted(F, v, U, O) /\ Undos(U, v, O) /\ DOMAIN F = 1..Len(F)
    BY SoundFields
  <1>2. ObservedAll(v, op.version)
    BY <1>1 DEF Clocked
  <1>3. ASSUME IsEdit(op), NEW j \in 1..op.len PROVE <<op.ts, j - 1>> \in Keys(B[r])
    <2>. PICK n : n = j - 1
      OBVIOUS
    <2>0. op.len \in Nat
      BY <1>1, <1>3, OpFields
    <2>1. n \in 0..(op.len - 1)
      BY <2>0
    <2>2. IsChar(op.ts, n, v, O)
      BY <1>3, <2>1 DEF IsChar
    <2>3. \A ts, m : IsChar(ts, m, v, O) => \E i \in 1..Len(F) : F[i].ts = ts /\ F[i].offset = m
      BY <1>1 DEF Text
    <2>4. PICK i \in 1..Len(F) : F[i].ts = op.ts /\ F[i].offset = n
      BY <2>2, <2>3
    <2>. QED
      BY <1>1, <2>4 DEF Keys, Key
  <1>4. ASSUME IsEdit(op), op.from < op.to PROVE \E i \in 1..Len(F) : op.ts \in F[i].deletions
    <2>1. PICK q \in Replica : Marks(B[q], op)
      BY <1>4 DEF Sound, Agreed, Marked
    <2>. PICK H, w, d, V : H = B[q].fragments /\ w = B[q].version /\ d = B[q].clock /\ V = B[q].undo_map
      OBVIOUS
    <2>2. w \in Version /\ Text(H, w, O) /\ Deleted(H, w, V, O) /\ Undos(V, w, O)
      BY SoundFields
    <2>3. PICK l \in 1..Len(H) : Doomed(H, op, V, l)
      BY <2>1 DEF Marks
    <2>4. ObservedAll(w, op.version)
      BY <2>1 DEF Marks
    <2>5. Observed(op.version, H[l].ts)
      BY <2>3 DEF Doomed, was_visible
    <2>6. H[l].ts \in Timestamp /\ op.version \in Version
      BY <1>1, <2>2, TextFields, OpFields
    <2>7. Observed(v, H[l].ts)
      BY <1>1, <1>2, <2>5, <2>6, ObservedThrough
    <2>8. PICK k \in 1..Len(F) : Same(H, l, F, k)
      BY <1>1, <2>2, <2>7, InOther
    <2>9. Agree(H, F) /\ SameDeletions(H, w, F, v, O)
      BY DEF Sound, Agreed
    <2>10. Doomed(F, op, U, k)
      BY <1>1, <1>2, <2>2, <2>3, <2>4, <2>8, <2>9, SharedDoom
    <2>11. op.ts \in F[k].deletions
      BY <1>1, <1>4, <2>10 DEF Deleted
    <2>. QED
      BY <2>11
  <1>5. op.kind = "undo" => \E u \in U : u.undo = op.ts
    <2>1. op.kind = "undo" => ~IsEdit(op)
      BY DEF IsEdit
    <2>. QED
      BY <1>1, <2>1, EntryFields
  <1>. QED
    BY <1>1, <1>2, <1>3, <1>4, <1>5 DEF IsEdit

\* What converges: text, deletions and visibility.
LEMMA SoundConverges ==
    ASSUME NEW B, NEW O, Sound(B, O), NEW r \in Replica, NEW q \in Replica, B[r].version = B[q].version
    PROVE  B[r].fragments = B[q].fragments
  <1>. PICK F, v, c, U : F = B[r].fragments /\ v = B[r].version /\ c = B[r].clock /\ U = B[r].undo_map
    OBVIOUS
  <1>. PICK H, d, V : H = B[q].fragments /\ d = B[q].clock /\ V = B[q].undo_map
    OBVIOUS
  <1>1. /\ Clocked(v, c, O) /\ v \in Version /\ Text(F, v, O) /\ Deleted(F, v, U, O) /\ Undos(U, v, O) /\ Shows(F, U)
        /\ F \in Seq(Frag) /\ Len(F) \in Nat /\ DOMAIN F = 1..Len(F) /\ ObservedAll(v, v)
    BY SoundFields
  <1>2. /\ Clocked(v, d, O) /\ Text(H, v, O) /\ Deleted(H, v, V, O) /\ Undos(V, v, O) /\ Shows(H, V)
        /\ H \in Seq(Frag) /\ Len(H) \in Nat /\ DOMAIN H = 1..Len(H)
    BY SoundFields
  <1>3. Agree(F, H) /\ SameDeletions(F, v, H, v, O)
    BY DEF Sound, Agreed
  <1>4. U = V
    BY <1>1, <1>2 DEF Undos
  <1>5. (\A i \in 0..Len(F) : FullOffset(F, v, i) = i) /\ (\A i \in 0..Len(H) : FullOffset(H, v, i) = i)
    BY <1>1, <1>2, OwnOffset
  <1>6. Len(F) = Len(H)
    <2>1. FullOffset(F, v, Len(F)) = FullOffset(H, v, Len(H))
      BY <1>1, <1>2, SharedTotal
    <2>. QED
      BY <1>1, <1>2, <1>5, <2>1
  <1>7. ASSUME NEW i \in 1..Len(F) PROVE F[i] = H[i]
    <2>1. IsChar(F[i].ts, F[i].offset, v, O)
      BY <1>1, TextFields
    <2>2. Observed(v, F[i].ts)
      BY <1>1, <2>1, CharIsObserved
    <2>3. PICK k \in 1..Len(H) : Same(F, i, H, k)
      BY <1>1, <1>2, <2>2, InOther
    <2>4. FullOffset(F, v, i) = FullOffset(H, v, k)
      <3>1. /\ FullOffset(F, v, i) = FullOffset(H, v, k)
            /\ FullOffset(F, v, i - 1) = FullOffset(H, v, k - 1)
        BY ONLY <1>1, <1>2, <1>3, <2>3, i \in 1..Len(F), SharedOffset
      <3>. QED
        BY <3>1
    <2>5. k = i
      BY <1>1, <1>2, <1>5, <2>4
    <2>6. Same(F, i, H, i) /\ i \in 1..Len(H)
      BY <1>6, <2>3, <2>5
    <2>7. F[i].ts = H[i].ts /\ F[i].offset = H[i].offset
      BY <2>6 DEF Same
    <2>8. \A o \in O : Observed(v, o.ts) => (o.ts \in F[i].deletions <=> o.ts \in H[i].deletions)
      BY <1>3, <2>6 DEF SameDeletions
    <2>9. \A e \in F[i].deletions : \E o \in O : Observed(v, o.ts) /\ o.ts = e
      BY <1>1, DeletionsAreEdits
    <2>10. \A e \in H[i].deletions : \E o \in O : Observed(v, o.ts) /\ o.ts = e
      BY <1>2, <2>6, DeletionsAreEdits
    <2>11. F[i].deletions = H[i].deletions
      <3>1. F[i].deletions \subseteq H[i].deletions
        BY ONLY <2>8, <2>9
      <3>2. H[i].deletions \subseteq F[i].deletions
        BY ONLY <2>8, <2>10
      <3>. QED
        BY ONLY <3>1, <3>2
    <2>12. (F[i].visible <=> is_visible(F[i], U)) /\ (H[i].visible <=> is_visible(H[i], V))
      BY <1>1, <1>2, <2>6 DEF Shows
    <2>13. F[i].visible <=> H[i].visible
      BY <1>4, <2>7, <2>11, <2>12 DEF is_visible
    <2>14. F[i] \in Frag /\ H[i] \in Frag
      BY <1>1, <1>2, <2>6
    <2>15. F[i].visible = H[i].visible
      BY <2>13, <2>14 DEF Frag
    <2>16. \A f \in Frag : f = [ts |-> f.ts, offset |-> f.offset, deletions |-> f.deletions, visible |-> f.visible]
      BY ONLY DEF Frag
    <2>17. F[i] = [ts |-> F[i].ts, offset |-> F[i].offset, deletions |-> F[i].deletions, visible |-> F[i].visible]
      BY ONLY <2>14, <2>16
    <2>18. H[i] = [ts |-> H[i].ts, offset |-> H[i].offset, deletions |-> H[i].deletions, visible |-> H[i].visible]
      BY ONLY <2>14, <2>16
    <2>. QED
      BY ONLY <2>7, <2>11, <2>15, <2>17, <2>18
  <1>8. F = H
    BY <1>1, <1>2, <1>6, <1>7
  <1>. QED
    BY <1>8

\* The buffers hold what their types say (Fragments, UndoMap, OperationQueue
\* of crates/text): every character once, undo counts of undos that were
\* made, and a queue of operations of others that have not been applied.
THEOREM BufferTypes == Spec => []TypeOK
  <1>1. IInv => TypeOK
    <2>. SUFFICES ASSUME IInv, NEW r \in Replica
                  PROVE  /\ Cardinality(Keys(buf[r])) = Len(buf[r].fragments)
                         /\ buf[r].version \in [Replica -> Nat]
                         /\ buf[r].undo_map \subseteq {[edit |-> o.edit, undo |-> o.ts, count |-> o.count] :
                                                         o \in {p \in ops : p.kind = "undo"}}
                         /\ buf[r].deferred_ops \subseteq {o \in ops : o.ts.replica # r /\ ~Observed(buf[r].version, o.ts)}
      BY DEF TypeOK
    <2>. PICK B, O : B = buf /\ O = ops
      OBVIOUS
    <2>1. Sound(B, O)
      BY DEF IInv
    <2>2. Cardinality(Keys(B[r])) = Len(B[r].fragments)
      BY <2>1, EveryCharacterOnce
    <2>3. /\ B[r].version \in [Replica -> Nat]
          /\ B[r].undo_map \subseteq {[edit |-> o.edit, undo |-> o.ts, count |-> o.count] : o \in {p \in O : p.kind = "undo"}}
          /\ B[r].deferred_ops \subseteq {o \in O : o.ts.replica # r /\ ~Observed(B[r].version, o.ts)}
      BY <2>1, SoundIsTyped
    <2>. QED
      BY <2>2, <2>3
  <1>. QED
    BY <1>1, Invariance, PTL

\* The visible flags that apply_remote_edit and apply_undo keep up to date
\* fragment by fragment are what is_visible computes from scratch.
THEOREM VisibilityIsDerived == Spec => []VisibleIsDerived
  <1>1. IInv => VisibleIsDerived
    <2>. SUFFICES ASSUME IInv, NEW r \in Replica, NEW i \in DOMAIN buf[r].fragments
                  PROVE  buf[r].fragments[i].visible <=> is_visible(buf[r].fragments[i], buf[r].undo_map)
      BY DEF VisibleIsDerived
    <2>. PICK B, O : B = buf /\ O = ops
      OBVIOUS
    <2>. PICK F, v, c, U : F = B[r].fragments /\ v = B[r].version /\ c = B[r].clock /\ U = B[r].undo_map
      OBVIOUS
    <2>1. Sound(B, O)
      BY DEF IInv
    <2>2. Shows(F, U) /\ DOMAIN F = 1..Len(F)
      BY <2>1, SoundFields
    <2>3. F[i].visible <=> is_visible(F[i], U)
      BY <2>2 DEF Shows
    <2>. QED
      BY <2>3
  <1>. QED
    BY <1>1, Invariance, PTL

\* What a version vector claims (clock::Global::observed) has been applied:
\* the text, the deletions and the undo count of every operation it covers,
\* and all that the author of that operation had observed.
THEOREM VersionsTellTheTruth == Spec => []ObservedIsApplied
  <1>1. IInv => ObservedIsApplied
    <2>. SUFFICES ASSUME IInv, NEW r \in Replica, NEW op \in ops, Observed(buf[r].version, op.ts)
                  PROVE  /\ ObservedAll(buf[r].version, op.version)
                         /\ op.kind = "edit" => {<<op.ts, j - 1>> : j \in 1..op.len} \subseteq Keys(buf[r])
                         /\ op.kind = "edit" /\ op.from < op.to =>
                               \E i \in DOMAIN buf[r].fragments : op.ts \in buf[r].fragments[i].deletions
                         /\ op.kind = "undo" => \E u \in buf[r].undo_map : u.undo = op.ts
      BY DEF ObservedIsApplied
    <2>. PICK B, O : B = buf /\ O = ops
      OBVIOUS
    <2>1. Sound(B, O)
      BY DEF IInv
    <2>. QED
      BY <2>1, SoundIsApplied
  <1>. QED
    BY <1>1, Invariance, PTL

\* apply_remote_edit puts concurrent insertions in the same order everywhere:
\* two replicas never disagree on the order of two characters they both hold.
THEOREM OrderIsShared == Spec => []OrderAgrees
  <1>1. IInv => OrderAgrees
    <2>. SUFFICES ASSUME IInv, NEW r \in Replica, NEW q \in Replica PROVE SameOrder(buf[r].fragments, buf[q].fragments)
      BY DEF OrderAgrees
    <2>. PICK B, O : B = buf /\ O = ops
      OBVIOUS
    <2>. PICK F, v, c, U : F = B[r].fragments /\ v = B[r].version /\ c = B[r].clock /\ U = B[r].undo_map
      OBVIOUS
    <2>. PICK H, w, d, V : H = B[q].fragments /\ w = B[q].version /\ d = B[q].clock /\ V = B[q].undo_map
      OBVIOUS
    <2>1. Sound(B, O)
      BY DEF IInv
    <2>2. DOMAIN F = 1..Len(F) /\ DOMAIN H = 1..Len(H)
      BY <2>1, SoundFields
    <2>3. Agree(F, H)
      BY <2>1 DEF Sound, Agreed
    <2>4. SameOrder(F, H)
      <3>. SUFFICES ASSUME NEW i \in 1..Len(F), NEW j \in 1..Len(F), NEW k \in 1..Len(H), NEW l \in 1..Len(H),
                           Key(F[i]) = Key(H[k]), Key(F[j]) = Key(H[l])
                    PROVE  i < j <=> k < l
        BY <2>2 DEF SameOrder
      <3>1. Same(F, i, H, k) /\ Same(F, j, H, l)
        BY DEF Same, Key
      <3>. QED
        BY <2>3, <3>1 DEF Agree
    <2>. QED
      BY <2>4
  <1>. QED
    BY <1>1, Invariance, PTL

\* Strong eventual consistency of apply_ops: two replicas that have observed
\* the same operations, in whatever order, batches and repetitions, hold the
\* same fragments.
THEOREM Convergence == Spec => []Converged
  <1>1. IInv => Converged
    <2>. SUFFICES ASSUME IInv, NEW r \in Replica, NEW q \in Replica, buf[r].version = buf[q].version
                  PROVE  buf[r].fragments = buf[q].fragments
      BY DEF Converged
    <2>. PICK B, O : B = buf /\ O = ops
      OBVIOUS
    <2>1. Sound(B, O)
      BY DEF IInv
    <2>2. B[r].fragments = B[q].fragments
      BY <2>1, SoundConverges
    <2>. QED
      BY <2>2
  <1>. QED
    BY <1>1, Invariance, PTL

\* One pass of flush_deferred_ops in the order of OperationQueue is enough:
\* nothing is left in deferred_ops that could be applied.
THEOREM OnePassIsEnough == Spec => []DeferredNotReady
  <1>1. IInv => DeferredNotReady
    BY DEF IInv, Sound, NoneReady, DeferredNotReady
  <1>. QED
    BY <1>1, Invariance, PTL
=============================================================================
