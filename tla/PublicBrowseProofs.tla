-------------------------- MODULE PublicBrowseProofs --------------------------
(***************************************************************************)
(* Proofs about PublicBrowse, for any rows, slugs and visitors, any        *)
(* hierarchy and any number of edits.                                      *)
(*                                                                         *)
(* Rest(t, req, F, k) is the page the queries from the k-th on make of     *)
(* tables t, if the query before them found F.  With k = 1 it is the page  *)
(* that should be listed (WholePage), and running one query on the tables  *)
(* as they are does not change it (NextRest).  So all an edit can do to a  *)
(* request under way is to change its Rest, and two arguments bound that:  *)
(*                                                                         *)
(*   - Follows: as long as the levels already read are untouched, Rest     *)
(*     goes on being what should be listed, whatever becomes of the        *)
(*     others; and an edit below the levels still to be read changes       *)
(*     nothing (SameRest);                                                 *)
(*   - Hides, Shows: Rest grows with the tables (GrownUnder), so a request *)
(*     that only saw rows go lists no more than at its start, and one that *)
(*     only saw rows come no less.                                         *)
(***************************************************************************)
EXTENDS PublicBrowse, SequenceTheorems, TLAPS

-----------------------------------------------------------------------------
(* The largest and the smallest member of a set are the ones Max and Min   *)
(* choose.                                                                 *)
LEMMA Largest ==
  ASSUME NEW S \in SUBSET Int, NEW b \in S, \A y \in S : b >= y
  PROVE  Max(S) = b
<1>1. PICK m : m = Max(S)
  OBVIOUS
<1>2. m \in S /\ \A y \in S : m >= y
  BY <1>1 DEF Max
<1> QED BY <1>1, <1>2

LEMMA Smallest ==
  ASSUME NEW S \in SUBSET Int, NEW a \in S, \A y \in S : a <= y
  PROVE  Min(S) = a
<1>1. PICK m : m = Min(S)
  OBVIOUS
<1>2. m \in S /\ \A y \in S : m <= y
  BY <1>1 DEF Min
<1> QED BY <1>1, <1>2

(* One query more.                                                         *)
LEMMA OneMore ==
  ASSUME NEW qs \in Seq(SUBSET Int), NEW levels \in SUBSET Int, NEW n \in Nat,
         Len(qs) = n
  PROVE  /\ qs \o <<levels>> \in Seq(SUBSET Int)
         /\ Len(qs \o <<levels>>) = n + 1
         /\ \A i \in 1..n : (qs \o <<levels>>)[i] = qs[i]
         /\ (qs \o <<levels>>)[n + 1] = levels
<1>1. PICK u : u = <<levels>>
  OBVIOUS
<1>2. u \in Seq(SUBSET Int) /\ Len(u) = 1 /\ u[1] = levels
  BY <1>1
<1>3. /\ qs \o u \in Seq(SUBSET Int)
      /\ Len(qs \o u) = n + 1
      /\ \A i \in 1..(n + 1) :
           (qs \o u)[i] = IF i <= n THEN qs[i] ELSE u[i - n]
  <2>1. /\ qs \o u \in Seq(SUBSET Int)
        /\ Len(qs \o u) = Len(qs) + Len(u)
        /\ \A i \in 1..(Len(qs) + Len(u)) :
             (qs \o u)[i] = IF i <= Len(qs) THEN qs[i] ELSE u[i - Len(qs)]
    BY <1>2, ConcatProperties
  <2> QED BY <1>2, <2>1
<1> QED BY <1>1, <1>2, <1>3

(* The lists of queries that build on one another.                         *)
LEMMA Lists ==
  /\ /\ PublishedSubjects \in Seq(SUBSET Int)
     /\ Len(PublishedSubjects) = 2 /\ PublishedSubjects[1] = 1..2
     /\ PublishedSubjects[2] = 3..3
  /\ /\ PublishedUnits \in Seq(SUBSET Int)
     /\ Len(PublishedUnits) = 3 /\ PublishedUnits[1] = 1..2
     /\ PublishedUnits[2] = 3..3 /\ PublishedUnits[3] = 4..4
  /\ /\ PublishedChapters \in Seq(SUBSET Int)
     /\ Len(PublishedChapters) = 4 /\ PublishedChapters[1] = 1..2
     /\ PublishedChapters[2] = 3..3 /\ PublishedChapters[3] = 4..4
     /\ PublishedChapters[4] = 5..5
  /\ /\ PublishedNotes \in Seq(SUBSET Int)
     /\ Len(PublishedNotes) = 5 /\ PublishedNotes[1] = 1..2
     /\ PublishedNotes[2] = 3..3 /\ PublishedNotes[3] = 4..4
     /\ PublishedNotes[4] = 5..5 /\ PublishedNotes[5] = 6..6
<1>1. /\ <<1..2>> \in Seq(SUBSET Int) /\ Len(<<1..2>>) = 1 /\ <<1..2>>[1] = 1..2
  OBVIOUS
<1>2. /\ PublishedSubjects \in Seq(SUBSET Int) /\ Len(PublishedSubjects) = 2
      /\ PublishedSubjects[1] = 1..2 /\ PublishedSubjects[2] = 3..3
  <2>1. 3..3 \in SUBSET Int
    OBVIOUS
  <2>2. PublishedSubjects = <<1..2>> \o <<3..3>>
    BY DEF PublishedSubjects, findPublishedClassSemester
  <2> QED BY <1>1, <2>1, <2>2, OneMore
<1>3. /\ PublishedUnits \in Seq(SUBSET Int) /\ Len(PublishedUnits) = 3
      /\ PublishedUnits[1] = 1..2
      /\ PublishedUnits[2] = 3..3
      /\ PublishedUnits[3] = 4..4
  <2>1. PublishedUnits = PublishedSubjects \o <<4..4>>
    BY DEF PublishedUnits
  <2>2. /\ PublishedUnits \in Seq(SUBSET Int) /\ Len(PublishedUnits) = 3
        /\ \A i \in 1..2 : PublishedUnits[i] = PublishedSubjects[i]
        /\ PublishedUnits[3] = 4..4
    <3>1. 4..4 \in SUBSET Int
      OBVIOUS
    <3> QED BY <1>2, <2>1, <3>1, OneMore
  <2> QED BY <1>2, <2>2
<1>4. /\ PublishedChapters \in Seq(SUBSET Int) /\ Len(PublishedChapters) = 4
      /\ PublishedChapters[1] = 1..2
      /\ PublishedChapters[2] = 3..3
      /\ PublishedChapters[3] = 4..4
      /\ PublishedChapters[4] = 5..5
  <2>1. PublishedChapters = PublishedUnits \o <<5..5>>
    BY DEF PublishedChapters
  <2>2. /\ PublishedChapters \in Seq(SUBSET Int) /\ Len(PublishedChapters) = 4
        /\ \A i \in 1..3 : PublishedChapters[i] = PublishedUnits[i]
        /\ PublishedChapters[4] = 5..5
    <3>1. 5..5 \in SUBSET Int
      OBVIOUS
    <3> QED BY <1>3, <2>1, <3>1, OneMore
  <2> QED BY <1>3, <2>2
<1>5. /\ PublishedNotes \in Seq(SUBSET Int) /\ Len(PublishedNotes) = 5
      /\ PublishedNotes[1] = 1..2
      /\ PublishedNotes[2] = 3..3
      /\ PublishedNotes[3] = 4..4
      /\ PublishedNotes[4] = 5..5
      /\ PublishedNotes[5] = 6..6
  <2>1. PublishedNotes = PublishedChapters \o <<6..6>>
    BY DEF PublishedNotes
  <2>2. /\ PublishedNotes \in Seq(SUBSET Int) /\ Len(PublishedNotes) = 5
        /\ \A i \in 1..4 : PublishedNotes[i] = PublishedChapters[i]
        /\ PublishedNotes[5] = 6..6
    <3>1. 6..6 \in SUBSET Int
      OBVIOUS
    <3> QED BY <1>4, <2>1, <3>1, OneMore
  <2> QED BY <1>4, <2>2
<1> QED BY <1>2, <1>3, <1>4, <1>5

-----------------------------------------------------------------------------
(* Up is defined by a function whose equation has exactly one solution,    *)
(* computed here level by level.                                           *)
Ascent(t, x) ==
  CHOOSE f : f = [n \in 0..5 |-> IF n = 0 THEN x ELSE t[f[n - 1]].parent]

LEMMA AscentIs ==
  ASSUME NEW t, NEW x
  PROVE  \A n \in 0..5 :
           Ascent(t, x)[n] = IF n = 0 THEN x ELSE t[Ascent(t, x)[n - 1]].parent
<1>1. PICK p1, p2, p3, p4, p5 :
         /\ p1 = t[x].parent /\ p2 = t[p1].parent /\ p3 = t[p2].parent
         /\ p4 = t[p3].parent /\ p5 = t[p4].parent
  OBVIOUS
<1>2. PICK g : g = [m \in 0..5 |-> IF m = 0 THEN x ELSE IF m = 1 THEN p1
                     ELSE IF m = 2 THEN p2 ELSE IF m = 3 THEN p3
                     ELSE IF m = 4 THEN p4 ELSE p5]
  OBVIOUS
<1>3. g = [m \in 0..5 |-> IF m = 0 THEN x ELSE t[g[m - 1]].parent]
  <2>1. /\ g[0] = x /\ g[1] = p1 /\ g[2] = p2 /\ g[3] = p3 /\ g[4] = p4 /\ g[5] = p5
    BY <1>2
  <2>2. ASSUME NEW m \in 0..5
        PROVE  g[m] = IF m = 0 THEN x ELSE t[g[m - 1]].parent
    <3>1. CASE m = 0
      BY <2>1, <3>1
    <3>2. CASE m = 1
      <4>1. m - 1 = 0 /\ m # 0
        BY <3>2
      <4>2. g[m] = p1 /\ g[m - 1] = x
        BY ONLY <2>1, <3>2, <4>1
      <4> QED BY <1>1, <4>1, <4>2, Zenon
    <3>3. CASE m = 2
      <4>1. m - 1 = 1 /\ m # 0
        BY <3>3
      <4>2. g[m] = p2 /\ g[m - 1] = p1
        BY ONLY <2>1, <3>3, <4>1
      <4> QED BY <1>1, <4>1, <4>2, Zenon
    <3>4. CASE m = 3
      <4>1. m - 1 = 2 /\ m # 0
        BY <3>4
      <4>2. g[m] = p3 /\ g[m - 1] = p2
        BY ONLY <2>1, <3>4, <4>1
      <4> QED BY <1>1, <4>1, <4>2, Zenon
    <3>5. CASE m = 4
      <4>1. m - 1 = 3 /\ m # 0
        BY <3>5
      <4>2. g[m] = p4 /\ g[m - 1] = p3
        BY ONLY <2>1, <3>5, <4>1
      <4> QED BY <1>1, <4>1, <4>2, Zenon
    <3>6. CASE m = 5
      <4>1. m - 1 = 4 /\ m # 0
        BY <3>6
      <4>2. g[m] = p5 /\ g[m - 1] = p4
        BY ONLY <2>1, <3>6, <4>1
      <4> QED BY <1>1, <4>1, <4>2, Zenon
    <3> QED BY <3>1, <3>2, <3>3, <3>4, <3>5, <3>6
  <2>3. g = [m \in 0..5 |-> g[m]]
    BY <1>2
  <2> QED BY <2>2, <2>3
<1>4. Ascent(t, x) = [n \in 0..5 |-> IF n = 0 THEN x ELSE t[Ascent(t, x)[n - 1]].parent]
  BY <1>3 DEF Ascent
<1> QED BY <1>4

(* One step up.                                                            *)
LEMMA UpSteps ==
  ASSUME NEW t, NEW x, NEW l \in 1..6, Level[x] \in 1..6
  PROVE  /\ Up(t, x, Level[x]) = x
         /\ l < Level[x] => Up(t, x, l) = t[Up(t, x, l + 1)].parent
<1>1. PICK up : up = Ascent(t, x)
  OBVIOUS
<1>2. \A n \in 0..5 : up[n] = IF n = 0 THEN x ELSE t[up[n - 1]].parent
  BY <1>1, AscentIs
<1>3. \A k : Up(t, x, k) = up[Level[x] - k]
  BY <1>1 DEF Up, Ascent
<1>4. up[0] = x
  BY <1>2
<1>5. ASSUME l < Level[x] PROVE up[Level[x] - l] = t[up[Level[x] - (l + 1)]].parent
  <2>1. PICK n \in 0..5 : n = Level[x] - l /\ n # 0 /\ n - 1 = Level[x] - (l + 1)
    BY <1>5
  <2> QED BY <1>2, <2>1
<1> QED BY <1>3, <1>4, <1>5

-----------------------------------------------------------------------------
(* The queries of a page, in numbers.                                      *)
Count(p) == Len(Queries(p))
Lo(p, k) == Min(Queries(p)[k])
Hi(p, k) == Max(Queries(p)[k])
Deep(p) == Max(Last(Queries(p)))

(* The queries of a page read the levels from 1 to the one it lists, each  *)
(* level once and from the top down; the last one reads only the list.     *)
LEMMA Shape ==
  ASSUME NEW p \in Page
  PROVE  /\ Queries(p) \in Seq(SUBSET Int)
         /\ Count(p) \in 2..5 /\ Deep(p) \in 2..6
         /\ \A k \in 1..Count(p) :
              /\ Lo(p, k) \in 1..6 /\ Hi(p, k) \in 1..6
              /\ Lo(p, k) <= Hi(p, k) /\ Hi(p, k) <= Deep(p)
              /\ Queries(p)[k] = Lo(p, k)..Hi(p, k)
              /\ k < Count(p) => Hi(p, k) < Deep(p) /\ Lo(p, k + 1) = Hi(p, k) + 1
              /\ \A i \in 1..Count(p) : i < k => Hi(p, i) < Lo(p, k)
         /\ Lo(p, 1) = 1
         /\ Lo(p, Count(p)) = Deep(p) /\ Hi(p, Count(p)) = Deep(p)
         /\ Last(Queries(p)) = Queries(p)[Count(p)]
         /\ \A l \in 1..Deep(p) : \E k \in 1..Count(p) : Lo(p, k) <= l /\ l <= Hi(p, k)
         /\ p = "GalleryChapter" => Count(p) = 2 /\ Deep(p) = 6 /\ Hi(p, 1) = 5
<1>1. /\ Max(1..1) = 1 /\ Min(1..1) = 1
      /\ Max(1..2) = 2 /\ Min(1..2) = 1
      /\ Max(2..2) = 2 /\ Min(2..2) = 2
      /\ Max(3..3) = 3 /\ Min(3..3) = 3
      /\ Max(4..4) = 4 /\ Min(4..4) = 4
      /\ Max(5..5) = 5 /\ Min(5..5) = 5
      /\ Max(6..6) = 6 /\ Min(6..6) = 6
      /\ Max(1..5) = 5 /\ Min(1..5) = 1
  <2>1. Max(1..1) = 1 /\ Min(1..1) = 1
    <3>1. PICK S : S = 1..1
      OBVIOUS
    <3>3. S \in SUBSET Int
      BY <3>1
    <3>2. 1 \in S /\ 1 \in S /\ \A z \in S : 1 >= z /\ 1 <= z
      BY <3>1
    <3> QED BY <3>1, <3>2, <3>3, Largest, Smallest
  <2>2. Max(1..2) = 2 /\ Min(1..2) = 1
    <3>1. PICK S : S = 1..2
      OBVIOUS
    <3>3. S \in SUBSET Int
      BY <3>1
    <3>2. 1 \in S /\ 2 \in S /\ \A z \in S : 2 >= z /\ 1 <= z
      BY <3>1
    <3> QED BY <3>1, <3>2, <3>3, Largest, Smallest
  <2>3. Max(2..2) = 2 /\ Min(2..2) = 2
    <3>1. PICK S : S = 2..2
      OBVIOUS
    <3>3. S \in SUBSET Int
      BY <3>1
    <3>2. 2 \in S /\ 2 \in S /\ \A z \in S : 2 >= z /\ 2 <= z
      BY <3>1
    <3> QED BY <3>1, <3>2, <3>3, Largest, Smallest
  <2>4. Max(3..3) = 3 /\ Min(3..3) = 3
    <3>1. PICK S : S = 3..3
      OBVIOUS
    <3>3. S \in SUBSET Int
      BY <3>1
    <3>2. 3 \in S /\ 3 \in S /\ \A z \in S : 3 >= z /\ 3 <= z
      BY <3>1
    <3> QED BY <3>1, <3>2, <3>3, Largest, Smallest
  <2>5. Max(4..4) = 4 /\ Min(4..4) = 4
    <3>1. PICK S : S = 4..4
      OBVIOUS
    <3>3. S \in SUBSET Int
      BY <3>1
    <3>2. 4 \in S /\ 4 \in S /\ \A z \in S : 4 >= z /\ 4 <= z
      BY <3>1
    <3> QED BY <3>1, <3>2, <3>3, Largest, Smallest
  <2>6. Max(5..5) = 5 /\ Min(5..5) = 5
    <3>1. PICK S : S = 5..5
      OBVIOUS
    <3>3. S \in SUBSET Int
      BY <3>1
    <3>2. 5 \in S /\ 5 \in S /\ \A z \in S : 5 >= z /\ 5 <= z
      BY <3>1
    <3> QED BY <3>1, <3>2, <3>3, Largest, Smallest
  <2>7. Max(6..6) = 6 /\ Min(6..6) = 6
    <3>1. PICK S : S = 6..6
      OBVIOUS
    <3>3. S \in SUBSET Int
      BY <3>1
    <3>2. 6 \in S /\ 6 \in S /\ \A z \in S : 6 >= z /\ 6 <= z
      BY <3>1
    <3> QED BY <3>1, <3>2, <3>3, Largest, Smallest
  <2>8. Max(1..5) = 5 /\ Min(1..5) = 1
    <3>1. PICK S : S = 1..5
      OBVIOUS
    <3>3. S \in SUBSET Int
      BY <3>1
    <3>2. 1 \in S /\ 5 \in S /\ \A z \in S : 5 >= z /\ 1 <= z
      BY <3>1
    <3> QED BY <3>1, <3>2, <3>3, Largest, Smallest
  <2> QED BY <2>1, <2>2, <2>3, <2>4, <2>5, <2>6, <2>7, <2>8
<1>3. CASE p = "Semesters"
  <2>1. Queries(p) = <<1..1, 2..2>>
    BY <1>3 DEF Queries, PublishedSemestersByClassSlug
  <2>2. /\ Count(p) = 2
        /\ Queries(p) \in Seq(SUBSET Int)
        /\ Queries(p)[1] = 1..1
        /\ Queries(p)[2] = 2..2
    BY <2>1 DEF Count
  <2>3. /\ Lo(p, 1) = 1 /\ Hi(p, 1) = 1
        /\ Lo(p, 2) = 2 /\ Hi(p, 2) = 2
    BY <1>1, <2>2 DEF Lo, Hi
  <2>4. Last(Queries(p)) = Queries(p)[2] /\ Deep(p) = 2
    BY <1>1, <2>2 DEF Last, Count, Deep
  <2>5. \A k \in 1..Count(p) : k = 1 \/ k = 2
    BY <2>2
  <2>6. Count(p) = 2
    BY <2>2
  <2>7. ASSUME NEW k \in 1..Count(p)
        PROVE  /\ Lo(p, k) \in 1..6 /\ Hi(p, k) \in 1..6
               /\ Lo(p, k) <= Hi(p, k) /\ Hi(p, k) <= Deep(p)
               /\ k < Count(p) => Hi(p, k) < Deep(p) /\ Lo(p, k + 1) = Hi(p, k) + 1
    BY <2>3, <2>4, <2>5, <2>6
  <2>8. \A k \in 1..Count(p) : Queries(p)[k] = Lo(p, k)..Hi(p, k)
    BY <2>2, <2>3, <2>5
  <2>9. \A k, i \in 1..Count(p) : i < k => Hi(p, i) < Lo(p, k)
    BY <2>3, <2>5
  <2>10. ASSUME NEW l \in 1..Deep(p)
         PROVE  \E k \in 1..Count(p) : Lo(p, k) <= l /\ l <= Hi(p, k)
    <3>1. \/ 1 <= l /\ l <= 1
          \/ 2 <= l /\ l <= 2
      BY <2>4
    <3>2. 1 \in 1..Count(p) /\ 2 \in 1..Count(p)
      BY <2>6
    <3> QED BY <2>3, <3>1, <3>2
  <2> QED BY <1>3, <2>2, <2>3, <2>4, <2>6, <2>7, <2>8, <2>9, <2>10
<1>4. CASE p = "Subjects"
  <2>1. Queries(p) = PublishedSubjects
    BY <1>4 DEF Queries
  <2>2. /\ Count(p) = 2
        /\ Queries(p) \in Seq(SUBSET Int)
        /\ Queries(p)[1] = 1..2
        /\ Queries(p)[2] = 3..3
    BY <2>1, Lists DEF Count
  <2>3. /\ Lo(p, 1) = 1 /\ Hi(p, 1) = 2
        /\ Lo(p, 2) = 3 /\ Hi(p, 2) = 3
    BY <1>1, <2>2 DEF Lo, Hi
  <2>4. Last(Queries(p)) = Queries(p)[2] /\ Deep(p) = 3
    BY <1>1, <2>2 DEF Last, Count, Deep
  <2>5. \A k \in 1..Count(p) : k = 1 \/ k = 2
    BY <2>2
  <2>6. Count(p) = 2
    BY <2>2
  <2>7. ASSUME NEW k \in 1..Count(p)
        PROVE  /\ Lo(p, k) \in 1..6 /\ Hi(p, k) \in 1..6
               /\ Lo(p, k) <= Hi(p, k) /\ Hi(p, k) <= Deep(p)
               /\ k < Count(p) => Hi(p, k) < Deep(p) /\ Lo(p, k + 1) = Hi(p, k) + 1
    BY <2>3, <2>4, <2>5, <2>6
  <2>8. \A k \in 1..Count(p) : Queries(p)[k] = Lo(p, k)..Hi(p, k)
    BY <2>2, <2>3, <2>5
  <2>9. \A k, i \in 1..Count(p) : i < k => Hi(p, i) < Lo(p, k)
    BY <2>3, <2>5
  <2>10. ASSUME NEW l \in 1..Deep(p)
         PROVE  \E k \in 1..Count(p) : Lo(p, k) <= l /\ l <= Hi(p, k)
    <3>1. \/ 1 <= l /\ l <= 2
          \/ 3 <= l /\ l <= 3
      BY <2>4
    <3>2. 1 \in 1..Count(p) /\ 2 \in 1..Count(p)
      BY <2>6
    <3> QED BY <2>3, <3>1, <3>2
  <2> QED BY <1>4, <2>2, <2>3, <2>4, <2>6, <2>7, <2>8, <2>9, <2>10
<1>5. CASE p = "Units"
  <2>1. Queries(p) = PublishedUnits
    BY <1>5 DEF Queries
  <2>2. /\ Count(p) = 3
        /\ Queries(p) \in Seq(SUBSET Int)
        /\ Queries(p)[1] = 1..2
        /\ Queries(p)[2] = 3..3
        /\ Queries(p)[3] = 4..4
    BY <2>1, Lists DEF Count
  <2>3. /\ Lo(p, 1) = 1 /\ Hi(p, 1) = 2
        /\ Lo(p, 2) = 3 /\ Hi(p, 2) = 3
        /\ Lo(p, 3) = 4 /\ Hi(p, 3) = 4
    BY <1>1, <2>2 DEF Lo, Hi
  <2>4. Last(Queries(p)) = Queries(p)[3] /\ Deep(p) = 4
    BY <1>1, <2>2 DEF Last, Count, Deep
  <2>5. \A k \in 1..Count(p) : k = 1 \/ k = 2 \/ k = 3
    BY <2>2
  <2>6. Count(p) = 3
    BY <2>2
  <2>7. ASSUME NEW k \in 1..Count(p)
        PROVE  /\ Lo(p, k) \in 1..6 /\ Hi(p, k) \in 1..6
               /\ Lo(p, k) <= Hi(p, k) /\ Hi(p, k) <= Deep(p)
               /\ k < Count(p) => Hi(p, k) < Deep(p) /\ Lo(p, k + 1) = Hi(p, k) + 1
    BY <2>3, <2>4, <2>5, <2>6
  <2>8. \A k \in 1..Count(p) : Queries(p)[k] = Lo(p, k)..Hi(p, k)
    BY <2>2, <2>3, <2>5
  <2>9. \A k, i \in 1..Count(p) : i < k => Hi(p, i) < Lo(p, k)
    BY <2>3, <2>5
  <2>10. ASSUME NEW l \in 1..Deep(p)
         PROVE  \E k \in 1..Count(p) : Lo(p, k) <= l /\ l <= Hi(p, k)
    <3>1. \/ 1 <= l /\ l <= 2
          \/ 3 <= l /\ l <= 3
          \/ 4 <= l /\ l <= 4
      BY <2>4
    <3>2. 1 \in 1..Count(p) /\ 2 \in 1..Count(p) /\ 3 \in 1..Count(p)
      BY <2>6
    <3> QED BY <2>3, <3>1, <3>2
  <2> QED BY <1>5, <2>2, <2>3, <2>4, <2>6, <2>7, <2>8, <2>9, <2>10
<1>6. CASE p = "Chapters"
  <2>1. Queries(p) = PublishedChapters
    BY <1>6 DEF Queries
  <2>2. /\ Count(p) = 4
        /\ Queries(p) \in Seq(SUBSET Int)
        /\ Queries(p)[1] = 1..2
        /\ Queries(p)[2] = 3..3
        /\ Queries(p)[3] = 4..4
        /\ Queries(p)[4] = 5..5
    BY <2>1, Lists DEF Count
  <2>3. /\ Lo(p, 1) = 1 /\ Hi(p, 1) = 2
        /\ Lo(p, 2) = 3 /\ Hi(p, 2) = 3
        /\ Lo(p, 3) = 4 /\ Hi(p, 3) = 4
        /\ Lo(p, 4) = 5 /\ Hi(p, 4) = 5
    BY <1>1, <2>2 DEF Lo, Hi
  <2>4. Last(Queries(p)) = Queries(p)[4] /\ Deep(p) = 5
    BY <1>1, <2>2 DEF Last, Count, Deep
  <2>5. \A k \in 1..Count(p) : k = 1 \/ k = 2 \/ k = 3 \/ k = 4
    BY <2>2
  <2>6. Count(p) = 4
    BY <2>2
  <2>7. ASSUME NEW k \in 1..Count(p)
        PROVE  /\ Lo(p, k) \in 1..6 /\ Hi(p, k) \in 1..6
               /\ Lo(p, k) <= Hi(p, k) /\ Hi(p, k) <= Deep(p)
               /\ k < Count(p) => Hi(p, k) < Deep(p) /\ Lo(p, k + 1) = Hi(p, k) + 1
    BY <2>3, <2>4, <2>5, <2>6
  <2>8. \A k \in 1..Count(p) : Queries(p)[k] = Lo(p, k)..Hi(p, k)
    BY <2>2, <2>3, <2>5
  <2>9. \A k, i \in 1..Count(p) : i < k => Hi(p, i) < Lo(p, k)
    BY <2>3, <2>5
  <2>10. ASSUME NEW l \in 1..Deep(p)
         PROVE  \E k \in 1..Count(p) : Lo(p, k) <= l /\ l <= Hi(p, k)
    <3>1. \/ 1 <= l /\ l <= 2
          \/ 3 <= l /\ l <= 3
          \/ 4 <= l /\ l <= 4
          \/ 5 <= l /\ l <= 5
      BY <2>4
    <3>2. 1 \in 1..Count(p) /\ 2 \in 1..Count(p) /\ 3 \in 1..Count(p) /\ 4 \in 1..Count(p)
      BY <2>6
    <3> QED BY <2>3, <3>1, <3>2
  <2> QED BY <1>6, <2>2, <2>3, <2>4, <2>6, <2>7, <2>8, <2>9, <2>10
<1>7. CASE p = "Notes"
  <2>1. Queries(p) = PublishedNotes
    BY <1>7 DEF Queries
  <2>2. /\ Count(p) = 5
        /\ Queries(p) \in Seq(SUBSET Int)
        /\ Queries(p)[1] = 1..2
        /\ Queries(p)[2] = 3..3
        /\ Queries(p)[3] = 4..4
        /\ Queries(p)[4] = 5..5
        /\ Queries(p)[5] = 6..6
    BY <2>1, Lists DEF Count
  <2>3. /\ Lo(p, 1) = 1 /\ Hi(p, 1) = 2
        /\ Lo(p, 2) = 3 /\ Hi(p, 2) = 3
        /\ Lo(p, 3) = 4 /\ Hi(p, 3) = 4
        /\ Lo(p, 4) = 5 /\ Hi(p, 4) = 5
        /\ Lo(p, 5) = 6 /\ Hi(p, 5) = 6
    BY <1>1, <2>2 DEF Lo, Hi
  <2>4. Last(Queries(p)) = Queries(p)[5] /\ Deep(p) = 6
    BY <1>1, <2>2 DEF Last, Count, Deep
  <2>5. \A k \in 1..Count(p) : k = 1 \/ k = 2 \/ k = 3 \/ k = 4 \/ k = 5
    BY <2>2
  <2>6. Count(p) = 5
    BY <2>2
  <2>7. ASSUME NEW k \in 1..Count(p)
        PROVE  /\ Lo(p, k) \in 1..6 /\ Hi(p, k) \in 1..6
               /\ Lo(p, k) <= Hi(p, k) /\ Hi(p, k) <= Deep(p)
               /\ k < Count(p) => Hi(p, k) < Deep(p) /\ Lo(p, k + 1) = Hi(p, k) + 1
    BY <2>3, <2>4, <2>5, <2>6
  <2>8. \A k \in 1..Count(p) : Queries(p)[k] = Lo(p, k)..Hi(p, k)
    BY <2>2, <2>3, <2>5
  <2>9. \A k, i \in 1..Count(p) : i < k => Hi(p, i) < Lo(p, k)
    BY <2>3, <2>5
  <2>10. ASSUME NEW l \in 1..Deep(p)
         PROVE  \E k \in 1..Count(p) : Lo(p, k) <= l /\ l <= Hi(p, k)
    <3>1. \/ 1 <= l /\ l <= 2
          \/ 3 <= l /\ l <= 3
          \/ 4 <= l /\ l <= 4
          \/ 5 <= l /\ l <= 5
          \/ 6 <= l /\ l <= 6
      BY <2>4
    <3>2. 1 \in 1..Count(p) /\ 2 \in 1..Count(p) /\ 3 \in 1..Count(p) /\ 4 \in 1..Count(p) /\ 5 \in 1..Count(p)
      BY <2>6
    <3> QED BY <2>3, <3>1, <3>2
  <2> QED BY <1>7, <2>2, <2>3, <2>4, <2>6, <2>7, <2>8, <2>9, <2>10
<1>8. CASE p = "GalleryChapter"
  <2>1. Queries(p) = <<1..5, 6..6>>
    BY <1>8 DEF Queries, PublishedImageGalleryNotesByChapterID
  <2>2. /\ Count(p) = 2
        /\ Queries(p) \in Seq(SUBSET Int)
        /\ Queries(p)[1] = 1..5
        /\ Queries(p)[2] = 6..6
    BY <2>1 DEF Count
  <2>3. /\ Lo(p, 1) = 1 /\ Hi(p, 1) = 5
        /\ Lo(p, 2) = 6 /\ Hi(p, 2) = 6
    BY <1>1, <2>2 DEF Lo, Hi
  <2>4. Last(Queries(p)) = Queries(p)[2] /\ Deep(p) = 6
    BY <1>1, <2>2 DEF Last, Count, Deep
  <2>5. \A k \in 1..Count(p) : k = 1 \/ k = 2
    BY <2>2
  <2>6. Count(p) = 2
    BY <2>2
  <2>7. ASSUME NEW k \in 1..Count(p)
        PROVE  /\ Lo(p, k) \in 1..6 /\ Hi(p, k) \in 1..6
               /\ Lo(p, k) <= Hi(p, k) /\ Hi(p, k) <= Deep(p)
               /\ k < Count(p) => Hi(p, k) < Deep(p) /\ Lo(p, k + 1) = Hi(p, k) + 1
    BY <2>3, <2>4, <2>5, <2>6
  <2>8. \A k \in 1..Count(p) : Queries(p)[k] = Lo(p, k)..Hi(p, k)
    BY <2>2, <2>3, <2>5
  <2>9. \A k, i \in 1..Count(p) : i < k => Hi(p, i) < Lo(p, k)
    BY <2>3, <2>5
  <2>10. ASSUME NEW l \in 1..Deep(p)
         PROVE  \E k \in 1..Count(p) : Lo(p, k) <= l /\ l <= Hi(p, k)
    <3>1. \/ 1 <= l /\ l <= 5
          \/ 6 <= l /\ l <= 6
      BY <2>4
    <3>2. 1 \in 1..Count(p) /\ 2 \in 1..Count(p)
      BY <2>6
    <3> QED BY <2>3, <3>1, <3>2
  <2> QED BY <1>8, <2>2, <2>3, <2>4, <2>6, <2>7, <2>8, <2>9, <2>10
<1> QED BY <1>3, <1>4, <1>5, <1>6, <1>7, <1>8 DEF Page

(* The levels a page reads.                                                *)
LEMMA ReadLevels ==
  ASSUME NEW p \in Page
  PROVE  UNION Range(Queries(p)) = 1..Deep(p)
<1>1. DOMAIN Queries(p) = 1..Count(p)
  BY Shape, LenProperties DEF Count
<1>2. \A l : l \in UNION Range(Queries(p)) <=>
              \E k \in 1..Count(p) : l \in Queries(p)[k]
  BY <1>1 DEF Range
<1>3. \A k \in 1..Count(p) :
        /\ Queries(p)[k] = Lo(p, k)..Hi(p, k)
        /\ Lo(p, k) \in 1..6 /\ Hi(p, k) \in 1..6 /\ Hi(p, k) <= Deep(p)
  BY Shape
<1>4. Deep(p) \in 2..6 /\ \A l \in 1..Deep(p) :
                           \E k \in 1..Count(p) : Lo(p, k) <= l /\ l <= Hi(p, k)
  BY Shape
<1>5. ASSUME NEW l \in UNION Range(Queries(p)) PROVE l \in 1..Deep(p)
  <2>1. PICK k \in 1..Count(p) : l \in Queries(p)[k]
    BY <1>2
  <2>2. PICK a \in 1..6, b \in 1..6 : l \in a..b /\ b <= Deep(p)
    BY <1>3, <2>1
  <2> QED BY <1>4, <2>2
<1>6. ASSUME NEW l \in 1..Deep(p) PROVE l \in UNION Range(Queries(p))
  <2>1. PICK k \in 1..Count(p) : Lo(p, k) <= l /\ l <= Hi(p, k)
    BY <1>4
  <2>2. l \in Queries(p)[k]
    BY <1>3, <1>4, <2>1
  <2> QED BY <1>2, <2>2
<1> QED BY <1>5, <1>6

-----------------------------------------------------------------------------
(* Tables.                                                                 *)
Sheet == {t \in [Item -> Row \cup {Unborn}] : Sound(t)}

(* Sound tables are a forest: every row has an ancestor on every level     *)
(* above it.                                                               *)
LEMMA Ancestors ==
  ASSUME NEW t \in Sheet, NEW x \in Born(t)
  PROVE  /\ Level[x] \in 1..6
         /\ Up(t, x, Level[x]) = x
         /\ \A l \in 1..Level[x] : Up(t, x, l) \in Born(t) /\ Level[Up(t, x, l)] = l
         /\ \A l \in 1..6 : l < Level[x] => Up(t, x, l) = t[Up(t, x, l + 1)].parent
         /\ t[Up(t, x, 1)].parent = Root
<1>1. Level[x] \in 1..6
  BY HierarchyAssumption DEF Born
<1>2. /\ Up(t, x, Level[x]) = x
      /\ \A l \in 1..6 : l < Level[x] => Up(t, x, l) = t[Up(t, x, l + 1)].parent
  BY <1>1, UpSteps
<1>3. \A y \in Born(t) :
         /\ Level[y] \in 1..6
         /\ Level[y] = 1 => t[y].parent = Root
         /\ Level[y] # 1 => t[y].parent \in Born(t) /\ Level[t[y].parent] = Level[y] - 1
  BY HierarchyAssumption DEF Sheet, Sound, Fits, Born
<1> DEFINE Known(l) == Up(t, x, l) \in Born(t) /\ Level[Up(t, x, l)] = l
<1>4. ASSUME NEW l \in 1..5, l + 1 <= Level[x] => Known(l + 1), l <= Level[x]
      PROVE  Known(l)
  <2>1. CASE l = Level[x]
    BY <1>2, <2>1
  <2>2. CASE l # Level[x]
    <3>1. l < Level[x] /\ l + 1 <= Level[x] /\ l + 1 # 1 /\ (l + 1) - 1 = l
      BY <1>1, <1>4, <2>2
    <3>2. Up(t, x, l + 1) \in Born(t) /\ Level[Up(t, x, l + 1)] = l + 1
      BY <1>4, <3>1
    <3>3. Up(t, x, l) = t[Up(t, x, l + 1)].parent
      BY <1>2, <3>1
    <3> QED BY <1>3, <3>1, <3>2, <3>3
  <2> QED BY <2>1, <2>2
<1>5. 6 <= Level[x] => Known(6)
  <2>1. ASSUME 6 <= Level[x] PROVE Level[x] = 6
    BY <1>1, <2>1
  <2> QED BY <1>2, <2>1
<1> HIDE DEF Known
<1>6. 5 <= Level[x] => Known(5)
  BY <1>4, <1>5
<1>7. 4 <= Level[x] => Known(4)
  BY <1>4, <1>6
<1>8. 3 <= Level[x] => Known(3)
  BY <1>4, <1>7
<1>9. 2 <= Level[x] => Known(2)
  BY <1>4, <1>8
<1>10. Known(1)
  BY <1>1, <1>4, <1>9
<1>11. \A l \in 1..Level[x] : Known(l)
  <2>1. ASSUME NEW l \in 1..Level[x] PROVE Known(l)
    <3>1. l <= Level[x] /\ (l = 1 \/ l = 2 \/ l = 3 \/ l = 4 \/ l = 5 \/ l = 6)
      BY <1>1
    <3> QED BY <1>5, <1>6, <1>7, <1>8, <1>9, <1>10, <3>1
  <2> QED BY <2>1
<1>12. t[Up(t, x, 1)].parent = Root
  BY <1>3, <1>10 DEF Known
<1> QED BY <1>1, <1>2, <1>11, <1>12 DEF Known

(* The ancestors of an ancestor.                                           *)
LEMMA Higher ==
  ASSUME NEW t \in Sheet, NEW x \in Born(t), NEW m \in 1..Level[x]
  PROVE  \A l \in 1..m : Up(t, Up(t, x, m), l) = Up(t, x, l)
<1> DEFINE y == Up(t, x, m)
           Same(l) == Up(t, y, l) = Up(t, x, l)
<1>1. Level[x] \in 1..6 /\ y \in Born(t) /\ Level[y] = m /\ m \in 1..6
  BY Ancestors
<1>2. Up(t, y, m) = y
  BY <1>1, Ancestors
<1>3. ASSUME NEW l \in 1..5, l < m, Same(l + 1) PROVE Same(l)
  <2>1. l < Level[x] /\ l < Level[y]
    BY <1>1, <1>3
  <2>2. Up(t, x, l) = t[Up(t, x, l + 1)].parent
    BY <2>1, Ancestors
  <2>3. Up(t, y, l) = t[Up(t, y, l + 1)].parent
    BY <1>1, <2>1, Ancestors
  <2> QED BY <1>3, <2>2, <2>3
<1>4. Same(m)
  BY <1>2
<1> HIDE DEF Same
<1>5. ASSUME NEW l \in 1..5, l + 1 <= m => Same(l + 1), l <= m PROVE Same(l)
  <2>1. CASE l = m
    BY <1>4, <2>1
  <2>2. CASE l # m
    BY <1>1, <1>3, <1>5, <2>2
  <2> QED BY <2>1, <2>2
<1>6. 6 <= m => Same(6)
  <2>1. ASSUME 6 <= m PROVE m = 6
    BY <1>1, <2>1
  <2> QED BY <1>4, <2>1
<1>7. 5 <= m => Same(5)
  BY <1>5, <1>6
<1>8. 4 <= m => Same(4)
  BY <1>5, <1>7
<1>9. 3 <= m => Same(3)
  BY <1>5, <1>8
<1>10. 2 <= m => Same(2)
  BY <1>5, <1>9
<1>11. 1 <= m => Same(1)
  BY <1>5, <1>10
<1>12. \A l \in 1..m : Same(l)
  <2>1. ASSUME NEW l \in 1..m PROVE Same(l)
    <3>1. l <= m /\ (l = 1 \/ l = 2 \/ l = 3 \/ l = 4 \/ l = 5 \/ l = 6)
      BY <1>1
    <3> QED BY <1>6, <1>7, <1>8, <1>9, <1>10, <1>11, <3>1
  <2> QED BY <2>1
<1> QED BY <1>12 DEF Same

(* Tables in which the rows from level lo + 1 to x have the same parents.  *)
LEMMA SameUp ==
  ASSUME NEW t \in Sheet, NEW u \in Sheet, NEW x \in Born(t), x \in Born(u),
         NEW lo \in 1..Level[x],
         \A y \in Born(t) : lo < Level[y] /\ Level[y] <= Level[x] =>
                             u[y].parent = t[y].parent
  PROVE  \A l \in lo..Level[x] : Up(u, x, l) = Up(t, x, l)
<1> DEFINE Same(l) == Up(u, x, l) = Up(t, x, l)
<1>1. Level[x] \in 1..6 /\ lo \in 1..6
  BY Ancestors
<1>2. Same(Level[x])
  BY Ancestors
<1>3. ASSUME NEW l \in 1..5, lo <= l, l < Level[x], Same(l + 1) PROVE Same(l)
  <2>1. l + 1 \in 1..Level[x] /\ lo < l + 1 /\ l + 1 <= Level[x]
    BY <1>1, <1>3
  <2>2. Up(t, x, l + 1) \in Born(t) /\ Level[Up(t, x, l + 1)] = l + 1
    BY <2>1, Ancestors
  <2>3. Up(t, x, l) = t[Up(t, x, l + 1)].parent
    BY <1>3, Ancestors
  <2>4. Up(u, x, l) = u[Up(u, x, l + 1)].parent
    BY <1>3, Ancestors
  <2>5. u[Up(t, x, l + 1)].parent = t[Up(t, x, l + 1)].parent
    BY <2>1, <2>2
  <2> QED BY <1>3, <2>3, <2>4, <2>5
<1> HIDE DEF Same
<1>4. ASSUME NEW l \in 1..5, lo <= l /\ l + 1 <= Level[x] => Same(l + 1),
             lo <= l, l <= Level[x]
      PROVE  Same(l)
  <2>1. CASE l = Level[x]
    BY <1>2, <2>1
  <2>2. CASE l # Level[x]
    BY <1>1, <1>3, <1>4, <2>2
  <2> QED BY <2>1, <2>2
<1>5. 6 <= Level[x] => Same(6)
  <2>1. ASSUME 6 <= Level[x] PROVE Level[x] = 6
    BY <1>1, <2>1
  <2> QED BY <1>2, <2>1
<1>6. lo <= 5 /\ 5 <= Level[x] => Same(5)
  BY <1>4, <1>5
<1>7. lo <= 4 /\ 4 <= Level[x] => Same(4)
  BY <1>1, <1>4, <1>6
<1>8. lo <= 3 /\ 3 <= Level[x] => Same(3)
  BY <1>1, <1>4, <1>7
<1>9. lo <= 2 /\ 2 <= Level[x] => Same(2)
  BY <1>1, <1>4, <1>8
<1>10. lo <= 1 /\ 1 <= Level[x] => Same(1)
  BY <1>1, <1>4, <1>9
<1>11. \A l \in lo..Level[x] : Same(l)
  <2>1. ASSUME NEW l \in lo..Level[x] PROVE Same(l)
    <3>1. lo <= l /\ l <= Level[x]
          /\ (l = 1 \/ l = 2 \/ l = 3 \/ l = 4 \/ l = 5 \/ l = 6)
      BY <1>1
    <3> QED BY <1>5, <1>6, <1>7, <1>8, <1>9, <1>10, <3>1
  <2> QED BY <2>1
<1> QED BY <1>11 DEF Same

-----------------------------------------------------------------------------
(***************************************************************************)
(* What the queries from the k-th on make of tables t, if the ones before  *)
(* found the rows parents: the rows at the level above the list that are   *)
(* found on the way, the rows listed below them, and the page.             *)
(***************************************************************************)
Over(t, req, parents, k) ==
  LET p == req.page
      levels == Lo(p, k)..(Deep(p) - 1)
  IN IF k = Count(p) THEN parents
     ELSE {x \in Born(t) : /\ Level[x] = Deep(p) - 1
                           /\ OpenAlong(t, x, levels)
                           /\ Asked(t, x, req, levels)
                           /\ t[Up(t, x, Lo(p, k))].parent \in parents}

Under(t, req, parents, k) ==
  {x \in Born(t) : /\ Level[x] = Deep(req.page)
                   /\ t[x].open
                   /\ t[x].parent \in Over(t, req, parents, k)}

Rest(t, req, parents, k) ==
  IF Over(t, req, parents, k) = {} THEN NotFound
  ELSE Listing(req, Under(t, req, parents, k))

(* The rows the k-th query finds.                                          *)
Finds(t, req, parents, k) ==
  {x \in Below(t, parents, Queries(req.page)[k]) :
     Asked(t, x, req, Queries(req.page)[k])}

(* The queries, in terms of the levels they read.                          *)
LEMMA BelowIs ==
  ASSUME NEW t, NEW parents, NEW p \in Page, NEW k \in 1..Count(p)
  PROVE  \A x : x \in Below(t, parents, Queries(p)[k]) <=>
                 /\ x \in Born(t)
                 /\ Level[x] = Hi(p, k)
                 /\ OpenAlong(t, x, Lo(p, k)..Hi(p, k))
                 /\ t[Up(t, x, Lo(p, k))].parent \in parents
<1>1. Queries(p)[k] = Lo(p, k)..Hi(p, k)
  BY Shape
<1> QED BY <1>1 DEF Below, Lo, Hi

LEMMA FindsIs ==
  ASSUME NEW t, NEW parents, NEW req \in Request, NEW k \in 1..Count(req.page)
  PROVE  \A x : x \in Finds(t, req, parents, k) <=>
                 /\ x \in Born(t)
                 /\ Level[x] = Hi(req.page, k)
                 /\ OpenAlong(t, x, Lo(req.page, k)..Hi(req.page, k))
                 /\ t[Up(t, x, Lo(req.page, k))].parent \in parents
                 /\ Asked(t, x, req, Lo(req.page, k)..Hi(req.page, k))
<1>1. PICK p \in Page : p = req.page
  BY DEF Request
<1>2. Queries(p)[k] = Lo(p, k)..Hi(p, k)
  BY <1>1, Shape
<1>3. \A x : x \in Below(t, parents, Queries(p)[k]) <=>
                 /\ x \in Born(t)
                 /\ Level[x] = Hi(p, k)
                 /\ OpenAlong(t, x, Lo(p, k)..Hi(p, k))
                 /\ t[Up(t, x, Lo(p, k))].parent \in parents
  BY <1>1, BelowIs
<1> QED BY <1>1, <1>2, <1>3 DEF Finds

(* The queries from the first on make the page that should be shown.       *)
LEMMA WholePage ==
  ASSUME NEW t \in Sheet, NEW req \in Request
  PROVE  Rest(t, req, {Root}, 1) = Answer(t, req)
<1> DEFINE p == req.page
           d == Deep(p)
           Public(x) == \A l \in 1..Level[x] : t[Up(t, x, l)].open
           above == {x \in Born(t) : /\ Level[x] = d - 1
                                     /\ Public(x)
                                     /\ Asked(t, x, req, 1..Level[x])}
           below == {x \in Born(t) : Public(x) /\ t[x].parent \in above}
<1>1. p \in Page
  BY DEF Request
<1>2. d \in 2..6 /\ 1 # Count(p) /\ Lo(p, 1) = 1
  BY <1>1, Shape
<1>3. above = Over(t, req, {Root}, 1)
  <2>1. ASSUME NEW x \in Born(t)
        PROVE  Level[x] = d - 1 =>
                 /\ Public(x) <=> OpenAlong(t, x, 1..(d - 1))
                 /\ t[Up(t, x, 1)].parent \in {Root}
    BY Ancestors DEF OpenAlong
  <2>2. Over(t, req, {Root}, 1) =
          {x \in Born(t) : /\ Level[x] = d - 1
                           /\ OpenAlong(t, x, 1..(d - 1))
                           /\ Asked(t, x, req, 1..(d - 1))
                           /\ t[Up(t, x, 1)].parent \in {Root}}
    BY <1>2 DEF Over
  <2> QED BY <2>1, <2>2
<1>4. ASSUME NEW x \in Born(t), t[x].parent \in above
      PROVE  Level[x] = d /\ (Public(x) <=> t[x].open)
  <2>1. PICK y \in Born(t) : y = t[x].parent /\ Level[y] = d - 1 /\ Public(y)
    BY <1>4
  <2>2. /\ Level[x] \in 1..6 /\ Up(t, x, Level[x]) = x
        /\ t[Up(t, x, 1)].parent = Root
        /\ \A l \in 1..6 : l < Level[x] => Up(t, x, l) = t[Up(t, x, l + 1)].parent
        /\ \A l \in 1..Level[x] : Level[Up(t, x, l)] = l
    BY Ancestors
  <2>3. Level[x] # 1
    BY <2>1, <2>2, HierarchyAssumption DEF Born
  <2>4. Level[x] - 1 \in 1..Level[x] /\ Level[x] - 1 < Level[x]
        /\ (Level[x] - 1) + 1 = Level[x] /\ Level[x] - 1 \in 1..6
    BY <2>2, <2>3
  <2>5. Up(t, x, Level[x] - 1) = y
    BY <2>1, <2>2, <2>4
  <2>6. Level[x] = d
    BY <1>2, <2>1, <2>2, <2>4, <2>5
  <2>7. \A l \in 1..(d - 1) : Up(t, y, l) = Up(t, x, l)
    BY <2>4, <2>5, <2>6, Higher
  <2>8. \A l \in 1..(d - 1) : t[Up(t, x, l)].open
    BY <2>1, <2>7
  <2>9. ASSUME NEW l \in 1..d PROVE l = d \/ l \in 1..(d - 1)
    BY <1>2
  <2>10. d \in 1..d
    BY <1>2
  <2> QED BY <2>2, <2>6, <2>8, <2>9, <2>10
<1>5. below = Under(t, req, {Root}, 1)
  BY <1>3, <1>4 DEF Under
<1>6. Answer(t, req) = IF above = {} THEN NotFound ELSE Listing(req, below)
  BY DEF Answer, Deep
<1> QED BY <1>3, <1>5, <1>6 DEF Rest

(* One query after the other.                                              *)
LEMMA NextQuery ==
  ASSUME NEW t \in Sheet, NEW req \in Request, NEW k \in 1..Count(req.page),
         k < Count(req.page), NEW parents
  PROVE  Over(t, req, Finds(t, req, parents, k), k + 1) = Over(t, req, parents, k)
<1> DEFINE p == req.page
           d == Deep(p)
           lo == Lo(p, k)
           hi == Hi(p, k)
           F == Finds(t, req, parents, k)
<1>1. p \in Page
  BY DEF Request
<1>2. /\ Count(p) \in 2..5 /\ k + 1 \in 1..Count(p)
      /\ d \in 2..6 /\ lo \in 1..6 /\ hi \in 1..6 /\ lo <= hi /\ hi < d
      /\ Lo(p, k + 1) = hi + 1
      /\ Queries(p)[k] = lo..hi
      /\ Lo(p, Count(p)) = d
  BY <1>1, Shape
<1>3. \A x : x \in F <=> /\ x \in Born(t)
                         /\ Level[x] = hi
                         /\ OpenAlong(t, x, lo..hi)
                         /\ t[Up(t, x, lo)].parent \in parents
                         /\ Asked(t, x, req, lo..hi)
  BY FindsIs
<1>4. Over(t, req, parents, k) =
        {x \in Born(t) : /\ Level[x] = d - 1
                         /\ OpenAlong(t, x, lo..(d - 1))
                         /\ Asked(t, x, req, lo..(d - 1))
                         /\ t[Up(t, x, lo)].parent \in parents}
  BY <1>2 DEF Over
<1>5. CASE k + 1 = Count(p)
  <2>1. hi = d - 1
    BY <1>2, <1>5
  <2>2. Over(t, req, F, k + 1) = F
    BY <1>5 DEF Over
  <2> QED BY <1>3, <1>4, <2>1, <2>2
<1>6. CASE k + 1 # Count(p)
  <2>1. hi + 1 <= d - 1
    <3>1. Hi(p, k + 1) < d /\ Lo(p, k + 1) <= Hi(p, k + 1) /\ Hi(p, k + 1) \in 1..6
      BY <1>1, <1>2, <1>6, Shape
    <3> QED BY <1>2, <3>1
  <2>2. p # "GalleryChapter"
    BY <1>1, <1>2, <1>6, Shape
  <2>3. Over(t, req, F, k + 1) =
          {x \in Born(t) : /\ Level[x] = d - 1
                           /\ OpenAlong(t, x, (hi + 1)..(d - 1))
                           /\ Asked(t, x, req, (hi + 1)..(d - 1))
                           /\ t[Up(t, x, hi + 1)].parent \in F}
    BY <1>2, <1>6 DEF Over
  <2>4. ASSUME NEW x \in Born(t), Level[x] = d - 1
        PROVE  (/\ OpenAlong(t, x, (hi + 1)..(d - 1))
                /\ Asked(t, x, req, (hi + 1)..(d - 1))
                /\ t[Up(t, x, hi + 1)].parent \in F)
               <=> (/\ OpenAlong(t, x, lo..(d - 1))
                    /\ Asked(t, x, req, lo..(d - 1))
                    /\ t[Up(t, x, lo)].parent \in parents)
    <3>1. PICK z \in Born(t) : z = Up(t, x, hi) /\ Level[z] = hi
      BY <1>2, <2>1, <2>4, Ancestors
    <3>2. t[Up(t, x, hi + 1)].parent = z
      BY <1>2, <2>1, <2>4, <3>1, Ancestors
    <3>3. \A l \in lo..hi : Up(t, z, l) = Up(t, x, l)
      BY <1>2, <2>1, <2>4, <3>1, Higher
    <3>4. z \in F <=> /\ \A l \in lo..hi : t[Up(t, x, l)].open
                      /\ \A l \in lo..hi : t[Up(t, x, l)].slug = Path[l]
                      /\ t[Up(t, x, lo)].parent \in parents
      BY <1>2, <1>3, <2>2, <3>1, <3>3 DEF OpenAlong, Asked
    <3>5. lo..(d - 1) = (lo..hi) \cup ((hi + 1)..(d - 1))
      BY <1>2, <2>1
    <3> QED BY <2>2, <3>2, <3>4, <3>5 DEF OpenAlong, Asked
  <2> QED BY <1>4, <2>3, <2>4
<1> QED BY <1>5, <1>6

LEMMA NextRest ==
  ASSUME NEW t \in Sheet, NEW req \in Request, NEW k \in 1..Count(req.page),
         k < Count(req.page), NEW parents
  PROVE  /\ Under(t, req, Finds(t, req, parents, k), k + 1) = Under(t, req, parents, k)
         /\ Rest(t, req, Finds(t, req, parents, k), k + 1) = Rest(t, req, parents, k)
BY NextQuery DEF Under, Rest

(* A row that is not found.                                                *)
LEMMA NothingFound ==
  ASSUME NEW t \in Sheet, NEW req \in Request, NEW k \in 1..Count(req.page)
  PROVE  Rest(t, req, {}, k) = NotFound
BY DEF Rest, Over

(* The last query makes the list.                                          *)
LEMMA LastQuery ==
  ASSUME NEW t \in Sheet, NEW req \in Request, NEW parents, parents # {}
  PROVE  Rest(t, req, parents, Count(req.page)) =
           Listing(req, Below(t, parents, Last(Queries(req.page))))
<1> DEFINE p == req.page
           n == Count(p)
<1>1. p \in Page
  BY DEF Request
<1>2. n \in 1..n /\ Lo(p, n) = Deep(p) /\ Hi(p, n) = Deep(p)
      /\ Deep(p) \in 2..6 /\ Last(Queries(p)) = Queries(p)[n]
  BY <1>1, Shape
<1>3. \A x : x \in Below(t, parents, Queries(p)[n]) <=>
                /\ x \in Born(t)
                /\ Level[x] = Deep(p)
                /\ OpenAlong(t, x, Deep(p)..Deep(p))
                /\ t[Up(t, x, Deep(p))].parent \in parents
  <2>1. \A x : x \in Below(t, parents, Queries(p)[n]) <=>
                 /\ x \in Born(t)
                 /\ Level[x] = Hi(p, n)
                 /\ OpenAlong(t, x, Lo(p, n)..Hi(p, n))
                 /\ t[Up(t, x, Lo(p, n))].parent \in parents
    BY <1>1, <1>2, BelowIs
  <2> QED BY <1>2, <2>1
<1>4. ASSUME NEW x \in Born(t), Level[x] = Deep(p)
      PROVE  /\ OpenAlong(t, x, Deep(p)..Deep(p)) <=> t[x].open
             /\ Up(t, x, Deep(p)) = x
  <2>1. Up(t, x, Deep(p)) = x
    BY <1>4, Ancestors
  <2>2. \A l : l \in Deep(p)..Deep(p) <=> l = Deep(p)
    BY <1>2
  <2> QED BY <2>1, <2>2 DEF OpenAlong
<1>5. Under(t, req, parents, n) = Below(t, parents, Queries(p)[n])
  BY <1>3, <1>4 DEF Under, Over
<1>6. Over(t, req, parents, n) # {}
  BY DEF Over
<1> QED BY <1>2, <1>5, <1>6 DEF Rest

-----------------------------------------------------------------------------
(* Two states of the tables that are the same from level a to level b.     *)
SameLevels(t, u, a, b) ==
  \A x \in Item : a <= Level[x] /\ Level[x] <= b => u[x] = t[x]

LEMMA SameRow ==
  ASSUME NEW t \in Sheet, NEW u \in Sheet, NEW a \in 1..6, NEW b \in 1..6,
         SameLevels(t, u, a, b),
         NEW x \in Born(t), a <= Level[x], Level[x] <= b
  PROVE  /\ x \in Born(u)
         /\ \A l \in a..Level[x] : /\ Up(u, x, l) = Up(t, x, l)
                                   /\ u[Up(t, x, l)] = t[Up(t, x, l)]
<1>1. Level[x] \in 1..6 /\ a \in 1..Level[x]
  BY Ancestors
<1>2. x \in Born(u)
  BY DEF SameLevels, Born
<1>3. \A y \in Born(t) : a < Level[y] /\ Level[y] <= Level[x] =>
                        u[y].parent = t[y].parent
  <2>1. ASSUME NEW y \in Born(t), a < Level[y], Level[y] <= Level[x]
        PROVE  u[y] = t[y]
    <3>1. y \in Item /\ Level[y] \in 1..6
      BY HierarchyAssumption DEF Born
    <3>2. a <= Level[y] /\ Level[y] <= b
      BY <1>1, <2>1, <3>1
    <3> QED BY <3>1, <3>2 DEF SameLevels
  <2> QED BY <2>1
<1>4. \A l \in a..Level[x] : Up(u, x, l) = Up(t, x, l)
  BY <1>1, <1>2, <1>3, SameUp
<1>5. ASSUME NEW l \in a..Level[x] PROVE u[Up(t, x, l)] = t[Up(t, x, l)]
  <2>1. Up(t, x, l) \in Born(t) /\ Level[Up(t, x, l)] = l
    BY <1>1, Ancestors
  <2>2. Up(t, x, l) \in Item /\ a <= l /\ l <= b
    BY <1>1, <2>1 DEF Born
  <2> QED BY <2>1, <2>2 DEF SameLevels
<1> QED BY <1>2, <1>4, <1>5

LEMMA SameLevelsBack ==
  ASSUME NEW t, NEW u, NEW a, NEW b, SameLevels(t, u, a, b)
  PROVE  SameLevels(u, t, a, b)
BY DEF SameLevels

(* A query sees only rows of its own tables.                               *)
LEMMA SameFinds ==
  ASSUME NEW t \in Sheet, NEW u \in Sheet, NEW req \in Request,
         NEW k \in 1..Count(req.page), NEW parents,
         SameLevels(t, u, Lo(req.page, k), Hi(req.page, k))
  PROVE  Finds(u, req, parents, k) \subseteq Finds(t, req, parents, k)
<1>1. PICK p \in Page : p = req.page
  BY DEF Request
<1>2. PICK lo \in 1..6, hi \in 1..6 : lo = Lo(p, k) /\ hi = Hi(p, k) /\ lo <= hi
  <2>1. Lo(p, k) \in 1..6 /\ Hi(p, k) \in 1..6 /\ Lo(p, k) <= Hi(p, k)
    BY <1>1, Shape
  <2> QED BY <2>1
<1> SUFFICES ASSUME NEW x \in Finds(u, req, parents, k)
             PROVE  x \in Finds(t, req, parents, k)
  OBVIOUS
<1>3. /\ x \in Born(u)
      /\ Level[x] = hi
      /\ OpenAlong(u, x, lo..hi)
      /\ u[Up(u, x, lo)].parent \in parents
      /\ Asked(u, x, req, lo..hi)
  BY <1>1, <1>2, FindsIs
<1>4. SameLevels(u, t, lo, hi)
  BY <1>1, <1>2, SameLevelsBack
<1>5. /\ x \in Born(t)
      /\ \A l \in lo..hi : /\ Up(t, x, l) = Up(u, x, l)
                           /\ t[Up(u, x, l)] = u[Up(u, x, l)]
  BY <1>2, <1>3, <1>4, SameRow
<1>6. lo \in lo..hi
  BY <1>2
<1>7. /\ OpenAlong(t, x, lo..hi)
      /\ t[Up(t, x, lo)].parent \in parents
      /\ Asked(t, x, req, lo..hi)
  BY <1>3, <1>5, <1>6 DEF OpenAlong, Asked
<1> QED BY <1>1, <1>2, <1>3, <1>5, <1>7, FindsIs

(* Before the last query, there are levels above the list to go.           *)
LEMMA RowsAbove ==
  ASSUME NEW p \in Page, NEW k \in 1..Count(p), k # Count(p)
  PROVE  Lo(p, k) \in 1..6 /\ Deep(p) \in 2..6 /\ Lo(p, k) <= Deep(p) - 1
<1>1. /\ Lo(p, k) \in 1..6 /\ Hi(p, k) \in 1..6 /\ Lo(p, k) <= Hi(p, k)
      /\ k < Count(p) => Hi(p, k) < Deep(p)
  BY Shape
<1>2. Count(p) \in 2..5 /\ Deep(p) \in 2..6
  BY Shape
<1>3. k < Count(p)
  BY <1>2
<1> QED BY <1>1, <1>2, <1>3

(* The queries still to come see only rows of theirs.                      *)
LEMMA SameOver ==
  ASSUME NEW t \in Sheet, NEW u \in Sheet, NEW req \in Request,
         NEW k \in 1..Count(req.page), NEW parents,
         SameLevels(t, u, Lo(req.page, k), Deep(req.page))
  PROVE  Over(u, req, parents, k) \subseteq Over(t, req, parents, k)
<1>1. PICK p \in Page : p = req.page
  BY DEF Request
<1>2. CASE k = Count(p)
  BY <1>1, <1>2 DEF Over
<1>3. CASE k # Count(p)
  <2>1. PICK lo \in 1..6, d \in 2..6 : lo = Lo(p, k) /\ d = Deep(p) /\ lo <= d - 1
    BY <1>1, <1>3, RowsAbove
  <2> SUFFICES ASSUME NEW x \in Over(u, req, parents, k)
               PROVE  x \in Over(t, req, parents, k)
    OBVIOUS
  <2>2. /\ x \in Born(u)
        /\ Level[x] = d - 1
        /\ OpenAlong(u, x, lo..(d - 1))
        /\ Asked(u, x, req, lo..(d - 1))
        /\ u[Up(u, x, lo)].parent \in parents
    BY <1>1, <1>3, <2>1 DEF Over
  <2>3. SameLevels(u, t, lo, d)
    BY <1>1, <2>1, SameLevelsBack
  <2>4. lo <= Level[x] /\ Level[x] <= d
    BY <2>1, <2>2
  <2>5. /\ x \in Born(t)
        /\ \A l \in lo..(d - 1) : /\ Up(t, x, l) = Up(u, x, l)
                                  /\ t[Up(u, x, l)] = u[Up(u, x, l)]
    BY <2>1, <2>2, <2>3, <2>4, SameRow
  <2>6. lo \in lo..(d - 1)
    BY <2>1
  <2>7. /\ OpenAlong(t, x, lo..(d - 1))
        /\ Asked(t, x, req, lo..(d - 1))
        /\ t[Up(t, x, lo)].parent \in parents
    BY <2>2, <2>5, <2>6 DEF OpenAlong, Asked
  <2> QED BY <1>1, <1>3, <2>1, <2>2, <2>5, <2>7 DEF Over
<1> QED BY <1>2, <1>3

LEMMA SameRest ==
  ASSUME NEW t \in Sheet, NEW u \in Sheet, NEW req \in Request,
         NEW k \in 1..Count(req.page), NEW parents,
         SameLevels(t, u, Lo(req.page, k), Deep(req.page))
  PROVE  Rest(u, req, parents, k) = Rest(t, req, parents, k)
<1>1. PICK p \in Page : p = req.page
  BY DEF Request
<1>2. SameLevels(u, t, Lo(p, k), Deep(p))
  BY <1>1, SameLevelsBack
<1>3. Over(u, req, parents, k) = Over(t, req, parents, k)
  <2>1. Over(u, req, parents, k) \subseteq Over(t, req, parents, k)
    BY SameOver
  <2>2. Over(t, req, parents, k) \subseteq Over(u, req, parents, k)
    BY <1>1, <1>2, SameOver
  <2> QED BY <2>1, <2>2
<1>4. Lo(p, k) \in 1..6 /\ Deep(p) \in 2..6 /\ Lo(p, k) <= Deep(p)
  <2>1. /\ Lo(p, k) \in 1..6 /\ Deep(p) \in 2..6 /\ Hi(p, k) \in 1..6
        /\ Lo(p, k) <= Hi(p, k) /\ Hi(p, k) <= Deep(p)
    BY <1>1, Shape
  <2> QED BY <2>1
<1>5. \A x \in Item : Level[x] = Deep(p) => u[x] = t[x]
  BY <1>1, <1>4 DEF SameLevels
<1>6. Under(u, req, parents, k) = Under(t, req, parents, k)
  BY <1>1, <1>3, <1>5 DEF Under, Born
<1> QED BY <1>3, <1>6 DEF Rest

-----------------------------------------------------------------------------
(* Tables u have what tables t have; rows may have been added or shown.    *)
Grown(t, u) ==
  \A x \in Born(t) : u[x] = t[x] \/ u[x] = [t[x] EXCEPT !.open = TRUE]

LEMMA RowOf ==
  ASSUME NEW t \in Sheet, NEW x \in Born(t)
  PROVE  x \in Item /\ t[x] \in Row
BY DEF Sheet, Born

LEMMA GrownFields ==
  ASSUME NEW t \in Sheet, NEW u \in Sheet, Grown(t, u), NEW x \in Born(t)
  PROVE  /\ x \in Born(u)
         /\ u[x].parent = t[x].parent /\ u[x].slug = t[x].slug
         /\ t[x].open => u[x].open
<1>1. x \in Item /\ t[x] \in Row
  BY RowOf
<1>2. [t[x] EXCEPT !.open = TRUE] \in Row
  BY <1>1 DEF Row
<1>3. u[x] \in Row
  BY <1>1, <1>2 DEF Grown
<1>4. x \in Born(u)
  BY <1>1, <1>3, HierarchyAssumption DEF Born
<1> QED BY <1>1, <1>4 DEF Grown, Row

LEMMA GrownUp ==
  ASSUME NEW t \in Sheet, NEW u \in Sheet, Grown(t, u), NEW x \in Born(t)
  PROVE  \A l \in 1..Level[x] :
           /\ Up(u, x, l) = Up(t, x, l)
           /\ u[Up(t, x, l)].parent = t[Up(t, x, l)].parent
           /\ u[Up(t, x, l)].slug = t[Up(t, x, l)].slug
           /\ t[Up(t, x, l)].open => u[Up(t, x, l)].open
<1>1. x \in Born(u) /\ 1 \in 1..Level[x]
  BY GrownFields, Ancestors
<1>2. \A y \in Born(t) : u[y].parent = t[y].parent
  BY GrownFields
<1>3. \A l \in 1..Level[x] : Up(u, x, l) = Up(t, x, l)
  BY <1>1, <1>2, SameUp
<1>4. \A l \in 1..Level[x] : Up(t, x, l) \in Born(t)
  BY Ancestors
<1> QED BY <1>3, <1>4, GrownFields

LEMMA GrownTwice ==
  ASSUME NEW t \in Sheet, NEW u \in Sheet, NEW w \in Sheet,
         Grown(t, u), Grown(u, w)
  PROVE  Grown(t, w)
<1> SUFFICES ASSUME NEW x \in Born(t)
             PROVE  w[x] = t[x] \/ w[x] = [t[x] EXCEPT !.open = TRUE]
  BY DEF Grown
<1>1. t[x] \in Row /\ x \in Born(u)
  BY RowOf, GrownFields
<1> QED BY <1>1 DEF Grown, Row

LEMMA GrownAlong ==
  ASSUME NEW t, NEW u, NEW x, NEW req, NEW levels,
         OpenAlong(t, x, levels),
         \A l \in levels : /\ Up(u, x, l) = Up(t, x, l)
                           /\ u[Up(t, x, l)].parent = t[Up(t, x, l)].parent
                           /\ u[Up(t, x, l)].slug = t[Up(t, x, l)].slug
                           /\ t[Up(t, x, l)].open => u[Up(t, x, l)].open
  PROVE  /\ OpenAlong(u, x, levels)
         /\ Asked(t, x, req, levels) => Asked(u, x, req, levels)
<1>1. ASSUME NEW l \in levels PROVE u[Up(u, x, l)].open
  <2>1. PICK y : y = Up(t, x, l)
    OBVIOUS
  <2>2. Up(u, x, l) = y /\ (t[y].open => u[y].open)
    BY <2>1
  <2>3. t[y].open
    BY <2>1 DEF OpenAlong
  <2> QED BY <2>2, <2>3
<1>2. \A l \in levels : u[Up(u, x, l)].slug = t[Up(t, x, l)].slug
  OBVIOUS
<1>3. OpenAlong(u, x, levels)
  BY <1>1 DEF OpenAlong
<1>4. Asked(t, x, req, levels) => Asked(u, x, req, levels)
  BY <1>2 DEF Asked
<1> QED BY <1>3, <1>4

LEMMA GrownFinds ==
  ASSUME NEW t \in Sheet, NEW u \in Sheet, Grown(t, u), NEW req \in Request,
         NEW k \in 1..Count(req.page), NEW parents
  PROVE  Finds(t, req, parents, k) \subseteq Finds(u, req, parents, k)
<1>1. PICK p \in Page : p = req.page
  BY DEF Request
<1>2. PICK lo \in 1..6, hi \in 1..6 : lo = Lo(p, k) /\ hi = Hi(p, k) /\ lo <= hi
  <2>1. Lo(p, k) \in 1..6 /\ Hi(p, k) \in 1..6 /\ Lo(p, k) <= Hi(p, k)
    BY <1>1, Shape
  <2> QED BY <2>1
<1> SUFFICES ASSUME NEW x \in Finds(t, req, parents, k)
             PROVE  x \in Finds(u, req, parents, k)
  OBVIOUS
<1>3. /\ x \in Born(t)
      /\ Level[x] = hi
      /\ OpenAlong(t, x, lo..hi)
      /\ t[Up(t, x, lo)].parent \in parents
      /\ Asked(t, x, req, lo..hi)
  BY <1>1, <1>2, FindsIs
<1>4. x \in Born(u)
  BY <1>3, GrownFields
<1>5. \A l \in lo..hi : /\ Up(u, x, l) = Up(t, x, l)
                        /\ u[Up(t, x, l)].parent = t[Up(t, x, l)].parent
                        /\ u[Up(t, x, l)].slug = t[Up(t, x, l)].slug
                        /\ t[Up(t, x, l)].open => u[Up(t, x, l)].open
  BY <1>2, <1>3, GrownUp
<1>6. lo \in lo..hi
  BY <1>2
<1>7. OpenAlong(u, x, lo..hi) /\ (Asked(t, x, req, lo..hi) => Asked(u, x, req, lo..hi))
  BY <1>3, <1>5, GrownAlong
<1>8. u[Up(u, x, lo)].parent \in parents
  <2>1. u[Up(u, x, lo)].parent = t[Up(t, x, lo)].parent
    BY <1>5, <1>6
  <2> QED BY <1>3, <2>1
<1> QED BY <1>1, <1>2, <1>3, <1>4, <1>7, <1>8, FindsIs

(* The more is shown, and the more was found, the more is listed.          *)
LEMMA GrownUnder ==
  ASSUME NEW t \in Sheet, NEW u \in Sheet, Grown(t, u), NEW req \in Request,
         NEW k \in 1..Count(req.page), NEW parents, NEW more, parents \subseteq more
  PROVE  Under(t, req, parents, k) \subseteq Under(u, req, more, k)
<1>1. PICK p \in Page : p = req.page
  BY DEF Request
<1>2. Over(t, req, parents, k) \subseteq Over(u, req, more, k)
  <2>1. CASE k = Count(p)
    BY <1>1, <2>1 DEF Over
  <2>2. CASE k # Count(p)
    <3>1. PICK lo \in 1..6, d \in 2..6 : lo = Lo(p, k) /\ d = Deep(p) /\ lo <= d - 1
      BY <1>1, <2>2, RowsAbove
    <3> SUFFICES ASSUME NEW x \in Over(t, req, parents, k)
                 PROVE  x \in Over(u, req, more, k)
      OBVIOUS
    <3>2. /\ x \in Born(t)
          /\ Level[x] = d - 1
          /\ OpenAlong(t, x, lo..(d - 1))
          /\ Asked(t, x, req, lo..(d - 1))
          /\ t[Up(t, x, lo)].parent \in parents
      BY <1>1, <2>2, <3>1 DEF Over
    <3>3. x \in Born(u)
      BY <3>2, GrownFields
    <3>4. \A l \in lo..(d - 1) : /\ Up(u, x, l) = Up(t, x, l)
                                 /\ u[Up(t, x, l)].parent = t[Up(t, x, l)].parent
                                 /\ u[Up(t, x, l)].slug = t[Up(t, x, l)].slug
                                 /\ t[Up(t, x, l)].open => u[Up(t, x, l)].open
      BY <3>1, <3>2, GrownUp
    <3>5. lo \in lo..(d - 1)
      BY <3>1
    <3>6. /\ OpenAlong(u, x, lo..(d - 1))
          /\ Asked(t, x, req, lo..(d - 1)) => Asked(u, x, req, lo..(d - 1))
      BY <3>2, <3>4, GrownAlong
    <3>7. u[Up(u, x, lo)].parent = t[Up(t, x, lo)].parent
      BY <3>4, <3>5
    <3>8. u[Up(u, x, lo)].parent \in more
      BY <3>2, <3>7
    <3> QED BY <1>1, <2>2, <3>1, <3>2, <3>3, <3>6, <3>8 DEF Over
  <2> QED BY <2>1, <2>2
<1> QED BY <1>2, GrownFields DEF Under

(* What a page lists.                                                      *)
LEMMA RestRows ==
  ASSUME NEW t \in Sheet, NEW req \in Request, NEW k \in 1..Count(req.page),
         NEW parents
  PROVE  Rows(Rest(t, req, parents, k)) = Under(t, req, parents, k)
<1>1. Rows(NotFound) = {}
  BY DEF Rows
<1>2. CASE Over(t, req, parents, k) = {}
  BY <1>1, <1>2 DEF Rest, Under
<1>3. CASE Over(t, req, parents, k) # {}
  <2>1. Under(t, req, parents, k) # NotFound
    BY HierarchyAssumption DEF Under, Born, NotFound
  <2> QED BY <1>1, <1>3, <2>1 DEF Rest, Listing, Rows
<1> QED BY <1>2, <1>3

(* A page is a set of rows, or not found.                                  *)
LEMMA PageTypes ==
  ASSUME NEW t \in Sheet, NEW req \in Request, NEW k \in 1..Count(req.page),
         NEW parents
  PROVE  /\ Rest(t, req, parents, k) \in (SUBSET Item) \cup {NotFound}
         /\ Finds(t, req, parents, k) \subseteq Item
         /\ Answer(t, req) \in (SUBSET Item) \cup {NotFound}
<1>1. req.page \in Page
  BY DEF Request
<1>2. 1 \in 1..Count(req.page)
  BY <1>1, Shape
<1>3. \A F, j : Under(t, req, F, j) \in SUBSET Item
  BY DEF Under, Born
<1>4. \A F, j : Rest(t, req, F, j) \in (SUBSET Item) \cup {NotFound}
  <2>1. ASSUME NEW F, NEW j PROVE Rest(t, req, F, j) \in (SUBSET Item) \cup {NotFound}
    <3>1. PICK xs : xs = Under(t, req, F, j)
      OBVIOUS
    <3>2. xs \in SUBSET Item
      BY <1>3, <3>1
    <3>3. PICK page : page = Rest(t, req, F, j)
      OBVIOUS
    <3>4. page = NotFound \/ page = xs
      BY <3>1, <3>3 DEF Rest, Listing
    <3>5. page \in (SUBSET Item) \cup {NotFound}
      BY <3>2, <3>4
    <3> QED BY <3>3, <3>5
  <2> QED BY <2>1
<1>5. Finds(t, req, parents, k) \subseteq Item
  BY DEF Finds, Below, Born
<1>6. Answer(t, req) = Rest(t, req, {Root}, 1)
  BY WholePage
<1> QED BY <1>4, <1>5, <1>6

-----------------------------------------------------------------------------
(***************************************************************************)
(* A request under way for req, with the tables t: its next query is the   *)
(* k-th, the query before found F; pages is what would have been listed so *)
(* far, levels and how tell the edits made during the request.             *)
(***************************************************************************)
(* The edits all fall on the tables of one query.                          *)
Together(req, levels) ==
  \E i \in 1..Count(req.page) :
     levels \cap (1..Deep(req.page)) \subseteq Queries(req.page)[i]

(* The page to come is one that was right at some instant; and as long as  *)
(* the tables already read are untouched, it is the one that is right,     *)
(* whatever becomes of the others.                                         *)
Follows(t, req, k, F, pages, levels) ==
  /\ Together(req, levels) => Rest(t, req, F, k) \in Range(pages)
  /\ levels \cap (1..(Lo(req.page, k) - 1)) = {} =>
       \A u \in Sheet : SameLevels(t, u, 1, Lo(req.page, k) - 1) =>
         Rest(u, req, F, k) = Answer(u, req)

(* While rows are only hidden, the page to come has no row that was hidden *)
(* at the start, and the queries so far lost none of those that are still  *)
(* public; while rows are only shown, the other way round.                 *)
Hides(t, req, k, F, pages, how) ==
  how \subseteq {"hide"} =>
    /\ Under(t, req, F, k) \subseteq Rows(Head(pages))
    /\ \A u \in Sheet : Grown(u, t) =>
         Under(u, req, {Root}, 1) \subseteq Under(u, req, F, k)

Shows(t, req, k, F, pages, how) ==
  how \subseteq {"show"} =>
    /\ Rows(Head(pages)) \subseteq Under(t, req, F, k)
    /\ \A u \in Sheet : Grown(t, u) =>
         Under(u, req, F, k) \subseteq Under(u, req, {Root}, 1)

(* The page listed is what the two properties ask for.                     *)
LooksRight(req, page, pages, levels, how) ==
  /\ Together(req, levels) => page \in Range(pages)
  /\ how \subseteq {"hide"} =>
       Rows(Last(pages)) \subseteq Rows(page) /\ Rows(page) \subseteq Rows(Head(pages))
  /\ how \subseteq {"show"} =>
       Rows(Head(pages)) \subseteq Rows(page) /\ Rows(page) \subseteq Rows(Last(pages))

LEMMA GrownNot ==
  ASSUME NEW t
  PROVE  Grown(t, t)
BY DEF Grown

(* A request comes in.                                                     *)
LEMMA AskStarts ==
  ASSUME NEW t \in Sheet, NEW req \in Request
  PROVE  LET pages == <<Answer(t, req)>>
         IN /\ Follows(t, req, 1, {Root}, pages, {})
            /\ Hides(t, req, 1, {Root}, pages, {})
            /\ Shows(t, req, 1, {Root}, pages, {})
<1> DEFINE pages == <<Answer(t, req)>>
<1>1. 1 \in 1..Count(req.page)
  <2>1. req.page \in Page
    BY DEF Request
  <2> QED BY <2>1, Shape
<1>2. \A u \in Sheet : Rest(u, req, {Root}, 1) = Answer(u, req)
  BY WholePage
<1>3. Rows(Head(pages)) = Under(t, req, {Root}, 1)
  <2>1. Rows(Rest(t, req, {Root}, 1)) = Under(t, req, {Root}, 1)
    BY <1>1, RestRows
  <2>2. Head(pages) = Rest(t, req, {Root}, 1)
    BY <1>2
  <2> QED BY <2>1, <2>2
<1>4. Rest(t, req, {Root}, 1) \in Range(pages)
  <2>1. 1 \in DOMAIN pages /\ pages[1] = Answer(t, req)
    OBVIOUS
  <2> QED BY <1>2, <2>1 DEF Range
<1> HIDE DEF pages
<1>5. Follows(t, req, 1, {Root}, pages, {})
  BY <1>2, <1>4 DEF Follows
<1>6. Hides(t, req, 1, {Root}, pages, {}) /\ Shows(t, req, 1, {Root}, pages, {})
  BY <1>3 DEF Hides, Shows
<1> QED BY <1>5, <1>6 DEF pages

(* A row is found.                                                         *)
LEMMA FindFollows ==
  ASSUME NEW t \in Sheet, NEW req \in Request, NEW k \in 1..Count(req.page),
         k < Count(req.page), NEW F, NEW pages, NEW levels,
         Follows(t, req, k, F, pages, levels)
  PROVE  Follows(t, req, k + 1, Finds(t, req, F, k), pages, levels)
<1>1. PICK p \in Page : p = req.page
  BY DEF Request
<1>2. PICK lo \in 1..6, hi \in 1..6 :
        lo = Lo(p, k) /\ hi = Hi(p, k) /\ lo <= hi /\ Lo(p, k + 1) = hi + 1
  <2>1. /\ Lo(p, k) \in 1..6 /\ Hi(p, k) \in 1..6 /\ Lo(p, k) <= Hi(p, k)
        /\ Lo(p, k + 1) = Hi(p, k) + 1
    BY <1>1, Shape
  <2> QED BY <2>1
<1>3. PICK G : G = Finds(t, req, F, k)
  OBVIOUS
<1>4. \A u \in Sheet : Rest(u, req, Finds(u, req, F, k), k + 1) = Rest(u, req, F, k)
  BY NextRest
<1>5. Together(req, levels) => Rest(t, req, G, k + 1) \in Range(pages)
  BY <1>3, <1>4 DEF Follows
<1>6. ASSUME levels \cap (1..((hi + 1) - 1)) = {},
             NEW u \in Sheet, SameLevels(t, u, 1, (hi + 1) - 1)
      PROVE  Rest(u, req, G, k + 1) = Answer(u, req)
  <2>1. \A l \in 1..(lo - 1) : l \in 1..((hi + 1) - 1)
    BY <1>2
  <2>2. levels \cap (1..(lo - 1)) = {}
    <3>1. \A l : l \in levels => l \notin 1..((hi + 1) - 1)
      BY <1>6
    <3>2. \A l : l \in levels => l \notin 1..(lo - 1)
      BY <2>1, <3>1
    <3> QED BY <3>2
  <2>3. SameLevels(t, u, 1, lo - 1) /\ SameLevels(t, u, lo, hi)
    <3>1. \A y \in Item : Level[y] \in 1..6
      BY HierarchyAssumption
    <3>2. ASSUME NEW y \in Item, Level[y] <= hi
          PROVE  u[y] = t[y]
      <4>1. 1 <= Level[y] /\ Level[y] <= (hi + 1) - 1
        BY <3>1, <3>2
      <4> QED BY <1>6, <4>1 DEF SameLevels
    <3>3. \A y \in Item : Level[y] <= lo - 1 => Level[y] <= hi
      BY <1>2, <3>1
    <3> QED BY <3>2, <3>3 DEF SameLevels
  <2>4. Rest(u, req, F, k) = Answer(u, req)
    BY <1>1, <1>2, <2>2, <2>3 DEF Follows
  <2>5. Finds(u, req, F, k) = G
    <3>1. SameLevels(u, t, lo, hi)
      BY <2>3, SameLevelsBack
    <3>2. Finds(u, req, F, k) \subseteq Finds(t, req, F, k)
      BY <1>1, <1>2, <2>3, SameFinds
    <3>3. Finds(t, req, F, k) \subseteq Finds(u, req, F, k)
      BY <1>1, <1>2, <3>1, SameFinds
    <3> QED BY <1>3, <3>2, <3>3
  <2> QED BY <1>4, <2>4, <2>5
<1>7. Follows(t, req, k + 1, G, pages, levels)
  BY <1>1, <1>2, <1>5, <1>6 DEF Follows
<1> QED BY <1>3, <1>7

LEMMA FindKeeps ==
  ASSUME NEW t \in Sheet, NEW req \in Request, NEW k \in 1..Count(req.page),
         k < Count(req.page), NEW F, NEW pages, NEW how
  PROVE  /\ Hides(t, req, k, F, pages, how) =>
              Hides(t, req, k + 1, Finds(t, req, F, k), pages, how)
         /\ Shows(t, req, k, F, pages, how) =>
              Shows(t, req, k + 1, Finds(t, req, F, k), pages, how)
<1>1. PICK G : G = Finds(t, req, F, k)
  OBVIOUS
<1>2. \A u \in Sheet : Under(u, req, Finds(u, req, F, k), k + 1) = Under(u, req, F, k)
  BY NextRest
<1>3. k + 1 \in 1..Count(req.page)
  <2>1. req.page \in Page
    BY DEF Request
  <2>2. Count(req.page) \in 2..5
    BY <2>1, Shape
  <2> QED BY <2>2
<1>4. ASSUME NEW u \in Sheet, Grown(u, t)
      PROVE  Under(u, req, F, k) \subseteq Under(u, req, G, k + 1)
  <2>1. Finds(u, req, F, k) \subseteq G
    BY <1>1, <1>4, GrownFinds
  <2>2. Under(u, req, Finds(u, req, F, k), k + 1) \subseteq Under(u, req, G, k + 1)
    BY <1>3, <2>1, GrownNot, GrownUnder
  <2> QED BY <1>2, <2>2
<1>5. ASSUME NEW u \in Sheet, Grown(t, u)
      PROVE  Under(u, req, G, k + 1) \subseteq Under(u, req, F, k)
  <2>1. G \subseteq Finds(u, req, F, k)
    BY <1>1, <1>5, GrownFinds
  <2>2. Under(u, req, G, k + 1) \subseteq Under(u, req, Finds(u, req, F, k), k + 1)
    BY <1>3, <2>1, GrownNot, GrownUnder
  <2> QED BY <1>2, <2>2
<1>6. Under(t, req, G, k + 1) = Under(t, req, F, k)
  BY <1>1, <1>2
<1>7. Hides(t, req, k, F, pages, how) => Hides(t, req, k + 1, G, pages, how)
  <2> SUFFICES ASSUME Hides(t, req, k, F, pages, how), how \subseteq {"hide"}
               PROVE  /\ Under(t, req, G, k + 1) \subseteq Rows(Head(pages))
                      /\ \A u \in Sheet : Grown(u, t) =>
                           Under(u, req, {Root}, 1) \subseteq Under(u, req, G, k + 1)
    BY DEF Hides
  <2>1. /\ Under(t, req, F, k) \subseteq Rows(Head(pages))
        /\ \A u \in Sheet : Grown(u, t) =>
             Under(u, req, {Root}, 1) \subseteq Under(u, req, F, k)
    BY DEF Hides
  <2> QED BY <1>4, <1>6, <2>1
<1>8. Shows(t, req, k, F, pages, how) => Shows(t, req, k + 1, G, pages, how)
  <2> SUFFICES ASSUME Shows(t, req, k, F, pages, how), how \subseteq {"show"}
               PROVE  /\ Rows(Head(pages)) \subseteq Under(t, req, G, k + 1)
                      /\ \A u \in Sheet : Grown(t, u) =>
                           Under(u, req, G, k + 1) \subseteq Under(u, req, {Root}, 1)
    BY DEF Shows
  <2>1. /\ Rows(Head(pages)) \subseteq Under(t, req, F, k)
        /\ \A u \in Sheet : Grown(t, u) =>
             Under(u, req, F, k) \subseteq Under(u, req, {Root}, 1)
    BY DEF Shows
  <2> QED BY <1>5, <1>6, <2>1
<1> QED BY <1>1, <1>7, <1>8

(* The request is answered.                                                *)
LEMMA ReplyLooksRight ==
  ASSUME NEW t \in Sheet, NEW req \in Request, NEW k \in 1..Count(req.page),
         NEW F, NEW pages, NEW levels, NEW how,
         Follows(t, req, k, F, pages, levels),
         Hides(t, req, k, F, pages, how), Shows(t, req, k, F, pages, how),
         Last(pages) = Answer(t, req)
  PROVE  LooksRight(req, Rest(t, req, F, k), pages, levels, how)
<1>1. 1 \in 1..Count(req.page)
  <2>1. req.page \in Page
    BY DEF Request
  <2> QED BY <2>1, Shape
<1>2. Rows(Last(pages)) = Under(t, req, {Root}, 1)
  <2>1. Rest(t, req, {Root}, 1) = Answer(t, req)
    BY WholePage
  <2>2. Rows(Rest(t, req, {Root}, 1)) = Under(t, req, {Root}, 1)
    BY <1>1, RestRows
  <2> QED BY <2>1, <2>2
<1>3. Rows(Rest(t, req, F, k)) = Under(t, req, F, k)
  BY RestRows
<1>4. Grown(t, t)
  BY GrownNot
<1>5. Together(req, levels) => Rest(t, req, F, k) \in Range(pages)
  BY DEF Follows
<1>6. how \subseteq {"hide"} =>
        /\ Under(t, req, {Root}, 1) \subseteq Under(t, req, F, k)
        /\ Under(t, req, F, k) \subseteq Rows(Head(pages))
  BY <1>4 DEF Hides
<1>7. how \subseteq {"show"} =>
        /\ Rows(Head(pages)) \subseteq Under(t, req, F, k)
        /\ Under(t, req, F, k) \subseteq Under(t, req, {Root}, 1)
  BY <1>4 DEF Shows
<1> QED BY <1>2, <1>3, <1>5, <1>6, <1>7 DEF LooksRight

-----------------------------------------------------------------------------
(* A row is written.                                                       *)
LEMMA SavedIsSound ==
  ASSUME NEW t \in Sheet, NEW x \in Item, NEW new \in Row, Fits(t, x, new),
         NEW u, u = [t EXCEPT ![x] = new]
  PROVE  u \in Sheet
<1>1. t \in [Item -> Row \cup {Unborn}] /\ Sound(t)
  BY DEF Sheet
<1>2. u \in [Item -> Row \cup {Unborn}]
  BY <1>1
<1>3. u[x] = new /\ \A y \in Item : y # x => u[y] = t[y]
  BY <1>1
<1>4. \A y : y \in Born(u) <=> y \in Born(t) \/ y = x
  BY <1>3, HierarchyAssumption DEF Born
<1>5. ASSUME NEW y \in Item, NEW r, Fits(t, y, r),
             Level[x] = Level[y] /\ x # y => new.parent # r.parent \/ new.slug # r.slug
      PROVE  Fits(u, y, r)
  <2>1. /\ IF Level[y] = 1 THEN r.parent = Root
           ELSE r.parent \in {q \in Born(t) : Level[q] = Level[y] - 1}
        /\ \A z \in Born(t) \ {y} : Level[z] = Level[y] =>
             t[z].parent # r.parent \/ t[z].slug # r.slug
    BY <1>5 DEF Fits
  <2>2. IF Level[y] = 1 THEN r.parent = Root
        ELSE r.parent \in {q \in Born(u) : Level[q] = Level[y] - 1}
    BY <1>4, <2>1
  <2>3. ASSUME NEW z \in Born(u) \ {y}, Level[z] = Level[y]
        PROVE  u[z].parent # r.parent \/ u[z].slug # r.slug
    <3>1. CASE z = x
      BY <1>3, <1>5, <2>3, <3>1
    <3>2. CASE z # x
      <4>1. z \in Born(t) \ {y} /\ u[z] = t[z]
        BY <1>3, <1>4, <3>2 DEF Born
      <4> QED BY <2>1, <2>3, <4>1
    <3> QED BY <3>1, <3>2
  <2> QED BY <2>2, <2>3 DEF Fits
<1>6. Fits(u, x, new)
  BY <1>5
<1>7. ASSUME NEW y \in Born(t), y # x
      PROVE  Fits(u, y, t[y])
  <2>1. y \in Item /\ Fits(t, y, t[y])
    BY <1>1 DEF Sound, Born
  <2>2. Level[x] = Level[y] => new.parent # t[y].parent \/ new.slug # t[y].slug
    BY <1>7 DEF Fits
  <2> QED BY <1>5, <2>1, <2>2
<1>8. Sound(u)
  <2> SUFFICES ASSUME NEW y \in Born(u) PROVE Fits(u, y, u[y])
    BY DEF Sound
  <2>1. CASE y = x
    BY <1>3, <1>6, <2>1
  <2>2. CASE y # x
    BY <1>3, <1>4, <1>7, <2>2 DEF Born
  <2> QED BY <2>1, <2>2
<1> QED BY <1>2, <1>8 DEF Sheet

LEMMA SavedLevels ==
  ASSUME NEW t \in Sheet, NEW x \in Item, NEW new,
         NEW u, u = [t EXCEPT ![x] = new]
  PROVE  \A a, b : ~(a <= Level[x] /\ Level[x] <= b) => SameLevels(t, u, a, b)
<1>1. \A y \in Item : y # x => u[y] = t[y]
  BY DEF Sheet
<1> QED BY <1>1 DEF SameLevels

(* Statements that hide, and statements that show or add.                  *)
LEMMA SavedGrows ==
  ASSUME NEW t \in Sheet, NEW x \in Item, NEW new \in Row, new # t[x],
         NEW u \in Sheet, u = [t EXCEPT ![x] = new]
  PROVE  /\ t[x] # Unborn /\ new = [t[x] EXCEPT !.open = FALSE] => Grown(u, t)
         /\ t[x] = Unborn \/ new = [t[x] EXCEPT !.open = TRUE] => Grown(t, u)
<1>1. t \in [Item -> Row \cup {Unborn}]
  BY DEF Sheet
<1>2. u[x] = new /\ \A y \in Item : y # x => u[y] = t[y]
  BY <1>1
<1>3. ASSUME t[x] # Unborn, new = [t[x] EXCEPT !.open = FALSE] PROVE Grown(u, t)
  <2>1. t[x] \in Row
    BY <1>1, <1>3
  <2>2. t[x] = [new EXCEPT !.open = TRUE]
    BY <1>3, <2>1 DEF Row
  <2> QED BY <1>2, <2>2 DEF Grown, Born
<1>4. ASSUME t[x] = Unborn \/ new = [t[x] EXCEPT !.open = TRUE] PROVE Grown(t, u)
  BY <1>2, <1>4 DEF Grown, Born
<1> QED BY <1>3, <1>4

LEMMA SaveFollows ==
  ASSUME NEW t \in Sheet, NEW x \in Item, NEW new,
         NEW u \in Sheet, u = [t EXCEPT ![x] = new],
         NEW req \in Request, NEW k \in 1..Count(req.page), NEW F,
         NEW pages, pages \in Seq((SUBSET Item) \cup {NotFound}),
         NEW levels, Follows(t, req, k, F, pages, levels)
  PROVE  Follows(u, req, k, F, Append(pages, Answer(u, req)), levels \cup {Level[x]})
<1>1. PICK p \in Page : p = req.page
  BY DEF Request
<1>2. PICK lo \in 1..6, d \in 2..6 : lo = Lo(p, k) /\ d = Deep(p) /\ lo <= d
  <2>1. /\ Lo(p, k) \in 1..6 /\ Hi(p, k) \in 1..6 /\ Deep(p) \in 2..6
        /\ Lo(p, k) <= Hi(p, k) /\ Hi(p, k) <= Deep(p)
    BY <1>1, Shape
  <2>2. Lo(p, k) <= Deep(p)
    BY <2>1
  <2> QED BY <2>1, <2>2
<1>3. PICK l \in 1..6 : l = Level[x]
  BY HierarchyAssumption
<1>4. PICK more : more = levels \cup {l}
  OBVIOUS
<1>5. PICK ps : ps = Append(pages, Answer(u, req))
  OBVIOUS
<1>6. Answer(u, req) \in Range(ps) /\ \A a \in Range(pages) : a \in Range(ps)
  <2>1. PICK a : a = Answer(u, req) /\ a \in (SUBSET Item) \cup {NotFound}
    BY PageTypes
  <2>2. /\ Len(ps) = Len(pages) + 1 /\ ps \in Seq((SUBSET Item) \cup {NotFound})
        /\ \A i \in 1..Len(pages) : ps[i] = pages[i]
        /\ ps[Len(ps)] = a
    <3>1. ps = Append(pages, a)
      BY <1>5, <2>1
    <3>2. PICK S : S = (SUBSET Item) \cup {NotFound}
      OBVIOUS
    <3>3. pages \in Seq(S) /\ a \in S
      BY <2>1, <3>2
    <3>4. /\ Len(ps) = Len(pages) + 1 /\ ps \in Seq(S)
          /\ \A i \in 1..Len(pages) : ps[i] = pages[i]
          /\ ps[Len(pages) + 1] = a
      BY <3>1, <3>3, AppendProperties
    <3> QED BY <3>2, <3>4
  <2>3. Len(pages) \in Nat /\ DOMAIN pages = 1..Len(pages)
        /\ DOMAIN ps = 1..Len(ps)
    BY <2>2, LenProperties
  <2>4. Len(ps) \in DOMAIN ps /\ \A i \in DOMAIN pages : i \in DOMAIN ps
    BY <2>2, <2>3
  <2> QED BY <2>1, <2>2, <2>3, <2>4 DEF Range
(* The queries done are untouched.                                         *)
<1>7. ASSUME more \cap (1..(lo - 1)) = {}, NEW w \in Sheet, SameLevels(u, w, 1, lo - 1)
      PROVE  Rest(w, req, F, k) = Answer(w, req)
  <2>1. levels \cap (1..(lo - 1)) = {} /\ l \notin 1..(lo - 1)
    BY <1>4, <1>7
  <2>2. ~(1 <= Level[x] /\ Level[x] <= lo - 1)
    BY <1>2, <1>3, <2>1
  <2>3. SameLevels(t, u, 1, lo - 1)
    BY <2>2, SavedLevels
  <2>4. SameLevels(t, w, 1, lo - 1)
    BY <1>7, <2>3 DEF SameLevels
  <2> QED BY <1>1, <1>2, <2>1, <2>4 DEF Follows
<1>8. ASSUME Together(req, more) PROVE Rest(u, req, F, k) \in Range(ps)
  <2>1. PICK i \in 1..Count(p) : more \cap (1..d) \subseteq Queries(p)[i]
    BY <1>1, <1>2, <1>8 DEF Together
  <2>2. CASE lo <= l /\ l <= d
    <3>1. \A j \in 1..Count(p) : /\ Lo(p, j) \in 1..6 /\ Hi(p, j) \in 1..6
                                 /\ Lo(p, j) <= Hi(p, j)
                                 /\ Queries(p)[j] = Lo(p, j)..Hi(p, j)
      BY Shape
    <3>2. PICK a \in 1..6, b \in 1..6 : a = Lo(p, i) /\ b = Hi(p, i)
      BY <3>1
    <3>3. l \in a..b
      <4>1. l \in more /\ l \in 1..d
        BY <1>2, <1>4, <2>2
      <4> QED BY <2>1, <3>1, <3>2, <4>1
    <3>4. lo <= a
      <4>1. CASE i = k
        BY <1>2, <3>2, <4>1
      <4>2. CASE k < i
        <5>1. Hi(p, k) < Lo(p, i) /\ Lo(p, k) <= Hi(p, k)
          BY <1>1, <3>1, <4>2, Shape
        <5>2. Hi(p, k) \in 1..6
          BY <1>1, <3>1
        <5> QED BY <1>2, <3>2, <5>1, <5>2
      <4>3. CASE i < k
        <5>1. Hi(p, i) < Lo(p, k)
          BY <1>1, <4>3, Shape
        <5> QED BY <1>2, <2>2, <3>2, <3>3, <5>1
      <4>4. Count(p) \in 2..5
        BY Shape
      <4> QED BY <1>1, <4>1, <4>2, <4>3, <4>4
    <3>5. \A m \in 1..(lo - 1) : m \in 1..d /\ m \notin a..b
      BY <1>2, <3>4
    <3>6. more \cap (1..(lo - 1)) = {}
      BY <2>1, <3>1, <3>2, <3>5
    <3>7. SameLevels(u, u, 1, lo - 1)
      BY DEF SameLevels
    <3> QED BY <1>6, <1>7, <3>6, <3>7
  <2>3. CASE ~(lo <= l /\ l <= d)
    <3>1. SameLevels(t, u, lo, d)
      BY <1>3, <2>3, SavedLevels
    <3>2. Rest(u, req, F, k) = Rest(t, req, F, k)
      BY <1>1, <1>2, <3>1, SameRest
    <3>3. Together(req, levels)
      BY <1>1, <1>2, <1>4, <2>1 DEF Together
    <3>4. Rest(t, req, F, k) \in Range(pages)
      BY <3>3 DEF Follows
    <3> QED BY <1>6, <3>2, <3>4
  <2> QED BY <2>2, <2>3
<1>9. Follows(u, req, k, F, ps, more)
  BY <1>1, <1>2, <1>7, <1>8 DEF Follows
<1> QED BY <1>3, <1>4, <1>5, <1>9

LEMMA SaveKeeps ==
  ASSUME NEW t \in Sheet, NEW u \in Sheet,
         NEW req \in Request, NEW k \in 1..Count(req.page), NEW F,
         NEW pages, NEW later, Head(later) = Head(pages), NEW how, NEW kind
  PROVE  /\ /\ Hides(t, req, k, F, pages, how)
            /\ kind = "hide" => Grown(u, t)
            => Hides(u, req, k, F, later, how \cup {kind})
         /\ /\ Shows(t, req, k, F, pages, how)
            /\ kind = "show" => Grown(t, u)
            => Shows(u, req, k, F, later, how \cup {kind})
<1>1. ASSUME Hides(t, req, k, F, pages, how), kind = "hide" => Grown(u, t)
      PROVE  Hides(u, req, k, F, later, how \cup {kind})
  <2> SUFFICES ASSUME how \cup {kind} \subseteq {"hide"}
               PROVE  /\ Under(u, req, F, k) \subseteq Rows(Head(pages))
                      /\ \A w \in Sheet : Grown(w, u) =>
                           Under(w, req, {Root}, 1) \subseteq Under(w, req, F, k)
    BY DEF Hides
  <2>1. Grown(u, t) /\ how \subseteq {"hide"}
    BY <1>1
  <2>2. /\ Under(t, req, F, k) \subseteq Rows(Head(pages))
        /\ \A w \in Sheet : Grown(w, t) =>
             Under(w, req, {Root}, 1) \subseteq Under(w, req, F, k)
    BY <1>1, <2>1 DEF Hides
  <2>3. Under(u, req, F, k) \subseteq Under(t, req, F, k)
    BY <2>1, GrownUnder
  <2>4. \A w \in Sheet : Grown(w, u) => Grown(w, t)
    BY <2>1, GrownTwice
  <2> QED BY <2>2, <2>3, <2>4
<1>2. ASSUME Shows(t, req, k, F, pages, how), kind = "show" => Grown(t, u)
      PROVE  Shows(u, req, k, F, later, how \cup {kind})
  <2> SUFFICES ASSUME how \cup {kind} \subseteq {"show"}
               PROVE  /\ Rows(Head(pages)) \subseteq Under(u, req, F, k)
                      /\ \A w \in Sheet : Grown(u, w) =>
                           Under(w, req, F, k) \subseteq Under(w, req, {Root}, 1)
    BY DEF Shows
  <2>1. Grown(t, u) /\ how \subseteq {"show"}
    BY <1>2
  <2>2. /\ Rows(Head(pages)) \subseteq Under(t, req, F, k)
        /\ \A w \in Sheet : Grown(t, w) =>
             Under(w, req, F, k) \subseteq Under(w, req, {Root}, 1)
    BY <1>2, <2>1 DEF Shows
  <2>3. Under(t, req, F, k) \subseteq Under(u, req, F, k)
    BY <2>1, GrownUnder
  <2>4. \A w \in Sheet : Grown(u, w) => Grown(t, w)
    BY <2>1, GrownTwice
  <2> QED BY <2>2, <2>3, <2>4
<1> QED BY <1>1, <1>2

-----------------------------------------------------------------------------
(* The invariant, for one visitor.                                         *)
Waiting(v) ==
  request[v] = Root =>
    query[v] = 0 /\ touched[v] = {} /\ kinds[v] = {} /\ ~failed[v]

Going(v) ==
  Underway(v) =>
    /\ request[v] \in Request /\ ~failed[v]
    /\ query[v] \in 1..Count(request[v].page)
    /\ found[v] # {} /\ answers[v] # <<>>
    /\ Last(answers[v]) = Answer(row, request[v])
    /\ Follows(row, request[v], query[v], found[v], answers[v], touched[v])
    /\ Hides(row, request[v], query[v], found[v], answers[v], kinds[v])
    /\ Shows(row, request[v], query[v], found[v], answers[v], kinds[v])

Done(v) ==
  Answered(v) =>
    IF failed[v] THEN shown[v] = NotFound
    ELSE LooksRight(request[v], shown[v], answers[v], touched[v], kinds[v])

BrowseInv == TypeOK /\ \A v \in Visitor : Waiting(v) /\ Going(v) /\ Done(v)

Held(v) == UNCHANGED <<request[v], query[v], found[v], shown[v], answers[v],
                       touched[v], kinds[v], failed[v]>>

(* Another visitor's step.                                                 *)
LEMMA OthersStay ==
  ASSUME NEW v \in Visitor, Waiting(v) /\ Going(v) /\ Done(v), Held(v),
         UNCHANGED row
  PROVE  Waiting(v)' /\ Going(v)' /\ Done(v)'
BY DEF Held, Waiting, Going, Done, Underway, Answered

LEMMA RowIsSheet ==
  TypeOK <=> /\ row \in Sheet
             /\ edits \in 0..MaxEdits
             /\ request \in [Visitor -> Request \cup {Root}]
             /\ query \in [Visitor -> 0..6]
             /\ found \in [Visitor -> SUBSET (Item \cup {Root})]
             /\ shown \in [Visitor -> (SUBSET Item) \cup {NotFound}]
             /\ answers \in [Visitor -> Seq((SUBSET Item) \cup {NotFound})]
             /\ touched \in [Visitor -> SUBSET (1..6)]
             /\ kinds \in [Visitor -> SUBSET {"hide", "show", "other"}]
             /\ failed \in [Visitor -> BOOLEAN]
BY DEF TypeOK, Sheet

LEMMA InitBrowses ==
  ASSUME Init
  PROVE  BrowseInv
<1>1. row \in [Item -> Row \cup {Unborn}] /\ Sound(row)
  BY HierarchyAssumption DEF Init
<1>2. TypeOK
  BY <1>1, HierarchyAssumption DEF Init, TypeOK
<1>3. ASSUME NEW v \in Visitor PROVE Waiting(v) /\ Going(v) /\ Done(v)
  BY DEF Init, Waiting, Going, Done, Underway, Answered
<1> QED BY <1>2, <1>3 DEF BrowseInv

LEMMA AskBrowses ==
  ASSUME BrowseInv, NEW v \in Visitor, Ask(v)
  PROVE  BrowseInv'
<1>1. /\ row \in Sheet /\ TypeOK
      /\ \A w \in Visitor : Waiting(w) /\ Going(w) /\ Done(w)
  BY RowIsSheet DEF BrowseInv
<1>2. PICK req, page : /\ req \in Request /\ page = Answer(row, req)
                       /\ request' = [request EXCEPT ![v] = req]
                       /\ answers' = [answers EXCEPT ![v] = <<page>>]
  <2>1. PICK p \in Page, c \in {x \in Item : Level[x] = 5} :
          LET req == [page |-> p,
                      chapter |-> IF p = "GalleryChapter" THEN c ELSE Root]
          IN /\ request' = [request EXCEPT ![v] = req]
             /\ answers' = [answers EXCEPT ![v] = <<Answer(row, req)>>]
    BY DEF Ask
  <2>2. PICK req : req = [page |-> p,
                          chapter |-> IF p = "GalleryChapter" THEN c ELSE Root]
    OBVIOUS
  <2>3. req \in Request
    BY <2>2 DEF Request
  <2> QED BY <2>1, <2>2, <2>3
<1>3. /\ query' = [query EXCEPT ![v] = 1]
      /\ found' = [found EXCEPT ![v] = {Root}]
      /\ UNCHANGED <<row, edits, shown, touched, kinds, failed>>
      /\ request[v] = Root
  BY DEF Ask
<1>4. page \in (SUBSET Item) \cup {NotFound}
  <2>1. req.page \in Page
    BY <1>2 DEF Request
  <2>2. 1 \in 1..Count(req.page)
    BY <2>1, Shape
  <2> QED BY <1>1, <1>2, <2>2, PageTypes
<1>5. TypeOK'
  <2>1. <<page>> \in Seq((SUBSET Item) \cup {NotFound})
    BY <1>4
  <2>2. request' \in [Visitor -> Request \cup {Root}]
    BY <1>1, <1>2 DEF TypeOK
  <2>3. answers' \in [Visitor -> Seq((SUBSET Item) \cup {NotFound})]
    BY <1>1, <1>2, <2>1 DEF TypeOK
  <2>4. query' \in [Visitor -> 0..6] /\ found' \in [Visitor -> SUBSET (Item \cup {Root})]
    BY <1>1, <1>3 DEF TypeOK
  <2> QED BY <1>1, <1>3, <2>2, <2>3, <2>4 DEF TypeOK
<1>6. /\ request'[v] = req /\ answers'[v] = <<page>> /\ query'[v] = 1
      /\ found'[v] = {Root} /\ touched'[v] = {} /\ kinds'[v] = {} /\ ~failed'[v]
  BY <1>1, <1>2, <1>3 DEF TypeOK, Waiting
<1>7. Waiting(v)' /\ Going(v)' /\ Done(v)'
  <2>1. LET pages == <<Answer(row, req)>>
        IN /\ Follows(row, req, 1, {Root}, pages, {})
           /\ Hides(row, req, 1, {Root}, pages, {})
           /\ Shows(row, req, 1, {Root}, pages, {})
    BY <1>1, <1>2, AskStarts
  <2>2. /\ Follows(row, req, 1, {Root}, <<page>>, {})
        /\ Hides(row, req, 1, {Root}, <<page>>, {})
        /\ Shows(row, req, 1, {Root}, <<page>>, {})
    BY <1>2, <2>1
  <2>3. 1 \in 1..Count(req.page)
    <3>1. req.page \in Page
      BY <1>2 DEF Request
    <3> QED BY <3>1, Shape
  <2>4. Last(<<page>>) = page /\ <<page>> # <<>>
    BY DEF Last
  <2>5. req # Root
    BY <1>2, HierarchyAssumption
  <2>6. Going(v)'
    BY <1>2, <1>3, <1>6, <2>2, <2>3, <2>4 DEF Going
  <2>7. Waiting(v)' /\ Done(v)'
    BY <1>6, <2>5 DEF Waiting, Done, Answered, Underway
  <2> QED BY <2>6, <2>7
<1>8. ASSUME NEW w \in Visitor, w # v PROVE Waiting(w)' /\ Going(w)' /\ Done(w)'
  <2>1. Held(w) /\ UNCHANGED row
    BY <1>1, <1>2, <1>3, <1>8 DEF TypeOK, Held
  <2> QED BY <1>1, <2>1, OthersStay
<1> QED BY <1>5, <1>7, <1>8 DEF BrowseInv

(* The page is the one the queries make of the tables as they are now.     *)
LEMMA ReplyBrowses ==
  ASSUME BrowseInv, NEW v \in Visitor, Underway(v),
         NEW page, page = Rest(row, request[v], found[v], query[v]),
         Reply(v, page), UNCHANGED <<row, edits, request, answers, touched, kinds, failed>>
  PROVE  BrowseInv'
<1>1. /\ row \in Sheet /\ TypeOK
      /\ \A w \in Visitor : Waiting(w) /\ Going(w) /\ Done(w)
  BY RowIsSheet DEF BrowseInv
<1>2. PICK req, k, F : req = request[v] /\ k = query[v] /\ F = found[v]
  OBVIOUS
<1>3. PICK pages, levels, how :
        pages = answers[v] /\ levels = touched[v] /\ how = kinds[v]
  OBVIOUS
<1>4. /\ req \in Request /\ k \in 1..Count(req.page) /\ ~failed[v]
      /\ Last(pages) = Answer(row, req)
      /\ Follows(row, req, k, F, pages, levels)
      /\ Hides(row, req, k, F, pages, how)
      /\ Shows(row, req, k, F, pages, how)
  BY <1>1, <1>2, <1>3 DEF Going
<1>5. page \in (SUBSET Item) \cup {NotFound}
  BY <1>1, <1>2, <1>4, PageTypes
<1>6. /\ shown' = [shown EXCEPT ![v] = page]
      /\ query' = [query EXCEPT ![v] = 0]
      /\ found' = [found EXCEPT ![v] = {}]
  BY DEF Reply
<1>7. TypeOK'
  <2>1. shown' \in [Visitor -> (SUBSET Item) \cup {NotFound}]
    BY <1>1, <1>5, <1>6 DEF TypeOK
  <2>2. query' \in [Visitor -> 0..6] /\ found' \in [Visitor -> SUBSET (Item \cup {Root})]
    BY <1>1, <1>6 DEF TypeOK
  <2> QED BY <1>1, <2>1, <2>2 DEF TypeOK
<1>8. Waiting(v)' /\ Going(v)' /\ Done(v)'
  <2>1. LooksRight(req, page, pages, levels, how)
    BY <1>1, <1>2, <1>4, ReplyLooksRight
  <2>2. /\ shown'[v] = page /\ query'[v] = 0 /\ request'[v] = req
        /\ answers'[v] = pages /\ touched'[v] = levels /\ kinds'[v] = how
        /\ ~failed'[v]
    BY <1>1, <1>2, <1>3, <1>4, <1>6 DEF TypeOK
  <2>3. req # Root
    BY <1>4, HierarchyAssumption
  <2> QED BY <2>1, <2>2, <2>3 DEF Waiting, Going, Done, Underway, Answered
<1>9. ASSUME NEW w \in Visitor, w # v PROVE Waiting(w)' /\ Going(w)' /\ Done(w)'
  <2>1. Held(w) /\ UNCHANGED row
    BY <1>1, <1>6, <1>9 DEF TypeOK, Held
  <2> QED BY <1>1, <2>1, OthersStay
<1> QED BY <1>7, <1>8, <1>9 DEF BrowseInv

(* One of the queries fails.                                               *)
LEMMA FailBrowses ==
  ASSUME BrowseInv, NEW v \in Visitor, Underway(v), Fail(v),
         UNCHANGED <<row, edits, request, answers, touched, kinds>>
  PROVE  BrowseInv'
<1>1. /\ TypeOK /\ request[v] # Root
      /\ \A w \in Visitor : Waiting(w) /\ Going(w) /\ Done(w)
  BY DEF BrowseInv, Waiting, Underway
<1>2. /\ shown' = [shown EXCEPT ![v] = NotFound]
      /\ query' = [query EXCEPT ![v] = 0]
      /\ found' = [found EXCEPT ![v] = {}]
      /\ failed' = [failed EXCEPT ![v] = TRUE]
  BY DEF Fail, Reply
<1>3. TypeOK'
  <2>1. /\ shown' \in [Visitor -> (SUBSET Item) \cup {NotFound}]
        /\ query' \in [Visitor -> 0..6]
        /\ found' \in [Visitor -> SUBSET (Item \cup {Root})]
        /\ failed' \in [Visitor -> BOOLEAN]
    BY <1>1, <1>2 DEF TypeOK
  <2> QED BY <1>1, <2>1 DEF TypeOK
<1>4. Waiting(v)' /\ Going(v)' /\ Done(v)'
  <2>1. shown'[v] = NotFound /\ query'[v] = 0 /\ failed'[v] /\ request'[v] # Root
    BY <1>1, <1>2 DEF TypeOK
  <2> QED BY <2>1 DEF Waiting, Going, Done, Underway
<1>5. ASSUME NEW w \in Visitor, w # v PROVE Waiting(w)' /\ Going(w)' /\ Done(w)'
  <2>1. Held(w) /\ UNCHANGED row
    BY <1>1, <1>2, <1>5 DEF TypeOK, Held
  <2> QED BY <1>1, <2>1, OthersStay
<1> QED BY <1>3, <1>4, <1>5 DEF BrowseInv

LEMMA FindRowBrowses ==
  ASSUME BrowseInv, NEW v \in Visitor, FindRow(v)
  PROVE  BrowseInv'
<1>1. /\ row \in Sheet /\ TypeOK
      /\ \A w \in Visitor : Waiting(w) /\ Going(w) /\ Done(w)
      /\ Underway(v)
  BY RowIsSheet DEF BrowseInv, FindRow
<1>2. PICK req, k, F : req = request[v] /\ k = query[v] /\ F = found[v]
  OBVIOUS
<1>3. PICK pages, levels, how :
        pages = answers[v] /\ levels = touched[v] /\ how = kinds[v]
  OBVIOUS
<1>4. /\ req \in Request /\ k \in 1..Count(req.page) /\ ~failed[v]
      /\ pages # <<>> /\ Last(pages) = Answer(row, req)
      /\ Follows(row, req, k, F, pages, levels)
      /\ Hides(row, req, k, F, pages, how)
      /\ Shows(row, req, k, F, pages, how)
  BY <1>1, <1>2, <1>3 DEF Going
<1>5. PICK G : G = Finds(row, req, F, k)
  OBVIOUS
<1>6. /\ k < Count(req.page)
      /\ \/ Fail(v)
         \/ G = {} /\ Reply(v, NotFound) /\ UNCHANGED failed
         \/ /\ G # {}
            /\ found' = [found EXCEPT ![v] = G]
            /\ query' = [query EXCEPT ![v] = k + 1]
            /\ UNCHANGED <<shown, failed>>
      /\ UNCHANGED <<row, edits, request, answers, touched, kinds>>
  BY <1>2, <1>5 DEF FindRow, Finds, Count
<1>7. CASE G = {} /\ Reply(v, NotFound) /\ UNCHANGED failed
  <2>1. k + 1 \in 1..Count(req.page)
    <3>1. req.page \in Page
      BY <1>4 DEF Request
    <3>2. Count(req.page) \in 2..5
      BY <3>1, Shape
    <3> QED BY <1>4, <1>6, <3>2
  <2>2. Rest(row, req, F, k) = NotFound
    <3>1. Rest(row, req, G, k + 1) = Rest(row, req, F, k)
      BY <1>1, <1>4, <1>5, <1>6, NextRest
    <3>2. Rest(row, req, G, k + 1) = NotFound
      BY <1>1, <1>4, <1>7, <2>1, NothingFound
    <3> QED BY <3>1, <3>2
  <2> QED BY <1>1, <1>2, <1>6, <1>7, <2>2, ReplyBrowses
<1>8. CASE /\ G # {}
           /\ found' = [found EXCEPT ![v] = G]
           /\ query' = [query EXCEPT ![v] = k + 1]
           /\ UNCHANGED <<shown, failed>>
  <2>1. k + 1 \in 1..Count(req.page) /\ k + 1 \in 0..6
    <3>1. req.page \in Page
      BY <1>4 DEF Request
    <3>2. Count(req.page) \in 2..5
      BY <3>1, Shape
    <3> QED BY <1>4, <1>6, <3>2
  <2>2. G \subseteq Item
    BY <1>1, <1>4, <1>5, PageTypes
  <2>3. TypeOK'
    <3>1. query' \in [Visitor -> 0..6]
      BY <1>1, <1>8, <2>1 DEF TypeOK
    <3>2. found' \in [Visitor -> SUBSET (Item \cup {Root})]
      BY <1>1, <1>8, <2>2 DEF TypeOK
    <3> QED BY <1>1, <1>6, <1>8, <3>1, <3>2 DEF TypeOK
  <2>4. /\ Follows(row, req, k + 1, G, pages, levels)
        /\ Hides(row, req, k + 1, G, pages, how)
        /\ Shows(row, req, k + 1, G, pages, how)
    BY <1>1, <1>4, <1>5, <1>6, FindFollows, FindKeeps
  <2>5. /\ found'[v] = G /\ query'[v] = k + 1 /\ request'[v] = req
        /\ answers'[v] = pages /\ touched'[v] = levels /\ kinds'[v] = how
        /\ row' = row /\ ~failed'[v]
    BY <1>1, <1>2, <1>3, <1>4, <1>6, <1>8 DEF TypeOK
  <2>6. req # Root /\ k + 1 # 0
    BY <1>4, <2>1, HierarchyAssumption
  <2>7. Waiting(v)' /\ Done(v)'
    BY <2>5, <2>6 DEF Waiting, Done, Answered, Underway
  <2>8. Going(v)'
    BY <1>4, <1>8, <2>1, <2>4, <2>5 DEF Going
  <2>9. ASSUME NEW w \in Visitor, w # v PROVE Waiting(w)' /\ Going(w)' /\ Done(w)'
    <3>1. Held(w) /\ UNCHANGED row
      BY <1>1, <1>6, <1>8, <2>9 DEF TypeOK, Held
    <3> QED BY <1>1, <3>1, OthersStay
  <2> QED BY <2>3, <2>7, <2>8, <2>9 DEF BrowseInv
<1>9. CASE Fail(v)
  BY <1>1, <1>6, <1>9, FailBrowses
<1> QED BY <1>6, <1>7, <1>8, <1>9

LEMMA ListRowsBrowses ==
  ASSUME BrowseInv, NEW v \in Visitor, ListRows(v)
  PROVE  BrowseInv'
<1>1. /\ row \in Sheet /\ Underway(v)
      /\ request[v] \in Request /\ query[v] = Count(request[v].page)
      /\ found[v] # {}
  BY RowIsSheet DEF BrowseInv, Going, ListRows, Count
<1>2. PICK req, F : req = request[v] /\ F = found[v]
  OBVIOUS
<1>3. PICK page : page = Listing(req, Below(row, F, Last(Queries(req.page))))
  OBVIOUS
<1>4. /\ Fail(v) \/ (Reply(v, page) /\ UNCHANGED failed)
      /\ UNCHANGED <<row, edits, request, answers, touched, kinds>>
  <2>1. \/ Fail(v)
        \/ /\ Reply(v, Listing(req, Below(row, F, Last(Queries(req.page)))))
           /\ UNCHANGED failed
    BY ONLY <1>2, ListRows(v) DEF ListRows
  <2>2. UNCHANGED <<row, edits, request, answers, touched, kinds>>
    BY ONLY ListRows(v) DEF ListRows
  <2> QED BY <1>3, <2>1, <2>2
<1>5. page = Rest(row, req, F, Count(req.page))
  BY <1>1, <1>2, <1>3, LastQuery
<1>6. CASE Fail(v)
  BY <1>1, <1>4, <1>6, FailBrowses
<1>7. CASE Reply(v, page) /\ UNCHANGED failed
  BY <1>1, <1>2, <1>4, <1>5, <1>7, ReplyBrowses
<1> QED BY <1>4, <1>6, <1>7

(* A statement of an admin.                                                *)
LEMMA SaveBrowses ==
  ASSUME BrowseInv, NEW x \in Item, NEW new \in Row, Save(x, new)
  PROVE  BrowseInv'
<1>1. /\ row \in Sheet /\ TypeOK
      /\ \A w \in Visitor : Waiting(w) /\ Going(w) /\ Done(w)
  BY RowIsSheet DEF BrowseInv
<1>2. PICK t, u : t = row /\ u = row'
  OBVIOUS
<1>3. u = [t EXCEPT ![x] = new] /\ Fits(t, x, new) /\ new # t[x] /\ t \in Sheet
  BY <1>1, <1>2 DEF Save
<1>4. u \in Sheet
  BY <1>3, SavedIsSound
<1>5. PICK kind : kind = Kind(x, new)
  OBVIOUS
<1>6. /\ kind = "hide" => Grown(u, t)
      /\ kind = "show" => Grown(t, u)
      /\ kind \in {"hide", "show", "other"}
  <2>1. /\ kind = "hide" => t[x] # Unborn /\ new = [t[x] EXCEPT !.open = FALSE]
        /\ kind = "show" => t[x] = Unborn \/ new = [t[x] EXCEPT !.open = TRUE]
        /\ kind \in {"hide", "show", "other"}
    BY <1>2, <1>5 DEF Kind
  <2> QED BY <1>3, <1>4, <2>1, SavedGrows
<1>7. /\ edits < MaxEdits /\ edits' = edits + 1
      /\ UNCHANGED <<request, query, found, shown, failed>>
      /\ answers' = [v \in Visitor |-> IF Underway(v)
                       THEN Append(answers[v], Answer(u, request[v])) ELSE answers[v]]
      /\ touched' = [v \in Visitor |->
                       IF Underway(v) THEN touched[v] \cup {Level[x]} ELSE touched[v]]
      /\ kinds' = [v \in Visitor |->
                       IF Underway(v) THEN kinds[v] \cup {kind} ELSE kinds[v]]
  BY <1>2, <1>5 DEF Save
<1>8. Level[x] \in 1..6
  BY HierarchyAssumption
<1>9. ASSUME NEW v \in Visitor, ~Underway(v)
      PROVE  /\ Waiting(v)' /\ Going(v)' /\ Done(v)'
             /\ answers'[v] \in Seq((SUBSET Item) \cup {NotFound})
  <2>1. UNCHANGED <<request[v], query[v], found[v], shown[v], answers[v],
                    touched[v], kinds[v], failed[v]>>
    BY <1>7, <1>9
  <2> QED BY <1>1, <1>9, <2>1 DEF Waiting, Going, Done, Underway, Answered, TypeOK
<1>10. ASSUME NEW v \in Visitor, Underway(v)
       PROVE  /\ Waiting(v)' /\ Going(v)' /\ Done(v)'
              /\ answers'[v] \in Seq((SUBSET Item) \cup {NotFound})
  <2>1. PICK req, k, F : req = request[v] /\ k = query[v] /\ F = found[v]
    OBVIOUS
  <2>2. PICK pages, levels, how :
          pages = answers[v] /\ levels = touched[v] /\ how = kinds[v]
    OBVIOUS
  <2>3. /\ req \in Request /\ k \in 1..Count(req.page) /\ ~failed[v]
        /\ F # {} /\ pages # <<>>
        /\ Follows(t, req, k, F, pages, levels)
        /\ Hides(t, req, k, F, pages, how)
        /\ Shows(t, req, k, F, pages, how)
    BY <1>1, <1>2, <1>10, <2>1, <2>2 DEF Going
  <2>4. pages \in Seq((SUBSET Item) \cup {NotFound})
    BY <1>1, <2>2 DEF TypeOK
  <2>5. PICK page : page = Answer(u, req) /\ page \in (SUBSET Item) \cup {NotFound}
    BY <1>4, <2>3, PageTypes
  <2>6. PICK later : later = Append(pages, page)
    OBVIOUS
  <2>7. /\ later \in Seq((SUBSET Item) \cup {NotFound}) /\ later # <<>>
        /\ Last(later) = page /\ Head(later) = Head(pages)
    <3>1. Head(later) = Head(pages)
      BY <2>3, <2>4, <2>6, HeadTailAppend
    <3>2. /\ later \in Seq((SUBSET Item) \cup {NotFound}) /\ later # <<>>
          /\ Len(later) = Len(pages) + 1
          /\ later[Len(pages) + 1] = page
      BY <2>4, <2>5, <2>6, AppendProperties
    <3> QED BY <3>1, <3>2 DEF Last
  <2>8. Follows(u, req, k, F, later, levels \cup {Level[x]})
    BY <1>3, <1>4, <2>3, <2>4, <2>5, <2>6, SaveFollows
  <2>9. /\ Hides(u, req, k, F, later, how \cup {kind})
        /\ Shows(u, req, k, F, later, how \cup {kind})
    BY <1>3, <1>4, <1>6, <2>3, <2>7, SaveKeeps
  <2>10. /\ request'[v] = req /\ query'[v] = k /\ found'[v] = F
         /\ answers'[v] = later /\ touched'[v] = levels \cup {Level[x]}
         /\ kinds'[v] = how \cup {kind} /\ ~failed'[v]
    BY <1>7, <1>10, <2>1, <2>2, <2>3, <2>5, <2>6
  <2>11. req # Root /\ k # 0
    BY <1>10, <2>1, <2>3, HierarchyAssumption DEF Underway
  <2>12. Waiting(v)' /\ Done(v)'
    BY <2>10, <2>11 DEF Waiting, Done, Answered, Underway
  <2>13. Going(v)'
    BY <1>2, <2>3, <2>5, <2>7, <2>8, <2>9, <2>10 DEF Going
  <2> QED BY <2>7, <2>10, <2>12, <2>13
<1>11. TypeOK'
  <2>1. row' \in [Item -> Row \cup {Unborn}] /\ Sound(row')
    <3>1. row' \in Sheet
      BY <1>2, <1>4
    <3> QED BY <3>1 DEF Sheet
  <2>2. edits' \in 0..MaxEdits
    BY <1>1, <1>7, HierarchyAssumption DEF TypeOK
  <2>3. answers' \in [Visitor -> Seq((SUBSET Item) \cup {NotFound})]
    <3>1. \A v \in Visitor : answers'[v] \in Seq((SUBSET Item) \cup {NotFound})
      BY <1>9, <1>10
    <3>2. answers' = [v \in Visitor |-> answers'[v]]
      BY <1>7
    <3> QED BY <3>1, <3>2
  <2>4. touched' \in [Visitor -> SUBSET (1..6)]
    BY <1>1, <1>7, <1>8 DEF TypeOK
  <2>5. kinds' \in [Visitor -> SUBSET {"hide", "show", "other"}]
    BY <1>1, <1>6, <1>7 DEF TypeOK
  <2> QED BY <1>1, <1>7, <2>1, <2>2, <2>3, <2>4, <2>5 DEF TypeOK
<1> QED BY <1>9, <1>10, <1>11 DEF BrowseInv

LEMMA StepBrowses ==
  ASSUME BrowseInv, [Next]_vars
  PROVE  BrowseInv'
<1>1. CASE \E v \in Visitor : Ask(v)
  BY <1>1, AskBrowses
<1>2. CASE \E v \in Visitor : FindRow(v)
  BY <1>2, FindRowBrowses
<1>3. CASE \E v \in Visitor : ListRows(v)
  BY <1>3, ListRowsBrowses
<1>4. CASE \E x \in Item : Create(x) \/ Update(x)
  BY <1>4, SaveBrowses DEF Create, Update
<1>5. CASE UNCHANGED vars
  <2>1. \A v \in Visitor : Held(v)
    BY <1>5 DEF vars, Held
  <2>2. UNCHANGED row /\ TypeOK'
    BY <1>5 DEF vars, BrowseInv, TypeOK
  <2> QED BY <2>1, <2>2, OthersStay DEF BrowseInv
<1> QED BY <1>1, <1>2, <1>3, <1>4, <1>5 DEF Next

LEMMA SpecBrowses == Spec => []BrowseInv
<1>1. Init => BrowseInv
  BY InitBrowses
<1>2. BrowseInv /\ [Next]_vars => BrowseInv'
  BY StepBrowses
<1> QED BY <1>1, <1>2, PTL DEF Spec

-----------------------------------------------------------------------------
(* Every variable keeps its type; in particular no sequence of statements  *)
(* and requests brings the tables into a state the foreign keys and the    *)
(* UNIQUE constraints forbid.                                              *)
THEOREM BrowseTypes == Spec => []TypeOK
<1>1. BrowseInv => TypeOK
  BY DEF BrowseInv
<1> QED BY <1>1, SpecBrowses, PTL

(* A page whose queries see different snapshots is still one that was      *)
(* right at some instant of the request, if the edits during it fall on    *)
(* the tables of one of its queries; a request one of whose queries fails  *)
(* is told that there is no such page, and shows nothing.                  *)
THEOREM LooksAtomic == Spec => []OneTableLooksAtomic
<1>1. BrowseInv => OneTableLooksAtomic
  <2> SUFFICES ASSUME BrowseInv, NEW v \in Visitor, Answered(v)
               PROVE  LET qs == Queries(request[v].page)
                          read == UNION Range(qs)
                      IN (\E i \in 1..Len(qs) : touched[v] \cap read \subseteq qs[i])
                           => \/ shown[v] \in Range(answers[v])
                              \/ failed[v] /\ shown[v] = NotFound
    BY DEF OneTableLooksAtomic
  <2>1. PICK req : req = request[v] /\ req \in Request
    BY DEF BrowseInv, TypeOK, Answered
  <2>2. req.page \in Page
    BY <2>1 DEF Request
  <2>3. UNION Range(Queries(req.page)) = 1..Deep(req.page)
    BY <2>2, ReadLevels
  <2>4. Together(req, touched[v]) =>
          \/ shown[v] \in Range(answers[v])
          \/ failed[v] /\ shown[v] = NotFound
    BY <2>1 DEF BrowseInv, Done, LooksRight
  <2> QED BY <2>1, <2>3, <2>4 DEF Together, Count
<1> QED BY <1>1, SpecBrowses, PTL

(* What is hidden when a page is asked for does not appear on it, and,     *)
(* unless a query of it failed, what is public when it is answered does,   *)
(* while rows are only hidden; the other way round while they are only     *)
(* published or added.                                                     *)
THEOREM HidesAndShows == Spec => []HidingHidesShowingShows
<1>1. BrowseInv => HidingHidesShowingShows
  BY DEF BrowseInv, Done, LooksRight, HidingHidesShowingShows, Rows
<1> QED BY <1>1, SpecBrowses, PTL
=============================================================================
