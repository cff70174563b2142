---------------------------- MODULE PagingProofs ----------------------------
(***************************************************************************)
(* Proofs about Paging, for lists, pages and machine integers of any size  *)
(* and any number of readers and edits.                                    *)
(*                                                                         *)
(* The three properties follow from two invariants. RequestInv, per        *)
(* reader: the COUNT a request holds is off by no more than the rows that  *)
(* came and went since (CountKept), a corrected page is the last one by    *)
(* that COUNT (Corrected), and the offsets of the pages that Next leads to *)
(* do not wrap (InsideWord). ReviewInv, which rests on the first: of the   *)
(* rows there all the time, on the places a review has passed, it has      *)
(* missed no more than went (PassedSeen); MissesLittle alone is not kept   *)
(* by a step to the next page.                                             *)
(*                                                                         *)
(* A row of rank k, with k rows before it, is on page k \div n + 1. The    *)
(* lemmas on ranks say that they are 0..Cardinality(P) - 1, each of one    *)
(* row (Rank...), that a row that comes moves others back and never        *)
(* forward (RankGrows), and that one that goes moves the rows behind it    *)
(* one place forward (RankWithout).                                        *)
(***************************************************************************)
EXTENDS Paging, FiniteSetTheorems, TLAPS

(* Euclidean division.                                                     *)
LEMMA Division ==
  ASSUME NEW x \in Nat, NEW n \in Nat \ {0}
  PROVE  /\ x \div n \in Nat /\ x % n \in 0..(n - 1)
         /\ x = n * (x \div n) + (x % n)
OBVIOUS

(* The quotient is the only number with these bounds.                      *)
LEMMA Quotient ==
  ASSUME NEW x \in Nat, NEW n \in Nat \ {0}, NEW q \in Nat,
         n * q <= x, x < n * q + n
  PROVE  x \div n = q
<1>1. PICK d \in Nat : d = x \div n
  BY Division
<1>2. n * d <= x /\ x < n * d + n
  BY <1>1, Division
<1>3. CASE d < q
  <2>1. d + 1 <= q
    BY <1>3
  <2>2. n * (d + 1) <= n * q
    BY <2>1
  <2>3. n * (d + 1) = n * d + n
    OBVIOUS
  <2> QED BY <1>2, <2>2, <2>3
<1>4. CASE q < d
  <2>1. q + 1 <= d
    BY <1>4
  <2>2. n * (q + 1) <= n * d
    BY <2>1
  <2>3. n * (q + 1) = n * q + n
    OBVIOUS
  <2> QED BY <1>2, <2>2, <2>3
<1> QED BY <1>1, <1>3, <1>4

(* Half the numbers of the machine are negative.                           *)
LEMMA WordHalves == MaxInt \in Nat /\ Word = 2 * (MaxInt + 1)
BY PagingAssumption, FS_CardinalityType DEF MaxInt

(* Small numbers are represented as they are, the others somehow.          *)
LEMMA WrapIs ==
  ASSUME NEW i \in Int
  PROVE  /\ Wrap(i) \in -(Word \div 2)..MaxInt
         /\ i \in 0..MaxInt => Wrap(i) = i
<1>1. PICK h \in Nat : h = Word \div 2 /\ h = MaxInt + 1 /\ Word = 2 * h
  BY WordHalves DEF MaxInt
<1>2. h > 0
  BY <1>1, WordHalves
<1>3. (i + h) % Word \in 0..(Word - 1)
  BY <1>1, <1>2
<1>4. ASSUME i \in 0..MaxInt PROVE (i + h) % Word = i + h
  <2>1. PICK x \in Nat : x = i + h
    BY <1>1, <1>4
  <2>2. x < Word /\ Word \in Nat \ {0}
    BY <1>1, <1>2, <1>4, <2>1, WordHalves
  <2>3. PICK q \in Nat, m \in Nat : q = x \div Word /\ m = x % Word /\ x = Word * q + m
    BY <2>2, Division
  <2>4. Word * 0 <= x /\ x < Word * 0 + Word
    BY <2>2
  <2>5. q = 0
    BY <2>2, <2>3, <2>4, Quotient
  <2>6. Word * q = 0
    BY <2>2, <2>5
  <2> QED BY <2>1, <2>3, <2>6
<1>5. PICK m \in Int : m = (i + h) % Word /\ m \in 0..(Word - 1)
  BY <1>3
<1>6. Wrap(i) = m - h
  BY <1>1, <1>5 DEF Wrap
<1>7. -(Word \div 2) = -h
  BY <1>1
<1>8. -h <= m - h /\ m - h <= MaxInt /\ (i \in 0..MaxInt => m - h = i)
  BY <1>1, <1>4, <1>5, WordHalves
<1>9. m - h \in -h..MaxInt
  BY <1>8, WordHalves
<1> QED BY <1>6, <1>7, <1>8, <1>9

(* A list of c rows has its last row on the last page.                     *)
LEMMA LastPage ==
  ASSUME NEW c \in Nat, NEW n \in Nat \ {0}
  PROVE  /\ Pages(c, n) \in 0..c
         /\ c <= Pages(c, n) * n
         /\ c > 0 => Pages(c, n) > 0 /\ (Pages(c, n) - 1) * n < c
<1>1. CASE c = 0
  <2>1. Pages(c, n) = 0
    BY <1>1 DEF Pages
  <2> QED BY <1>1, <2>1
<1>2. CASE c > 0
  <2>1. PICK x \in Nat : x = c + n - 1
    BY <1>2
  <2>2. PICK q \in Nat, m \in 0..(n - 1) : q = x \div n /\ x = n * q + m
    BY Division
  <2>3. Pages(c, n) = q
    BY <1>2, <2>1, <2>2 DEF Pages
  <2>4. c = n * q + m + 1 - n
    BY <2>1, <2>2
  <2>5. (q - 1) * n = n * q - n /\ q * n = n * q
    OBVIOUS
  <2>6. c <= q * n /\ (q - 1) * n < c
    BY <2>2, <2>4, <2>5
  <2>7. q > 0
    BY <1>2, <2>6
  <2>8. (q - 1) * 1 <= (q - 1) * n
    BY <2>7
  <2>9. q <= c
    BY <2>6, <2>8
  <2> QED BY <2>3, <2>6, <2>7, <2>9
<1> QED BY <1>1, <1>2

(* The rows of the list are on the pages up to the last one, and on each   *)
(* of these there is one.                                                  *)
LEMMA PageNumbers ==
  ASSUME NEW c \in Nat, NEW n \in Nat \ {0}, NEW k \in Int
  PROVE  k \in 1..Pages(c, n) <=> \E x \in 0..(c - 1) : x \div n + 1 = k
<1>1. PICK l \in Nat : l = Pages(c, n) /\ l <= c
  BY LastPage
<1>2. /\ c <= l * n
      /\ c > 0 => (l - 1) * n < c
  BY <1>1, LastPage
<1>3. ASSUME k \in 1..l PROVE \E x \in 0..(c - 1) : x \div n + 1 = k
  <2>1. c > 0
    BY <1>1, <1>3
  <2>2. PICK j \in Nat, i \in Nat : j = k - 1 /\ i = l - 1 /\ j <= i
    BY <1>3
  <2>3. PICK x \in Nat, y \in Nat : x = n * j /\ x = j * n /\ y = i * n
    OBVIOUS
  <2>4. x <= y
    BY <2>2, <2>3
  <2>5. y < c
    BY <1>2, <2>1, <2>2, <2>3
  <2>6. x \div n = j
    BY <2>3, Quotient
  <2>7. x \in 0..(c - 1) /\ j + 1 = k
    BY <2>2, <2>4, <2>5
  <2> QED BY <2>6, <2>7
<1>4. ASSUME NEW x \in 0..(c - 1), x \div n + 1 = k PROVE k \in 1..l
  <2>1. PICK j \in Nat, m \in Nat : j = x \div n /\ x = n * j + m
    BY Division
  <2>2. k = j + 1
    BY <1>4, <2>1
  <2>3. PICK y \in Nat, z \in Nat : y = n * j /\ z = n * l /\ z = l * n
    OBVIOUS
  <2>4. c <= z /\ y <= x
    BY <1>2, <2>1, <2>3
  <2>5. y < z
    BY <2>4
  <2>6. j < l
    BY <2>3, <2>5
  <2> QED BY <2>2, <2>6
<1> QED BY <1>1, <1>3, <1>4

-----------------------------------------------------------------------------
(* Where a row stands in the list.                                         *)
Rank(P, e) == Cardinality({d \in P : d < e})

LEMMA RankType ==
  ASSUME NEW P \in SUBSET Nat, IsFiniteSet(P), NEW e \in Nat
  PROVE  /\ Rank(P, e) \in 0..Cardinality(P)
         /\ e \in P => Rank(P, e) < Cardinality(P)
<1>1. PICK S : S = {d \in P : d < e}
  OBVIOUS
<1>2. /\ IsFiniteSet(S) /\ Cardinality(S) <= Cardinality(P)
      /\ Cardinality(P) = Cardinality(S) => P = S
  BY <1>1, FS_Subset
<1>3. Cardinality(S) \in Nat /\ Cardinality(P) \in Nat
  BY <1>2, FS_CardinalityType
<1>4. e \notin S
  BY <1>1
<1>5. Rank(P, e) = Cardinality(S)
  BY <1>1 DEF Rank
<1> QED BY <1>2, <1>3, <1>4, <1>5

LEMMA RankNat ==
  ASSUME NEW P \in SUBSET Nat, IsFiniteSet(P), NEW e \in Nat
  PROVE  Rank(P, e) \in Nat
<1>1. Rank(P, e) \in 0..Cardinality(P) /\ Cardinality(P) \in Nat
  BY RankType, FS_CardinalityType
<1> QED BY ONLY <1>1

(* Who stands before another has the smaller rank.                         *)
LEMMA RankOrder ==
  ASSUME NEW P \in SUBSET Nat, IsFiniteSet(P), NEW d \in P, NEW e \in Nat, d < e
  PROVE  Rank(P, d) < Rank(P, e)
<1>1. PICK S, T : S = {x \in P : x < d} /\ T = {x \in P : x < e}
  OBVIOUS
<1>2. /\ IsFiniteSet(T) /\ IsFiniteSet(S)
  BY <1>1, FS_Subset
<1>3. S \subseteq T /\ S # T
  <2>1. d \in Nat /\ d \in T /\ d \notin S
    BY <1>1
  <2>2. \A x \in P : x < d => x < e
    BY <2>1
  <2> QED BY <1>1, <2>1, <2>2
<1>4. Cardinality(S) <= Cardinality(T) /\ Cardinality(S) # Cardinality(T)
  BY <1>2, <1>3, FS_Subset
<1>5. Cardinality(S) \in Nat /\ Cardinality(T) \in Nat
  BY <1>2, FS_CardinalityType
<1> QED BY <1>1, <1>4, <1>5 DEF Rank

LEMMA RankUnique ==
  ASSUME NEW P \in SUBSET Nat, IsFiniteSet(P), NEW d \in P, NEW e \in P,
         Rank(P, d) = Rank(P, e)
  PROVE  d = e
<1>1. d \in Nat /\ e \in Nat /\ Rank(P, d) \in Int /\ Rank(P, e) \in Int
  BY RankType
<1>2. CASE d < e
  BY <1>1, <1>2, RankOrder
<1>3. CASE e < d
  BY <1>1, <1>3, RankOrder
<1> QED BY <1>1, <1>2, <1>3

(* Rows whose ranks lie in an interval are no more than its numbers.       *)
LEMMA RanksWithin ==
  ASSUME NEW P \in SUBSET Nat, IsFiniteSet(P), NEW T \in SUBSET P,
         NEW a \in Int, NEW b \in Int, \A e \in T : Rank(P, e) \in a..b
  PROVE  /\ Cardinality(T) <= IF a > b THEN 0 ELSE b - a + 1
         /\ Cardinality(T) = Cardinality(a..b) =>
              \A k \in a..b : \E e \in T : Rank(P, e) = k
<1>1. PICK f : f = [e \in T |-> Rank(P, e)]
  OBVIOUS
<1>2. f \in [T -> a..b] /\ \A d, e \in T : f[d] = f[e] => d = e
  BY <1>1, RankUnique
<1>3. f \in Injection(T, a..b)
  BY <1>2 DEF Injection, IsInjective
<1>4. /\ Cardinality(T) <= Cardinality(a..b)
      /\ Cardinality(T) = Cardinality(a..b) <=> f \in Surjection(T, a..b)
  BY <1>3, FS_Injection, FS_Interval
<1>5. f \in Surjection(T, a..b) => \A k \in a..b : \E e \in T : f[e] = k
  BY DEF Surjection
<1> QED BY <1>1, <1>4, <1>5, FS_Interval

(* There is a row at every place of the list.                              *)
LEMMA RankTaken ==
  ASSUME NEW P \in SUBSET Nat, IsFiniteSet(P), NEW k \in 0..(Cardinality(P) - 1)
  PROVE  \E e \in P : Rank(P, e) = k
<1>1. PICK c \in Nat, a \in Int, b \in Int :
         c = Cardinality(P) /\ a = 0 /\ b = c - 1
  BY FS_CardinalityType
<1>2. \A e \in P : Rank(P, e) \in a..b
  BY <1>1, RankType
<1>3. Cardinality(P) = Cardinality(a..b)
  BY <1>1, FS_Interval
<1>4. P \in SUBSET P
  OBVIOUS
<1>5. \A j \in a..b : \E e \in P : Rank(P, e) = j
  BY <1>2, <1>3, <1>4, RanksWithin
<1> QED BY <1>1, <1>5

(* A row that goes moves the rows behind it by one place, and a row that   *)
(* comes moves none forward.                                               *)
LEMMA RankGrows ==
  ASSUME NEW Q \in SUBSET Nat, IsFiniteSet(Q), NEW P \in SUBSET Q, NEW e \in Nat
  PROVE  Rank(P, e) <= Rank(Q, e)
<1>1. PICK S, T : S = {x \in P : x < e} /\ T = {x \in Q : x < e}
  OBVIOUS
<1>2. IsFiniteSet(T) /\ S \subseteq T
  BY <1>1, FS_Subset
<1> QED BY <1>1, <1>2, FS_Subset DEF Rank

LEMMA RankWithout ==
  ASSUME NEW P \in SUBSET Nat, IsFiniteSet(P), NEW d, NEW e \in Nat
  PROVE  Rank(P, e) <= Rank(P \ {d}, e) + 1
<1>1. PICK S, T : S = {x \in P : x < e} /\ T = {x \in P \ {d} : x < e}
  OBVIOUS
<1>2. IsFiniteSet(S) /\ T = S \ {d}
  BY <1>1, FS_Subset
<1>3. Cardinality(T) = IF d \in S THEN Cardinality(S) - 1 ELSE Cardinality(S)
  BY <1>2, FS_RemoveElement
<1>4. Cardinality(S) \in Nat
  BY <1>2, FS_CardinalityType
<1> QED BY <1>1, <1>3, <1>4 DEF Rank

-----------------------------------------------------------------------------
(***************************************************************************)
(* What a request knows.  The offset is that of its page; until the page   *)
(* is corrected, it is the one asked for.                                  *)
(***************************************************************************)
Started(r) ==
  at[r] # "idle" =>
    /\ page[r] > 0 /\ asked[r] > 0 /\ perPage[r] > 0
    /\ offset[r] = Offset(page[r], perPage[r])
    /\ at[r] \in {"count", "list"} => page[r] = asked[r]

(* The COUNT is off by no more than what came and went since.              *)
CountKept(r) ==
  at[r] = "list" =>
    /\ went[r] = 0 => total[r] <= Cardinality(present)
    /\ Cardinality(present) <= total[r] + came[r]

(* The same of a corrected page, the last one by the first COUNT.          *)
Corrected(r) ==
  at[r] \in {"recount", "relist"} =>
    /\ pages[r] > 0 /\ page[r] = pages[r] /\ pages[r] < asked[r]
    /\ went[r] = 0 => (pages[r] - 1) * perPage[r] < Cardinality(present)
    /\ Cardinality(present) <= pages[r] * perPage[r] + came[r]

(* No page that Next leads to has an offset beyond the machine's integers. *)
InsideWord(r) ==
  /\ at[r] \in {"recount", "relist", "shown"} /\ pages[r] > 0 =>
       (pages[r] - 1) * perPage[r] < Cardinality(Entry)
  /\ at[r] \in {"count", "list"} /\ review[r].on =>
       (asked[r] - 1) * perPage[r] <= MaxInt

RequestOK(r) == Started(r) /\ CountKept(r) /\ Corrected(r) /\ InsideWord(r)

RequestInv ==
  \A r \in Reader : RequestOK(r)

(* The places of the list a review has passed.                             *)
Passed(r) ==
  IF at[r] = "shown" THEN page[r] * perPage[r] ELSE (asked[r] - 1) * perPage[r]

Unseen(r) == review[r].stayed \ review[r].seen

(* On these places stand few rows it has not seen: a row not seen gets     *)
(* there only if one before it goes.                                       *)
PassedSeen(r) ==
  at[r] # "idle" /\ review[r].on =>
    /\ review[r].stayed \subseteq present
    /\ (at[r] = "shown" => HasNext(r)) =>
         Cardinality({e \in Unseen(r) : Rank(present, e) < Passed(r)})
           <= review[r].went

MissesLittle(r) ==
  at[r] = "shown" /\ review[r].on /\ ~HasNext(r) =>
    Cardinality(Unseen(r)) <= review[r].went + came[r]

ReviewInv == \A r \in Reader : PassedSeen(r) /\ MissesLittle(r)

-----------------------------------------------------------------------------
(* Finite sets and their sizes.                                            *)
LEMMA EntrySizes ==
  /\ Cardinality(Entry) \in Nat /\ Cardinality(Entry) < MaxInt
  /\ MaxRows \in Nat \ {0} /\ MaxRows <= MaxInt
  /\ \A P \in SUBSET Entry :
       /\ IsFiniteSet(P) /\ P \in SUBSET Nat
       /\ Cardinality(P) \in 0..Cardinality(Entry)
<1>1. IsFiniteSet(Entry) /\ Entry \subseteq Nat /\ Cardinality(Entry) \in Nat
  BY PagingAssumption, FS_CardinalityType
<1>2. \A P \in SUBSET Entry :
        /\ IsFiniteSet(P) /\ P \in SUBSET Nat
        /\ Cardinality(P) <= Cardinality(Entry)
  BY <1>1, FS_Subset
<1>3. \A P \in SUBSET Entry : Cardinality(P) \in Nat
  BY <1>2, FS_CardinalityType
<1> QED BY <1>1, <1>2, <1>3, PagingAssumption, WordHalves

(* The last page is one of at most as many as there are rows.              *)
LEMMA PagesFit ==
  ASSUME NEW r \in Reader, TypeOK, Started(r), InsideWord(r),
         at[r] \in {"recount", "relist", "shown"}
  PROVE  pages[r] <= Cardinality(Entry)
<1>1. PICK p \in Nat, n \in Nat \ {0}, c \in Nat :
        p = pages[r] /\ n = perPage[r] /\ c = Cardinality(Entry)
  BY EntrySizes DEF TypeOK, Started
<1>2. CASE p > 0
  <2>1. (p - 1) * n < c
    BY <1>1, <1>2 DEF InsideWord
  <2>2. PICK i \in Nat : i = p - 1
    BY <1>2
  <2>3. i <= i * n
    OBVIOUS
  <2> QED BY <1>1, <2>1, <2>2, <2>3
<1> QED BY <1>1, <1>2

LEMMA OffsetType ==
  ASSUME NEW p \in Int, NEW n \in Int
  PROVE  Offset(p, n) \in -(Word \div 2)..MaxInt
<1>1. (p - 1) * n \in Int
  OBVIOUS
<1> QED BY <1>1, WrapIs DEF Offset

LEMMA RequestTypes ==
  ASSUME TypeOK, NEW r \in Reader, NEW p \in 1..MaxInt, NEW n \in 1..MaxRows,
         Request(r, p, n), review' \in [Reader -> [on : BOOLEAN,
            stayed : SUBSET Entry, seen : SUBSET Entry, went : Nat]]
  PROVE  TypeOK'
<1>1. Offset(p, n) \in -(Word \div 2)..MaxInt
  BY WordHalves, EntrySizes, OffsetType
<1>2. p \in 0..MaxInt /\ n \in 0..MaxRows /\ 0 \in 0..MaxInt
  BY WordHalves
<1> QED BY <1>1, <1>2 DEF TypeOK, Request

LEMMA ShowTypes ==
  ASSUME TypeOK, NEW r \in Reader, Show(r)
  PROVE  /\ at' \in [Reader -> {"idle", "count", "list", "recount", "relist",
                                "shown"}]
         /\ shown' \in [Reader -> SUBSET Entry]
         /\ review' \in [Reader -> [on : BOOLEAN, stayed : SUBSET Entry,
                                    seen : SUBSET Entry, went : Nat]]
<1>1. Slice(offset[r], perPage[r]) \subseteq present
  BY DEF Slice
<1>2. shown' \in [Reader -> SUBSET Entry] /\ shown'[r] \in SUBSET Entry
  BY <1>1 DEF TypeOK, Show
<1> QED BY <1>2 DEF TypeOK, Show

LEMMA TypeStep == TypeOK /\ RequestInv /\ [Next]_vars => TypeOK'
<1> SUFFICES ASSUME TypeOK, RequestInv, [Next]_vars PROVE TypeOK'
  OBVIOUS
<1>1. ASSUME NEW r \in Reader, Open(r) PROVE TypeOK'
  <2>1. PICK p \in 1..MaxInt, n \in 1..MaxInt :
          /\ Request(r, p, Capped(n))
          /\ review' = [review EXCEPT ![r] = [on |-> p = 1, stayed |-> present,
                                             seen |-> {}, went |-> 0]]
    BY <1>1 DEF Open
  <2>2. Capped(n) \in 1..MaxRows
    BY EntrySizes, WordHalves DEF Capped
  <2>3. review' \in [Reader -> [on : BOOLEAN, stayed : SUBSET Entry,
                               seen : SUBSET Entry, went : Nat]]
    BY <2>1 DEF TypeOK
  <2> QED BY <2>1, <2>2, <2>3, RequestTypes
<1>2. ASSUME NEW r \in Reader, FollowNext(r) PROVE TypeOK'
  <2>1. page[r] + 1 \in 1..MaxInt /\ perPage[r] \in 1..MaxRows
    BY <1>2, EntrySizes, WordHalves, PagesFit
      DEF TypeOK, FollowNext, HasNext, RequestInv, RequestOK, Started
  <2>2. Request(r, page[r] + 1, perPage[r]) /\ review' = review
    BY <1>2 DEF FollowNext
  <2> QED BY <2>1, <2>2, RequestTypes DEF TypeOK
<1>3. ASSUME NEW r \in Reader, Count(r) PROVE TypeOK'
  <2>1. Cardinality(present) \in 0..Cardinality(Entry)
    BY EntrySizes DEF TypeOK
  <2> QED BY <1>3, <2>1 DEF TypeOK, Count
<1>4. ASSUME NEW r \in Reader, List(r) PROVE TypeOK'
  <2>1. PICK last : last = Pages(total[r], perPage[r])
    OBVIOUS
  <2>2. total[r] \in 0..Cardinality(Entry) /\ perPage[r] \in Nat \ {0}
    BY <1>4, EntrySizes DEF TypeOK, List, RequestInv, RequestOK, Started
  <2>3. last \in 0..MaxInt
    <3>1. PICK c \in Nat, n \in Nat \ {0} : c = total[r] /\ n = perPage[r]
      BY <2>2, EntrySizes
    <3>2. last \in 0..c
      BY <2>1, <3>1, LastPage
    <3> QED BY <2>2, <3>1, <3>2, EntrySizes, WordHalves
  <2>4. Offset(last, perPage[r]) \in -(Word \div 2)..MaxInt
    <3>1. last \in Int /\ perPage[r] \in Int
      BY <2>2, <2>3, WordHalves
    <3> QED BY <3>1, OffsetType
  <2>5. pages' \in [Reader -> 0..MaxInt]
    BY <1>4, <2>1, <2>3 DEF TypeOK, List
  <2>6. CASE last > 0 /\ page[r] > last
    BY <1>4, <2>1, <2>3, <2>4, <2>5, <2>6 DEF TypeOK, List
  <2>7. CASE ~(last > 0 /\ page[r] > last)
    <3>1. Show(r) /\ UNCHANGED <<page, offset>>
      BY <1>4, <2>1, <2>7 DEF List
    <3>2. UNCHANGED <<present, edits, perPage, total, asked, came, went>>
      BY <1>4 DEF List
    <3> QED BY <2>5, <3>1, <3>2, ShowTypes DEF TypeOK
  <2> QED BY <2>6, <2>7
<1>5. ASSUME NEW r \in Reader, Relist(r) PROVE TypeOK'
  BY <1>5, ShowTypes DEF TypeOK, Relist
<1>6. ASSUME NEW e \in Entry, Come(e) PROVE TypeOK'
  <2>1. edits' \in 0..MaxEdits
    BY <1>6, PagingAssumption DEF TypeOK, Come
  <2>2. came' \in [Reader -> Nat]
    <3>1. \A r \in Reader : came[r] \in Nat /\ came[r] + 1 \in Nat
      BY DEF TypeOK
    <3> QED BY <1>6, <3>1 DEF Come
  <2> QED BY <1>6, <2>1, <2>2 DEF TypeOK, Come, request
<1>7. ASSUME NEW e \in Entry, Go(e) PROVE TypeOK'
  <2>1. edits' \in 0..MaxEdits
    <3>1. edits < MaxEdits /\ edits' = edits + 1
      BY <1>7 DEF Go
    <3>2. edits \in 0..MaxEdits
      BY DEF TypeOK
    <3> QED BY <3>1, <3>2, PagingAssumption
  <2>2. went' \in [Reader -> Nat]
    <3>1. \A r \in Reader : went[r] \in Nat /\ went[r] + 1 \in Nat
      BY DEF TypeOK
    <3> QED BY <1>7, <3>1 DEF Go
  <2>3. review' \in [Reader -> [on : BOOLEAN, stayed : SUBSET Entry,
                               seen : SUBSET Entry, went : Nat]]
    <3>1. ASSUME NEW r \in Reader
          PROVE  [review[r] EXCEPT !.stayed = @ \ {e}, !.went = @ + 1]
                   \in [on : BOOLEAN, stayed : SUBSET Entry,
                        seen : SUBSET Entry, went : Nat]
      <4>1. review[r] \in [on : BOOLEAN, stayed : SUBSET Entry,
                           seen : SUBSET Entry, went : Nat]
        BY DEF TypeOK
      <4>2. review[r].went + 1 \in Nat /\ review[r].stayed \ {e} \in SUBSET Entry
        BY <4>1
      <4> QED BY <4>1, <4>2
    <3> QED BY <1>7, <3>1 DEF Go
  <2> QED BY <1>7, <2>1, <2>2, <2>3 DEF TypeOK, Go, request
<1>8. CASE UNCHANGED vars
  BY <1>8 DEF TypeOK, vars, request
<1> QED BY <1>1, <1>2, <1>3, <1>4, <1>5, <1>6, <1>7, <1>8 DEF Next

-----------------------------------------------------------------------------
(* What the steps do to a request, and that they leave the others alone.   *)
Same(q) ==
  /\ at'[q] = at[q] /\ page'[q] = page[q] /\ perPage'[q] = perPage[q]
  /\ offset'[q] = offset[q] /\ pages'[q] = pages[q] /\ total'[q] = total[q]
  /\ shown'[q] = shown[q] /\ asked'[q] = asked[q]

Alone(r) ==
  /\ present' = present
  /\ \A q \in Reader \ {r} :
       Same(q) /\ came'[q] = came[q] /\ went'[q] = went[q] /\ review'[q] = review[q]

LEMMA RequestDoes ==
  ASSUME TypeOK, NEW r \in Reader, NEW p, NEW n, Request(r, p, n),
         \A q \in Reader \ {r} : review'[q] = review[q]
  PROVE  /\ Alone(r)
         /\ at'[r] = "count" /\ page'[r] = p /\ asked'[r] = p /\ perPage'[r] = n
         /\ offset'[r] = Offset(p, n) /\ pages'[r] = 0 /\ total'[r] = total[r]
         /\ shown'[r] = shown[r] /\ came'[r] = 0 /\ went'[r] = 0
BY DEF TypeOK, Request, Alone, Same

LEMMA CountDoes ==
  ASSUME TypeOK, NEW r \in Reader, Count(r)
  PROVE  /\ Alone(r)
         /\ \/ at[r] = "count" /\ at'[r] = "list"
            \/ at[r] = "recount" /\ at'[r] = "relist"
         /\ total'[r] = Cardinality(present)
         /\ page'[r] = page[r] /\ perPage'[r] = perPage[r] /\ offset'[r] = offset[r]
         /\ pages'[r] = pages[r] /\ shown'[r] = shown[r] /\ asked'[r] = asked[r]
         /\ came'[r] = came[r] /\ went'[r] = went[r] /\ review'[r] = review[r]
BY DEF TypeOK, Count, Alone, Same

(* A page is shown.                                                        *)
Shows(r) ==
  /\ Alone(r)
  /\ at'[r] = "shown" /\ shown'[r] = Slice(offset[r], perPage[r])
  /\ review'[r].on = review[r].on /\ review'[r].stayed = review[r].stayed
  /\ review'[r].seen = review[r].seen \cup Slice(offset[r], perPage[r])
  /\ review'[r].went = review[r].went
  /\ page'[r] = page[r] /\ perPage'[r] = perPage[r] /\ offset'[r] = offset[r]
  /\ total'[r] = total[r] /\ asked'[r] = asked[r]
  /\ came'[r] = came[r] /\ went'[r] = went[r]

(* The last page is asked for in the place of one beyond it.               *)
Corrects(r, last) ==
  /\ last > 0 /\ page[r] > last
  /\ Alone(r)
  /\ at'[r] = "recount" /\ pages'[r] = last /\ page'[r] = last
  /\ offset'[r] = Offset(last, perPage[r]) /\ perPage'[r] = perPage[r]
  /\ total'[r] = total[r] /\ shown'[r] = shown[r] /\ asked'[r] = asked[r]
  /\ came'[r] = came[r] /\ went'[r] = went[r] /\ review'[r] = review[r]

LEMMA ShowDoes ==
  ASSUME TypeOK, NEW r \in Reader, Show(r), \A q \in Reader \ {r} : pages'[q] = pages[q],
         UNCHANGED <<present, edits, perPage, total, asked, came, went, page, offset>>
  PROVE  Shows(r)
<1>1. shown'[r] = Slice(offset[r], perPage[r])
  BY DEF TypeOK, Show
<1>2. review' = [review EXCEPT ![r].seen = @ \cup Slice(offset[r], perPage[r])]
  BY <1>1 DEF Show
<1>3. /\ review'[r].on = review[r].on /\ review'[r].stayed = review[r].stayed
      /\ review'[r].seen = review[r].seen \cup Slice(offset[r], perPage[r])
      /\ review'[r].went = review[r].went
      /\ \A q \in Reader \ {r} : review'[q] = review[q]
  BY <1>2 DEF TypeOK
<1>4. at'[r] = "shown" /\ \A q \in Reader \ {r} : at'[q] = at[q] /\ shown'[q] = shown[q]
  BY DEF TypeOK, Show
<1> QED BY <1>1, <1>3, <1>4 DEF Shows, Alone, Same

LEMMA ListDoes ==
  ASSUME TypeOK, NEW r \in Reader, List(r),
         NEW last, last = Pages(total[r], perPage[r])
  PROVE  /\ at[r] = "list"
         /\ \/ Corrects(r, last)
            \/ ~(last > 0 /\ page[r] > last) /\ Shows(r) /\ pages'[r] = last
<1>1. /\ at[r] = "list"
      /\ pages' = [pages EXCEPT ![r] = last]
      /\ UNCHANGED <<present, edits, perPage, total, asked, came, went>>
  BY DEF List
<1>2. pages'[r] = last /\ \A q \in Reader \ {r} : pages'[q] = pages[q]
  BY <1>1 DEF TypeOK
<1>3. CASE last > 0 /\ page[r] > last
  <2>1. /\ page' = [page EXCEPT ![r] = last]
        /\ offset' = [offset EXCEPT ![r] = Offset(last, perPage[r])]
        /\ at' = [at EXCEPT ![r] = "recount"]
        /\ UNCHANGED <<shown, review>>
    BY <1>3 DEF List
  <2>2. Corrects(r, last)
    BY <1>1, <1>2, <1>3, <2>1 DEF TypeOK, Corrects, Alone, Same
  <2> QED BY <1>1, <2>2
<1>4. CASE ~(last > 0 /\ page[r] > last)
  <2>1. Show(r) /\ UNCHANGED <<page, offset>>
    BY <1>4 DEF List
  <2>2. Shows(r)
    BY <1>1, <1>2, <2>1, ShowDoes
  <2> QED BY <1>1, <1>2, <1>4, <2>2
<1> QED BY <1>3, <1>4

LEMMA RelistDoes ==
  ASSUME TypeOK, NEW r \in Reader, Relist(r)
  PROVE  at[r] = "relist" /\ Shows(r) /\ pages'[r] = pages[r]
<1>1. \A q \in Reader \ {r} : pages'[q] = pages[q]
  BY DEF Relist
<1> QED BY <1>1, ShowDoes DEF Relist

LEMMA ComeDoes ==
  ASSUME TypeOK, NEW e \in Entry, Come(e), NEW q \in Reader
  PROVE  /\ Same(q) /\ review'[q] = review[q] /\ went'[q] = went[q]
         /\ came'[q] = IF InRequest(q) THEN came[q] + 1 ELSE came[q]
         /\ present \subseteq present'
         /\ Cardinality(present') = Cardinality(present) + 1
<1>1. IsFiniteSet(present)
  BY EntrySizes DEF TypeOK
<1>2. e \notin present /\ present' = present \cup {e}
  BY DEF Come
<1>3. Cardinality(present') = Cardinality(present) + 1
  BY <1>1, <1>2, FS_AddElement
<1> QED BY <1>2, <1>3 DEF Come, Same, request

LEMMA GoDoes ==
  ASSUME TypeOK, NEW e \in Entry, Go(e), NEW q \in Reader
  PROVE  /\ Same(q) /\ came'[q] = came[q]
         /\ went'[q] = IF InRequest(q) THEN went[q] + 1 ELSE went[q]
         /\ review'[q] = [review[q] EXCEPT !.stayed = @ \ {e}, !.went = @ + 1]
         /\ present' = present \ {e}
         /\ Cardinality(present') = Cardinality(present) - 1
<1>1. IsFiniteSet(present)
  BY EntrySizes DEF TypeOK
<1>2. e \in present /\ present' = present \ {e}
  BY DEF Go
<1>3. Cardinality(present') = Cardinality(present) - 1
  BY <1>1, <1>2, FS_RemoveElement
<1> QED BY <1>2, <1>3 DEF Go, Same, request

-----------------------------------------------------------------------------
(* The steps keep what a request knows.                                    *)
LEMMA OthersRequestOK ==
  ASSUME NEW r \in Reader, Alone(r), \A q \in Reader : RequestOK(q)
  PROVE  \A q \in Reader \ {r} : RequestOK(q)'
BY DEF Alone, Same, RequestOK, Started, CountKept, Corrected, InsideWord

(* Every request has its page inside the list of pages it knows, so the    *)
(* offset of the next one is a number of the machine.                      *)
LEMMA NextFits ==
  ASSUME NEW r \in Reader, TypeOK, RequestOK(r), at[r] = "shown", HasNext(r)
  PROVE  page[r] * perPage[r] < MaxInt /\ page[r] + 1 <= MaxInt
<1>1. PICK p \in Nat, l \in Nat, n \in Nat \ {0}, c \in Nat :
        /\ p = page[r] /\ l = pages[r] /\ n = perPage[r] /\ c = Cardinality(Entry)
        /\ p < l /\ l <= c /\ c < MaxInt
  <2>1. Started(r) /\ InsideWord(r)
    BY DEF RequestOK
  <2>2. pages[r] <= Cardinality(Entry)
    BY <2>1, PagesFit
  <2>3. page[r] \in Nat /\ pages[r] \in Nat /\ page[r] < pages[r]
    BY WordHalves DEF TypeOK, HasNext
  <2>4. perPage[r] \in Nat \ {0}
    BY <2>1, EntrySizes DEF TypeOK, Started
  <2> QED BY <2>2, <2>3, <2>4, EntrySizes
<1>2. PICK i \in Nat : i = l - 1 /\ p <= i
  BY <1>1
<1>3. p * n <= i * n
  BY <1>2
<1>4. i * n < c
  BY <1>1, <1>2 DEF RequestOK, InsideWord
<1>5. PICK x \in Nat, y \in Nat : x = p * n /\ y = i * n
  OBVIOUS
<1>6. x < MaxInt
  BY <1>1, <1>3, <1>4, <1>5, WordHalves
<1> QED BY <1>1, <1>5, <1>6, WordHalves

LEMMA RequestInvStep == TypeOK /\ RequestInv /\ [Next]_vars => RequestInv'
<1> SUFFICES ASSUME TypeOK, RequestInv, [Next]_vars PROVE RequestInv'
  OBVIOUS
<1>a. \A q \in Reader : RequestOK(q)
  BY DEF RequestInv
<1>b. ASSUME NEW r \in Reader, Alone(r), RequestOK(r)' PROVE RequestInv'
  BY <1>a, <1>b, OthersRequestOK DEF RequestInv
<1>1. ASSUME NEW r \in Reader, Open(r) PROVE RequestInv'
  <2>1. PICK p \in 1..MaxInt, n \in 1..MaxInt :
          /\ Request(r, p, Capped(n))
          /\ review' = [review EXCEPT ![r] = [on |-> p = 1, stayed |-> present,
                                             seen |-> {}, went |-> 0]]
    BY <1>1 DEF Open
  <2>2. PICK m \in 1..MaxRows : m = Capped(n)
    BY EntrySizes, WordHalves DEF Capped
  <2>3. review'[r].on = (p = 1) /\ \A q \in Reader \ {r} : review'[q] = review[q]
    BY <2>1 DEF TypeOK
  <2>4. /\ Alone(r)
        /\ at'[r] = "count" /\ page'[r] = p /\ asked'[r] = p /\ perPage'[r] = m
        /\ offset'[r] = Offset(p, m) /\ pages'[r] = 0
    BY <2>1, <2>2, <2>3, RequestDoes
  <2>5. review'[r].on => (asked'[r] - 1) * perPage'[r] <= MaxInt
    <3> SUFFICES ASSUME review'[r].on PROVE (asked'[r] - 1) * perPage'[r] <= MaxInt
      OBVIOUS
    <3>1. p = 1
      BY <2>3, Zenon
    <3>2. asked'[r] - 1 = 0 /\ perPage'[r] \in Nat
      BY <3>1, <2>4, EntrySizes
    <3>3. (asked'[r] - 1) * perPage'[r] = 0
      BY <3>2
    <3> QED BY <3>3, WordHalves
  <2>6. RequestOK(r)'
    <3>1. p > 0 /\ m > 0
      BY WordHalves, EntrySizes
    <3>2. Started(r)'
      BY <2>4, <3>1 DEF Started
    <3> QED BY <2>4, <2>5, <3>2 DEF RequestOK, CountKept, Corrected, InsideWord
  <2> QED BY <2>4, <2>6, <1>b
<1>2. ASSUME NEW r \in Reader, FollowNext(r) PROVE RequestInv'
  <2>1. at[r] = "shown" /\ HasNext(r) /\ Request(r, page[r] + 1, perPage[r])
        /\ review' = review
    BY <1>2 DEF FollowNext
  <2>2. PICK p \in Nat, n \in Nat \ {0} : p = page[r] /\ n = perPage[r] /\ p > 0
    BY <2>1, <1>a, EntrySizes, WordHalves DEF TypeOK, RequestOK, Started
  <2>3. /\ Alone(r)
        /\ at'[r] = "count" /\ page'[r] = p + 1 /\ asked'[r] = p + 1
        /\ perPage'[r] = n /\ offset'[r] = Offset(p + 1, n) /\ pages'[r] = 0
    BY <2>1, <2>2, RequestDoes
  <2>4. (p + 1 - 1) * n <= MaxInt
    <3>1. p * n < MaxInt /\ p + 1 - 1 = p /\ p * n \in Nat
      BY <2>1, <2>2, <1>a, NextFits
    <3> QED BY <3>1, WordHalves
  <2>5. RequestOK(r)'
    BY <2>2, <2>3, <2>4 DEF RequestOK, Started, CountKept, Corrected, InsideWord
  <2> QED BY <2>3, <2>5, <1>b
<1>3. ASSUME NEW r \in Reader, Count(r) PROVE RequestInv'
  <2>1. PICK c \in Nat : c = Cardinality(present)
    BY EntrySizes DEF TypeOK
  <2>2. came[r] \in Nat
    BY DEF TypeOK
  <2>3. RequestOK(r)'
    BY <1>3, <1>a, <2>1, <2>2, CountDoes
      DEF RequestOK, Started, CountKept, Corrected, InsideWord, Alone
  <2> QED BY <1>3, <2>3, <1>b, CountDoes
<1>4. ASSUME NEW r \in Reader, List(r) PROVE RequestInv'
  <2>1. PICK t \in Nat, n \in Nat \ {0}, l \in Nat, k \in Nat :
          /\ t = total[r] /\ n = perPage[r] /\ l = Pages(t, n) /\ k = came[r]
          /\ t <= Cardinality(Entry) /\ l \in 0..t
    <3>1. at[r] # "idle" /\ total[r] \in 0..Cardinality(Entry)
      BY <1>4 DEF TypeOK, List
    <3>2. perPage[r] \in Nat \ {0} /\ came[r] \in Nat
      BY <3>1, <1>a, EntrySizes DEF TypeOK, RequestOK, Started
    <3>3. PICK t \in Nat, n \in Nat \ {0} :
            t = total[r] /\ n = perPage[r] /\ t <= Cardinality(Entry)
      BY <3>1, <3>2, EntrySizes
    <3>4. Pages(t, n) \in 0..t
      BY LastPage
    <3> QED BY <3>2, <3>3, <3>4
  <2>2. t <= l * n /\ (l > 0 => (l - 1) * n < t)
    <3>1. t <= Pages(t, n) * n /\ (t > 0 => (Pages(t, n) - 1) * n < t)
      BY LastPage
    <3>2. l > 0 => t > 0
      BY <2>1
    <3> QED BY <2>1, <3>1, <3>2
  <2>3. PICK c \in Nat, b \in Nat, x \in Int, y \in Int :
          c = Cardinality(present) /\ b = Cardinality(Entry)
          /\ x = l * n /\ y = (l - 1) * n
    BY EntrySizes DEF TypeOK
  <2>4. /\ at[r] = "list"
        /\ \/ Corrects(r, l)
           \/ ~(l > 0 /\ page[r] > l) /\ Shows(r) /\ pages'[r] = l
    <3>1. l = Pages(total[r], perPage[r])
      BY <2>1
    <3> QED BY <1>4, <3>1, ListDoes
  <2>5. (went[r] = 0 => t <= c) /\ c <= t + k /\ page[r] = asked[r]
    BY <1>a, <2>1, <2>3, <2>4 DEF RequestOK, CountKept, Started
  <2>6. /\ went[r] = 0 /\ l > 0 => y < c
        /\ c <= x + k
        /\ l > 0 => y < b
    BY <2>1, <2>2, <2>3, <2>5
  <2>7. CASE Corrects(r, l)
    <3>1. Started(r)' /\ CountKept(r)'
      <4>1. perPage[r] > 0 /\ asked[r] > 0 /\ l > 0
        BY <2>4, <2>7, <1>a DEF Corrects, RequestOK, Started
      <4> QED BY <2>7, <4>1 DEF Corrects, Started, CountKept
    <3>2. Corrected(r)'
      BY <2>1, <2>3, <2>5, <2>6, <2>7 DEF Corrects, Corrected, Alone
    <3>3. InsideWord(r)'
      BY <2>1, <2>3, <2>6, <2>7 DEF Corrects, InsideWord
    <3> QED BY <2>7, <3>1, <3>2, <3>3, <1>b DEF Corrects, RequestOK
  <2>8. CASE Shows(r) /\ pages'[r] = l
    <3>1. Started(r)' /\ CountKept(r)' /\ Corrected(r)'
      BY <2>4, <2>8, <1>a DEF Shows, RequestOK, Started, CountKept, Corrected
    <3>2. InsideWord(r)'
      BY <2>1, <2>3, <2>6, <2>8 DEF Shows, InsideWord
    <3> QED BY <2>8, <3>1, <3>2, <1>b DEF Shows, RequestOK
  <2> QED BY <2>4, <2>7, <2>8
<1>5. ASSUME NEW r \in Reader, Relist(r) PROVE RequestInv'
  <2>1. at[r] = "relist" /\ Shows(r) /\ pages'[r] = pages[r]
    BY <1>5, RelistDoes
  <2>2. RequestOK(r)'
    BY <2>1, <1>a DEF Shows, RequestOK, Started, CountKept, Corrected, InsideWord
  <2> QED BY <2>1, <2>2, <1>b DEF Shows
<1>6. ASSUME NEW e \in Entry, Come(e) PROVE RequestInv'
  <2> SUFFICES ASSUME NEW q \in Reader PROVE RequestOK(q)'
    BY DEF RequestInv
  <2>1. PICK c \in Nat, k \in Nat, t \in Nat :
          c = Cardinality(present) /\ k = came[q] /\ t = total[q]
    BY EntrySizes DEF TypeOK
  <2>2. /\ Same(q) /\ review'[q] = review[q] /\ went'[q] = went[q]
        /\ came'[q] = IF InRequest(q) THEN k + 1 ELSE k
        /\ Cardinality(present') = c + 1
    BY <1>6, <2>1, ComeDoes
  <2>3. Started(q)' /\ InsideWord(q)'
    BY <1>a, <2>2 DEF RequestOK, Started, InsideWord, Same
  <2>4. CountKept(q)'
    <3> SUFFICES ASSUME at[q] = "list" PROVE CountKept(q)'
      BY <2>2 DEF CountKept, Same
    <3>1. (went[q] = 0 => t <= c) /\ c <= t + k
      BY <1>a, <2>1 DEF RequestOK, CountKept
    <3>2. InRequest(q)
      BY DEF InRequest
    <3> QED BY <2>1, <2>2, <3>1, <3>2 DEF CountKept, Same
  <2>5. Corrected(q)'
    <3> SUFFICES ASSUME at[q] \in {"recount", "relist"} PROVE Corrected(q)'
      BY <2>2 DEF Corrected, Same
    <3>1. PICK x \in Int, y \in Int :
            x = (pages[q] - 1) * perPage[q] /\ y = pages[q] * perPage[q]
      BY EntrySizes, WordHalves DEF TypeOK
    <3>2. (went[q] = 0 => x < c) /\ c <= y + k
      BY <1>a, <2>1, <3>1 DEF RequestOK, Corrected
    <3>3. came'[q] = k + 1
      BY <2>2 DEF InRequest
    <3>4. (went[q] = 0 => x < c + 1) /\ c + 1 <= y + (k + 1)
      BY <3>2
    <3> QED BY <1>a, <2>2, <3>1, <3>3, <3>4 DEF RequestOK, Corrected, Same
  <2> QED BY <2>3, <2>4, <2>5 DEF RequestOK
<1>7. ASSUME NEW e \in Entry, Go(e) PROVE RequestInv'
  <2> SUFFICES ASSUME NEW q \in Reader PROVE RequestOK(q)'
    BY DEF RequestInv
  <2>1. PICK c \in Nat, k \in Nat, t \in Nat, w \in Nat :
          c = Cardinality(present) /\ k = came[q] /\ t = total[q] /\ w = went[q]
    <3>1. came[q] \in Nat /\ went[q] \in Nat /\ total[q] \in Nat
      BY EntrySizes DEF TypeOK
    <3>2. Cardinality(present) \in Nat
      BY EntrySizes DEF TypeOK
    <3> QED BY <3>1, <3>2
  <2>2. /\ Same(q) /\ review'[q].on = review[q].on /\ came'[q] = k
        /\ went'[q] = IF InRequest(q) THEN w + 1 ELSE w
        /\ Cardinality(present') = c - 1
    BY <1>7, <2>1, GoDoes DEF TypeOK
  <2>3. Started(q)' /\ InsideWord(q)'
    BY <1>a, <2>2 DEF RequestOK, Started, InsideWord, Same
  <2>4. CountKept(q)'
    <3> SUFFICES ASSUME at[q] = "list" PROVE CountKept(q)'
      BY <2>2 DEF CountKept, Same
    <3>1. (went[q] = 0 => t <= c) /\ c <= t + k
      BY <1>a, <2>1 DEF RequestOK, CountKept
    <3>2. InRequest(q)
      BY DEF InRequest
    <3> QED BY <2>1, <2>2, <3>1, <3>2 DEF CountKept, Same
  <2>5. Corrected(q)'
    <3> SUFFICES ASSUME at[q] \in {"recount", "relist"} PROVE Corrected(q)'
      BY <2>2 DEF Corrected, Same
    <3>1. PICK y \in Int : y = pages[q] * perPage[q]
      BY EntrySizes, WordHalves DEF TypeOK
    <3>2. c <= y + k
      BY <1>a, <2>1, <3>1 DEF RequestOK, Corrected
    <3>3. went'[q] # 0
      BY <2>2 DEF InRequest
    <3>4. c - 1 <= y + k
      BY <3>2
    <3> QED BY <1>a, <2>2, <3>1, <3>3, <3>4 DEF RequestOK, Corrected, Same
  <2> QED BY <2>3, <2>4, <2>5 DEF RequestOK
<1>8. CASE UNCHANGED vars
  BY <1>8 DEF RequestInv, RequestOK, Started, CountKept, Corrected, InsideWord,
    vars, request
<1> QED BY <1>1, <1>2, <1>3, <1>4, <1>5, <1>6, <1>7, <1>8 DEF Next

(* A page is shown by List or Relist only.                                 *)
ShownBy(r) ==
  /\ Shows(r)
  /\ \/ /\ at[r] = "list" /\ pages'[r] = Pages(total[r], perPage[r])
        /\ ~(pages'[r] > 0 /\ page[r] > pages'[r])
     \/ at[r] = "relist" /\ pages'[r] = pages[r]

LEMMA ShowSteps ==
  ASSUME TypeOK, [Next]_vars, NEW r \in Reader, at[r] # "shown", at'[r] = "shown"
  PROVE  ShownBy(r)
<1>1. ASSUME NEW q \in Reader, Alone(q), q # r PROVE FALSE
  BY <1>1 DEF Alone, Same
<1>2. ASSUME NEW q \in Reader, Open(q) \/ FollowNext(q) PROVE FALSE
  <2>1. PICK p, n : Request(q, p, n) /\ at'[q] = "count"
    BY <1>2 DEF TypeOK, Open, FollowNext, Request
  <2>2. \A s \in Reader \ {q} : at'[s] = at[s]
    BY <2>1 DEF TypeOK, Request
  <2> QED BY <2>1, <2>2
<1>3. ASSUME NEW q \in Reader, Count(q) PROVE FALSE
  BY <1>1, <1>3, CountDoes
<1>4. ASSUME NEW q \in Reader, List(q) PROVE ShownBy(r)
  <2>1. PICK last : last = Pages(total[q], perPage[q])
    OBVIOUS
  <2>2. /\ at[q] = "list"
        /\ \/ Corrects(q, last)
           \/ ~(last > 0 /\ page[q] > last) /\ Shows(q) /\ pages'[q] = last
    BY <1>4, <2>1, ListDoes
  <2>3. q = r
    BY <2>2, <1>1 DEF Corrects, Shows
  <2>4. ~Corrects(r, last)
    BY DEF Corrects
  <2> QED BY <2>1, <2>2, <2>3, <2>4 DEF ShownBy
<1>5. ASSUME NEW q \in Reader, Relist(q) PROVE ShownBy(r)
  <2>1. at[q] = "relist" /\ Shows(q) /\ pages'[q] = pages[q]
    BY <1>5, RelistDoes
  <2>2. q = r
    BY <2>1, <1>1 DEF Shows
  <2> QED BY <2>1, <2>2 DEF ShownBy
<1>6. ASSUME NEW e \in Entry, Come(e) \/ Go(e) PROVE FALSE
  BY <1>6 DEF Come, Go
<1>7. CASE UNCHANGED vars
  BY <1>7 DEF vars
<1> QED BY <1>2, <1>3, <1>4, <1>5, <1>6, <1>7 DEF Next

-----------------------------------------------------------------------------
(* The page that is shown, in numbers.                                     *)
LEMMA PagesUnique ==
  ASSUME NEW c \in Nat, NEW n \in Nat \ {0}, NEW l \in Nat \ {0},
         (l - 1) * n < c, c <= l * n
  PROVE  Pages(c, n) = l
<1>1. PICK i \in Nat : i = l - 1
  OBVIOUS
<1>2. PICK y \in Nat, x \in Nat : y = n * i /\ y = i * n /\ x = l * n /\ x = y + n
  <2>1. l * n = n * i + n
    BY <1>1
  <2> QED BY <1>1, <2>1
<1>3. y < c /\ c <= y + n
  BY <1>1, <1>2
<1>4. PICK z \in Nat : z = c + n - 1
  OBVIOUS
<1>5. n * l <= z /\ z < n * l + n
  <2>1. n * l = x
    BY <1>2
  <2> QED BY <1>2, <1>3, <1>4, <2>1
<1>6. z \div n = l
  BY <1>4, <1>5, Quotient
<1>7. c # 0
  BY <1>3
<1> QED BY <1>4, <1>6, <1>7 DEF Pages

LEMMA ShownNumbers ==
  ASSUME TypeOK, NEW r \in Reader, RequestOK(r), ShownBy(r),
         NEW p, p = page[r], NEW n, n = perPage[r], NEW l, l = pages'[r],
         NEW c, c = Cardinality(present)
  PROVE  /\ p \in Nat \ {0} /\ n \in Nat \ {0} /\ l \in Nat /\ c \in Nat
         /\ offset[r] = Offset(p, n)
         /\ l > 0 => /\ p = IF asked[r] < l THEN asked[r] ELSE l
                     /\ (p - 1) * n <= MaxInt
                     /\ went[r] = 0 => (p - 1) * n < c
         /\ c <= l * n + came[r]
         /\ total[r] > 0 /\ at[r] = "list" => l > 0
         /\ came[r] = 0 /\ went[r] = 0 => l = Pages(c, n)
<1>1. /\ p \in Nat \ {0} /\ n \in Nat \ {0} /\ c \in Nat /\ asked[r] \in Nat \ {0}
      /\ offset[r] = Offset(p, n)
  BY EntrySizes, WordHalves DEF TypeOK, RequestOK, Started, ShownBy
<1>2. PICK b \in Nat, k \in Nat, a \in Nat :
        b = Cardinality(Entry) /\ b < MaxInt /\ k = came[r] /\ a = asked[r]
  BY <1>1, EntrySizes DEF TypeOK
<1>3. CASE at[r] = "list" /\ l = Pages(total[r], n) /\ ~(l > 0 /\ p > l)
  <2>1. PICK t \in Nat : t = total[r] /\ t <= b /\ (t = 0 => l = 0)
    BY <1>2, <1>3, EntrySizes DEF TypeOK, Pages
  <2>2. l \in 0..t /\ t <= l * n /\ (t > 0 => l > 0 /\ (l - 1) * n < t)
    BY <1>1, <1>3, <2>1, LastPage
  <2>3. (went[r] = 0 => t <= c) /\ c <= t + k /\ p = a
    BY <1>2, <1>3, <2>1 DEF RequestOK, CountKept, Started
  <2>4. PICK x \in Int : x = l * n
    BY <1>1, <2>2
  <2>5. c <= x + k
    BY <1>1, <2>1, <2>2, <2>3, <2>4, WordHalves
  <2>6. ASSUME l > 0
        PROVE  /\ p = IF a < l THEN a ELSE l
               /\ (p - 1) * n <= MaxInt
               /\ went[r] = 0 => (p - 1) * n < c
    <3>1. p <= l /\ p = a
      BY <1>1, <1>3, <2>2, <2>3, <2>6
    <3>2. PICK i \in Nat, j \in Nat : i = p - 1 /\ j = l - 1 /\ i <= j
      BY <1>1, <2>2, <2>6, <3>1
    <3>3. PICK y \in Nat, z \in Nat : y = i * n /\ z = j * n
      BY <1>1
    <3>4. y <= z
      BY <1>1, <3>2, <3>3
    <3>5. z < t
      BY <2>1, <2>2, <2>6, <3>2, <3>3
    <3>6. y < MaxInt /\ (went[r] = 0 => y < c)
      BY <1>1, <1>2, <2>1, <2>3, <3>4, <3>5, WordHalves
    <3> QED BY <1>2, <2>2, <3>1, <3>2, <3>3, <3>6, WordHalves
  <2>7. came[r] = 0 /\ went[r] = 0 => t = c
    BY <1>1, <1>2, <2>3
  <2> QED BY <1>1, <1>2, <1>3, <2>1, <2>2, <2>4, <2>5, <2>6, <2>7
<1>4. CASE at[r] = "relist" /\ l = pages[r]
  <2>1. /\ l \in Nat \ {0} /\ p = l /\ l < a
        /\ went[r] = 0 => (l - 1) * n < c
        /\ c <= l * n + k
        /\ (l - 1) * n < b
    BY <1>2, <1>4, WordHalves DEF TypeOK, RequestOK, Corrected, InsideWord
  <2>2. (p - 1) * n <= MaxInt
    <3>1. PICK y \in Int : y = (p - 1) * n
      BY <1>1
    <3> QED BY <1>2, <2>1, <3>1, WordHalves
  <2>3. came[r] = 0 /\ went[r] = 0 => l = Pages(c, n)
    <3> SUFFICES ASSUME came[r] = 0, went[r] = 0 PROVE l = Pages(c, n)
      OBVIOUS
    <3>1. PICK x \in Int : x = l * n
      BY <1>1, <2>1
    <3>2. c <= x
      BY <1>1, <1>2, <2>1, <3>1
    <3> QED BY <1>1, <2>1, <3>1, <3>2, PagesUnique
  <2> QED BY <1>1, <1>2, <1>4, <2>1, <2>2, <2>3
<1> QED BY <1>3, <1>4 DEF ShownBy

(* The rows of a page whose offset does not overflow.                      *)
LEMMA PageRows ==
  ASSUME TypeOK, NEW p \in Nat \ {0}, NEW n \in Nat \ {0}, (p - 1) * n <= MaxInt,
         NEW e
  PROVE  /\ e \in Slice(Offset(p, n), n) <=>
              /\ e \in present
              /\ (p - 1) * n <= Rank(present, e)
              /\ Rank(present, e) < (p - 1) * n + n
         /\ e \in Slice(Offset(p, n), n) <=>
              e \in present /\ Rank(present, e) \div n + 1 = p
<1>1. PICK i \in Nat : i = p - 1
  OBVIOUS
<1>2. PICK f \in Nat : f = i * n /\ f = n * i /\ f <= MaxInt
  BY <1>1, WordHalves
<1>3. Offset(p, n) = f
  BY <1>1, <1>2, WrapIs, WordHalves DEF Offset
<1>4. e \in Slice(f, n) <=>
        e \in present /\ f <= Rank(present, e) /\ Rank(present, e) < f + n
  BY <1>2 DEF Slice, Rank
<1>5. ASSUME e \in present
      PROVE  (f <= Rank(present, e) /\ Rank(present, e) < f + n)
               <=> Rank(present, e) \div n + 1 = p
  <2>1. PICK x \in Nat : x = Rank(present, e)
    <3>1. present \in SUBSET Nat /\ IsFiniteSet(present)
      BY EntrySizes DEF TypeOK
    <3>2. e \in Nat
      BY <1>5, <3>1
    <3> QED BY <3>1, <3>2, RankType
  <2>2. (f <= x /\ x < f + n) => x \div n = i
    BY <1>2, Quotient
  <2>3. x \div n = i => (f <= x /\ x < f + n)
    <3>1. PICK q \in Nat, m \in 0..(n - 1) : q = x \div n /\ x = n * q + m
      BY Division
    <3> QED BY <1>2, <3>1
  <2>4. x \div n \in Nat
    BY Division
  <2> QED BY <1>1, <2>1, <2>2, <2>3, <2>4
<1> QED BY <1>1, <1>2, <1>3, <1>4, <1>5

-----------------------------------------------------------------------------
(* The theorems about one request.                                         *)
LEMMA InitRequests == Init => TypeOK /\ RequestInv
<1> SUFFICES ASSUME Init PROVE TypeOK /\ RequestInv
  OBVIOUS
<1>1. /\ 0 \in 0..MaxEdits /\ 0 \in 0..MaxInt /\ 0 \in 0..MaxRows
      /\ 0 \in 0..Cardinality(Entry) /\ 0 \in -(Word \div 2)..MaxInt
  BY PagingAssumption, EntrySizes, WordHalves
<1>2. TypeOK
  BY <1>1 DEF Init, TypeOK
<1>3. RequestInv
  BY DEF Init, RequestInv, RequestOK, Started, CountKept, Corrected, InsideWord
<1> QED BY <1>2, <1>3

(* Locals, lists and histories have their types.                           *)
THEOREM PagingTypes == Spec => []TypeOK
<1>1. Init => TypeOK /\ RequestInv
  BY InitRequests
<1>2. TypeOK /\ RequestInv /\ [Next]_vars => TypeOK' /\ RequestInv'
  BY TypeStep, RequestInvStep
<1> QED BY <1>1, <1>2, PTL DEF Spec

LEMMA RequestsKnow == Spec => [](TypeOK /\ RequestInv)
<1>1. Init => TypeOK /\ RequestInv
  BY InitRequests
<1>2. (TypeOK /\ RequestInv) /\ [Next]_vars => (TypeOK /\ RequestInv)'
  BY TypeStep, RequestInvStep
<1> QED BY <1>1, <1>2, PTL DEF Spec

(* The pages there are.                                                    *)
LEMMA AllPages ==
  ASSUME TypeOK, NEW n \in Nat \ {0}, NEW S,
         S = {Rank(present, e) \div n + 1 : e \in present}
  PROVE  S = 1..Pages(Cardinality(present), n)
<1>1. PICK c \in Nat : c = Cardinality(present)
  BY EntrySizes DEF TypeOK
<1>2. present \in SUBSET Nat /\ IsFiniteSet(present)
  BY EntrySizes DEF TypeOK
<1>3. \A e \in present : Rank(present, e) \in 0..(c - 1)
  BY <1>1, <1>2, RankType
<1>4. \A x \in 0..(c - 1) : \E e \in present : Rank(present, e) = x
  BY <1>1, <1>2, RankTaken
<1>5. ASSUME NEW k \in S PROVE k \in 1..Pages(c, n)
  <2>1. PICK e \in present : k = Rank(present, e) \div n + 1
    BY <1>5
  <2>2. PICK x \in 0..(c - 1) : x = Rank(present, e)
    BY <1>3
  <2>3. k \in Int
    BY <2>1, <2>2, Division
  <2> QED BY <2>1, <2>2, <2>3, PageNumbers
<1>6. ASSUME NEW k \in 1..Pages(c, n) PROVE k \in S
  <2>1. PICK x \in 0..(c - 1) : x \div n + 1 = k
    <3>1. k \in Int
      BY LastPage
    <3> QED BY <3>1, <1>6, PageNumbers
  <2>2. PICK e \in present : Rank(present, e) = x
    BY <1>4
  <2> QED BY <2>1, <2>2
<1> QED BY <1>1, <1>5, <1>6

LEMMA ShownAsAsked ==
  ASSUME TypeOK, NEW r \in Reader, RequestOK(r), ShownBy(r),
         came[r] = 0, went[r] = 0,
         NEW S, S = {Rank(present, e) \div perPage[r] + 1 : e \in present}
  PROVE  /\ pages'[r] = Cardinality(S)
         /\ Cardinality(S) > 0 =>
              page'[r] = IF asked[r] < Cardinality(S) THEN asked[r] ELSE Cardinality(S)
         /\ shown'[r] =
              {e \in present : Rank(present, e) \div perPage[r] + 1 = page'[r]}
<1>1. PICK p, n, l, c : /\ p = page[r] /\ n = perPage[r] /\ l = pages'[r]
                        /\ c = Cardinality(present)
  OBVIOUS
<1>2. /\ p \in Nat \ {0} /\ n \in Nat \ {0} /\ l \in Nat /\ c \in Nat
      /\ offset[r] = Offset(p, n)
      /\ l > 0 => /\ p = IF asked[r] < l THEN asked[r] ELSE l
                  /\ (p - 1) * n <= MaxInt
      /\ l = Pages(c, n)
  BY <1>1, ShownNumbers
<1>3. S = 1..l
  BY <1>1, <1>2, AllPages
<1>4. Cardinality(S) = l
  <2>1. PICK a \in Int : a = 1 /\ S = a..l
    BY <1>3
  <2>2. l \in Nat /\ l \in Int
    BY <1>2
  <2>3. Cardinality(a..l) = IF a > l THEN 0 ELSE l - a + 1
    BY ONLY <2>2, a \in Int, FS_Interval
  <2> QED BY ONLY <2>1, <2>2, <2>3
<1>5. page'[r] = p /\ shown'[r] = Slice(Offset(p, n), n)
  BY <1>1, <1>2 DEF ShownBy, Shows
<1>6. PICK X : X = {e \in present : Rank(present, e) \div n + 1 = p}
  OBVIOUS
<1>7. CASE l > 0
  <2>1. \A e : e \in Slice(Offset(p, n), n) <=> e \in X
    BY <1>2, <1>6, <1>7, PageRows
  <2>2. shown'[r] = X
    BY <1>5, <2>1 DEF Slice
  <2> QED BY <1>1, <1>2, <1>4, <1>5, <1>6, <1>7, <2>2
<1>8. CASE l = 0
  <2>1. present = {}
    <3>1. \A k \in S : FALSE
      BY <1>3, <1>8
    <3> QED BY <3>1
  <2>2. shown'[r] = X
    BY <1>5, <1>6, <2>1 DEF Slice
  <2> QED BY <1>1, <1>2, <1>4, <1>5, <1>6, <1>8, <2>2
<1> QED BY <1>2, <1>7, <1>8

(* PageAsAsked: unless rows come or go during the request, the page shown  *)
(* is the one asked for, or the last one if there are fewer, whatever the  *)
(* number in the URL; publicSearch, the list of notes and the audit log    *)
(* correct the number, and the product that overflows is never the offset  *)
(* of a page that is shown.                                                *)
THEOREM AskedPageIsShown == Spec => PageAsAsked
<1>1. ASSUME TypeOK, RequestInv, [Next]_vars, NEW r \in Reader,
             at[r] # "shown", at'[r] = "shown", came[r] = 0, went[r] = 0
      PROVE  LET PageOf(e) ==
                   Cardinality({d \in present : d < e}) \div perPage[r] + 1
                 last == Cardinality({PageOf(e) : e \in present})
             IN /\ pages'[r] = last
                /\ last > 0 =>
                     page'[r] = IF asked[r] < last THEN asked[r] ELSE last
                /\ shown'[r] = {e \in present : PageOf(e) = page'[r]}
  <2>1. RequestOK(r) /\ ShownBy(r)
    BY <1>1, ShowSteps DEF RequestInv
  <2>2. PICK S : S = {Rank(present, e) \div perPage[r] + 1 : e \in present}
    OBVIOUS
  <2>3. /\ pages'[r] = Cardinality(S)
        /\ Cardinality(S) > 0 =>
             page'[r] = IF asked[r] < Cardinality(S) THEN asked[r] ELSE Cardinality(S)
        /\ shown'[r] =
             {e \in present : Rank(present, e) \div perPage[r] + 1 = page'[r]}
    BY <1>1, <2>1, <2>2, ShownAsAsked
  <2> QED BY <2>2, <2>3, Zenon DEF Rank
<1>2. TypeOK /\ RequestInv /\ [Next]_vars =>
        [\A r \in Reader :
           at[r] # "shown" /\ at'[r] = "shown" /\ came[r] = 0 /\ went[r] = 0 =>
             LET PageOf(e) ==
                   Cardinality({d \in present : d < e}) \div perPage[r] + 1
                 last == Cardinality({PageOf(e) : e \in present})
             IN /\ pages'[r] = last
                /\ last > 0 =>
                     page'[r] = IF asked[r] < last THEN asked[r] ELSE last
                /\ shown'[r] = {e \in present : PageOf(e) = page'[r]}]_vars
  BY <1>1
<1> QED BY <1>2, RequestsKnow, PTL DEF Spec, PageAsAsked

-----------------------------------------------------------------------------
(* A page is blank only if rows went.                                      *)
Untouched(r) ==
  /\ present' = present /\ Same(r)
  /\ came'[r] = came[r] /\ went'[r] = went[r] /\ review'[r] = review[r]

LEMMA ReaderSteps ==
  ASSUME TypeOK, [Next]_vars, NEW r \in Reader
  PROVE  \/ Untouched(r)
         \/ \E e \in Entry : Come(e) \/ Go(e)
         \/ Open(r) \/ FollowNext(r) \/ Count(r) \/ List(r) \/ Relist(r)
<1>1. ASSUME NEW q \in Reader, q # r, Alone(q) PROVE Untouched(r)
  BY <1>1 DEF Alone, Untouched
<1>2. ASSUME NEW q \in Reader, q # r, Open(q) \/ FollowNext(q) PROVE Untouched(r)
  <2>1. PICK p, n : Request(q, p, n)
    BY <1>2 DEF Open, FollowNext
  <2>2. \A s \in Reader \ {q} : review'[s] = review[s]
    BY <1>2 DEF TypeOK, Open, FollowNext
  <2> QED BY <1>1, <1>2, <2>1, <2>2, RequestDoes
<1>3. ASSUME NEW q \in Reader, q # r, Count(q) \/ Relist(q) PROVE Untouched(r)
  BY <1>1, <1>3, CountDoes, RelistDoes DEF Shows
<1>4. ASSUME NEW q \in Reader, q # r, List(q) PROVE Untouched(r)
  <2>1. PICK last : last = Pages(total[q], perPage[q])
    OBVIOUS
  <2>2. Alone(q)
    BY <1>4, <2>1, ListDoes DEF Corrects, Shows
  <2> QED BY <1>1, <1>4, <2>2
<1>5. CASE UNCHANGED vars
  BY <1>5 DEF vars, request, Untouched, Same
<1> QED BY <1>2, <1>3, <1>4, <1>5 DEF Next

(* What is shown stays until the next request.                             *)
LEMMA StaysShown ==
  ASSUME TypeOK, [Next]_vars, NEW r \in Reader, at[r] = "shown", at'[r] = "shown"
  PROVE  \/ Untouched(r)
         \/ \E e \in Entry : Come(e) \/ Go(e)
<1>1. ~Open(r) /\ ~Count(r) /\ ~List(r) /\ ~Relist(r)
  BY DEF Open, Count, List, Relist
<1>2. ~FollowNext(r)
  BY DEF FollowNext, Request, TypeOK
<1> QED BY <1>1, <1>2, ReaderSteps

LEMMA NoBlankStep ==
  TypeOK /\ RequestInv /\ NoBlankPage /\ [Next]_vars => NoBlankPage'
<1> SUFFICES ASSUME TypeOK, RequestInv, NoBlankPage, [Next]_vars, NEW r \in Reader,
                    at'[r] = "shown", total'[r] > 0, went'[r] = 0
             PROVE  shown'[r] # {}
  BY DEF NoBlankPage
<1>1. CASE at[r] # "shown"
  <2>1. RequestOK(r) /\ ShownBy(r)
    BY <1>1, ShowSteps DEF RequestInv
  <2>2. PICK p, n, l, c : /\ p = page[r] /\ n = perPage[r] /\ l = pages'[r]
                          /\ c = Cardinality(present)
    OBVIOUS
  <2>3. went[r] = 0 /\ total[r] > 0
    BY <2>1 DEF ShownBy, Shows
  <2>4. l > 0
    <3>1. CASE at[r] = "list"
      BY <2>1, <2>2, <2>3, <3>1, ShownNumbers
    <3>2. CASE at[r] = "relist" /\ pages'[r] = pages[r]
      BY <2>1, <2>2, <3>2 DEF RequestOK, Corrected
    <3> QED BY <2>1, <3>1, <3>2 DEF ShownBy
  <2>5. /\ p \in Nat \ {0} /\ n \in Nat \ {0} /\ c \in Nat
        /\ offset[r] = Offset(p, n)
        /\ (p - 1) * n <= MaxInt /\ (p - 1) * n < c
    BY <2>1, <2>2, <2>3, <2>4, ShownNumbers
  <2>6. PICK x \in Nat : x = (p - 1) * n /\ x \in 0..(c - 1)
    <3>1. PICK i \in Nat : i = p - 1
      BY <2>5
    <3>2. PICK y \in Nat : y = i * n
      BY <2>5
    <3> QED BY <2>5, <3>1, <3>2
  <2>7. PICK e \in present : Rank(present, e) = x
    BY <2>2, <2>6, EntrySizes, RankTaken DEF TypeOK
  <2>8. x < x + n
    BY <2>5
  <2>9. e \in Slice(Offset(p, n), n)
    BY <2>5, <2>6, <2>7, <2>8, PageRows
  <2> QED BY <2>1, <2>2, <2>5, <2>9 DEF ShownBy, Shows
<1>2. CASE at[r] = "shown"
  <2>1. Same(r) /\ went'[r] = went[r]
    <3>1. CASE Untouched(r)
      BY <3>1 DEF Untouched
    <3>2. ASSUME NEW e \in Entry, Come(e) \/ Go(e) PROVE Same(r) /\ went'[r] = went[r]
      BY <1>2, <3>2, ComeDoes, GoDoes DEF InRequest
    <3> QED BY <1>2, <3>1, <3>2, StaysShown
  <2> QED BY <1>2, <2>1 DEF NoBlankPage, Same
<1> QED BY <1>1, <1>2

(* NoBlankPage: a list with rows shows some, unless rows went during the   *)
(* request, also when the page had to be corrected.                        *)
THEOREM RowsAreShown == Spec => []NoBlankPage
<1>1. Init => NoBlankPage
  BY DEF Init, NoBlankPage
<1>2. TypeOK /\ RequestInv /\ NoBlankPage /\ [Next]_vars => NoBlankPage'
  BY NoBlankStep
<1> QED BY <1>1, <1>2, RequestsKnow, PTL DEF Spec

-----------------------------------------------------------------------------
(* A review misses at most one row for each that went.                     *)

(* Rows not seen: those passed, and those behind.                          *)
LEMMA UnseenFew ==
  ASSUME NEW P \in SUBSET Nat, IsFiniteSet(P), NEW U \in SUBSET P, NEW T \in Nat,
         NEW w \in Nat, NEW k \in Nat,
         Cardinality({e \in U : Rank(P, e) < T}) <= w,
         Cardinality(P) <= T + k
  PROVE  Cardinality(U) <= w + k
<1>1. PICK A, B : A = {e \in U : Rank(P, e) < T} /\ B = {e \in U : Rank(P, e) >= T}
  OBVIOUS
<1>2. PICK c \in Nat, b \in Int : c = Cardinality(P) /\ b = c - 1
  BY FS_CardinalityType
<1>3. \A e \in P : Rank(P, e) \in 0..b
  BY <1>2, RankType
<1>4. U = A \cup B
  <2>1. \A e \in U : Rank(P, e) < T \/ Rank(P, e) >= T
    BY <1>3
  <2> QED BY <1>1, <2>1
<1>5. A \in SUBSET P /\ B \in SUBSET P
  BY <1>1
<1>6. /\ IsFiniteSet(A) /\ IsFiniteSet(B)
      /\ Cardinality(A) \in Nat /\ Cardinality(B) \in Nat
  BY <1>5, FS_Subset, FS_CardinalityType
<1>7. \A e \in B : Rank(P, e) \in T..b
  BY <1>1, <1>3, <1>5
<1>8. Cardinality(B) <= IF T > b THEN 0 ELSE b - T + 1
  <2>1. T \in Int /\ b \in Int
    BY <1>2
  <2> QED BY ONLY <1>5, <1>7, <2>1, P \in SUBSET Nat, IsFiniteSet(P), RanksWithin
<1>9. Cardinality(B) <= k
  BY <1>2, <1>6, <1>8
<1>10. Cardinality(U) <= Cardinality(A) + Cardinality(B)
  <2>1. Cardinality(A \cap B) \in Nat
    BY <1>6, FS_Intersection, FS_CardinalityType
  <2>2. Cardinality(A \cup B) = Cardinality(A) + Cardinality(B) - Cardinality(A \cap B)
    BY <1>6, FS_Union
  <2>3. Cardinality(U) \in Int
    BY <1>4, <1>6, <2>1, <2>2
  <2> QED BY <1>4, <1>6, <2>1, <2>2, <2>3
<1>11. Cardinality(A) <= w
  BY <1>1
<1>12. Cardinality(U) \in Nat
  BY FS_Subset, FS_CardinalityType
<1> QED BY <1>6, <1>9, <1>10, <1>11, <1>12

(* Less of a finite set.                                                   *)
LEMMA FewerStill ==
  ASSUME NEW P, IsFiniteSet(P), NEW A \in SUBSET P, NEW B \in SUBSET A,
         NEW w \in Nat, Cardinality(A) <= w
  PROVE  Cardinality(B) <= w
<1>1. IsFiniteSet(A) /\ IsFiniteSet(B)
  BY FS_Subset
<1>2. Cardinality(B) <= Cardinality(A)
  BY <1>1, FS_Subset
<1>3. Cardinality(A) \in Nat /\ Cardinality(B) \in Nat
  BY <1>1, FS_CardinalityType
<1> QED BY <1>2, <1>3

LEMMA PassedType ==
  ASSUME TypeOK, NEW r \in Reader, Started(r), at[r] # "idle"
  PROVE  Passed(r) \in Nat
<1>1. PICK p \in Nat, n \in Nat, i \in Nat :
        p = page[r] /\ n = perPage[r] /\ i = asked[r] - 1
  BY EntrySizes, WordHalves DEF TypeOK, Started
<1> QED BY <1>1 DEF Passed

LEMMA ShowReview ==
  ASSUME TypeOK, NEW r \in Reader, RequestOK(r), PassedSeen(r), ShownBy(r),
         review[r].on
  PROVE  PassedSeen(r)' /\ MissesLittle(r)'
<1>1. PICK p, n, l, c : /\ p = page[r] /\ n = perPage[r] /\ l = pages'[r]
                        /\ c = Cardinality(present)
  OBVIOUS
<1>2. /\ p \in Nat \ {0} /\ n \in Nat \ {0} /\ l \in Nat /\ c \in Nat
      /\ offset[r] = Offset(p, n)
      /\ c <= l * n + came[r]
  BY <1>1, ShownNumbers
<1>3. at[r] \in {"list", "relist"} /\ Shows(r)
  BY DEF ShownBy
<1>4. PICK T \in Nat, a \in Nat, k \in Nat, w \in Nat :
        /\ T = Passed(r) /\ a = asked[r] /\ T = (a - 1) * n
        /\ k = came[r] /\ w = review[r].went
  <2>1. Passed(r) \in Nat
    BY <1>3, PassedType DEF RequestOK
  <2>2. asked[r] \in Nat /\ came[r] \in Nat /\ review[r].went \in Nat
    BY WordHalves DEF TypeOK
  <2> QED BY <1>1, <1>3, <2>1, <2>2 DEF Passed
<1>5. present \in SUBSET Nat /\ IsFiniteSet(present)
  BY EntrySizes DEF TypeOK
<1>6. PICK U, V : /\ U = Unseen(r)
                  /\ V = U \ Slice(Offset(p, n), n)
  OBVIOUS
<1>7. /\ Unseen(r)' = V /\ review'[r].went = w /\ came'[r] = k /\ present' = present
      /\ page'[r] = p /\ perPage'[r] = n /\ at'[r] = "shown"
      /\ review'[r].stayed = review[r].stayed
  BY <1>1, <1>2, <1>3, <1>4, <1>6 DEF Shows, Unseen, Alone
<1>8. /\ U \in SUBSET present /\ V \in SUBSET present /\ review[r].stayed \subseteq present
      /\ Cardinality({e \in U : Rank(present, e) < T}) <= w
  BY <1>3, <1>4, <1>6 DEF PassedSeen, Unseen
<1>9. ASSUME NEW Z \in Nat, {e \in V : Rank(present, e) < Z} \subseteq
                              {e \in U : Rank(present, e) < T}
      PROVE  Cardinality({e \in V : Rank(present, e) < Z}) <= w
  <2>1. {e \in U : Rank(present, e) < T} \in SUBSET present
    BY <1>8
  <2> QED BY <1>4, <1>5, <1>8, <1>9, <2>1, FewerStill
<1>10. PICK x \in Nat : x = l * n
  BY <1>2
<1>11. CASE at[r] = "list" /\ ~(l > 0 /\ p > l)
  <2>1. p = a /\ T = (p - 1) * n
    BY <1>1, <1>4, <1>11 DEF RequestOK, Started
  <2>2. T <= MaxInt
    BY <1>1, <1>4, <1>11 DEF RequestOK, InsideWord
  <2>3. PICK Z \in Nat : Z = p * n /\ Z = T + n
    <3>1. PICK i \in Nat : i = p - 1 /\ p = i + 1
      BY <1>2
    <3>2. p * n = i * n + n
      BY <1>2, <3>1
    <3> QED BY <1>2, <2>1, <3>1, <3>2
  <2>4. \A e \in present : Rank(present, e) \in Nat
    BY <1>5, RankType
  <2>5. ASSUME NEW e \in V, Rank(present, e) < Z
        PROVE  e \in U /\ Rank(present, e) < T
    <3>1. e \in U /\ e \in present /\ e \notin Slice(Offset(p, n), n)
      BY <1>6, <1>8
    <3>2. (p - 1) * n <= MaxInt
      BY <2>1, <2>2
    <3>3. ~(T <= Rank(present, e) /\ Rank(present, e) < T + n)
      BY <1>2, <2>1, <3>1, <3>2, PageRows
    <3> QED BY <1>2, <2>3, <2>4, <2>5, <3>1, <3>3
  <2>6. Cardinality({e \in V : Rank(present, e) < Z}) <= w
    BY <1>9, <2>5
  <2>7. Passed(r)' = Z
    BY <1>7, <2>3 DEF Passed
  <2>8. PassedSeen(r)'
    BY <1>7, <1>8, <2>6, <2>7, <1>4 DEF PassedSeen
  <2>9. MissesLittle(r)'
    <3> SUFFICES ASSUME ~HasNext(r)' PROVE Cardinality(V) <= w + k
      BY <1>7 DEF MissesLittle
    <3>1. l <= p
      BY <1>1, <1>2, <1>7 DEF HasNext
    <3>2. x <= Z
      BY <1>2, <1>10, <2>3, <3>1
    <3>3. c <= Z + k
      BY <1>2, <1>4, <1>10, <3>2
    <3> QED BY <1>1, <1>4, <1>5, <1>8, <2>6, <3>3, UnseenFew
  <2> QED BY <2>8, <2>9
<1>12. CASE at[r] = "relist" /\ l = pages[r]
  <2>1. p = l /\ l < a
    BY <1>1, <1>4, <1>12 DEF RequestOK, Corrected
  <2>2. x <= T
    <3>1. PICK i \in Nat : i = a - 1 /\ l <= i
      BY <1>2, <1>4, <2>1
    <3> QED BY <1>2, <1>4, <1>10, <3>1
  <2>3. ~HasNext(r)'
    BY <1>1, <1>2, <1>7, <2>1 DEF HasNext
  <2>4. Cardinality({e \in V : Rank(present, e) < T}) <= w
    <3>1. {e \in V : Rank(present, e) < T} \subseteq {e \in U : Rank(present, e) < T}
      BY <1>6
    <3> QED BY <1>9, <3>1
  <2>5. c <= T + k
    BY <1>2, <1>4, <1>10, <2>2
  <2>6. Cardinality(V) <= w + k
    BY <1>1, <1>4, <1>5, <1>8, <2>4, <2>5, UnseenFew
  <2>7. MissesLittle(r)'
    BY <1>7, <2>6 DEF MissesLittle
  <2>8. PassedSeen(r)'
    BY <1>7, <1>8, <2>3 DEF PassedSeen
  <2> QED BY <2>7, <2>8
<1> QED BY <1>1, <1>11, <1>12 DEF ShownBy

LEMMA ComeReview ==
  ASSUME TypeOK, NEW r \in Reader, RequestOK(r), PassedSeen(r), MissesLittle(r),
         NEW e \in Entry, Come(e)
  PROVE  PassedSeen(r)' /\ MissesLittle(r)'
<1>1. /\ Same(r) /\ review'[r] = review[r] /\ present \subseteq present'
      /\ at[r] = "shown" => came'[r] = came[r]
  BY ComeDoes DEF InRequest
<1>2. MissesLittle(r)'
  BY <1>1 DEF MissesLittle, Unseen, HasNext, Same
<1>3. PassedSeen(r)'
  <2> SUFFICES ASSUME at[r] # "idle", review[r].on PROVE PassedSeen(r)'
    BY <1>1 DEF PassedSeen, Same
  <2>1. review[r].stayed \subseteq present
    BY DEF PassedSeen
  <2>2. review'[r].stayed \subseteq present'
    BY <1>1, <2>1
  <2>3. ASSUME at'[r] = "shown" => HasNext(r)'
        PROVE  Cardinality({d \in Unseen(r)' : Rank(present', d) < Passed(r)'})
                 <= review'[r].went
    <3>1. PICK U, T, w, Q : U = Unseen(r) /\ T = Passed(r) /\ w = review[r].went
                            /\ Q = present'
      OBVIOUS
    <3>2. Unseen(r)' = U /\ Passed(r)' = T /\ review'[r].went = w
      BY <1>1, <3>1 DEF Unseen, Passed, Same
    <3>3. T \in Nat /\ w \in Nat
      BY <3>1, PassedType DEF RequestOK, TypeOK
    <3>4. Cardinality({d \in U : Rank(present, d) < T}) <= w
      BY <1>1, <2>3, <3>1 DEF PassedSeen, HasNext, Same
    <3>5. U \subseteq present
      BY <2>1, <3>1 DEF Unseen
    <3>6. present \in SUBSET Nat /\ IsFiniteSet(present)
          /\ Q \in SUBSET Nat /\ IsFiniteSet(Q)
      <4>1. Q = present \cup {e}
        BY <3>1 DEF Come
      <4>2. Q \in SUBSET Entry /\ present \in SUBSET Entry
        BY <4>1 DEF TypeOK
      <4> QED BY <4>2, EntrySizes
    <3>7. ASSUME NEW d \in U, Rank(Q, d) < T PROVE Rank(present, d) < T
      <4>1. d \in Nat /\ d \in present
        BY <3>5, <3>6
      <4>2. Rank(present, d) <= Rank(Q, d)
        BY <1>1, <3>1, <3>6, <4>1, RankGrows
      <4>3. Rank(present, d) \in Nat /\ Rank(Q, d) \in Nat
        BY ONLY <3>6, <4>1, RankNat
      <4> QED BY <3>3, <3>7, <4>2, <4>3
    <3>8. PICK A, B : A = {d \in U : Rank(present, d) < T}
                      /\ B = {d \in U : Rank(Q, d) < T}
      OBVIOUS
    <3>9. A \in SUBSET present /\ B \in SUBSET A
      BY <3>5, <3>7, <3>8
    <3>10. Cardinality(B) <= w
      BY <3>3, <3>4, <3>6, <3>8, <3>9, FewerStill
    <3> QED BY <3>1, <3>2, <3>8, <3>10
  <2> QED BY <2>2, <2>3 DEF PassedSeen
<1> QED BY <1>2, <1>3

LEMMA GoReview ==
  ASSUME TypeOK, NEW r \in Reader, RequestOK(r), PassedSeen(r), MissesLittle(r),
         NEW e \in Entry, Go(e)
  PROVE  PassedSeen(r)' /\ MissesLittle(r)'
<1>1. PICK S, U, w, s :
        S = review[r].stayed /\ U = Unseen(r) /\ w = review[r].went
        /\ s = review[r].seen
  OBVIOUS
<1>2. /\ Same(r) /\ came'[r] = came[r] /\ present' = present \ {e}
      /\ review'[r].on = review[r].on /\ review'[r].stayed = S \ {e}
      /\ review'[r].seen = s /\ review'[r].went = w + 1
  <2>1. /\ Same(r) /\ came'[r] = came[r] /\ present' = present \ {e}
        /\ review'[r] = [review[r] EXCEPT !.stayed = @ \ {e}, !.went = @ + 1]
    BY GoDoes
  <2>2. review[r] \in [on : BOOLEAN, stayed : SUBSET Entry, seen : SUBSET Entry,
                       went : Nat]
    BY DEF TypeOK
  <2> QED BY <1>1, <2>1, <2>2
<1>3. Unseen(r)' = U \ {e} /\ w \in Nat /\ came[r] \in Nat
  BY <1>1, <1>2 DEF Unseen, TypeOK
<1>4. MissesLittle(r)'
  <2> SUFFICES ASSUME at[r] = "shown", review[r].on, ~HasNext(r)
               PROVE  Cardinality(U \ {e}) <= w + 1 + came[r]
    BY <1>2, <1>3 DEF MissesLittle, HasNext, Same
  <2>1. Cardinality(U) <= w + came[r]
    BY <1>1 DEF MissesLittle
  <2>2. U \in SUBSET Entry
    BY <1>1 DEF Unseen, TypeOK
  <2>3. U \in SUBSET U /\ U \ {e} \in SUBSET U /\ w + came[r] \in Nat
    BY <1>3
  <2>4. Cardinality(U \ {e}) <= w + came[r]
    BY <2>1, <2>2, <2>3, EntrySizes, FewerStill
  <2>5. Cardinality(U \ {e}) \in Nat
    BY <2>2, EntrySizes
  <2> QED BY <1>3, <2>4, <2>5
<1>5. PassedSeen(r)'
  <2> SUFFICES ASSUME at[r] # "idle", review[r].on PROVE PassedSeen(r)'
    BY <1>2 DEF PassedSeen, Same
  <2>1. S \subseteq present
    BY <1>1 DEF PassedSeen
  <2>2. review'[r].stayed \subseteq present'
    BY <1>2, <2>1
  <2>3. ASSUME at'[r] = "shown" => HasNext(r)'
        PROVE  Cardinality({d \in Unseen(r)' : Rank(present', d) < Passed(r)'})
                 <= review'[r].went
    <3>1. PICK T, Q : T = Passed(r) /\ Q = present \ {e}
      OBVIOUS
    <3>2. Passed(r)' = T
      BY <1>2, <3>1 DEF Passed, Same
    <3>3. T \in Nat
      BY <3>1, PassedType DEF RequestOK
    <3>4. Cardinality({d \in U : Rank(present, d) < T}) <= w
      BY <1>1, <1>2, <2>3, <3>1 DEF PassedSeen, HasNext, Same
    <3>5. U \subseteq present
      BY <2>1, <1>1 DEF Unseen
    <3>6. present \in SUBSET Nat /\ IsFiniteSet(present)
          /\ Q \in SUBSET Nat /\ IsFiniteSet(Q)
      <4>1. Q \in SUBSET Entry /\ present \in SUBSET Entry
        BY <3>1 DEF TypeOK
      <4> QED BY <4>1, EntrySizes
    <3>7. PICK A, B, C : /\ A = {d \in U : Rank(present, d) < T}
                         /\ B = {d \in U \ {e} : Rank(Q, d) < T}
                         /\ C = {d \in present : Rank(present, d) = T}
      OBVIOUS
    <3>8. ASSUME NEW d \in B PROVE d \in A \cup C
      <4>1. d \in U /\ d \in present /\ d \in Nat /\ Rank(Q, d) < T
        BY <3>5, <3>6, <3>7, <3>8
      <4>2. Rank(present, d) <= Rank(Q, d) + 1
        BY <3>1, <3>6, <4>1, RankWithout
      <4>3. Rank(present, d) \in Nat /\ Rank(Q, d) \in Nat
        BY ONLY <3>6, <4>1, RankNat
      <4>4. Rank(present, d) < T \/ Rank(present, d) = T
        BY <3>3, <4>1, <4>2, <4>3
      <4> QED BY <3>7, <4>1, <4>4
    <3>9. A \in SUBSET present /\ C \in SUBSET present /\ A \cup C \in SUBSET present
      BY <3>5, <3>7
    <3>10. Cardinality(C) <= 1
      <4>1. T \in Int /\ \A d \in C : Rank(present, d) \in T..T
        BY <3>3, <3>7
      <4>2. Cardinality(C) <= IF T > T THEN 0 ELSE T - T + 1
        BY <3>6, <3>9, <4>1, RanksWithin
      <4>3. ~(T > T) /\ T - T + 1 = 1
        BY <4>1
      <4> QED BY <4>2, <4>3
    <3>11. /\ IsFiniteSet(A) /\ IsFiniteSet(C)
           /\ Cardinality(A) \in Nat /\ Cardinality(C) \in Nat
      BY <3>6, <3>9, FS_Subset, FS_CardinalityType
    <3>12. Cardinality(A \cup C) <= w + 1
      <4>1. Cardinality(A \cup C) = Cardinality(A) + Cardinality(C)
                                    - Cardinality(A \cap C)
        BY <3>11, FS_Union
      <4>2. Cardinality(A \cap C) \in Nat
        BY <3>11, FS_Intersection, FS_CardinalityType
      <4> QED BY <1>3, <3>4, <3>7, <3>10, <3>11, <4>1, <4>2
    <3>13. Cardinality(B) <= w + 1
      <4>1. B \in SUBSET (A \cup C) /\ w + 1 \in Nat
        BY <1>3, <3>8
      <4> QED BY <3>6, <3>9, <3>12, <4>1, FewerStill
    <3> QED BY <1>2, <1>3, <3>1, <3>2, <3>7, <3>13
  <2> QED BY <2>2, <2>3 DEF PassedSeen
<1> QED BY <1>4, <1>5

LEMMA ReviewStep ==
  TypeOK /\ RequestInv /\ ReviewInv /\ [Next]_vars => ReviewInv'
<1> SUFFICES ASSUME TypeOK, RequestInv, ReviewInv, [Next]_vars, NEW r \in Reader
             PROVE  PassedSeen(r)' /\ MissesLittle(r)'
  BY DEF ReviewInv
<1>1. RequestOK(r) /\ PassedSeen(r) /\ MissesLittle(r) /\ Started(r)
  BY DEF RequestInv, ReviewInv, RequestOK
<1>2. CASE Untouched(r)
  BY <1>1, <1>2 DEF Untouched, Same, PassedSeen, MissesLittle, Unseen, Passed, HasNext
<1>3. ASSUME NEW e \in Entry, Come(e) \/ Go(e)
      PROVE  PassedSeen(r)' /\ MissesLittle(r)'
  BY <1>1, <1>3, ComeReview, GoReview
<1>4. CASE Open(r)
  <2>1. PICK p \in 1..MaxInt, n \in 1..MaxInt :
          /\ Request(r, p, Capped(n))
          /\ review' = [review EXCEPT ![r] = [on |-> p = 1, stayed |-> present,
                                             seen |-> {}, went |-> 0]]
    BY <1>4 DEF Open
  <2>2. PICK m \in 1..MaxRows : m = Capped(n)
    BY EntrySizes, WordHalves DEF Capped
  <2>3. /\ review'[r] = [on |-> p = 1, stayed |-> present, seen |-> {}, went |-> 0]
        /\ review'[r].on = (p = 1)
        /\ \A q \in Reader \ {r} : review'[q] = review[q]
    BY <2>1 DEF TypeOK
  <2>4. /\ present' = present /\ at'[r] = "count" /\ asked'[r] = p /\ perPage'[r] = m
    BY <2>1, <2>2, <2>3, RequestDoes DEF Alone
  <2>5. MissesLittle(r)'
    BY <2>4 DEF MissesLittle
  <2>6. PassedSeen(r)'
    <3> SUFFICES ASSUME review'[r].on PROVE PassedSeen(r)'
      BY DEF PassedSeen
    <3>1. p = 1
      BY <2>3, Zenon
    <3>2. Passed(r)' = 0
      <4>1. p - 1 = 0 /\ m \in Nat
        BY <3>1, EntrySizes
      <4>2. (p - 1) * m = 0
        BY <4>1
      <4> QED BY <2>4, <4>2 DEF Passed
    <3>3. Unseen(r)' = present /\ review'[r].stayed = present /\ review'[r].went = 0
      BY <2>3 DEF Unseen
    <3>4. \A d \in present : ~(Rank(present, d) < 0)
      <4>1. present \in SUBSET Nat /\ IsFiniteSet(present)
        BY EntrySizes DEF TypeOK
      <4> QED BY <4>1, RankType
    <3>5. PICK A : A = {d \in present : Rank(present, d) < 0}
      OBVIOUS
    <3>6. A = {}
      BY <3>4, <3>5
    <3>7. Cardinality(A) <= 0
      BY <3>6, FS_EmptySet
    <3> QED BY <2>4, <3>2, <3>3, <3>5, <3>7 DEF PassedSeen
  <2> QED BY <2>5, <2>6
<1>5. CASE FollowNext(r)
  <2>1. at[r] = "shown" /\ HasNext(r) /\ Request(r, page[r] + 1, perPage[r])
        /\ review' = review
    BY <1>5 DEF FollowNext
  <2>2. PICK p \in Nat, n \in Nat : p = page[r] /\ n = perPage[r]
    BY EntrySizes, WordHalves DEF TypeOK
  <2>3. /\ present' = present /\ at'[r] = "count" /\ asked'[r] = p + 1
        /\ perPage'[r] = n
    BY <2>1, <2>2, RequestDoes DEF Alone
  <2>4. Passed(r)' = Passed(r)
    <3>1. p + 1 - 1 = p
      BY <2>2
    <3> QED BY <2>1, <2>2, <2>3, <3>1 DEF Passed
  <2>5. MissesLittle(r)'
    BY <2>3 DEF MissesLittle
  <2>6. PassedSeen(r)'
    BY <1>1, <2>1, <2>3, <2>4 DEF PassedSeen, Unseen
  <2> QED BY <2>5, <2>6
<1>6. ASSUME at[r] \in {"count", "list", "recount"}, at'[r] \in {"list", "recount", "relist"},
             present' = present, review'[r] = review[r], asked'[r] = asked[r],
             perPage'[r] = perPage[r]
      PROVE  PassedSeen(r)' /\ MissesLittle(r)'
  BY <1>1, <1>6 DEF PassedSeen, MissesLittle, Unseen, Passed
<1>7. CASE Count(r)
  BY <1>6, <1>7, CountDoes DEF Alone
<1>8. ASSUME ShownBy(r) PROVE PassedSeen(r)' /\ MissesLittle(r)'
  <2>1. CASE review[r].on
    BY <1>1, <1>8, <2>1, ShowReview
  <2>2. CASE ~review[r].on
    BY <1>8, <2>2 DEF ShownBy, Shows, PassedSeen, MissesLittle
  <2> QED BY <2>1, <2>2
<1>9. CASE List(r)
  <2>1. PICK last : last = Pages(total[r], perPage[r])
    OBVIOUS
  <2>2. /\ at[r] = "list"
        /\ \/ Corrects(r, last)
           \/ ~(last > 0 /\ page[r] > last) /\ Shows(r) /\ pages'[r] = last
    BY <1>9, <2>1, ListDoes
  <2>3. CASE Corrects(r, last)
    BY <1>6, <2>2, <2>3 DEF Corrects, Alone
  <2>4. CASE ~(last > 0 /\ page[r] > last) /\ Shows(r) /\ pages'[r] = last
    <3>1. ShownBy(r)
      BY <2>1, <2>2, <2>4 DEF ShownBy
    <3> QED BY <1>8, <3>1
  <2> QED BY <2>2, <2>3, <2>4
<1>10. CASE Relist(r)
  <2>1. ShownBy(r)
    BY <1>10, RelistDoes DEF ShownBy
  <2> QED BY <1>8, <2>1
<1> QED BY <1>2, <1>3, <1>4, <1>5, <1>7, <1>9, <1>10, ReaderSteps

(* ReviewMissesLittle: paging by LIMIT and OFFSET through a list that      *)
(* changes, a reader who follows NextURL from page 1 to the end misses at  *)
(* most one lasting row for each row that went, and for each that came     *)
(* between the queries of the last page.                                   *)
THEOREM ReviewSeesMost == Spec => []ReviewMissesLittle
<1>1. Init => ReviewInv
  BY DEF Init, ReviewInv, PassedSeen, MissesLittle
<1>2. TypeOK /\ RequestInv /\ ReviewInv /\ [Next]_vars => ReviewInv'
  BY ReviewStep
<1>3. ReviewInv => ReviewMissesLittle
  BY DEF ReviewInv, MissesLittle, Unseen, ReviewMissesLittle
<1> QED BY <1>1, <1>2, <1>3, RequestsKnow, PTL DEF Spec
=============================================================================
