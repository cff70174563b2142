------------------------ MODULE HierarchyAdminProofs ------------------------
(***************************************************************************)
(* Proofs about HierarchyAdmin, for any tables, any number of admins and   *)
(* saves, and any of the faults: the constraints of the schema, the audit  *)
(* log against what was saved, and what a save leaves alone.               *)
(***************************************************************************)
EXTENDS HierarchyAdmin, FiniteSetTheorems, SequenceTheorems, TLAPS

USE AdminAssumption

(* TypeOK, in the order in which steps change things.                      *)
TableTypes == row \in [Item -> Row \cup {Unborn}] /\ Sound(row)

PageTypes ==
  /\ pc \in [Admin -> {"idle", "list", "find", "form", "audit"}]
  /\ editing \in [Admin -> Item \cup {Nothing}]
  /\ options \in [Admin -> SUBSET (Item \cup {Root})]
  /\ shown \in [Admin -> Row \cup {Nothing}]
  /\ older \in [Admin -> SUBSET Item]
  /\ read \in [Admin -> Row \cup {Nothing}]

LogTypes ==
  /\ log \in [Item -> Seq(1..MaxSaves)]
  /\ entry \in [Admin -> Version \cup {Nothing}]
  /\ saves \in 0..MaxSaves
  /\ version \in [Item -> 0..saves]
  /\ lost \subseteq Version
  /\ blurred \subseteq Item

(***************************************************************************)
(* The page of an admin: what it offers for parents are those that were    *)
(* there when it was asked for, at least; what it shows is the row it      *)
(* read, unless the row's parent is none of those.                         *)
(***************************************************************************)
OfferedEarly(a) ==
  IF Level[editing[a]] = 1 THEN options[a] = {Root}
  ELSE {p \in older[a] : Level[p] = Level[editing[a]] - 1} \subseteq options[a]

ShowsRead(a) ==
  /\ read[a] \in Row /\ shown[a] \in Row
  /\ shown[a].name = read[a].name
  /\ shown[a].open = read[a].open
  /\ read[a].parent \in older[a] \cup {Root} => shown[a].parent = read[a].parent

PageInv(a) ==
  /\ older[a] \subseteq Born
  /\ pc[a] \in {"list", "find", "form"} => editing[a] \in Born
  /\ pc[a] = "list" => Level[editing[a]] # 1
  /\ pc[a] = "find" => OfferedEarly(a)
  /\ pc[a] = "form" => ShowsRead(a)
  /\ pc[a] = "audit" <=> entry[a] # Nothing

Pages == \A a \in Admin : PageInv(a)

(***************************************************************************)
(* The versions of a row: those that are due are due once, and not lost;   *)
(* a row that is not blurred has no entry due but that of its last save,   *)
(* and with none due its log ends with that.                               *)
(***************************************************************************)
Due(x) == {entry[a].n : a \in Pending(x)}

Missing(x) == {v.n : v \in {w \in lost : w.id = x}}

Accounted(x) ==
  /\ ToSet(log[x]) \cup Due(x) \cup Missing(x) = 1..version[x]
  /\ Len(log[x]) + Cardinality(Due(x)) + Cardinality(Missing(x)) = version[x]

DueOnce ==
  \A a \in Admin : entry[a] # Nothing =>
    /\ entry[a] \notin lost
    /\ \A b \in Admin : entry[b] = entry[a] => b = a

Sharp(x) ==
  x \notin blurred =>
    /\ \A a \in Pending(x) : entry[a].n = version[x]
    /\ version[x] > 0 /\ Pending(x) = {} =>
         log[x] # <<>> /\ Last(log[x]) = version[x]

Logs == (\A x \in Item : Accounted(x) /\ Sharp(x)) /\ DueOnce

IInv == TableTypes /\ PageTypes /\ LogTypes /\ Pages /\ Logs

-----------------------------------------------------------------------------
(* The tables.                                                             *)

(* A statement that the constraints admit keeps them, and adds a row or    *)
(* none.                                                                   *)
LEMMA CommitTable ==
  ASSUME TableTypes, NEW x \in Item, NEW new \in Row,
         new.slug = Slugify[new.name], Fits(x, new),
         row' = [row EXCEPT ![x] = new]
  PROVE  TableTypes' /\ Born' = Born \cup {x}
<1>1. \A y \in Item : row'[y] = IF y = x THEN new ELSE row[y]
  BY DEF TableTypes
<1>2. row' \in [Item -> Row \cup {Unborn}]
  BY DEF TableTypes
<1>3. Born' = Born \cup {x}
  BY <1>1 DEF Born, BornIn
<1>4. \A y \in Item : Level[y] \in Int
  OBVIOUS
<1>5. ASSUME NEW y \in Born' PROVE row'[y].slug = Slugify[row'[y].name]
  BY <1>1, <1>3, <1>5 DEF TableTypes, Sound, Born, BornIn
<1>6. ASSUME NEW y \in Born'
      PROVE  IF Level[y] = 1 THEN row'[y].parent = Root
             ELSE row'[y].parent \in {p \in Born' : Level[p] = Level[y] - 1}
  <2>1. CASE y = x
    BY <1>1, <1>3, <2>1 DEF Fits, FitsIn, Born
  <2>2. CASE y # x
    <3>1. y \in Born /\ row'[y] = row[y]
      BY <1>1, <1>3, <1>6, <2>2 DEF Born, BornIn
    <3>2. IF Level[y] = 1 THEN row[y].parent = Root
          ELSE row[y].parent \in Born /\ Level[row[y].parent] = Level[y] - 1
      BY <3>1 DEF TableTypes, Sound, FitsIn, Born
    <3> QED BY <1>3, <3>1, <3>2
  <2> QED BY <2>1, <2>2
<1>7. ASSUME NEW y \in Born', NEW z \in Born' \ {y}, Level[z] = Level[y]
      PROVE  row'[z].parent # row'[y].parent \/ row'[z].slug # row'[y].slug
  <2>1. CASE y = x
    <3>1. z \in Born \ {x} /\ row'[z] = row[z] /\ row'[y] = new
      BY <1>1, <1>3, <2>1 DEF Born, BornIn
    <3> QED BY <1>7, <2>1, <3>1 DEF Fits, FitsIn, Born
  <2>2. CASE z = x /\ y # x
    <3>1. y \in Born \ {x} /\ row'[y] = row[y] /\ row'[z] = new
      BY <1>1, <1>3, <2>2 DEF Born, BornIn
    <3> QED BY <1>7, <2>2, <3>1 DEF Fits, FitsIn, Born
  <2>3. CASE z # x /\ y # x
    <3>1. y \in Born /\ z \in Born \ {y} /\ row'[y] = row[y] /\ row'[z] = row[z]
      BY <1>1, <1>3, <2>3 DEF Born, BornIn
    <3> QED BY <1>7, <3>1 DEF TableTypes, Sound, FitsIn, Born
  <2> QED BY <2>1, <2>2, <2>3
<1>8. Sound(row')
  BY <1>5, <1>6, <1>7 DEF Sound, FitsIn, Born
<1> QED BY <1>2, <1>3, <1>8 DEF TableTypes

-----------------------------------------------------------------------------
(* The pages.                                                              *)

(* The tables and what is due have changed in no way that matters to the   *)
(* page of b.                                                              *)
LEMMA OtherPages ==
  ASSUME Pages, NEW b \in Admin, Born \subseteq Born',
         pc'[b] = pc[b], editing'[b] = editing[b], options'[b] = options[b],
         shown'[b] = shown[b], older'[b] = older[b], read'[b] = read[b],
         entry'[b] = entry[b]
  PROVE  PageInv(b)'
BY DEF Pages, PageInv, OfferedEarly, ShowsRead

(* The page is gone.                                                       *)
LEMMA ClearPage ==
  ASSUME PageTypes, Pages, NEW a \in Admin, NEW s \in {"idle", "audit"}, Clear(a, s),
         Born \subseteq Born',
         s = "audit" <=> entry'[a] # Nothing,
         \A b \in Admin \ {a} : entry'[b] = entry[b]
  PROVE  PageTypes' /\ Pages'
<1>1. PageTypes'
  BY DEF PageTypes, Clear, Goto
<1>2. PageInv(a)'
  BY DEF PageTypes, Clear, Goto, PageInv
<1>3. ASSUME NEW b \in Admin \ {a} PROVE PageInv(b)'
  <2>1. /\ pc'[b] = pc[b] /\ editing'[b] = editing[b] /\ options'[b] = options[b]
        /\ shown'[b] = shown[b] /\ older'[b] = older[b] /\ read'[b] = read[b]
    BY DEF PageTypes, Clear, Goto
  <2> QED BY <2>1, OtherPages
<1> QED BY <1>1, <1>2, <1>3 DEF Pages

(* A page is asked for, or made again after an error.                      *)
LEMMA AskPage ==
  ASSUME PageTypes, Pages, NEW a \in Admin, NEW x \in Born, EditPage(a, x),
         Born \subseteq Born', entry[a] = Nothing, UNCHANGED entry
  PROVE  PageTypes' /\ Pages'
<1>1. x \in Item /\ Born \in SUBSET Item
  BY DEF Born, BornIn
<1>2. PageTypes'
  BY <1>1 DEF PageTypes, EditPage, Goto
<1>3. PageInv(a)'
  <2>1. /\ pc'[a] = IF Level[x] = 1 THEN "find" ELSE "list"
        /\ editing'[a] = x /\ older'[a] = Born /\ entry'[a] = Nothing
        /\ Level[x] = 1 => options'[a] = {Root}
    BY DEF PageTypes, EditPage, Goto
  <2> QED BY <2>1 DEF PageInv, OfferedEarly
<1>4. ASSUME NEW b \in Admin \ {a} PROVE PageInv(b)'
  <2>1. /\ pc'[b] = pc[b] /\ editing'[b] = editing[b] /\ options'[b] = options[b]
        /\ shown'[b] = shown[b] /\ older'[b] = older[b] /\ read'[b] = read[b]
    BY DEF PageTypes, EditPage, Goto
  <2> QED BY <2>1, OtherPages
<1> QED BY <1>2, <1>3, <1>4 DEF Pages

(* ListParents: those there are now include those there were.              *)
LEMMA ListPage ==
  ASSUME PageTypes, Pages, NEW a \in Admin, NEW l \in 1..5, ListParents(a, l)
  PROVE  PageTypes' /\ Pages' /\ UNCHANGED <<row, logs>>
<1>1. /\ pc[a] = "list" /\ Level[editing[a]] = l
      /\ options' = [options EXCEPT ![a] = Parents(l)]
      /\ pc' = [pc EXCEPT ![a] = "find"]
      /\ UNCHANGED <<row, editing, shown, older, read, entry, logs>>
  BY DEF ListParents, Goto, logs
<1>2. Parents(l) \subseteq Item
  BY DEF Parents, Born, BornIn
<1>3. PageTypes'
  BY <1>1, <1>2 DEF PageTypes
<1>4. Born' = Born
  BY <1>1 DEF Born, BornIn
<1>5. PageInv(a)
  BY DEF Pages
<1>6. {p \in older[a] : Level[p] = l - 1} \subseteq Parents(l) /\ l # 1
  BY <1>1, <1>5 DEF PageInv, Parents
<1>7. /\ pc'[a] = "find" /\ options'[a] = Parents(l)
      /\ editing'[a] = editing[a] /\ older'[a] = older[a] /\ entry'[a] = entry[a]
  BY <1>1 DEF PageTypes
<1>8. PageInv(a)'
  BY <1>1, <1>4, <1>5, <1>6, <1>7 DEF PageInv, OfferedEarly
<1>9. ASSUME NEW b \in Admin \ {a} PROVE PageInv(b)'
  <2>1. /\ pc'[b] = pc[b] /\ editing'[b] = editing[b] /\ options'[b] = options[b]
        /\ shown'[b] = shown[b] /\ older'[b] = older[b] /\ read'[b] = read[b]
        /\ entry'[b] = entry[b]
    BY <1>1 DEF PageTypes
  <2> QED BY <1>4, <2>1, OtherPages
<1> QED BY <1>1, <1>3, <1>8, <1>9 DEF Pages

(* FindRow: the parent of the row is offered, if it was there in time.     *)
LEMMA FindPage ==
  ASSUME TableTypes, PageTypes, Pages, NEW a \in Admin, NEW l \in 1..5, FindRow(a, l)
  PROVE  PageTypes' /\ Pages' /\ UNCHANGED <<row, logs>>
<1>1. PICK found : found = row[editing[a]]
  OBVIOUS
<1>2. PICK p \in options[a] :
        /\ found.parent \in options[a] => p = found.parent
        /\ shown' = [shown EXCEPT ![a] = [found EXCEPT !.parent = p]]
  BY <1>1 DEF FindRow
<1>3. /\ pc[a] = "find" /\ pc' = [pc EXCEPT ![a] = "form"]
      /\ read' = [read EXCEPT ![a] = found]
      /\ UNCHANGED <<row, editing, options, older, entry, logs>>
  BY <1>1 DEF FindRow, Goto, logs
<1>4. PageInv(a) /\ editing[a] \in Born
  BY <1>3 DEF Pages, PageInv
<1>5. found \in Row /\ FitsIn(row, editing[a], found) /\ editing[a] \in Item
  BY <1>1, <1>4 DEF TableTypes, Sound, Born, BornIn
<1>6. PICK form : form = [found EXCEPT !.parent = p]
  OBVIOUS
<1>7. /\ form \in Row /\ form.name = found.name /\ form.open = found.open
      /\ form.parent = p
  <2>1. p \in Item \cup {Root}
    BY DEF PageTypes
  <2> QED BY <1>5, <1>6, <2>1 DEF Row
<1>8. ASSUME found.parent \in older[a] \cup {Root} PROVE p = found.parent
  <2>1. CASE Level[editing[a]] = 1
    BY <1>2, <1>3, <1>4, <1>5, <2>1 DEF PageInv, OfferedEarly, FitsIn
  <2>2. CASE Level[editing[a]] # 1
    <3>1. found.parent \in Item /\ Level[found.parent] = Level[editing[a]] - 1
      BY <1>5, <2>2 DEF FitsIn, BornIn
    <3>2. found.parent \in older[a]
      BY <1>8, <3>1
    <3> QED BY <1>2, <1>3, <1>4, <2>2, <3>1, <3>2 DEF PageInv, OfferedEarly
  <2> QED BY <2>1, <2>2
<1>9. PageTypes'
  BY <1>2, <1>3, <1>5, <1>6, <1>7 DEF PageTypes
<1>10. Born' = Born
  BY <1>3 DEF Born, BornIn
<1>11. /\ pc'[a] = "form" /\ shown'[a] = form /\ read'[a] = found
       /\ editing'[a] = editing[a] /\ older'[a] = older[a] /\ entry'[a] = entry[a]
  BY <1>2, <1>3, <1>6 DEF PageTypes
<1>12. PageInv(a)'
  BY <1>3, <1>4, <1>5, <1>7, <1>8, <1>10, <1>11 DEF PageInv, ShowsRead
<1>13. ASSUME NEW b \in Admin \ {a} PROVE PageInv(b)'
  <2>1. /\ pc'[b] = pc[b] /\ editing'[b] = editing[b] /\ options'[b] = options[b]
        /\ shown'[b] = shown[b] /\ older'[b] = older[b] /\ read'[b] = read[b]
        /\ entry'[b] = entry[b]
    BY <1>2, <1>3 DEF PageTypes
  <2> QED BY <1>10, <2>1, OtherPages
<1> QED BY <1>3, <1>9, <1>12, <1>13 DEF Pages

-----------------------------------------------------------------------------
(* The log.                                                                *)

(* The numbers of versions are finitely many.                              *)
LEMMA Finite ==
  ASSUME LogTypes, NEW x \in Item, Accounted(x)
  PROVE  /\ version[x] \in Nat
         /\ Due(x) \subseteq 1..version[x] /\ IsFiniteSet(Due(x))
         /\ Missing(x) \subseteq 1..version[x] /\ IsFiniteSet(Missing(x))
         /\ Len(log[x]) \in Nat
         /\ Cardinality(Due(x)) \in Nat /\ Cardinality(Missing(x)) \in Nat
<1>1. version[x] \in Nat /\ Len(log[x]) \in Nat
  BY LenProperties DEF LogTypes
<1>2. Due(x) \subseteq 1..version[x] /\ Missing(x) \subseteq 1..version[x]
  BY DEF Accounted
<1>3. IsFiniteSet(1..version[x])
  BY <1>1, FS_Interval
<1>4. IsFiniteSet(Due(x)) /\ IsFiniteSet(Missing(x))
  BY <1>2, <1>3, FS_Subset
<1> QED BY <1>1, <1>2, <1>4, FS_CardinalityType

(* One more entry in the log of a row.                                     *)
LEMMA AppendToLog ==
  ASSUME NEW s \in Seq(1..MaxSaves), NEW n \in 1..MaxSaves
  PROVE  /\ Append(s, n) \in Seq(1..MaxSaves)
         /\ ToSet(Append(s, n)) = ToSet(s) \cup {n}
         /\ Len(Append(s, n)) = Len(s) + 1
         /\ Append(s, n) # <<>>
         /\ Last(Append(s, n)) = n
<1>1. Len(s) \in Nat /\ DOMAIN s = 1..Len(s)
  BY LenProperties
<1>2. /\ Append(s, n) \in Seq(1..MaxSaves)
      /\ Append(s, n) # <<>>
      /\ Len(Append(s, n)) = Len(s) + 1
      /\ \A i \in 1..Len(s) : Append(s, n)[i] = s[i]
      /\ Append(s, n)[Len(s) + 1] = n
  <2>1. PICK S : S = 1..MaxSaves
    OBVIOUS
  <2>2. s \in Seq(S) /\ n \in S
    BY <2>1
  <2>3. /\ Append(s, n) \in Seq(S) /\ Append(s, n) # <<>>
        /\ Len(Append(s, n)) = Len(s) + 1
    BY <2>2, AppendProperties
  <2>4. \A i \in 1..Len(s) : Append(s, n)[i] = s[i]
    BY <2>2, AppendProperties
  <2>5. Append(s, n)[Len(s) + 1] = n
    BY <2>2, AppendProperties
  <2> QED BY <2>1, <2>3, <2>4, <2>5
<1>3. DOMAIN Append(s, n) = 1..(Len(s) + 1)
  BY <1>2, LenProperties
<1>4. 1..(Len(s) + 1) = (1..Len(s)) \cup {Len(s) + 1}
  BY <1>1
<1>5. ToSet(Append(s, n)) = ToSet(s) \cup {n}
  BY <1>1, <1>2, <1>3, <1>4 DEF ToSet
<1> QED BY <1>2, <1>5 DEF Last

(* A new version, whose entry is due.                                      *)
LEMMA SaveIsDue ==
  ASSUME LogTypes, Logs, NEW a \in Admin, NEW x \in Item,
         NEW v, v = [id |-> x, n |-> version[x] + 1],
         saves < MaxSaves, saves' = saves + 1,
         version' = [version EXCEPT ![x] = version[x] + 1],
         entry[a] = Nothing, entry' = [entry EXCEPT ![a] = v],
         blurred' = IF Pending(x) = {} THEN blurred \ {x} ELSE blurred \cup {x},
         UNCHANGED <<log, lost>>
  PROVE  LogTypes' /\ Logs'
<1>1. version[x] \in Nat /\ version[x] + 1 \in 1..MaxSaves
      /\ 0..saves \subseteq 0..saves' /\ version[x] + 1 \in 0..saves'
  BY DEF LogTypes
<1>2. v \in Version /\ v # Nothing /\ v.id = x /\ v.n = version[x] + 1
  BY <1>1 DEF Version
<1>3. LogTypes'
  BY <1>1, <1>2 DEF LogTypes
<1>4. \A b \in Admin : entry'[b] = IF b = a THEN v ELSE entry[b]
  BY DEF LogTypes
<1>5. \A y \in Item : version'[y] = IF y = x THEN version[x] + 1 ELSE version[y]
  BY DEF LogTypes
<1>6. /\ Pending(x)' = Pending(x) \cup {a} /\ a \notin Pending(x)
      /\ \A y \in Item \ {x} : Pending(y)' = Pending(y)
  BY <1>2, <1>4 DEF Pending
<1>7. /\ Due(x)' = Due(x) \cup {v.n}
      /\ \A y \in Item \ {x} : Due(y)' = Due(y)
  <2>1. \A y \in Item \ {x} : Due(y)' = Due(y)
    BY <1>4, <1>6 DEF Due, Pending
  <2>2. \A b \in Pending(x) : entry'[b] = entry[b]
    BY <1>4, <1>6 DEF Pending
  <2>3. Due(x)' = {entry'[b].n : b \in Pending(x) \cup {a}}
    BY <1>6 DEF Due
  <2>4. {entry'[b].n : b \in Pending(x)} = Due(x)
    BY <2>2 DEF Due
  <2>5. entry'[a].n = v.n
    BY <1>4
  <2>6. Due(x)' = {entry'[b].n : b \in Pending(x)} \cup {entry'[a].n}
    BY <2>3
  <2>7. Due(x)' = Due(x) \cup {v.n}
    BY <2>4, <2>5, <2>6
  <2> QED BY <2>1, <2>7
<1>8. \A y \in Item : Missing(y)' = Missing(y)
  BY DEF Missing
<1>9. Accounted(x)'
  <2>1. Accounted(x)
    BY DEF Logs
  <2>2. v.n \notin Due(x)
    BY <1>1, <1>2, <2>1, Finite
  <2>3. Cardinality(Due(x) \cup {v.n}) = Cardinality(Due(x)) + 1
    BY <2>1, <2>2, Finite, FS_AddElement
  <2>4. (1..version[x]) \cup {v.n} = 1..(version[x] + 1)
    BY <1>1, <1>2
  <2>5. ToSet(log'[x]) \cup Due(x)' \cup Missing(x)' = 1..version'[x]
    BY <1>5, <1>7, <1>8, <2>1, <2>4 DEF Accounted
  <2>6. Len(log'[x]) + Cardinality(Due(x)') + Cardinality(Missing(x)') = version'[x]
    BY <1>5, <1>7, <1>8, <2>1, <2>3, Finite DEF Accounted
  <2> QED BY <2>5, <2>6 DEF Accounted
<1>10. ASSUME NEW y \in Item \ {x} PROVE Accounted(y)'
  BY <1>5, <1>7, <1>8 DEF Logs, Accounted
<1>11. ASSUME NEW y \in Item PROVE Sharp(y)'
  <2>1. CASE y = x
    <3>1. SUFFICES ASSUME x \notin blurred' PROVE Sharp(x)'
      BY <2>1 DEF Sharp
    <3>2. Pending(x)' = {a} /\ entry'[a].n = version'[x]
      BY <1>2, <1>4, <1>5, <1>6, <3>1
    <3> QED BY <3>2 DEF Sharp
  <2>2. CASE y # x
    <3>1. Sharp(y) /\ (y \in blurred' <=> y \in blurred)
      BY <2>2 DEF Logs
    <3>2. /\ Pending(y)' = Pending(y) /\ version'[y] = version[y] /\ log'[y] = log[y]
          /\ \A b \in Pending(y) : entry'[b] = entry[b]
      BY <1>2, <1>4, <1>5, <1>6, <2>2 DEF Pending
    <3> QED BY <3>1, <3>2 DEF Sharp
  <2> QED BY <2>1, <2>2
<1>12. DueOnce'
  <2>1. v \notin lost
    <3>1. Accounted(x)
      BY DEF Logs
    <3>2. v.n \notin Missing(x)
      BY <1>1, <1>2, <3>1, Finite
    <3> QED BY <1>2, <3>2 DEF Missing
  <2>2. \A b \in Admin : entry[b] # v
    <3>1. SUFFICES ASSUME NEW b \in Admin, entry[b] = v PROVE FALSE
      OBVIOUS
    <3>2. v.n \in Due(x)
      BY <1>2, <3>1 DEF Due, Pending
    <3> QED BY <1>1, <1>2, <3>2, Finite DEF Logs
  <2> QED BY <1>2, <1>4, <2>1, <2>2 DEF Logs, DueOnce
<1> QED BY <1>3, <1>9, <1>10, <1>11, <1>12 DEF Logs

(* A new version, whose save only seems to have failed.                    *)
LEMMA SaveIsMissing ==
  ASSUME LogTypes, Logs, NEW x \in Item,
         NEW v, v = [id |-> x, n |-> version[x] + 1],
         saves < MaxSaves, saves' = saves + 1,
         version' = [version EXCEPT ![x] = version[x] + 1],
         lost' = lost \cup {v}, blurred' = blurred \cup {x},
         UNCHANGED <<log, entry>>
  PROVE  LogTypes' /\ Logs'
<1>1. version[x] \in Nat /\ version[x] + 1 \in 1..MaxSaves
      /\ 0..saves \subseteq 0..saves' /\ version[x] + 1 \in 0..saves'
  BY DEF LogTypes
<1>2. v \in Version /\ v # Nothing /\ v.id = x /\ v.n = version[x] + 1
  BY <1>1 DEF Version
<1>3. LogTypes'
  BY <1>1, <1>2 DEF LogTypes
<1>4. \A y \in Item : version'[y] = IF y = x THEN version[x] + 1 ELSE version[y]
  BY DEF LogTypes
<1>5. \A y \in Item : Pending(y)' = Pending(y) /\ Due(y)' = Due(y)
  BY DEF Pending, Due
<1>6. /\ Missing(x)' = Missing(x) \cup {v.n}
      /\ \A y \in Item \ {x} : Missing(y)' = Missing(y)
  <2>1. {w \in lost' : w.id = x} = {w \in lost : w.id = x} \cup {v}
    BY <1>2
  <2>2. \A y \in Item \ {x} : {w \in lost' : w.id = y} = {w \in lost : w.id = y}
    BY <1>2
  <2> QED BY <2>1, <2>2 DEF Missing
<1>7. Accounted(x)'
  <2>1. Accounted(x)
    BY DEF Logs
  <2>2. v.n \notin Missing(x)
    BY <1>1, <1>2, <2>1, Finite
  <2>3. Cardinality(Missing(x) \cup {v.n}) = Cardinality(Missing(x)) + 1
    BY <2>1, <2>2, Finite, FS_AddElement
  <2>4. (1..version[x]) \cup {v.n} = 1..(version[x] + 1)
    BY <1>1, <1>2
  <2>5. ToSet(log'[x]) \cup Due(x)' \cup Missing(x)' = 1..version'[x]
    BY <1>4, <1>5, <1>6, <2>1, <2>4 DEF Accounted
  <2>6. Len(log'[x]) + Cardinality(Due(x)') + Cardinality(Missing(x)') = version'[x]
    BY <1>4, <1>5, <1>6, <2>1, <2>3, Finite DEF Accounted
  <2> QED BY <2>5, <2>6 DEF Accounted
<1>8. ASSUME NEW y \in Item \ {x} PROVE Accounted(y)'
  BY <1>4, <1>5, <1>6 DEF Logs, Accounted
<1>9. ASSUME NEW y \in Item PROVE Sharp(y)'
  <2>1. CASE y = x
    BY <2>1 DEF Sharp
  <2>2. CASE y # x
    <3>1. Sharp(y) /\ (y \in blurred' <=> y \in blurred)
      BY <2>2 DEF Logs
    <3> QED BY <1>4, <1>5, <2>2, <3>1 DEF Sharp
  <2> QED BY <2>1, <2>2
<1>10. DueOnce'
  <2>1. ASSUME NEW b \in Admin, entry[b] = v PROVE FALSE
    <3>1. v.n \in Due(x)
      BY <1>2, <2>1 DEF Due, Pending
    <3> QED BY <1>1, <1>2, <3>1, Finite DEF Logs
  <2> QED BY <2>1 DEF Logs, DueOnce
<1> QED BY <1>3, <1>7, <1>8, <1>9, <1>10 DEF Logs

(* The entry of admin a is no longer due.                                  *)
LEMMA EntryServed ==
  ASSUME LogTypes, Logs, NEW a \in Admin, NEW v, v = entry[a], v # Nothing,
         entry' = [entry EXCEPT ![a] = Nothing]
  PROVE  /\ v \in Version /\ v.id \in Item
         /\ v.n \in Due(v.id) /\ v.n \notin Missing(v.id)
         /\ a \in Pending(v.id) /\ Pending(v.id)' = Pending(v.id) \ {a}
         /\ Due(v.id)' = Due(v.id) \ {v.n}
         /\ \A b \in Admin : entry'[b] = IF b = a THEN Nothing ELSE entry[b]
         /\ \A y \in Item \ {v.id} : Pending(y)' = Pending(y) /\ Due(y)' = Due(y)
<1>1. v \in Version /\ v.id \in Item /\ v.n \in 1..MaxSaves
  BY DEF LogTypes, Version
<1>2. \A b \in Admin : entry'[b] = IF b = a THEN Nothing ELSE entry[b]
  BY DEF LogTypes
<1>3. /\ a \in Pending(v.id) /\ Pending(v.id)' = Pending(v.id) \ {a}
      /\ \A y \in Item \ {v.id} : Pending(y)' = Pending(y)
  BY <1>2 DEF Pending
<1>4. v.n \in Due(v.id)
  BY <1>3 DEF Due
<1>5. v.n \notin Missing(v.id)
  <2>1. SUFFICES ASSUME NEW w \in lost, w.id = v.id, w.n = v.n PROVE FALSE
    BY DEF Missing
  <2>2. w \in Version
    BY DEF LogTypes
  <2>3. w = v
    BY <1>1, <2>1, <2>2 DEF Version
  <2> QED BY <2>3 DEF Logs, DueOnce
<1>6. ASSUME NEW y \in Item \ {v.id} PROVE Due(y)' = Due(y)
  <2>1. \A b \in Pending(y) : entry'[b] = entry[b]
    BY <1>2 DEF Pending
  <2> QED BY <1>3, <2>1 DEF Due
<1>7. Due(v.id)' = Due(v.id) \ {v.n}
  <2>1. \A b \in Pending(v.id) \ {a} : entry'[b] = entry[b] /\ entry[b].n # v.n
    <3>1. SUFFICES ASSUME NEW b \in Pending(v.id) \ {a}, entry[b].n = v.n PROVE FALSE
      BY <1>2 DEF Pending
    <3>2. b \in Admin /\ entry[b] # Nothing /\ entry[b].id = v.id
      BY DEF Pending
    <3>3. entry[b] \in Version
      BY <3>2 DEF LogTypes
    <3>4. entry[b] = v
      BY <1>1, <3>1, <3>2, <3>3 DEF Version
    <3> QED BY <3>1, <3>2, <3>4 DEF Logs, DueOnce
  <2>2. Due(v.id)' = {entry[b].n : b \in Pending(v.id) \ {a}}
    BY <1>3, <2>1 DEF Due
  <2> QED BY <1>3, <2>1, <2>2 DEF Due
<1> QED BY <1>1, <1>2, <1>3, <1>4, <1>5, <1>6, <1>7

(* The entry is written.                                                   *)
LEMMA EntryWritten ==
  ASSUME LogTypes, Logs, NEW a \in Admin, NEW v, v = entry[a], v # Nothing,
         entry' = [entry EXCEPT ![a] = Nothing],
         log' = [log EXCEPT ![v.id] = Append(log[v.id], v.n)],
         UNCHANGED <<saves, version, lost, blurred>>
  PROVE  LogTypes' /\ Logs'
<1>1. PICK x \in Item : x = v.id
  BY EntryServed
<1>2. PICK n \in 1..MaxSaves : n = v.n
  <2>1. v \in Version
    BY EntryServed
  <2> QED BY <2>1 DEF Version
<1>3. /\ v \in Version
      /\ n \in Due(x) /\ n \notin Missing(x)
      /\ a \in Pending(x) /\ Pending(x)' = Pending(x) \ {a}
      /\ Due(x)' = Due(x) \ {n}
      /\ \A b \in Admin : entry'[b] = IF b = a THEN Nothing ELSE entry[b]
      /\ \A y \in Item \ {x} : Pending(y)' = Pending(y) /\ Due(y)' = Due(y)
  BY <1>1, <1>2, EntryServed
<1>4. log[x] \in Seq(1..MaxSaves)
  BY DEF LogTypes
<1>5. /\ Append(log[x], n) \in Seq(1..MaxSaves)
      /\ ToSet(Append(log[x], n)) = ToSet(log[x]) \cup {n}
      /\ Len(Append(log[x], n)) = Len(log[x]) + 1
      /\ Append(log[x], n) # <<>>
      /\ Last(Append(log[x], n)) = n
  BY <1>4, AppendToLog
<1>6. \A y \in Item : log'[y] = IF y = x THEN Append(log[x], n) ELSE log[y]
  BY <1>1, <1>2 DEF LogTypes
<1>7. LogTypes'
  BY <1>1, <1>2, <1>5 DEF LogTypes
<1>8. \A y \in Item : Missing(y)' = Missing(y)
  BY DEF Missing
<1>9. Accounted(x)'
  <2>1. Accounted(x)
    BY DEF Logs
  <2>2. Cardinality(Due(x) \ {n}) = Cardinality(Due(x)) - 1
    BY <1>3, <2>1, Finite, FS_RemoveElement
  <2>3. ToSet(log'[x]) \cup Due(x)' \cup Missing(x)' = 1..version'[x]
    BY <1>3, <1>5, <1>6, <1>8, <2>1 DEF Accounted
  <2>4. /\ Len(log[x]) \in Nat /\ Cardinality(Due(x)) \in Nat
        /\ Cardinality(Missing(x)) \in Nat
        /\ Len(log[x]) + Cardinality(Due(x)) + Cardinality(Missing(x)) = version[x]
    BY <2>1, Finite DEF Accounted
  <2>5. /\ Len(log'[x]) = Len(log[x]) + 1
        /\ Cardinality(Due(x)') = Cardinality(Due(x)) - 1
        /\ Cardinality(Missing(x)') = Cardinality(Missing(x))
    BY <1>3, <1>5, <1>6, <1>8, <2>2
  <2>6. Len(log'[x]) + Cardinality(Due(x)') + Cardinality(Missing(x)') = version'[x]
    BY <2>4, <2>5
  <2> QED BY <2>3, <2>6 DEF Accounted
<1>10. ASSUME NEW y \in Item \ {x} PROVE Accounted(y)'
  BY <1>3, <1>6, <1>8 DEF Logs, Accounted
<1>11. ASSUME NEW y \in Item PROVE Sharp(y)'
  <2>1. Sharp(y)
    BY DEF Logs
  <2>2. \A b \in Pending(y)' : b \in Pending(y) /\ entry'[b] = entry[b]
    BY <1>3 DEF Pending
  <2>3. CASE y = x
    <3>1. x \notin blurred => n = version[x]
      BY <1>2, <1>3, <2>1, <2>3 DEF Sharp
    <3> QED BY <1>5, <1>6, <2>1, <2>2, <2>3, <3>1 DEF Sharp
  <2>4. CASE y # x
    BY <1>3, <1>6, <2>1, <2>2, <2>4 DEF Sharp
  <2> QED BY <2>3, <2>4
<1>12. DueOnce'
  BY <1>3 DEF Logs, DueOnce
<1> QED BY <1>7, <1>9, <1>10, <1>11, <1>12 DEF Logs

(* The entry is not written.                                               *)
LEMMA EntryMissing ==
  ASSUME LogTypes, Logs, NEW a \in Admin, NEW v, v = entry[a], v # Nothing,
         entry' = [entry EXCEPT ![a] = Nothing],
         lost' = lost \cup {v}, blurred' = blurred \cup {v.id},
         UNCHANGED <<log, saves, version>>
  PROVE  LogTypes' /\ Logs'
<1>1. PICK x \in Item : x = v.id
  BY EntryServed
<1>2. PICK n : n = v.n
  OBVIOUS
<1>3. /\ v \in Version
      /\ n \in Due(x) /\ n \notin Missing(x)
      /\ Due(x)' = Due(x) \ {n}
      /\ \A b \in Admin : entry'[b] = IF b = a THEN Nothing ELSE entry[b]
      /\ \A y \in Item \ {x} : Pending(y)' = Pending(y) /\ Due(y)' = Due(y)
  BY <1>1, <1>2, EntryServed
<1>4. LogTypes'
  BY <1>1, <1>3 DEF LogTypes
<1>5. /\ Missing(x)' = Missing(x) \cup {n}
      /\ \A y \in Item \ {x} : Missing(y)' = Missing(y)
  <2>1. {w \in lost' : w.id = x} = {w \in lost : w.id = x} \cup {v}
    BY <1>1
  <2>2. \A y \in Item \ {x} : {w \in lost' : w.id = y} = {w \in lost : w.id = y}
    BY <1>1
  <2> QED BY <1>2, <2>1, <2>2 DEF Missing
<1>6. Accounted(x)'
  <2>1. Accounted(x)
    BY DEF Logs
  <2>2. Cardinality(Due(x) \ {n}) = Cardinality(Due(x)) - 1
    BY <1>3, <2>1, Finite, FS_RemoveElement
  <2>3. Cardinality(Missing(x) \cup {n}) = Cardinality(Missing(x)) + 1
    BY <1>3, <2>1, Finite, FS_AddElement
  <2>4. ToSet(log'[x]) \cup Due(x)' \cup Missing(x)' = 1..version'[x]
    BY <1>3, <1>5, <2>1 DEF Accounted
  <2>5. /\ Len(log[x]) \in Nat /\ Cardinality(Due(x)) \in Nat
        /\ Cardinality(Missing(x)) \in Nat
        /\ Len(log[x]) + Cardinality(Due(x)) + Cardinality(Missing(x)) = version[x]
    BY <2>1, Finite DEF Accounted
  <2>6. /\ Cardinality(Due(x)') = Cardinality(Due(x)) - 1
        /\ Cardinality(Missing(x)') = Cardinality(Missing(x)) + 1
    BY <1>3, <1>5, <2>2, <2>3
  <2>7. Len(log'[x]) + Cardinality(Due(x)') + Cardinality(Missing(x)') = version'[x]
    BY <2>5, <2>6
  <2> QED BY <2>4, <2>7 DEF Accounted
<1>7. ASSUME NEW y \in Item \ {x} PROVE Accounted(y)'
  BY <1>3, <1>5 DEF Logs, Accounted
<1>8. ASSUME NEW y \in Item PROVE Sharp(y)'
  <2>1. CASE y = x
    BY <1>1, <2>1 DEF Sharp
  <2>2. CASE y # x
    <3>1. Sharp(y) /\ (y \in blurred' <=> y \in blurred)
      BY <1>1, <2>2 DEF Logs
    <3>2. \A b \in Pending(y)' : b \in Pending(y) /\ entry'[b] = entry[b]
      BY <1>3 DEF Pending
    <3> QED BY <1>3, <2>2, <3>1, <3>2 DEF Sharp
  <2> QED BY <2>1, <2>2
<1>9. DueOnce'
  BY <1>3 DEF Logs, DueOnce
<1> QED BY <1>4, <1>6, <1>7, <1>8, <1>9 DEF Logs

(* Nothing that the log is about changes.                                  *)
LEMMA SameLogs ==
  ASSUME LogTypes, Logs, UNCHANGED logs
  PROVE  LogTypes' /\ Logs'
<1>1. UNCHANGED <<log, entry, saves, version, lost, blurred>>
  BY DEF logs
<1>2. \A x \in Item : /\ Pending(x)' = Pending(x) /\ Due(x)' = Due(x)
                      /\ Missing(x)' = Missing(x)
  BY <1>1 DEF Pending, Due, Missing
<1>3. \A x \in Item : Accounted(x)' /\ Sharp(x)'
  BY <1>1, <1>2 DEF Logs, Accounted, Sharp
<1> QED BY <1>1, <1>3 DEF LogTypes, Logs, DueOnce

-----------------------------------------------------------------------------
(* A statement, and the steps.                                             *)

(* What an admin types makes a row.                                        *)
LEMMA TypedRow ==
  ASSUME NEW x, NEW parent \in Item \cup {Root}, NEW name \in Name,
         NEW open \in BOOLEAN, NEW new, new = Typed(x, parent, name, open)
  PROVE  new \in Row /\ new.slug = Slugify[new.name]
BY DEF Typed, Row

(* It succeeds.                                                            *)
LEMMA SavedKeeps ==
  ASSUME IInv, NEW a \in Admin, NEW x \in Item, NEW new \in Row,
         new.slug = Slugify[new.name], pc[a] # "audit",
         Fits(x, new), Commit(x, new),
         entry' = [entry EXCEPT ![a] = [id |-> x, n |-> version[x] + 1]],
         blurred' = IF Pending(x) = {} THEN blurred \ {x} ELSE blurred \cup {x},
         Clear(a, "audit"), UNCHANGED <<log, lost>>
  PROVE  IInv'
<1>1. PICK v : v = [id |-> x, n |-> version[x] + 1]
  OBVIOUS
<1>2. entry[a] = Nothing
  BY DEF IInv, Pages, PageInv
<1>3. TableTypes' /\ Born' = Born \cup {x}
  BY CommitTable DEF IInv, Commit
<1>4. LogTypes' /\ Logs'
  BY <1>1, <1>2, SaveIsDue DEF IInv, Commit
<1>5. entry'[a] # Nothing /\ \A b \in Admin \ {a} : entry'[b] = entry[b]
  <2>1. v \in Version
    BY <1>1 DEF IInv, LogTypes, Commit, Version
  <2> QED BY <1>1, <2>1 DEF IInv, LogTypes
<1>6. PageTypes' /\ Pages'
  BY <1>3, <1>5, ClearPage DEF IInv
<1> QED BY <1>3, <1>4, <1>6 DEF IInv

(* It only seems to have failed, and an error page is shown.               *)
LEMMA ReplyLostKeeps ==
  ASSUME IInv, NEW x \in Item, NEW new \in Row,
         new.slug = Slugify[new.name],
         Fits(x, new), Commit(x, new), Lose([id |-> x, n |-> version[x] + 1]),
         UNCHANGED <<log, entry>>, PageTypes', Pages'
  PROVE  IInv'
<1>1. PICK v : v = [id |-> x, n |-> version[x] + 1]
  OBVIOUS
<1>2. TableTypes'
  BY CommitTable DEF IInv, Commit
<1>3. LogTypes' /\ Logs'
  BY <1>1, SaveIsMissing DEF IInv, Commit, Lose
<1> QED BY <1>2, <1>3 DEF IInv

(* Nothing is written.                                                     *)
LEMMA NoWriteKeeps ==
  ASSUME IInv, UNCHANGED <<row, logs>>, PageTypes', Pages'
  PROVE  IInv'
BY SameLogs DEF IInv, TableTypes

LEMMA StoreKeeps ==
  ASSUME IInv, NEW a \in Admin, NEW l \in 1..5, Store(a, l)
  PROVE  IInv'
<1>1. pc[a] = "idle" /\ entry[a] = Nothing
  BY DEF Store, IInv, Pages, PageInv
<1>2. ASSUME Clear(a, "idle"), UNCHANGED entry, Born \subseteq Born'
      PROVE  PageTypes' /\ Pages'
  BY <1>1, <1>2, ClearPage DEF IInv
<1>3. CASE Refused(Clear(a, "idle"))
  <2>1. Clear(a, "idle") /\ UNCHANGED <<row, logs>>
    BY <1>3 DEF Refused
  <2>2. Born' = Born /\ UNCHANGED entry
    BY <2>1 DEF Born, BornIn, logs
  <2> QED BY <1>2, <2>1, <2>2, NoWriteKeeps
<1>4. ASSUME NEW x \in Item \ Born, NEW name \in Name, NEW open \in BOOLEAN,
             NEW parent \in IF l = 1 THEN {Root} ELSE Parents(l),
             Statement(a, x, Typed(x, parent, name, open), Clear(a, "idle"))
      PROVE  IInv'
  <2>1. PICK new : new = Typed(x, parent, name, open)
    OBVIOUS
  <2>2. parent \in Item \cup {Root}
    BY DEF Parents, Born, BornIn
  <2>3. new \in Row /\ new.slug = Slugify[new.name]
    BY <2>1, <2>2, TypedRow
  <2>4. Statement(a, x, new, Clear(a, "idle"))
    BY <1>4, <2>1
  <2>5. CASE /\ Fits(x, new) /\ Commit(x, new)
             /\ entry' = [entry EXCEPT ![a] = [id |-> x, n |-> version[x] + 1]]
             /\ blurred' = IF Pending(x) = {} THEN blurred \ {x} ELSE blurred \cup {x}
             /\ Clear(a, "audit") /\ UNCHANGED <<log, lost>>
    BY <1>1, <2>3, <2>5, SavedKeeps
  <2>6. CASE /\ Fits(x, new) /\ Commit(x, new)
             /\ Lose([id |-> x, n |-> version[x] + 1])
             /\ Clear(a, "idle") /\ UNCHANGED <<log, entry>>
    <3>1. Born' = Born \cup {x}
      BY <2>3, <2>6, CommitTable DEF IInv, Commit
    <3> QED BY <1>2, <2>3, <2>6, <3>1, ReplyLostKeeps
  <2>7. CASE Clear(a, "idle") /\ UNCHANGED <<row, logs>>
    <3>1. Born' = Born /\ UNCHANGED entry
      BY <2>7 DEF Born, BornIn, logs
    <3> QED BY <1>2, <2>7, <3>1, NoWriteKeeps
  <2> QED BY <2>4, <2>5, <2>6, <2>7 DEF Statement, Returned
<1> QED BY <1>3, <1>4 DEF Store

LEMMA UpdateKeeps ==
  ASSUME IInv, NEW a \in Admin, NEW l \in 1..5, Update(a, l)
  PROVE  IInv'
<1>1. PICK x : x = editing[a]
  OBVIOUS
<1>2. pc[a] = "form" /\ entry[a] = Nothing /\ x \in Born /\ x \in Item
  BY <1>1 DEF Update, IInv, Pages, PageInv, Born, BornIn
<1>3. ASSUME EditPage(a, x), UNCHANGED entry, Born \subseteq Born'
      PROVE  PageTypes' /\ Pages'
  BY <1>2, <1>3, AskPage DEF IInv
<1>4. CASE Refused(EditPage(a, x))
  <2>1. EditPage(a, x) /\ UNCHANGED <<row, logs>>
    BY <1>4 DEF Refused
  <2>2. Born' = Born /\ UNCHANGED entry
    BY <2>1 DEF Born, BornIn, logs
  <2> QED BY <1>3, <2>1, <2>2, NoWriteKeeps
<1>5. ASSUME NEW name \in Name, NEW open \in BOOLEAN, NEW parent \in options[a],
             Statement(a, x, Typed(x, parent, name, open), EditPage(a, x))
      PROVE  IInv'
  <2>1. PICK new : new = Typed(x, parent, name, open)
    OBVIOUS
  <2>2. parent \in Item \cup {Root}
    BY DEF IInv, PageTypes
  <2>3. new \in Row /\ new.slug = Slugify[new.name]
    BY <2>1, <2>2, TypedRow
  <2>4. Statement(a, x, new, EditPage(a, x))
    BY <1>5, <2>1
  <2>5. CASE /\ Fits(x, new) /\ Commit(x, new)
             /\ entry' = [entry EXCEPT ![a] = [id |-> x, n |-> version[x] + 1]]
             /\ blurred' = IF Pending(x) = {} THEN blurred \ {x} ELSE blurred \cup {x}
             /\ Clear(a, "audit") /\ UNCHANGED <<log, lost>>
    BY <1>2, <2>3, <2>5, SavedKeeps
  <2>6. CASE /\ Fits(x, new) /\ Commit(x, new)
             /\ Lose([id |-> x, n |-> version[x] + 1])
             /\ EditPage(a, x) /\ UNCHANGED <<log, entry>>
    <3>1. Born' = Born \cup {x}
      BY <1>2, <2>3, <2>6, CommitTable DEF IInv, Commit
    <3> QED BY <1>2, <1>3, <2>3, <2>6, <3>1, ReplyLostKeeps
  <2>7. CASE EditPage(a, x) /\ UNCHANGED <<row, logs>>
    <3>1. Born' = Born /\ UNCHANGED entry
      BY <2>7 DEF Born, BornIn, logs
    <3> QED BY <1>3, <2>7, <3>1, NoWriteKeeps
  <2> QED BY <2>4, <2>5, <2>6, <2>7 DEF Statement, Returned
<1> QED BY <1>1, <1>4, <1>5 DEF Update

LEMMA AuditKeeps ==
  ASSUME IInv, NEW a \in Admin, NEW l \in 1..5, Audit(a, l)
  PROVE  IInv'
<1>1. PICK v : v = entry[a]
  OBVIOUS
<1>2. v # Nothing
  BY <1>1 DEF Audit, IInv, Pages, PageInv
<1>3. /\ entry' = [entry EXCEPT ![a] = Nothing] /\ Clear(a, "idle")
      /\ UNCHANGED <<row, saves, version>>
      /\ \/ /\ log' = [log EXCEPT ![v.id] = Append(log[v.id], v.n)]
            /\ UNCHANGED <<lost, blurred>>
         \/ Lose(v) /\ UNCHANGED log
  BY <1>1 DEF Audit, Logged
<1>4. LogTypes' /\ Logs'
  <2>1. CASE /\ log' = [log EXCEPT ![v.id] = Append(log[v.id], v.n)]
             /\ UNCHANGED <<lost, blurred>>
    BY <1>1, <1>2, <1>3, <2>1, EntryWritten DEF IInv
  <2>2. CASE Lose(v) /\ UNCHANGED log
    BY <1>1, <1>2, <1>3, <2>2, EntryMissing DEF IInv, Lose
  <2> QED BY <1>3, <2>1, <2>2
<1>5. Born' = Born
  BY <1>3 DEF Born, BornIn
<1>6. entry'[a] = Nothing /\ \A b \in Admin \ {a} : entry'[b] = entry[b]
  BY <1>3 DEF IInv, LogTypes
<1>7. PageTypes' /\ Pages'
  BY <1>3, <1>5, <1>6, ClearPage DEF IInv
<1>8. TableTypes'
  BY <1>3 DEF IInv, TableTypes
<1> QED BY <1>4, <1>7, <1>8 DEF IInv

LEMMA EditKeeps ==
  ASSUME IInv, NEW a \in Admin, NEW l \in 1..5, Edit(a, l)
  PROVE  IInv'
<1>1. PICK x \in Born : EditPage(a, x)
  BY DEF Edit
<1>2. pc[a] = "idle" /\ UNCHANGED <<row, logs>>
  BY DEF Edit
<1>3. Born' = Born /\ UNCHANGED entry
  BY <1>2 DEF Born, BornIn, logs
<1>4. entry[a] = Nothing
  BY <1>2 DEF IInv, Pages, PageInv
<1>5. PageTypes' /\ Pages'
  BY <1>1, <1>3, <1>4, AskPage DEF IInv
<1> QED BY <1>2, <1>5, NoWriteKeeps

(* PageFails and Cancel.                                                   *)
LEMMA LeaveKeeps ==
  ASSUME IInv, NEW a \in Admin, pc[a] # "audit", Clear(a, "idle"),
         UNCHANGED <<row, logs>>
  PROVE  IInv'
<1>1. Born' = Born /\ UNCHANGED entry
  BY DEF Born, BornIn, logs
<1>2. entry[a] = Nothing
  BY DEF IInv, Pages, PageInv
<1>3. PageTypes' /\ Pages'
  BY <1>1, <1>2, ClearPage DEF IInv
<1> QED BY <1>3, NoWriteKeeps

LEMMA HandlerKeeps ==
  ASSUME IInv, NEW a \in Admin, NEW l \in 1..5, Handler(a, l)
  PROVE  IInv'
<1>1. CASE Store(a, l)
  BY <1>1, StoreKeeps
<1>2. CASE Edit(a, l)
  BY <1>2, EditKeeps
<1>3. CASE ListParents(a, l)
  <2>1. PageTypes' /\ Pages' /\ UNCHANGED <<row, logs>>
    BY <1>3, ListPage DEF IInv
  <2> QED BY <2>1, NoWriteKeeps
<1>4. CASE FindRow(a, l)
  <2>1. PageTypes' /\ Pages' /\ UNCHANGED <<row, logs>>
    BY <1>4, FindPage DEF IInv
  <2> QED BY <2>1, NoWriteKeeps
<1>5. CASE PageFails(a, l)
  <2>1. pc[a] # "audit" /\ Clear(a, "idle") /\ UNCHANGED <<row, logs>>
    BY <1>5 DEF PageFails
  <2> QED BY <2>1, LeaveKeeps
<1>6. CASE Update(a, l)
  BY <1>6, UpdateKeeps
<1>7. CASE Cancel(a, l)
  <2>1. pc[a] # "audit" /\ Clear(a, "idle") /\ UNCHANGED <<row, logs>>
    BY <1>7 DEF Cancel
  <2> QED BY <2>1, LeaveKeeps
<1>8. CASE Audit(a, l)
  BY <1>8, AuditKeeps
<1> QED BY <1>1, <1>2, <1>3, <1>4, <1>5, <1>6, <1>7, <1>8 DEF Handler

LEMMA InitHolds ==
  ASSUME Init
  PROVE  IInv
<1>1. TableTypes
  BY DEF Init, TableTypes
<1>2. PageTypes
  BY DEF Init, PageTypes
<1>3. /\ \A x \in Item : log[x] = <<>> /\ version[x] = 0
      /\ \A a \in Admin : pc[a] = "idle" /\ entry[a] = Nothing /\ older[a] = {}
      /\ lost = {} /\ blurred = {} /\ saves = 0
  BY DEF Init
<1>4. LogTypes
  <2>1. log = [x \in Item |-> <<>>] /\ <<>> \in Seq(1..MaxSaves)
    BY DEF Init
  <2>2. version = [x \in Item |-> 0] /\ entry = [a \in Admin |-> Nothing]
    BY DEF Init
  <2>3. log \in [Item -> Seq(1..MaxSaves)]
    BY <2>1
  <2> QED BY <1>3, <2>2, <2>3 DEF LogTypes
<1>5. Pages
  BY <1>3 DEF Pages, PageInv
<1>6. ASSUME NEW x \in Item PROVE Accounted(x) /\ Sharp(x)
  <2>1. Pending(x) = {} /\ Due(x) = {} /\ Missing(x) = {}
    BY <1>3 DEF Pending, Due, Missing
  <2>2. log[x] = <<>> /\ version[x] = 0
    BY <1>3
  <2>3. ToSet(log[x]) = {} /\ Len(log[x]) = 0
    <3>1. Len(log[x]) = 0 /\ DOMAIN log[x] = {}
      BY <2>2
    <3> QED BY <3>1 DEF ToSet
  <2>4. Cardinality({}) = 0
    BY FS_EmptySet
  <2>5. Accounted(x)
    BY <2>1, <2>2, <2>3, <2>4 DEF Accounted
  <2>6. Sharp(x)
    BY <2>1, <2>2 DEF Sharp
  <2> QED BY <2>5, <2>6
<1>7. DueOnce
  BY <1>3 DEF DueOnce
<1> QED BY <1>1, <1>2, <1>4, <1>5, <1>6, <1>7 DEF IInv, Logs

LEMMA NextKeeps ==
  ASSUME IInv, [Next]_vars
  PROVE  IInv'
<1>1. CASE Next
  <2>1. PICK a \in Admin :
          \/ Handler(a, 1) \/ Handler(a, 2) \/ Handler(a, 3)
          \/ Handler(a, 4) \/ Handler(a, 5)
    BY <1>1 DEF Next, AdminClassHandler, AdminSemesterHandler,
                AdminSubjectHandler, AdminUnitHandler, AdminChapterHandler
  <2> QED BY <2>1, HandlerKeeps
<1>2. CASE UNCHANGED vars
  <2>1. UNCHANGED <<row, pc, editing, options, shown, older, read, entry>>
        /\ UNCHANGED logs
    BY <1>2 DEF vars, logs
  <2>2. PageTypes'
    BY <2>1 DEF IInv, PageTypes
  <2>3. Born' = Born
    BY <2>1 DEF Born, BornIn
  <2>4. Pages'
    BY <2>1, <2>3 DEF IInv, Pages, PageInv, OfferedEarly, ShowsRead
  <2> QED BY <2>1, <2>2, <2>4, NoWriteKeeps
<1> QED BY <1>1, <1>2

LEMMA AlwaysIInv == Spec => []IInv
<1>1. Init => IInv
  BY InitHolds
<1>2. IInv /\ [Next]_vars => IInv'
  BY NextKeeps
<1> QED BY <1>1, <1>2, PTL DEF Spec

-----------------------------------------------------------------------------
(* The tables, the pages and the log are what their types say; and on any  *)
(* number of concurrent saves the tables keep what the schema promises: a  *)
(* parent in the table above, no two equal slugs below one parent.         *)
THEOREM AdminTypes == Spec => []TypeOK
<1>1. IInv => TypeOK
  BY DEF IInv, TableTypes, PageTypes, LogTypes, TypeOK
<1> QED BY <1>1, AlwaysIInv, PTL

(* However many admins save, and whichever statements fail or only seem    *)
(* to: every version of a row is in the audit log exactly as it was saved, *)
(* once, or is about to be, or its entry was lost with a failed statement; *)
(* and nothing else is in the log.                                         *)
THEOREM LogMatchesSaves == Spec => []AuditMatchesSaves
<1>1. IInv => AuditMatchesSaves
  BY DEF IInv, Logs, Accounted, Due, Missing, AuditMatchesSaves
<1> QED BY <1>1, AlwaysIInv, PTL

(* The last entry of a row tells what it holds, once none is due, unless   *)
(* since its last undisturbed save two saves of it overlapped, or one got  *)
(* no entry.                                                               *)
THEOREM LogEndIsTheRow == Spec => []LogEndsWithRow
<1>1. IInv => LogEndsWithRow
  BY DEF IInv, Logs, Sharp, LogEndsWithRow
<1> QED BY <1>1, AlwaysIInv, PTL

(* A save leaves alone what its admin left alone, if the row is still as   *)
(* its page read it and had, when the page was asked for, the parent it    *)
(* has: parents are never deleted, so the page made then still offers it,  *)
(* and shows in every column what the row holds.                           *)
THEOREM UntouchedIsKept == Spec => KeepsUntouched
<1> DEFINE Left(a, x) ==
             /\ pc[a] = "form"
             /\ pc'[a] # "form"
             /\ row' # row
             /\ row[x] = read[a]
             /\ read[a].parent \in older[a] \cup {Root}
             => \A column \in {"parent", "name", "open"} :
                  row'[x][column] = shown[a][column] =>
                    row'[x][column] = row[x][column]
           Kept == \A a \in Admin : Left(a, editing[a])
<1>1. IInv /\ [Next]_vars => Kept
  <2> SUFFICES ASSUME IInv, NEW a \in Admin, pc[a] = "form",
                      row[editing[a]] = read[a],
                      read[a].parent \in older[a] \cup {Root},
                      NEW column \in {"parent", "name", "open"},
                      row'[editing[a]][column] = shown[a][column]
               PROVE  row'[editing[a]][column] = row[editing[a]][column]
    OBVIOUS
  <2>1. ShowsRead(a)
    BY DEF IInv, Pages, PageInv
  <2>2. shown[a][column] = read[a][column]
    BY <2>1 DEF ShowsRead
  <2> QED BY <2>2
<1> QED BY <1>1, AlwaysIInv, PTL DEF Spec, KeepsUntouched
=============================================================================
