------------------------- MODULE LabelConfig_proofs -------------------------
(***************************************************************************)
(* Theorems about LabelConfig for any configs, any number of versions and  *)
(* any number of writes that fail.                                         *)
(***************************************************************************)
EXTENDS LabelConfig, TLAPS, WellFoundedInduction

-----------------------------------------------------------------------------
(* Least and greatest ids.                                                    *)

\* A set of numbers that is not empty has a least one.
LEMMA LeastNumber ==
    ASSUME NEW S \in SUBSET Nat, S # {}
    PROVE  \E n \in S : \A m \in S : n <= m
<1> DEFINE R == OpToRel(<, Nat)
<1>1. IsWellFoundedOn(R, Nat)
  BY NatLessThanWellFounded
<1> HIDE DEF R
<1>2. PICK x \in S : \A y \in S : ~ (<<y, x>> \in R)
  BY <1>1, WFMin
<1>3. \A y \in S : ~ (y < x)
  BY <1>2 DEF R, OpToRel
<1> QED
  BY <1>3

\* The least number chosen from a set.
LEMMA LeastOf ==
    ASSUME NEW S \in SUBSET Nat, S # {}
    PROVE  Least(S) \in S
BY LeastNumber DEF Least

\* The greatest id chosen from a set of ids.
LEMMA GreatestOf ==
    ASSUME NEW S \in SUBSET (0..MaxId), S # {}
    PROVE  Greatest(S) \in S /\ \A i \in S : i <= Greatest(S)
<1> DEFINE D == {MaxId - i : i \in S}
<1>1. MaxId \in Nat
  BY LabelConfigAssumption
<1>2. D \in SUBSET Nat /\ D # {}
  <2>1. \A i \in 0..MaxId : MaxId - i \in Nat
    BY <1>1
  <2> QED
    BY <2>1
<1>3. PICK n \in D : \A m \in D : n <= m
  BY <1>2, LeastNumber
<1>4. PICK g \in S : n = MaxId - g
  BY <1>3
<1>5. \A i \in S : i <= g
  <2> SUFFICES ASSUME NEW i \in S PROVE i <= g
    OBVIOUS
  <2>1. MaxId - i \in D
    OBVIOUS
  <2>2. MaxId - g <= MaxId - i
    BY <1>3, <1>4, <2>1
  <2>3. i \in Int /\ g \in Int
    OBVIOUS
  <2> QED
    BY <1>1, <2>2, <2>3
<1> QED
  BY <1>5 DEF Greatest

-----------------------------------------------------------------------------
(* The normal form.                                                           *)

Stores == [Rows -> Row \cup {NoRow}]

\* A row is not the missing row.
LEMMA RowIsKept ==
    ASSUME NEW S \in Stores
    PROVE  /\ NoRow \notin Row
           /\ \A i \in Kept(S) : i \in Rows /\ S[i] \in Row
           /\ \A i \in Rows : S[i] \in Row => i \in Kept(S)
           /\ ConfigsOf(S) \subseteq Configs
<1>1. NoRow \notin Row
  BY LabelConfigAssumption DEF NoRow, Row
<1>2. \A i \in Kept(S) : i \in Rows /\ S[i] \in Row
  BY DEF Kept, Stores
<1>3. \A i \in Rows : S[i] \in Row => i \in Kept(S)
  BY <1>1 DEF Kept
<1>4. ConfigsOf(S) \subseteq Configs
  BY <1>2 DEF ConfigsOf, Row
<1> QED
  BY <1>1, <1>2, <1>3, <1>4

\* The canonical row of a config is a row of it, the pointer's if that is one.
LEMMA CanonicalIsOne ==
    ASSUME NEW S \in Stores, NEW ac, NEW c \in ConfigsOf(S)
    PROVE  /\ Canonical(S, ac, c) \in Kept(S)
           /\ S[Canonical(S, ac, c)].config = c
           /\ ac \in Kept(S) /\ S[ac].config = c => Canonical(S, ac, c) = ac
<1> DEFINE same == {i \in Kept(S) : S[i].config = c}
           marked == {i \in same : S[i].status = "active"}
           pool == IF marked # {} THEN marked ELSE same
<1>1. same # {} /\ same \in SUBSET Nat /\ marked \subseteq same
  BY DEF ConfigsOf, Kept, Rows
<1>2. pool \subseteq same /\ pool # {} /\ pool \in SUBSET Nat
  BY <1>1
<1>3. Least(pool) \in pool
  BY <1>2, LeastOf
<1>4. Canonical(S, ac, c) = IF ac \in same THEN ac ELSE Least(pool)
  BY DEF Canonical
<1> HIDE DEF pool
<1> QED
  BY <1>2, <1>3, <1>4

\* What a view holds in memory: at most one row a config, of which one is active.
Sound(view) ==
    /\ view.rows \in Stores /\ view.active \in 0..MaxId
    /\ \A i, j \in Kept(view.rows) : view.rows[i].config = view.rows[j].config => i = j
    /\ \A i \in Kept(view.rows) : view.rows[i].status = "active" <=> i = view.active
    /\ view.active # 0 => view.active \in Kept(view.rows)
    /\ view.active = 0 => Kept(view.rows) = {}

\* How it relates to the files S: it has their configs, under their ids, and the row
\* it keeps of a config that is in the files is one of the files'.
Covers(view, S) ==
    /\ ConfigsOf(S) \subseteq ConfigsOf(view.rows)
    /\ \A i \in Kept(S) \cap Kept(view.rows) : S[i].config = view.rows[i].config
    /\ \A i \in Kept(view.rows) : view.rows[i].config \in ConfigsOf(S) => i \in Kept(S)

\* Marking the active row changes the status of the rows kept, and nothing else.
LEMMA MarkedRows ==
    ASSUME NEW S \in Stores, NEW keep \in SUBSET Kept(S), NEW i \in keep
    PROVE  /\ Marked(S, keep, i) \in Stores
           /\ Kept(Marked(S, keep, i)) = keep
           /\ \A j \in keep : /\ Marked(S, keep, i)[j].config = S[j].config
                              /\ Marked(S, keep, i)[j].status = "active" <=> j = i
<1> DEFINE M == Marked(S, keep, i)
<1>1. \A j \in keep : j \in Rows /\ S[j] \in Row
  BY RowIsKept
<1>2. \A j \in keep : /\ M[j] \in Row /\ M[j].config = S[j].config
                      /\ M[j].status = "active" <=> j = i
  <2> SUFFICES ASSUME NEW j \in keep
               PROVE  /\ M[j] \in Row /\ M[j].config = S[j].config
                      /\ M[j].status = "active" <=> j = i
    OBVIOUS
  <2>1. S[j].config \in Configs /\ S[j].status \in Status
        /\ S[j] = [config |-> S[j].config, status |-> S[j].status]
    BY <1>1 DEF Row
  <2>2. M[j] = IF j = i THEN [S[j] EXCEPT !.status = "active"]
               ELSE [S[j] EXCEPT !.status = IF @ = "active" THEN "archived" ELSE @]
    BY <1>1 DEF Marked
  <2> QED
    BY <2>1, <2>2 DEF Row, Status
<1>3. \A j \in Rows \ keep : M[j] = NoRow
  BY DEF Marked
<1>4. M = [j \in Rows |-> M[j]]
  BY DEF Marked
<1> HIDE DEF M
<1>5. M \in Stores
  BY <1>2, <1>3, <1>4 DEF Stores
<1>6. Kept(M) = keep
  BY <1>1, <1>2, <1>3, <1>5, RowIsKept DEF Kept
<1> QED
  BY <1>2, <1>5, <1>6 DEF M

\* The normal form of a store keeps one row of each of its configs, the pointer's if
\* there is one, and makes one of them active.
LEMMA NormalForm ==
    ASSUME NEW S \in Stores, NEW ac \in 0..MaxId, NEW view \in Normal(S, ac)
    PROVE  /\ view = [rows |-> view.rows, active |-> view.active]
           /\ Sound(view)
           /\ Kept(view.rows) \subseteq Kept(S)
           /\ ConfigsOf(view.rows) = ConfigsOf(S)
           /\ \A i \in Kept(view.rows) : view.rows[i].config = S[i].config
           /\ ac \in Kept(S) => view.active = ac
<1> DEFINE keep == {Canonical(S, ac, c) : c \in ConfigsOf(S)}
<1>1. /\ keep \subseteq Kept(S)
      /\ \A c \in ConfigsOf(S) : \E i \in keep : S[i].config = c
      /\ \A i, j \in keep : S[i].config = S[j].config => i = j
      /\ ac \in Kept(S) => ac \in keep
  <2>1. \A c \in ConfigsOf(S) : /\ Canonical(S, ac, c) \in Kept(S)
                               /\ S[Canonical(S, ac, c)].config = c
    BY CanonicalIsOne
  <2>2. ASSUME ac \in Kept(S) PROVE ac \in keep
    <3>1. S[ac].config \in ConfigsOf(S)
      BY <2>2 DEF ConfigsOf
    <3>2. Canonical(S, ac, S[ac].config) = ac
      BY <2>2, <3>1, CanonicalIsOne
    <3> QED
      BY <3>1, <3>2
  <2>3. \A i \in keep : \E c \in ConfigsOf(S) : i = Canonical(S, ac, c) /\ S[i].config = c
    BY <2>1
  <2> QED
    BY <2>1, <2>2, <2>3
<1>2. keep \subseteq 1..MaxId /\ MaxId \in Nat
  BY <1>1, LabelConfigAssumption DEF Kept, Rows
<1>3. CASE keep = {}
  <2>1. ConfigsOf(S) = {}
    BY <1>3
  <2>2. Kept(S) = {}
    BY <2>1 DEF ConfigsOf
  <2>3. view = [rows |-> S, active |-> 0]
    BY <1>3 DEF Normal
  <2> QED
    BY <1>2, <2>2, <2>3 DEF Sound
<1>4. CASE keep # {}
  <2>1. PICK i \in Candidates(S, ac, keep) : view = [rows |-> Marked(S, keep, i), active |-> i]
    BY <1>4 DEF Normal
  <2>2. i \in keep /\ (ac \in Kept(S) => i = ac)
    <3> HIDE DEF keep
    <3>1. keep \subseteq 0..MaxId
      BY <1>2
    <3>2. Greatest(keep) \in keep
      BY <1>4, <3>1, GreatestOf
    <3> QED
      BY <1>1, <2>1, <3>2 DEF Candidates
  <2> HIDE DEF keep
  <2>3. /\ view.rows \in Stores /\ Kept(view.rows) = keep
        /\ \A j \in keep : /\ view.rows[j].config = S[j].config
                           /\ view.rows[j].status = "active" <=> j = i
    BY <1>1, <2>1, <2>2, MarkedRows
  <2>4. Sound(view)
    BY <1>1, <1>2, <2>1, <2>2, <2>3 DEF Sound
  <2>5. ConfigsOf(view.rows) = ConfigsOf(S)
    <3>1. ConfigsOf(view.rows) = {S[j].config : j \in keep}
      BY <2>3 DEF ConfigsOf
    <3>2. {S[j].config : j \in keep} \subseteq ConfigsOf(S)
      BY <1>1 DEF ConfigsOf
    <3>3. ConfigsOf(S) \subseteq {S[j].config : j \in keep}
      BY <1>1
    <3> QED
      BY <3>1, <3>2, <3>3
  <2>6. view = [rows |-> view.rows, active |-> view.active] /\ (ac \in Kept(S) => view.active = ac)
    BY <2>1, <2>2
  <2>7. Kept(view.rows) \subseteq Kept(S)
        /\ \A j \in Kept(view.rows) : view.rows[j].config = S[j].config
    BY <1>1, <2>3
  <2> QED
    BY <2>4, <2>5, <2>6, <2>7
<1> QED
  BY <1>3, <1>4

-----------------------------------------------------------------------------
(* The invariant.                                                             *)

Memory == [rows |-> rows, active |-> active]

\* Of no version are there two contents.
OneContent(C) == \A c, d \in C : VersionOf[c] = VersionOf[d] => c = d

\* The history agrees with the rows; while the process is up its counter is past all
\* ids that mean something, and while it is down the files are.
Means ==
    /\ \A i \in Kept(disk) : meant[i] = disk[i].config
    /\ \A i \in Kept(rows) : meant[i] = rows[i].config
    /\ up => \A i \in Rows : meant[i] # NoConfig => i <= counter
    /\ ~up => \A i \in Rows : meant[i] # NoConfig => \E j \in Kept(disk) : i <= j

\* The ids of a store mean what its rows say, or nothing yet.
Heeds(S) == \A i \in Kept(S) : meant[i] = NoConfig \/ meant[i] = S[i].config

\* A step takes its meaning from no id, unless the process goes down and every file
\* it leaves is below.
Remembers ==
    \A i \in Rows : meant[i] # NoConfig /\ meant'[i] # meant[i] =>
        ~up' /\ \A j \in Kept(disk') : j < i

\* The invariant: the versions in the files and in memory together name one content
\* each; the memory is sound and covers the files, and is what the files say as long
\* as no write has failed; the counter is past all ids; and the history agrees.
Inv ==
    /\ TypeOK
    /\ Means
    /\ OneContent(ConfigsOf(disk) \cup ConfigsOf(rows))
    /\ pointer # 0 => pointer \in Kept(disk)
    /\ Sound(Memory)
    /\ up => /\ Covers(Memory, disk)
             /\ \A i \in Kept(disk) \cup Kept(rows) : i <= counter
             /\ errors = 0 => disk = rows /\ pointer = active
    /\ ~up => rows = Empty /\ active = 0 /\ counter = 0

\* Nothing is kept in the empty store.
LEMMA EmptyStore ==
    /\ Empty \in Stores /\ Kept(Empty) = {} /\ ConfigsOf(Empty) = {}
    /\ \A S \in Stores : Kept(S) = {} => S = Empty
    /\ \A S \in Stores : ConfigsOf(S) = {} => Kept(S) = {}
BY DEF Empty, Stores, Kept, ConfigsOf, Rows

\* Laid over what memory has, the files hide nothing.
LEMMA OverlaidRows ==
    ASSUME Inv
    PROVE  /\ Overlaid \in Stores
           /\ Kept(Overlaid) = Kept(disk) \cup Kept(rows)
           /\ \A i \in Kept(disk) : Overlaid[i] = disk[i]
           /\ \A i \in Kept(rows) \ Kept(disk) : Overlaid[i] = rows[i]
           /\ ConfigsOf(Overlaid) = ConfigsOf(disk) \cup ConfigsOf(rows)
<1>1. disk \in Stores /\ rows \in Stores
  BY DEF Inv, TypeOK, Stores
<1>2. /\ Overlaid \in Stores
      /\ Kept(Overlaid) = Kept(disk) \cup Kept(rows)
      /\ \A i \in Kept(disk) : Overlaid[i] = disk[i]
      /\ \A i \in Kept(rows) \ Kept(disk) : Overlaid[i] = rows[i]
  BY <1>1 DEF Overlaid, Stores, Kept
<1>3. \A i \in Kept(disk) \cap Kept(rows) : disk[i].config = rows[i].config
  BY EmptyStore DEF Inv, Covers, Memory
<1>4. \A i \in Kept(rows) : Overlaid[i].config = rows[i].config
  BY <1>2, <1>3
<1>5. ConfigsOf(Overlaid) = ConfigsOf(disk) \cup ConfigsOf(rows)
  BY <1>2, <1>4 DEF ConfigsOf
<1> QED
  BY <1>2, <1>5

\* What _load_dataset makes of the files and the memory: nothing is lost, the row the
\* pointer names is the active one, and without a failed write or a repair it is what
\* the files say.
LEMMA LoadedView ==
    ASSUME Inv, NEW view \in Loaded
    PROVE  /\ view = [rows |-> view.rows, active |-> view.active]
           /\ Sound(view) /\ Covers(view, disk)
           /\ ConfigsOf(view.rows) = ConfigsOf(disk) \cup ConfigsOf(rows)
           /\ Kept(view.rows) \subseteq Kept(disk) \cup Kept(rows)
           /\ pointer # 0 => view.active = pointer
           /\ \A i \in Kept(view.rows) : meant[i] = view.rows[i].config
           /\ ~Repairs(view) /\ (up => errors = 0) => view.rows = disk /\ view.active = pointer
<1>1. disk \in Stores /\ rows \in Stores
  BY DEF Inv, TypeOK, Stores
<1>2. ~up => rows = Empty /\ active = 0
  BY DEF Inv
<1>3. CASE Kept(disk) = {}
  <2>1. disk = Empty /\ ConfigsOf(disk) = {} /\ pointer = 0
    BY <1>1, <1>3, EmptyStore DEF Inv
  <2>2. view = Memory
    BY <1>3 DEF Loaded, Memory
  <2>3. view.rows = rows /\ view.active = active
        /\ view = [rows |-> view.rows, active |-> view.active]
    BY <2>2 DEF Memory
  <2>4. Sound(view)
    BY <2>2 DEF Inv
  <2>5. Covers(view, disk)
    BY <1>3, <2>1 DEF Covers
  <2>6. (up => errors = 0) => rows = disk /\ active = pointer
    BY <1>2, <2>1 DEF Inv
  <2>7. \A i \in Kept(view.rows) : meant[i] = view.rows[i].config
    BY <2>3 DEF Inv, Means
  <2> QED
    BY <1>3, <2>1, <2>3, <2>4, <2>5, <2>6, <2>7
<1>4. CASE Kept(disk) # {}
  <2>1. view \in Normal(Overlaid, Pointed)
    BY <1>4 DEF Loaded
  <2>2. /\ Overlaid \in Stores /\ Kept(Overlaid) = Kept(disk) \cup Kept(rows)
        /\ \A i \in Kept(disk) : Overlaid[i] = disk[i]
        /\ \A i \in Kept(rows) \ Kept(disk) : Overlaid[i] = rows[i]
        /\ ConfigsOf(Overlaid) = ConfigsOf(disk) \cup ConfigsOf(rows)
    BY OverlaidRows
  <2>3. Pointed \in 0..MaxId /\ (pointer # 0 => Pointed = pointer /\ pointer \in Kept(Overlaid))
        /\ (pointer = 0 => Pointed = active)
    BY <2>2 DEF Pointed, Inv, TypeOK, Kept, Rows
  <2>4. /\ view = [rows |-> view.rows, active |-> view.active]
        /\ Sound(view) /\ Kept(view.rows) \subseteq Kept(Overlaid)
        /\ ConfigsOf(view.rows) = ConfigsOf(Overlaid)
        /\ \A i \in Kept(view.rows) : view.rows[i].config = Overlaid[i].config
        /\ Pointed \in Kept(Overlaid) => view.active = Pointed
    BY <2>1, <2>2, <2>3, NormalForm
  <2>5. ASSUME NEW i \in Kept(view.rows), view.rows[i].config \in ConfigsOf(disk)
        PROVE  i \in Kept(disk)
    <3>1. CASE i \in Kept(rows)
      <4>1. up
        BY <1>2, <3>1, EmptyStore
      <4>2. i \notin Kept(disk) => rows[i].config \in ConfigsOf(disk)
        BY <2>2, <2>4, <2>5, <3>1
      <4> QED
        BY <3>1, <4>1, <4>2 DEF Inv, Covers, Memory
    <3> QED
      BY <2>2, <2>4, <3>1
  <2>6. Covers(view, disk)
    BY <2>2, <2>4, <2>5 DEF Covers
  <2>7. ASSUME ~Repairs(view), up => errors = 0 PROVE view.rows = disk /\ view.active = pointer
    <3>1. view.rows = Overlaid /\ view.active = Pointed
      BY <1>4, <2>7 DEF Repairs
    <3>2. rows = disk \/ rows = Empty
      BY <1>2, <2>7 DEF Inv
    <3>3. Overlaid = disk
      BY <1>1, <3>2 DEF Overlaid, Empty, Stores
    <3>4. pointer = 0 => active = 0
      BY <1>2, <2>7 DEF Inv
    <3> QED
      BY <2>3, <3>1, <3>3, <3>4
  <2>8. \A i \in Kept(view.rows) : meant[i] = view.rows[i].config
    BY <2>2, <2>4 DEF Inv, Means
  <2> QED
    BY <2>2, <2>3, <2>4, <2>6, <2>7, <2>8
<1> QED
  BY <1>3, <1>4

-----------------------------------------------------------------------------
(* Writing.                                                                   *)

\* What a request is about to write: the view, over the files from.
Ready(from, view, last) ==
    /\ from.rows \in Stores /\ from.active \in 0..MaxId
    /\ Sound(view) /\ Kept(view.rows) # {} /\ Covers(view, from.rows)
    /\ from.active # 0 => from.active \in Kept(from.rows) \cap Kept(view.rows)
    /\ OneContent(ConfigsOf(view.rows))
    /\ last \in 0..MaxId /\ \A i \in Kept(from.rows) \cup Kept(view.rows) : i <= last
    /\ ConfigsOf(disk) \subseteq ConfigsOf(from.rows)
    /\ \A i \in Kept(disk) \cap Kept(from.rows) : from.rows[i].config = disk[i].config
    /\ \A i \in Kept(disk) \cap Kept(view.rows) : view.rows[i].config = disk[i].config
    /\ ConfigsOf(disk) \cup ConfigsOf(rows) \subseteq ConfigsOf(view.rows)
    /\ ConfigsOf(view.rows)
         \subseteq ConfigsOf(disk) \cup ConfigsOf(rows) \cup {view.rows[view.active].config}
    /\ from.active = pointer \/ pointer = 0
    /\ Heeds(view.rows) /\ Heeds(from.rows)
    /\ \A i \in Rows : meant[i] # NoConfig => i <= last

\* After any number of its steps, the files hold what they held and some of the view.
LEMMA PersistedFiles ==
    ASSUME NEW from, NEW view, NEW last, Ready(from, view, last),
           NEW k \in 0..LastStep, Persisted(from, view, k)
    PROVE  /\ disk' \in Stores /\ Covers(view, disk')
           /\ ConfigsOf(from.rows) \subseteq ConfigsOf(disk')
           /\ \A i \in Kept(from.rows) \cap Kept(disk') : disk'[i].config = from.rows[i].config
           /\ pointer' \in 0..MaxId /\ pointer' \in {from.active, view.active}
           /\ pointer' # 0 => pointer' \in Kept(disk')
           /\ Kept(disk') \subseteq Kept(from.rows) \cup Kept(view.rows)
           /\ Heeds(disk')
           /\ k = LastStep => disk' = view.rows /\ pointer' = view.active
<1>1. /\ from.rows \in Stores /\ view.rows \in Stores /\ Covers(view, from.rows) /\ Sound(view)
      /\ view.active # 0 /\ view.active \in Kept(view.rows)
      /\ view.active \in 0..MaxId /\ from.active \in 0..MaxId
      /\ from.active # 0 => from.active \in Kept(from.rows) \cap Kept(view.rows)
      /\ MaxId \in Nat
  BY LabelConfigAssumption DEF Ready, Sound
<1>2. \A i, j \in Kept(view.rows) : view.rows[i].config = view.rows[j].config => i = j
  BY <1>1 DEF Sound
<1>3. pointer' = IF k = LastStep THEN view.active ELSE from.active
  BY <1>1 DEF Persisted
<1>4. CASE k = 0
  <2>1. disk' = from.rows
    BY <1>4 DEF Persisted
  <2>2. k # LastStep
    BY <1>1, <1>4 DEF LastStep
  <2>3. Heeds(disk')
    BY <2>1 DEF Ready
  <2> QED
    BY <1>1, <1>3, <2>1, <2>2, <2>3
<1>5. CASE k # 0
  <2>1. disk' = [i \in Rows |-> IF view.rows[i] = NoRow THEN NoRow
                                ELSE IF i < k THEN view.rows[i] ELSE from.rows[i]]
    BY <1>5 DEF Persisted
  <2>2. disk' \in Stores
    BY <1>1, <2>1 DEF Stores
  <2>3. \A i \in Kept(disk') : /\ i \in Kept(view.rows)
                               /\ disk'[i].config = view.rows[i].config
    BY <1>1, <2>1 DEF Kept, Covers
  <2>4. \A i \in Kept(view.rows) \cap Kept(from.rows) : i \in Kept(disk')
    BY <2>1 DEF Kept
  <2>5. \A i \in Kept(from.rows) \cap Kept(disk') : disk'[i].config = from.rows[i].config
    BY <1>1, <2>3 DEF Covers
  <2>6. ASSUME NEW c \in ConfigsOf(from.rows) PROVE c \in ConfigsOf(disk')
    <3>1. PICK i \in Kept(view.rows) : view.rows[i].config = c
      BY <1>1 DEF Covers, ConfigsOf
    <3>2. i \in Kept(from.rows)
      BY <1>1, <3>1 DEF Covers
    <3> QED
      BY <2>3, <2>4, <3>1, <3>2 DEF ConfigsOf
  <2>7. Covers(view, disk')
    <3>1. ConfigsOf(disk') \subseteq ConfigsOf(view.rows)
      BY <2>3 DEF ConfigsOf
    <3>2. ASSUME NEW i \in Kept(view.rows), view.rows[i].config \in ConfigsOf(disk')
          PROVE  i \in Kept(disk')
      BY <1>2, <2>3, <3>2 DEF ConfigsOf
    <3> QED
      BY <2>3, <3>1, <3>2 DEF Covers
  <2>8. k = LastStep => disk' = view.rows
    <3>1. \A i \in Rows : i < LastStep
      BY <1>1 DEF Rows, LastStep
    <3> QED
      BY <1>1, <2>1, <3>1 DEF Stores
  <2>9. pointer' # 0 => pointer' \in Kept(disk')
    BY <1>1, <1>3, <2>4, <2>8
  <2>10. Heeds(disk')
    BY <2>3 DEF Ready, Heeds
  <2> QED
    BY <1>1, <1>3, <2>2, <2>3, <2>5, <2>6, <2>7, <2>8, <2>9, <2>10
<1> QED
  BY <1>4, <1>5

\* What is in the files and in memory after a write, however it ends.
Written(from, view, last) ==
    /\ up' \in BOOLEAN /\ errors' \in 0..MaxErrors
    /\ \/ up' /\ rows' = view.rows /\ active' = view.active /\ counter' = last
       \/ ~up' /\ rows' = Empty /\ active' = 0 /\ counter' = 0
    /\ up' /\ errors' = 0 => disk' = view.rows /\ pointer' = view.active
    /\ disk' \in Stores /\ Covers(view, disk')
    /\ ConfigsOf(from.rows) \subseteq ConfigsOf(disk')
    /\ \A i \in Kept(from.rows) \cap Kept(disk') : disk'[i].config = from.rows[i].config
    /\ pointer' \in 0..MaxId /\ pointer' \in {from.active, view.active}
    /\ pointer' # 0 => pointer' \in Kept(disk')
    /\ Kept(disk') \subseteq Kept(from.rows) \cup Kept(view.rows)
    /\ Heeds(disk') /\ Recalls

LEMMA WriteEnds ==
    ASSUME TypeOK, NEW from, NEW view, NEW last, Ready(from, view, last), Write(from, view, last)
    PROVE  Written(from, view, last)
<1>0. Recalls
  BY DEF Write
<1>1. MaxId \in Nat /\ MaxErrors \in Nat /\ errors \in 0..MaxErrors /\ LastStep = MaxId + 2
  BY LabelConfigAssumption DEF TypeOK, LastStep
<1>2. CASE Ends(view, last) /\ Persisted(from, view, LastStep) /\ UNCHANGED errors
  <2>1. LastStep \in 0..LastStep
    BY <1>1
  <2> QED
    BY <1>0, <1>1, <1>2, <2>1, PersistedFiles DEF Ends, Written
<1>3. ASSUME NEW k \in 0..(LastStep - 1), Persisted(from, view, k),
             \/ Down /\ UNCHANGED errors
             \/ up /\ Ends(view, last) /\ errors < MaxErrors /\ errors' = errors + 1
      PROVE  Written(from, view, last)
  <2>1. k \in 0..LastStep
    BY <1>1
  <2>2. errors' \in 0..MaxErrors /\ (up' => errors' # 0) /\ up' \in BOOLEAN
    <3>1. CASE Down /\ UNCHANGED errors
      BY <1>1, <3>1 DEF Down
    <3>2. CASE Ends(view, last) /\ errors < MaxErrors /\ errors' = errors + 1
      <4>1. errors' \in 0..MaxErrors /\ errors' # 0
        BY <1>1, <3>2
      <4> QED
        BY <3>2, <4>1 DEF Ends
    <3> QED
      BY <1>3, <3>1, <3>2
  <2>3. \/ up' /\ rows' = view.rows /\ active' = view.active /\ counter' = last
        \/ ~up' /\ rows' = Empty /\ active' = 0 /\ counter' = 0
    BY <1>3 DEF Down, Ends
  <2> QED
    BY <1>0, <1>3, <2>1, <2>2, <2>3, PersistedFiles DEF Written
<1> QED
  BY <1>2, <1>3 DEF Write

\* What the history says after a step that gives no id another meaning.
LEMMA Recalled ==
    ASSUME TypeOK, Recalls, up' \in BOOLEAN, disk' \in Stores, rows' \in Stores,
           Heeds(disk'), Heeds(rows'),
           \A i \in Kept(disk') \cap Kept(rows') : disk'[i].config = rows'[i].config,
           up' => /\ \A i \in Kept(disk') \cup Kept(rows') : i <= counter'
                  /\ \A i \in Rows : meant[i] # NoConfig => i <= counter',
           ~up' => rows' = Empty
    PROVE  Means' /\ Remembers /\ meant' \in [Rows -> Configs \cup {NoConfig}]
<1> DEFINE stays(i) == up' \/ \E j \in Kept(disk') : i < j
<1>1. /\ Rows \subseteq Nat
      /\ \A i \in Kept(disk') : i \in Rows /\ disk'[i] # NoRow /\ disk'[i].config \in Configs
      /\ \A i \in Kept(rows') : i \in Rows /\ rows'[i] # NoRow /\ rows'[i].config \in Configs
      /\ \A i \in Rows : meant[i] \in Configs \cup {NoConfig}
  BY DEF Rows, Kept, Stores, Row, TypeOK
<1>2. \A i \in Kept(disk') : meant'[i] = disk'[i].config
  BY <1>1 DEF Recalls
<1>3. \A i \in Kept(rows') \ Kept(disk') : meant'[i] = rows'[i].config
  BY <1>1 DEF Recalls, Kept
<1>4. \A i \in Kept(rows') : meant'[i] = rows'[i].config
  BY <1>2, <1>3
<1>5. \A i \in Rows \ (Kept(disk') \cup Kept(rows')) :
        meant'[i] = IF stays(i) THEN meant[i] ELSE NoConfig
  BY DEF Recalls, Kept
<1>6. meant' \in [Rows -> Configs \cup {NoConfig}]
  <2>1. \A i \in Rows : meant'[i] \in Configs \cup {NoConfig}
    BY <1>1, <1>2, <1>4, <1>5
  <2>2. meant' = [i \in Rows |-> meant'[i]]
    BY DEF Recalls
  <2> QED
    BY <2>1, <2>2
<1>7. Remembers
  <2> SUFFICES ASSUME NEW i \in Rows, meant[i] # NoConfig, meant'[i] # meant[i]
               PROVE  ~up' /\ \A j \in Kept(disk') : j < i
    BY DEF Remembers
  <2>1. i \notin Kept(disk') /\ i \notin Kept(rows')
    BY <1>2, <1>4 DEF Heeds
  <2>2. ~stays(i)
    BY <1>5, <2>1
  <2>3. ASSUME NEW j \in Kept(disk') PROVE j < i
    <3>1. i \in Nat /\ j \in Nat /\ j # i /\ ~(i < j)
      BY <1>1, <2>1, <2>2
    <3> QED
      BY <3>1
  <2>4. ~up'
    BY <2>2
  <2> QED
    BY <2>3, <2>4
<1>8. up' => \A i \in Rows : meant'[i] # NoConfig => i <= counter'
  BY <1>5
<1>9. ~up' => \A i \in Rows : meant'[i] # NoConfig => \E j \in Kept(disk') : i <= j
  <2> SUFFICES ASSUME ~up', NEW i \in Rows, meant'[i] # NoConfig
               PROVE  \E j \in Kept(disk') : i <= j
    OBVIOUS
  <2>1. CASE i \in Kept(disk')
    <3>1. i <= i
      BY <1>1
    <3> QED
      BY <2>1, <3>1
  <2>2. CASE i \notin Kept(disk')
    <3>1. i \notin Kept(rows')
      BY EmptyStore
    <3>2. PICK j \in Kept(disk') : i < j
      BY <1>5, <2>2, <3>1
    <3>3. i \in Nat /\ j \in Nat
      BY <1>1
    <3>4. i <= j
      BY <3>2, <3>3
    <3> QED
      BY <3>4
  <2> QED
    BY <2>1, <2>2
<1> HIDE DEF stays
<1> QED
  BY <1>2, <1>4, <1>6, <1>7, <1>8, <1>9 DEF Means

\* And that is all the invariant asks.
LEMMA WrittenInv ==
    ASSUME Inv, NEW from, NEW view, NEW last, Ready(from, view, last), Written(from, view, last)
    PROVE  Inv' /\ Remembers
<1>1. /\ Sound(view) /\ view.rows \in Stores /\ view.active \in 0..MaxId
      /\ disk' \in Stores /\ Covers(view, disk') /\ last \in 0..MaxId /\ MaxId \in Nat
      /\ up' \in BOOLEAN
  BY LabelConfigAssumption DEF Ready, Sound, Written
<1>2. CASE up' /\ rows' = view.rows /\ active' = view.active /\ counter' = last
  <2>0. Heeds(rows') /\ Means' /\ Remembers /\ meant' \in [Rows -> Configs \cup {NoConfig}]
    <3>1. Heeds(rows')
      BY <1>2 DEF Ready
    <3>2. \A i \in Kept(disk') \cap Kept(rows') : disk'[i].config = rows'[i].config
      BY <1>1, <1>2 DEF Covers
    <3>3. /\ \A i \in Kept(disk') \cup Kept(rows') : i <= counter'
          /\ \A i \in Rows : meant[i] # NoConfig => i <= counter'
      BY <1>2 DEF Ready, Written
    <3>4. TypeOK /\ Recalls /\ Heeds(disk') /\ rows' \in Stores
      BY <1>1, <1>2 DEF Inv, Written
    <3> QED
      BY <1>1, <1>2, <3>1, <3>2, <3>3, <3>4, Recalled
  <2>1. TypeOK'
    BY <1>1, <1>2, <2>0 DEF TypeOK, Written, Stores
  <2>2. OneContent(ConfigsOf(disk') \cup ConfigsOf(rows'))
    BY <1>1, <1>2 DEF Ready, OneContent, Covers
  <2>3. Sound(Memory')
    BY <1>1, <1>2 DEF Sound, Memory
  <2>4. Covers(Memory', disk')
    BY <1>1, <1>2 DEF Covers, Memory
  <2>5. \A i \in Kept(disk') \cup Kept(rows') : i <= counter'
    BY <1>2 DEF Ready, Written
  <2> QED
    BY <1>2, <2>0, <2>1, <2>2, <2>3, <2>4, <2>5 DEF Inv, Written
<1>3. CASE ~up' /\ rows' = Empty /\ active' = 0 /\ counter' = 0
  <2>0. Means' /\ Remembers /\ meant' \in [Rows -> Configs \cup {NoConfig}]
    <3>1. Kept(rows') = {} /\ rows' \in Stores
      BY <1>3, EmptyStore
    <3>2. TypeOK /\ Recalls /\ Heeds(disk') /\ Heeds(rows')
      BY <3>1 DEF Inv, Written, Heeds
    <3> QED
      BY <1>1, <1>3, <3>1, <3>2, Recalled
  <2>1. TypeOK'
    BY <1>1, <1>3, <2>0, EmptyStore DEF TypeOK, Written, Stores
  <2>2. OneContent(ConfigsOf(disk') \cup ConfigsOf(rows'))
    BY <1>1, <1>3, EmptyStore DEF Ready, OneContent, Covers
  <2>3. Sound(Memory')
    BY <1>1, <1>3, EmptyStore DEF Sound, Memory
  <2> QED
    BY <1>3, <2>0, <2>1, <2>2, <2>3 DEF Inv, Written
<1> QED
  BY <1>2, <1>3 DEF Written

-----------------------------------------------------------------------------
(* The requests.                                                              *)

\* What a request starts from: the files, as they are or repaired.
Source(from, view) ==
    /\ from.rows \in Stores /\ from.active \in 0..MaxId /\ Covers(view, from.rows)
    /\ from.active # 0 => from.active \in Kept(from.rows) \cap Kept(view.rows)
    /\ Kept(from.rows) \subseteq Kept(disk) \cup Kept(rows)
    /\ ConfigsOf(disk) \subseteq ConfigsOf(from.rows)
    /\ \A i \in Kept(disk) \cap Kept(from.rows) : from.rows[i].config = disk[i].config
    /\ from.active = pointer \/ pointer = 0
    /\ Heeds(from.rows)

LEMMA SourceFiles ==
    ASSUME Inv, NEW view \in Loaded
    PROVE  Source(OnDisk, view) /\ Source(Repaired(view), view)
<1>1. /\ Sound(view) /\ Covers(view, disk)
      /\ Kept(view.rows) \subseteq Kept(disk) \cup Kept(rows)
      /\ pointer # 0 => view.active = pointer
      /\ Heeds(view.rows)
  BY LoadedView DEF Heeds
<1>2. Source(OnDisk, view)
  <2>1. Heeds(disk)
    BY DEF Inv, Means, Heeds
  <2> QED
    BY <1>1, <2>1 DEF Source, OnDisk, Inv, TypeOK, Stores, Sound
<1>3. Source(view, view)
  <2>1. Covers(view, view.rows)
    BY DEF Covers
  <2>2. \A i \in Kept(disk) \cap Kept(view.rows) : view.rows[i].config = disk[i].config
        /\ ConfigsOf(disk) \subseteq ConfigsOf(view.rows)
    BY <1>1 DEF Covers
  <2>3. ConfigsOf(disk) \subseteq ConfigsOf(view.rows)
    BY <1>1 DEF Covers
  <2> QED
    BY <1>1, <2>1, <2>2, <2>3 DEF Source, Sound
<1> QED
  BY <1>2, <1>3 DEF Repaired

\* The counter after the files have been counted is past all ids.
LEMMA CountedAll ==
    ASSUME Inv
    PROVE  /\ Counted \in 0..MaxId /\ \A i \in Kept(disk) \cup Kept(rows) : i <= Counted
           /\ \A i \in Rows : meant[i] # NoConfig => i <= Counted
<1> DEFINE S == Kept(disk) \cup {counter}
<1>1. S \in SUBSET (0..MaxId) /\ S # {} /\ counter \in S
  BY LabelConfigAssumption DEF Inv, TypeOK, Kept, Rows
<1> HIDE DEF S
<1>2. Greatest(S) \in S /\ \A i \in S : i <= Greatest(S)
  BY <1>1, GreatestOf
<1>3. Counted = Greatest(S)
  BY DEF Counted, S
<1>4. \A i \in Kept(rows) : i <= counter
  BY EmptyStore DEF Inv
<1>5. \A i \in Kept(rows) : i <= Greatest(S)
  <2> SUFFICES ASSUME NEW i \in Kept(rows) PROVE i <= Greatest(S)
    OBVIOUS
  <2>1. Greatest(S) \in 0..MaxId /\ counter \in 0..MaxId
    BY <1>1, <1>2
  <2>2. i \in Int /\ counter \in Int /\ Greatest(S) \in Int
    BY <2>1, LabelConfigAssumption DEF Kept, Rows
  <2>3. i <= counter /\ counter <= Greatest(S)
    BY <1>1, <1>2, <1>4
  <2> QED
    BY <2>2, <2>3
<1>6. \A i \in Kept(disk) : i <= Greatest(S)
  BY <1>2 DEF S
<1>7. ASSUME NEW i \in Rows, meant[i] # NoConfig PROVE i <= Greatest(S)
  <2>1. \E j \in S : i <= j
    <3>1. CASE up
      BY <1>1, <1>7, <3>1 DEF Inv, Means
    <3>2. CASE ~up
      BY <1>7, <3>2 DEF Inv, Means, S
    <3> QED
      BY <3>1, <3>2
  <2>2. PICK j \in S : i <= j
    BY <2>1
  <2>3. Greatest(S) \in 0..MaxId /\ j \in 0..MaxId /\ j <= Greatest(S)
    BY <1>1, <1>2
  <2>4. i \in Int /\ j \in Int /\ Greatest(S) \in Int
    BY <2>3, LabelConfigAssumption DEF Rows
  <2> QED
    BY <2>2, <2>3, <2>4
<1> QED
  BY <1>1, <1>2, <1>3, <1>5, <1>6, <1>7

\* A repair writes what has been loaded.
LEMMA LoadReady ==
    ASSUME Inv, NEW view \in Loaded, Repairs(view)
    PROVE  Ready(OnDisk, view, Counted)
<1>1. /\ Sound(view) /\ ConfigsOf(view.rows) = ConfigsOf(disk) \cup ConfigsOf(rows)
      /\ Kept(view.rows) \subseteq Kept(disk) \cup Kept(rows)
  BY LoadedView
<1>2. Source(OnDisk, view)
  BY SourceFiles
<1>3. Kept(view.rows) # {}
  BY <1>1 DEF Repairs, ConfigsOf
<1>4. OneContent(ConfigsOf(view.rows))
  BY <1>1 DEF Inv
<1>5. /\ \A i \in Kept(disk) \cap Kept(view.rows) : view.rows[i].config = disk[i].config
      /\ Heeds(view.rows)
  BY LoadedView DEF Covers, Heeds
<1> QED
  BY <1>1, <1>2, <1>3, <1>4, <1>5, CountedAll DEF Ready, Source

\* Activating a row of the view keeps its rows, and marks one of them.
LEMMA ActivatedRows ==
    ASSUME NEW view, Sound(view), NEW i \in Kept(view.rows)
    PROVE  /\ Sound(Activated(view, i))
           /\ Activated(view, i).active = i
           /\ Kept(Activated(view, i).rows) = Kept(view.rows)
           /\ ConfigsOf(Activated(view, i).rows) = ConfigsOf(view.rows)
           /\ \A j \in Kept(view.rows) : Activated(view, i).rows[j].config = view.rows[j].config
<1> DEFINE M == Marked(view.rows, Kept(view.rows), i)
<1>1. view.rows \in Stores /\ i \in 0..MaxId /\ i # 0
  BY LabelConfigAssumption DEF Sound, Kept, Rows
<1>2. /\ M \in Stores /\ Kept(M) = Kept(view.rows)
      /\ \A j \in Kept(view.rows) : /\ M[j].config = view.rows[j].config
                                    /\ M[j].status = "active" <=> j = i
  BY <1>1, MarkedRows
<1>3. Activated(view, i).rows = M /\ Activated(view, i).active = i
  BY DEF Activated
<1> HIDE DEF M
<1>4. Sound(Activated(view, i))
  BY <1>1, <1>2, <1>3 DEF Sound
<1>5. ConfigsOf(M) = ConfigsOf(view.rows)
  BY <1>2 DEF ConfigsOf
<1> QED
  BY <1>2, <1>3, <1>4, <1>5

\* So an activation may be written.
LEMMA ActivateReady ==
    ASSUME Inv, up, NEW view \in Loaded, NEW i \in Kept(view.rows)
    PROVE  Ready(Repaired(view), Activated(view, i), counter)
<1> DEFINE from == Repaired(view)
           new == Activated(view, i)
<1>1. /\ Sound(view) /\ ConfigsOf(view.rows) = ConfigsOf(disk) \cup ConfigsOf(rows)
      /\ Kept(view.rows) \subseteq Kept(disk) \cup Kept(rows)
  BY LoadedView
<1>2. Source(from, view)
  BY SourceFiles
<1>3. /\ Sound(new) /\ Kept(new.rows) = Kept(view.rows)
      /\ ConfigsOf(new.rows) = ConfigsOf(view.rows)
      /\ \A j \in Kept(view.rows) : new.rows[j].config = view.rows[j].config
  BY <1>1, ActivatedRows
<1>4. Covers(new, from.rows)
  BY <1>2, <1>3 DEF Covers, Source
<1>5. OneContent(ConfigsOf(new.rows))
  BY <1>1, <1>3 DEF Inv
<1>6. counter \in 0..MaxId /\ \A j \in Kept(from.rows) \cup Kept(new.rows) : j <= counter
  BY <1>1, <1>2, <1>3 DEF Inv, TypeOK, Source
<1>7. \A j \in Kept(disk) \cap Kept(new.rows) : new.rows[j].config = disk[j].config
  BY <1>3, LoadedView DEF Covers
<1>9. Heeds(new.rows) /\ \A j \in Rows : meant[j] # NoConfig => j <= counter
  BY <1>3, LoadedView DEF Heeds, Inv, Means
<1> HIDE DEF from, new
<1>8. Ready(from, new, counter)
  BY <1>9, <1>1, <1>2, <1>3, <1>4, <1>5, <1>6, <1>7 DEF Ready, Source
<1> QED
  BY <1>8 DEF from, new

\* A new row under the next id.
With(view, i, c) == [view.rows EXCEPT ![i] = [config |-> c, status |-> "draft"]]

LEMMA WithRow ==
    ASSUME NEW view, NEW c \in Configs, view.rows \in Stores, NEW i \in Rows, i \notin Kept(view.rows)
    PROVE  /\ With(view, i, c) \in Stores
           /\ Kept(With(view, i, c)) = Kept(view.rows) \cup {i}
           /\ ConfigsOf(With(view, i, c)) = ConfigsOf(view.rows) \cup {c}
           /\ With(view, i, c)[i].config = c
           /\ \A j \in Kept(view.rows) : With(view, i, c)[j] = view.rows[j]
<1> DEFINE W == With(view, i, c)
           new == [config |-> c, status |-> "draft"]
<1>1. new \in Row /\ new # NoRow /\ new.config = c
  BY LabelConfigAssumption DEF Row, Status, NoRow
<1> HIDE DEF new
<1>2. W = [view.rows EXCEPT ![i] = new]
  BY DEF With, new
<1>3. /\ W \in Stores /\ W[i] = new
      /\ \A j \in Rows \ {i} : W[j] = view.rows[j]
  BY <1>1, <1>2 DEF Stores
<1>4. Kept(W) = Kept(view.rows) \cup {i}
  BY <1>1, <1>3 DEF Kept
<1>5. \A j \in Kept(view.rows) : W[j] = view.rows[j]
  BY <1>3 DEF Kept
<1>6. ConfigsOf(W) = ConfigsOf(view.rows) \cup {c}
  BY <1>1, <1>3, <1>4, <1>5 DEF ConfigsOf
<1> QED
  BY <1>1, <1>3, <1>4, <1>5, <1>6

\* Saving a new config may be written.
LEMMA SaveReady ==
    ASSUME Inv, up, counter < MaxId, NEW c \in Configs, NEW view \in Loaded,
           c \notin ConfigsOf(view.rows), ~Conflicts(view, c)
    PROVE  LET i == NextId(view)
               new == Activated([view EXCEPT !.rows = With(view, i, c)], i)
           IN  Ready(Repaired(view), new, i) /\ new.rows[new.active].config = c
<1> DEFINE from == Repaired(view)
           i == NextId(view)
           W == With(view, i, c)
           with == [rows |-> W, active |-> view.active]
           new == Activated(with, i)
<1>1. /\ view = [rows |-> view.rows, active |-> view.active]
      /\ Sound(view) /\ ConfigsOf(view.rows) = ConfigsOf(disk) \cup ConfigsOf(rows)
      /\ Kept(view.rows) \subseteq Kept(disk) \cup Kept(rows)
  BY LoadedView
<1>2. Source(from, view)
  BY SourceFiles
<1>3. i \in Rows /\ i \in 0..MaxId /\ i = counter + 1 /\ counter \in Nat
  BY LabelConfigAssumption DEF NextId, Rows, Inv, TypeOK
<1>4. \A j \in Kept(disk) \cup Kept(rows) : j <= counter /\ j \in Nat
  BY DEF Inv, Kept, Rows
<1>5. i \notin Kept(disk) /\ i \notin Kept(rows) /\ \A j \in Kept(disk) \cup Kept(rows) : j <= i
  BY <1>3, <1>4
<1> HIDE DEF i
<1>6. /\ W \in Stores /\ Kept(W) = Kept(view.rows) \cup {i}
      /\ ConfigsOf(W) = ConfigsOf(view.rows) \cup {c} /\ W[i].config = c
      /\ \A j \in Kept(view.rows) : W[j] = view.rows[j]
  BY <1>1, <1>3, <1>5, WithRow DEF Sound
<1> HIDE DEF W
<1> DEFINE K == Kept(W)
           M == Marked(W, K, i)
<1>7. W \in Stores /\ K \subseteq Kept(W) /\ i \in K /\ K = Kept(W)
  BY <1>6
<1>8. new.rows = M /\ new.active = i
  BY DEF Activated
<1> HIDE DEF K, new, from
<1>9. /\ M \in Stores /\ Kept(M) = K
       /\ \A j \in K : /\ M[j].config = W[j].config
                       /\ M[j].status = "active" <=> j = i
  BY <1>7, MarkedRows
<1> HIDE DEF M
<1>10. /\ \A j \in Kept(view.rows) : M[j].config = view.rows[j].config
      /\ M[i].config = c
  BY <1>6, <1>7, <1>9
<1>11. \A j \in Kept(view.rows) : view.rows[j].config # c
  BY DEF ConfigsOf
<1>12. Sound(new)
  <2>1. \A j, k \in Kept(new.rows) : new.rows[j].config = new.rows[k].config => j = k
    BY <1>1, <1>6, <1>7, <1>8, <1>9, <1>10, <1>11 DEF Sound
  <2>2. Kept(new.rows) = K /\ i # 0
    BY <1>3, <1>8, <1>9 DEF Rows
  <2>3. \A j \in Kept(new.rows) : new.rows[j].status = "active" <=> j = new.active
    BY <1>8, <1>9, <2>2
  <2> QED
    BY <1>3, <1>7, <1>8, <1>9, <2>1, <2>2, <2>3 DEF Sound
<1>13. Kept(new.rows) = Kept(view.rows) \cup {i} /\ ConfigsOf(new.rows) = ConfigsOf(view.rows) \cup {c}
  <2>1. ConfigsOf(M) = ConfigsOf(W)
    BY <1>7, <1>9 DEF ConfigsOf
  <2> QED
    BY <1>6, <1>7, <1>8, <1>9, <2>1
<1>14. i \notin Kept(from.rows) /\ c \notin ConfigsOf(from.rows)
  BY <1>2, <1>5 DEF Source, Covers
<1>15. Covers(new, from.rows)
  <2>1. Covers(view, from.rows)
    BY <1>2 DEF Source
  <2> QED
    BY <1>8, <1>10, <1>13, <1>14, <2>1 DEF Covers
<1>16. OneContent(ConfigsOf(new.rows))
  <2>1. OneContent(ConfigsOf(view.rows))
    BY <1>1 DEF Inv
  <2>2. \A d \in ConfigsOf(view.rows) : VersionOf[d] # VersionOf[c]
    BY DEF Conflicts, ConfigsOf
  <2> QED
    BY <1>13, <2>1, <2>2 DEF OneContent
<1>17. \A j \in Kept(from.rows) \cup Kept(new.rows) : j <= i
  BY <1>1, <1>2, <1>3, <1>5, <1>13 DEF Source
<1>18. new.rows[new.active].config = c
  BY <1>8, <1>10
<1>19. \A j \in Kept(disk) \cap Kept(new.rows) : new.rows[j].config = disk[j].config
  BY <1>5, <1>8, <1>10, <1>13, LoadedView DEF Covers
<1>22. meant[i] = NoConfig /\ \A j \in Rows : meant[j] # NoConfig => j <= i
  <2>1. \A j \in Rows : meant[j] # NoConfig => j <= counter /\ j \in Nat
    BY DEF Inv, Means, Rows
  <2> QED
    BY <1>3, <2>1
<1>23. Heeds(new.rows)
  BY <1>8, <1>10, <1>13, <1>22, LoadedView DEF Heeds
<1>20. Ready(from, new, i)
  BY <1>22, <1>23, <1>1, <1>2, <1>3, <1>12, <1>13, <1>15, <1>16, <1>17, <1>18, <1>19 DEF Ready, Source
<1>21. [view EXCEPT !.rows = W] = with
  BY <1>1
<1> QED
  BY <1>18, <1>20, <1>21 DEF new, from, i, W

-----------------------------------------------------------------------------
(* The theorems.                                                              *)

\* A store of an earlier program holds one content a version, and its pointer names a
\* row of it.
LEMMA InitInv == Init => Inv
<1> SUFFICES ASSUME Init PROVE Inv
  OBVIOUS
<1>1. TypeOK
  <2>1. 0 \in 0..MaxId /\ 0 \in 0..MaxErrors
    BY LabelConfigAssumption
  <2>2. up \in BOOLEAN /\ Empty \in [Rows -> Row \cup {NoRow}]
    BY EmptyStore DEF Init, Stores
  <2>3. meant \in [Rows -> Configs \cup {NoConfig}]
    BY DEF Init, NoRow, Row
  <2> QED
    BY <2>1, <2>2, <2>3 DEF Init, TypeOK
<1>2. OneContent(ConfigsOf(disk) \cup ConfigsOf(rows))
  <2>1. ConfigsOf(rows) = {}
    BY EmptyStore DEF Init
  <2>2. OneContent(ConfigsOf(disk))
    BY DEF Init, Historical, OneContent, ConfigsOf
  <2> QED
    BY <2>1, <2>2
<1>3. pointer # 0 => pointer \in Kept(disk)
  BY DEF Init, Historical
<1>4. Sound(Memory)
  BY EmptyStore, LabelConfigAssumption DEF Init, Sound, Memory
<1>5. Means
  <2>1. \A i \in Rows : meant[i] = disk[i].config /\ i \in Nat
    BY DEF Init, Rows
  <2>2. \A i \in Rows : meant[i] # NoConfig => i \in Kept(disk)
    BY <2>1 DEF Kept, NoRow
  <2>3. Kept(rows) = {} /\ ~up /\ Kept(disk) \subseteq Rows
    BY EmptyStore DEF Init, Kept
  <2> QED
    BY <2>1, <2>2, <2>3 DEF Means
<1> QED
  BY <1>1, <1>2, <1>3, <1>4, <1>5 DEF Init, Inv

\* A request ends with nothing written, or it has written, from its first step to any,
\* what it was about to.
Writes ==
    \E from, view, last : Ready(from, view, last) /\ Written(from, view, last)

Listed ==
    \E view \in Loaded :
        ~Repairs(view) /\ Ends(view, Counted) /\ UNCHANGED <<files, errors>> /\ Recalls

LEMMA StepKinds ==
    ASSUME Inv, Next
    PROVE  Writes \/ Listed \/ Stop
<1>0. TypeOK
  BY DEF Inv
<1>1. ASSUME NEW from, NEW view, NEW last, Ready(from, view, last), Write(from, view, last)
      PROVE  Writes
  BY <1>0, <1>1, WriteEnds DEF Writes
<1>2. CASE Load
  <2>1. PICK view \in Loaded : IF Repairs(view) THEN Write(OnDisk, view, Counted)
                               ELSE Ends(view, Counted) /\ UNCHANGED <<files, errors>> /\ Recalls
    BY <1>2 DEF Load
  <2>2. CASE Repairs(view)
    BY <1>1, <2>1, <2>2, LoadReady
  <2>3. CASE ~Repairs(view)
    BY <2>1, <2>3 DEF Listed
  <2> QED
    BY <2>2, <2>3
<1>3. ASSUME NEW view \in Loaded, NEW i \in Kept(view.rows), up,
             Write(Repaired(view), Activated(view, i), counter)
      PROVE  Writes
  BY <1>1, <1>3, ActivateReady
<1>4. ASSUME NEW i \in Rows, Activate(i) PROVE Writes
  BY <1>3, <1>4 DEF Activate
<1>5. ASSUME NEW c \in Configs, SaveAgain(c) PROVE Writes
  BY <1>3, <1>5 DEF SaveAgain
<1>6. ASSUME NEW c \in Configs, SaveNew(c) PROVE Writes
  <2>1. PICK view \in Loaded :
            /\ c \notin ConfigsOf(view.rows) /\ ~Conflicts(view, c)
            /\ Write(Repaired(view),
                     Activated([view EXCEPT !.rows = With(view, NextId(view), c)], NextId(view)),
                     NextId(view))
    BY <1>6 DEF SaveNew, With
  <2>2. Ready(Repaired(view),
              Activated([view EXCEPT !.rows = With(view, NextId(view), c)], NextId(view)),
              NextId(view))
    BY <1>6, <2>1, SaveReady DEF SaveNew
  <2> QED
    BY <1>1, <2>1, <2>2
<1> QED
  BY <1>2, <1>4, <1>5, <1>6 DEF Next

\* Every step keeps the invariant, and what the ids mean.
LEMMA StepKeeps ==
    ASSUME Inv, Next
    PROVE  Inv' /\ Remembers
<1>2. CASE Writes
  BY <1>2, WrittenInv DEF Writes
<1>3. CASE Listed
  <2>1. PICK view \in Loaded :
            ~Repairs(view) /\ Ends(view, Counted) /\ UNCHANGED <<files, errors>> /\ Recalls
    BY <1>3 DEF Listed
  <2>2. up' /\ rows' = view.rows /\ active' = view.active /\ counter' = Counted
        /\ disk' = disk /\ pointer' = pointer /\ errors' = errors /\ up' \in BOOLEAN
    BY <2>1 DEF Ends, files
  <2>3. /\ Sound(view) /\ Covers(view, disk)
        /\ ConfigsOf(view.rows) = ConfigsOf(disk) \cup ConfigsOf(rows)
        /\ Kept(view.rows) \subseteq Kept(disk) \cup Kept(rows)
        /\ errors = 0 => view.rows = disk /\ view.active = pointer
    BY <2>1, LoadedView
  <2>9. Recalls /\ Heeds(disk') /\ Heeds(rows') /\ rows' \in Stores /\ disk' \in Stores
    <3>1. Heeds(disk) /\ Heeds(view.rows) /\ disk \in Stores /\ view.rows \in Stores
      BY LoadedView DEF Inv, Means, Heeds, TypeOK, Stores, Sound
    <3> QED
      BY <2>1, <2>2, <3>1
  <2>4. /\ Counted \in 0..MaxId
        /\ \A i \in Kept(disk) \cup Kept(rows) : i <= Counted
        /\ \A i \in Rows : meant[i] # NoConfig => i <= Counted
    BY CountedAll
  <2>10. \A i \in Kept(disk') \cup Kept(rows') : i <= counter'
    BY <2>2, <2>3, <2>4
  <2>11. \A i \in Kept(disk') \cap Kept(rows') : disk'[i].config = rows'[i].config
    BY <2>2, <2>3 DEF Covers
  <2>12. Means' /\ Remembers /\ meant' \in [Rows -> Configs \cup {NoConfig}]
    <3>1. \A i \in Rows : meant[i] # NoConfig => i <= counter'
      BY <2>2, <2>4
    <3>2. TypeOK
      BY DEF Inv
    <3> QED
      BY <2>2, <2>9, <2>10, <2>11, <3>1, <3>2, Recalled
  <2>5. TypeOK'
    BY <2>2, <2>3, <2>4, <2>12 DEF Inv, TypeOK, Sound, Stores
  <2>6. OneContent(ConfigsOf(disk') \cup ConfigsOf(rows'))
    BY <2>2, <2>3 DEF Inv, OneContent
  <2>7. Sound(Memory') /\ Covers(Memory', disk')
    BY <2>2, <2>3 DEF Sound, Covers, Memory
  <2> QED
    BY <2>2, <2>3, <2>5, <2>6, <2>7, <2>10, <2>12 DEF Inv
<1>4. CASE Stop
  <2>1. ~up' /\ up' \in BOOLEAN /\ rows' = Empty /\ active' = 0 /\ counter' = 0
        /\ disk' = disk /\ pointer' = pointer /\ errors' = errors
    BY <1>4 DEF Stop, Down, files
  <2>5. Means' /\ Remembers /\ meant' \in [Rows -> Configs \cup {NoConfig}]
    <3>1. Kept(rows') = {} /\ rows' \in Stores /\ disk' \in Stores
      BY <2>1, EmptyStore DEF Inv, TypeOK, Stores
    <3>2. TypeOK /\ Recalls /\ Heeds(disk') /\ Heeds(rows')
      BY <1>4, <2>1, <3>1 DEF Stop, Inv, Means, Heeds
    <3> QED
      BY <2>1, <3>1, <3>2, Recalled
  <2>2. TypeOK'
    BY <2>1, <2>5, EmptyStore, LabelConfigAssumption DEF Inv, TypeOK, Stores
  <2>3. OneContent(ConfigsOf(disk') \cup ConfigsOf(rows'))
    BY <2>1, EmptyStore DEF Inv, OneContent
  <2>4. Sound(Memory')
    BY <2>1, EmptyStore, LabelConfigAssumption DEF Sound, Memory
  <2> QED
    BY <2>1, <2>2, <2>3, <2>4, <2>5 DEF Inv
<1> QED
  BY <1>2, <1>3, <1>4, StepKinds

LEMMA StepInv == Inv /\ [Next]_vars => Inv'
<1>1. ASSUME Inv, UNCHANGED vars PROVE Inv'
  <2>1. /\ up' = up /\ rows' = rows /\ active' = active /\ counter' = counter
        /\ disk' = disk /\ pointer' = pointer /\ errors' = errors /\ meant' = meant
    BY <1>1 DEF vars, memory, files
  <2>2. TypeOK' /\ Memory' = Memory /\ Means'
    BY <1>1, <2>1 DEF Inv, TypeOK, Memory, Means
  <2> QED
    BY <1>1, <2>1, <2>2 DEF Inv
<1> QED
  BY <1>1, StepKeeps

LEMMA InvHolds == Spec => []Inv
BY InitInv, StepInv, PTL DEF Spec

\* Type correctness of the repository, for any number of configs, ids and failed
\* writes: no repair, however it is torn, makes the files or the memory anything but
\* rows.
THEOREM LabelTypes == Spec => []TypeOK
<1>1. Inv => TypeOK
  BY DEF Inv
<1> QED
  BY <1>1, InvHolds, PTL

\* In a running process no two rows have one version, and one row is active, the
\* active id's: whatever the store was and wherever earlier requests were stopped.
THEOREM OneRowEach == Spec => []OneRowPerVersion
<1>1. Inv => OneRowPerVersion
  <2> SUFFICES ASSUME Inv, up PROVE OneRowPerVersion
    BY DEF OneRowPerVersion
  <2>1. /\ \A i, j \in Kept(rows) : rows[i].config = rows[j].config => i = j
        /\ \A i \in Kept(rows) : rows[i].status = "active" <=> i = active
        /\ active # 0 => active \in Kept(rows)
        /\ active = 0 => Kept(rows) = {}
    BY DEF Inv, Sound, Memory
  <2>2. ASSUME NEW i \in Kept(rows), NEW j \in Kept(rows),
               VersionOf[rows[i].config] = VersionOf[rows[j].config]
        PROVE  i = j
    BY <2>1, <2>2 DEF Inv, OneContent, ConfigsOf
  <2>3. {i \in Kept(rows) : rows[i].status = "active"} = {active} \ {0}
    BY <2>1
  <2> QED
    BY <2>2, <2>3 DEF OneRowPerVersion
<1> QED
  BY <1>1, InvHolds, PTL

\* A normal form there always is; what the pointer names it makes active.
LEMMA NormalExists ==
    ASSUME NEW S \in Stores, NEW ac \in 0..MaxId, ac \in Kept(S) \/ Kept(S) = {}
    PROVE  Normal(S, ac) # {}
<1> DEFINE keep == {Canonical(S, ac, c) : c \in ConfigsOf(S)}
<1>1. CASE Kept(S) = {}
  <2>1. ConfigsOf(S) = {}
    BY <1>1 DEF ConfigsOf
  <2> QED
    BY <2>1 DEF Normal
<1>2. CASE ac \in Kept(S)
  <2>1. S[ac].config \in ConfigsOf(S)
    BY <1>2 DEF ConfigsOf
  <2>2. ac \in keep
    BY <1>2, <2>1, CanonicalIsOne
  <2>3. ac \in Candidates(S, ac, keep) /\ keep # {}
    BY <2>2 DEF Candidates
  <2> HIDE DEF keep
  <2>4. Normal(S, ac) = {[rows |-> Marked(S, keep, i), active |-> i] : i \in Candidates(S, ac, keep)}
    BY <2>3 DEF Normal, keep
  <2> QED
    BY <2>3, <2>4
<1> QED
  BY <1>1, <1>2

\* As long as no write has failed, a restart serves what get_active serves, under the
\* same id.
THEOREM RestartServes == Spec => []ServedSurvives
<1>1. Inv => ServedSurvives
  <2> SUFFICES ASSUME Inv, up, errors = 0 PROVE ServedSurvives
    BY DEF ServedSurvives
  <2>1. disk = rows /\ pointer = active /\ disk \in Stores /\ active \in 0..MaxId
        /\ (active # 0 => active \in Kept(disk)) /\ (active = 0 => Kept(disk) = {})
    BY DEF Inv, TypeOK, Stores, Sound, Memory
  <2> DEFINE ac == IF pointer \in Kept(disk) THEN pointer ELSE 0
  <2>2. ac = active
    BY <2>1
  <2>3. Normal(disk, active) # {}
    BY <2>1, NormalExists
  <2>4. Recovered \in Normal(disk, active)
    BY <2>2, <2>3 DEF Recovered
  <2>5. /\ Sound(Recovered) /\ Kept(Recovered.rows) \subseteq Kept(disk)
        /\ \A i \in Kept(Recovered.rows) : Recovered.rows[i].config = disk[i].config
        /\ active \in Kept(disk) => Recovered.active = active
    BY <2>1, <2>4, NormalForm
  <2>6. CASE active = 0
    <3>1. Recovered.active = 0
      BY <2>1, <2>5, <2>6 DEF Sound
    <3> QED
      BY <2>6, <3>1 DEF ServedSurvives, ActiveOf
  <2>7. CASE active # 0
    <3>1. Recovered.active = active /\ active \in Kept(Recovered.rows)
      BY <2>1, <2>5, <2>7 DEF Sound
    <3> QED
      BY <2>1, <2>5, <2>7, <3>1 DEF ServedSurvives, ActiveOf
  <2> QED
    BY <2>6, <2>7
<1> QED
  BY <1>1, InvHolds, PTL

\* No save, activation, repair, crash or failed write makes a stored config disappear
\* from the files; and an id that was in the files or served comes to mean another
\* config only after the process has gone down with all files below that id.
THEOREM HistoryStays == Spec => HistoryKept
<1>1. ASSUME Inv, Next
      PROVE  ConfigsOf(disk) \subseteq ConfigsOf(disk') /\ Remembers
  <2>1. CASE Writes
    <3>1. ConfigsOf(disk) \subseteq ConfigsOf(disk')
      BY <2>1 DEF Writes, Ready, Written
    <3> QED
      BY <1>1, <3>1, StepKeeps
  <2>2. CASE Listed \/ Stop
    <3>1. ConfigsOf(disk) \subseteq ConfigsOf(disk')
      BY <2>2 DEF Listed, Stop, files
    <3> QED
      BY <1>1, <3>1, StepKeeps
  <2> QED
    BY <1>1, <2>1, <2>2, StepKinds
<1>2. Inv /\ [Next]_vars =>
        [/\ ConfigsOf(disk) \subseteq ConfigsOf(disk')
         /\ \A i \in Rows : meant[i] # NoConfig /\ meant'[i] # meant[i] =>
                ~up' /\ \A j \in Kept(disk') : j < i]_vars
  BY <1>1 DEF Remembers
<1> QED
  BY <1>2, InvHolds, PTL DEF Spec, HistoryKept

-----------------------------------------------------------------------------
(* The files implement the book.                                              *)

Stored == ConfigsOf(disk)
Pending == ConfigsOf(rows) \ ConfigsOf(disk)

\* Where a write ends, the pointer names what it named, or the row the write was to
\* activate, or any row of the files if it named none.
LEMMA WrittenPointer ==
    ASSUME Inv, NEW from, NEW view, NEW last, Ready(from, view, last), Written(from, view, last),
           PointedConfig' # PointedConfig, PointedConfig' # view.rows[view.active].config
    PROVE  PointedConfig = NoConfig /\ PointedConfig' \in Stored'
<1>1. pointer' # 0
  BY DEF PointedConfig, Ready, Written, Sound
<1>2. pointer' \in Kept(disk') /\ disk'[pointer'].config \in Stored'
      /\ PointedConfig' = disk'[pointer'].config
  BY <1>1 DEF Written, PointedConfig, Stored, ConfigsOf
<1>3. pointer' = from.active
  <2>1. ASSUME pointer' = view.active PROVE FALSE
    <3>1. view.active \in Kept(view.rows)
      BY <1>1, <2>1 DEF Ready, Sound
    <3> QED
      BY <1>2, <2>1, <3>1 DEF Written, Covers
  <2> QED
    BY <2>1 DEF Written
<1>4. pointer = 0
  <2>1. ASSUME pointer # 0 PROVE FALSE
    <3>1. pointer \in Kept(disk) /\ pointer' = pointer /\ pointer \in Kept(from.rows)
      BY <1>1, <1>3, <2>1 DEF Inv, Ready
    <3>2. disk'[pointer].config = disk[pointer].config
      BY <1>2, <3>1 DEF Ready, Written
    <3> QED
      BY <1>2, <2>1, <3>1, <3>2 DEF PointedConfig
  <2> QED
    BY <2>1
<1> QED
  BY <1>2, <1>4 DEF PointedConfig

\* So a write, however it ends, is a call of the book that may be stopped half-way.
LEMMA WritesTear ==
    ASSUME Inv, Writes
    PROVE  \E c \in Configs : Book!Tear(c)
<1>1. PICK from, view, last : Ready(from, view, last) /\ Written(from, view, last)
  BY DEF Writes
<1> DEFINE c == view.rows[view.active].config
<1>2. view.rows \in Stores /\ c \in ConfigsOf(view.rows)
  BY <1>1 DEF Ready, Sound, ConfigsOf
<1>3. c \in Configs
  BY <1>2, RowIsKept
<1>4. Stored \subseteq Stored' /\ Stored' \subseteq Stored \cup Pending \cup {c}
  BY <1>1 DEF Ready, Written, Covers, Stored, Pending
<1>5. ConfigsOf(rows') \subseteq Stored \cup Pending \cup {c}
  BY <1>1, EmptyStore DEF Ready, Written, Stored, Pending
<1>6. ~Book!Conflicts(Stored \cup Pending, c)
  BY <1>1, <1>2 DEF Ready, OneContent, Book!Conflicts, Stored, Pending
<1>7. PointedConfig' \in {PointedConfig, c} \cup IF PointedConfig = NoConfig THEN Stored' ELSE {}
  BY <1>1, WrittenPointer
<1> HIDE DEF c
<1>8. \E S \in SUBSET (Pending \cup {c}) : Stored' = Stored \cup S
  <2>1. Stored' \ Stored \in SUBSET (Pending \cup {c}) /\ Stored' = Stored \cup (Stored' \ Stored)
    BY <1>4
  <2> QED
    BY <2>1
<1>9. Pending' \in SUBSET ((Pending \cup {c}) \ Stored')
  BY <1>4, <1>5 DEF Pending, Stored
<1>10. Book!Tear(c)
  BY <1>6, <1>7, <1>8, <1>9 DEF Book!Tear, Stored, Pending
<1> QED
  BY <1>3, <1>10

\* Every step of the repository is a step of the book or none.
LEMMA StepOfBook == Inv /\ [Next]_vars => [Book!BookNext]_(Book!book)
<1> SUFFICES ASSUME Inv, [Next]_vars PROVE [Book!BookNext]_(Book!book)
  OBVIOUS
<1>1. CASE UNCHANGED vars
  BY <1>1 DEF vars, memory, files, Book!book, PointedConfig, Kept, ConfigsOf
<1>2. CASE Writes
  BY <1>2, WritesTear DEF Book!BookNext
<1>3. CASE Listed
  <2>1. PICK view \in Loaded :
            ~Repairs(view) /\ Ends(view, Counted) /\ UNCHANGED <<files, errors>> /\ Recalls
    BY <1>3 DEF Listed
  <2>2. ConfigsOf(view.rows) = ConfigsOf(disk) \cup ConfigsOf(rows)
    BY LoadedView
  <2>3. rows' = view.rows /\ disk' = disk /\ pointer' = pointer
    BY <2>1 DEF Ends, files
  <2>4. ConfigsOf(rows') \ ConfigsOf(disk') = ConfigsOf(rows) \ ConfigsOf(disk)
    BY <2>2, <2>3
  <2> QED
    BY <2>3, <2>4 DEF Book!book, PointedConfig
<1>4. CASE Stop
  <2>1. rows' = Empty /\ disk' = disk /\ pointer' = pointer
    BY <1>4 DEF Stop, Down, files
  <2>2. ConfigsOf(rows') = {}
    BY <2>1, EmptyStore
  <2>3. Book!Settle
    BY <2>1, <2>2 DEF Book!Settle, PointedConfig
  <2> QED
    BY <2>3 DEF Book!BookNext
<1> QED
  BY <1>1, <1>2, <1>3, <1>4, StepKinds

\* The store of an earlier program is a book: no version in it has two contents.
LEMMA InitOfBook == Init => Book!BookInit
<1> SUFFICES ASSUME Init PROVE Book!BookInit
  OBVIOUS
<1>1. disk \in Stores /\ ConfigsOf(rows) = {}
  BY EmptyStore DEF Init, Stores
<1>2. ConfigsOf(disk) \in SUBSET Configs
  BY <1>1, RowIsKept
<1>3. \A c \in ConfigsOf(disk) : ~Book!Conflicts(ConfigsOf(disk), c)
  BY DEF Init, Historical, ConfigsOf, Book!Conflicts
<1>4. PointedConfig \in ConfigsOf(disk) \cup {NoConfig}
  BY DEF Init, Historical, ConfigsOf, PointedConfig
<1> QED
  BY <1>1, <1>2, <1>3, <1>4 DEF Book!BookInit

\* The refinement: the files, written one after the other with a crash or a failure
\* between any two of them, implement the book of the database repository, whose calls
\* are then stopped half-way at worst: they store their config or not, and activate it
\* or not, and nothing else changes.
THEOREM ImplementsBook == Spec => BookRefined
<1>1. Inv /\ [Next]_vars => [Book!BookNext]_(Book!book)
  BY StepOfBook
<1> QED
  BY <1>1, InitOfBook, InvHolds, PTL DEF Spec, BookRefined, Book!BookSpec
=============================================================================
