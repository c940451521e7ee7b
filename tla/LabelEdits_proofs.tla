-------------------------- MODULE LabelEdits_proofs --------------------------
(***************************************************************************)
(* Theorems about LabelEdits for any fields and values, any payloads of    *)
(* the shape that samples have, and any number of operations.              *)
(***************************************************************************)
EXTENDS LabelEdits, TLAPS, FiniteSetTheorems, SequenceTheorems, WellFoundedInduction

-----------------------------------------------------------------------------
(* Positions.                                                                 *)

\* A set of numbers that is not empty has a least one.
LEMMA LeastNumber ==
    ASSUME NEW S \in SUBSET Nat, S # {}
    PROVE  \E n \in S : \A m \in S : n <= m
<1> DEFINE R == OpToRel(<, Nat)
<1>1. IsWellFoundedOn(R, Nat)
  BY NatLessThanWellFounded
<1> HIDE DEF R
<1>2. PICK x \in S : \A y \in S : ~ (<<y, x>> \in R)
  BY <1>1, WFMin
<1>3. \A y \in S : ~ (y < x)
  BY <1>2 DEF R, OpToRel
<1> QED
  BY <1>3

\* There are n positions up to n.
LEMMA PositionsUpTo ==
    ASSUME NEW n \in Nat
    PROVE  Cardinality(1..n) = n
<1>1. Cardinality(1..n) = IF 1 > n THEN 0 ELSE n - 1 + 1
  BY FS_Interval
<1> QED
  BY <1>1

\* The members of S up to m.
UpTo(S, m) == {j \in S : j <= m}

\* Of a set of positions there is, for every k up to its size, one that has k of them
\* up to itself: the least m up to which there are k.
LEMMA Ranked ==
    ASSUME NEW n \in Nat, NEW S \in SUBSET (1..n), NEW k \in 1..Cardinality(S)
    PROVE  \E i \in S : Cardinality(UpTo(S, i)) = k
<1>1. \A j \in S : j \in Nat /\ j <= n /\ 1 <= j
  OBVIOUS
<1>2. IsFiniteSet(S) /\ \A m : IsFiniteSet(UpTo(S, m)) /\ Cardinality(UpTo(S, m)) \in Nat
  <2>1. IsFiniteSet(1..n)
    BY FS_Interval
  <2>2. IsFiniteSet(S)
    BY <2>1, FS_Subset
  <2>3. ASSUME NEW m PROVE IsFiniteSet(UpTo(S, m))
    BY <2>2, FS_Subset DEF UpTo
  <2> QED
    BY <2>2, <2>3, FS_CardinalityType
<1> DEFINE M == {m \in 0..n : k <= Cardinality(UpTo(S, m))}
<1>3. k \in Nat /\ k # 0 /\ k <= Cardinality(S)
  BY <1>2, FS_CardinalityType
<1>4. M \in SUBSET Nat /\ n \in M
  <2>1. UpTo(S, n) = S
    BY <1>1 DEF UpTo
  <2> QED
    BY <1>3, <2>1
<1>5. PICK m \in M : \A l \in M : m <= l
  BY <1>4, LeastNumber
<1>6. m # 0
  <2>1. ASSUME m = 0 PROVE FALSE
    <3>1. \A j \in S : ~ (j <= 0)
      BY <1>1
    <3>2. UpTo(S, 0) = {}
      BY <3>1 DEF UpTo
    <3>3. Cardinality(UpTo(S, 0)) = 0
      BY <3>2, FS_EmptySet
    <3> QED
      BY <1>3, <2>1, <3>3
  <2> QED
    BY <2>1
<1>7. m \in 1..n /\ m - 1 \in 0..n
  BY <1>6
<1>8. ~ (k <= Cardinality(UpTo(S, m - 1)))
  <2>1. ~ (m <= m - 1)
    BY <1>7
  <2> QED
    BY <1>5, <1>7, <2>1
<1>9. k <= Cardinality(UpTo(S, m))
  OBVIOUS
<1> HIDE DEF M
<1>10. UpTo(S, m) = UpTo(S, m - 1) \cup (S \cap {m})
  <2>1. \A j \in S : j <= m <=> (j <= m - 1 \/ j = m)
    BY <1>1, <1>7
  <2> QED
    BY <2>1 DEF UpTo
<1>11. m \in S
  BY <1>8, <1>9, <1>10
<1>12. m \notin UpTo(S, m - 1)
  <2>1. ~ (m <= m - 1)
    BY <1>7
  <2> QED
    BY <2>1 DEF UpTo
<1>13. Cardinality(UpTo(S, m)) = Cardinality(UpTo(S, m - 1)) + 1
  <2>1. UpTo(S, m) = UpTo(S, m - 1) \cup {m}
    BY <1>10, <1>11
  <2> QED
    BY <1>2, <1>12, <2>1, FS_AddElement
<1>14. Cardinality(UpTo(S, m)) = k
  <2> DEFINE x == Cardinality(UpTo(S, m))
             y == Cardinality(UpTo(S, m - 1))
  <2>1. x \in Nat /\ y \in Nat
    BY <1>2
  <2> HIDE DEF x, y
  <2>2. x = k
    BY <1>3, <1>8, <1>9, <1>13, <2>1 DEF x, y
  <2> QED
    BY <2>2 DEF x
<1> QED
  BY <1>11, <1>14

-----------------------------------------------------------------------------
(* Lists of candidates without those of one id.                               *)

KeptBy(cands, id) == {i \in DOMAIN cands : cands[i].id # id}

At(S, k) == CHOOSE i \in S : Cardinality(UpTo(S, i)) = k

\* A list, of anything.
IsSeq(cands) == cands \in Seq(ToSet(cands))

LEMMA Listed ==
    ASSUME NEW cands, IsSeq(cands)
    PROVE  /\ Len(cands) \in Nat /\ DOMAIN cands = 1..Len(cands)
           /\ cands = [i \in 1..Len(cands) |-> cands[i]]
BY LenProperties DEF IsSeq

\* What Omit keeps.
LEMMA Omitted ==
    ASSUME NEW cands, IsSeq(cands), NEW id
    PROVE  /\ Cardinality(KeptBy(cands, id)) \in Nat
           /\ Omit(cands, id) = [k \in 1..Cardinality(KeptBy(cands, id)) |->
                                    cands[At(KeptBy(cands, id), k)]]
           /\ \A k \in 1..Cardinality(KeptBy(cands, id)) :
                 /\ At(KeptBy(cands, id), k) \in KeptBy(cands, id)
                 /\ Cardinality(UpTo(KeptBy(cands, id), At(KeptBy(cands, id), k))) = k
<1> DEFINE S == KeptBy(cands, id)
           n == Len(cands)
<1>1. n \in Nat /\ S \in SUBSET (1..n)
  BY Listed DEF KeptBy
<1>2. Cardinality(S) \in Nat
  <2>1. IsFiniteSet(1..n)
    BY <1>1, FS_Interval
  <2> QED
    BY <1>1, <2>1, FS_Subset, FS_CardinalityType
<1>3. Omit(cands, id) = [k \in 1..Cardinality(S) |-> cands[At(S, k)]]
  BY DEF Omit, KeptBy, At, UpTo
<1> HIDE DEF S, n
<1>4. ASSUME NEW k \in 1..Cardinality(S)
      PROVE  At(S, k) \in S /\ Cardinality(UpTo(S, At(S, k))) = k
  <2>1. \E i \in S : Cardinality(UpTo(S, i)) = k
    BY <1>1, Ranked
  <2> QED
    BY <2>1 DEF At
<1> QED
  BY <1>2, <1>3, <1>4 DEF S

\* It is a list of records of the list, none of that id.
LEMMA OmittedList ==
    ASSUME NEW cands, IsSeq(cands), NEW id
    PROVE  /\ IsSeq(Omit(cands, id))
           /\ \A k \in DOMAIN Omit(cands, id) :
                 Omit(cands, id)[k].id # id /\ \E i \in DOMAIN cands : Omit(cands, id)[k] = cands[i]
<1> DEFINE S == KeptBy(cands, id)
           C == Cardinality(S)
           s == Omit(cands, id)
<1>1. C \in Nat /\ s = [k \in 1..C |-> cands[At(S, k)]] /\ \A k \in 1..C : At(S, k) \in S
  BY Omitted
<1> HIDE DEF C, s
<1>2. DOMAIN s = 1..C /\ \A k \in 1..C : s[k] = cands[At(S, k)]
  BY <1>1
<1>3. s = [k \in 1..C |-> s[k]]
  BY <1>1
<1>4. s \in [1..C -> ToSet(s)]
  BY <1>2, <1>3 DEF ToSet
<1>5. s \in Seq(ToSet(s))
  BY <1>1, <1>4, SeqDef
<1> QED
  BY <1>1, <1>2, <1>5 DEF s, IsSeq, KeptBy

\* Two lists that have the same records of other ids, at the same places, are the same
\* without those of the id.
LEMMA SameOthers ==
    ASSUME NEW c, NEW d, IsSeq(c), IsSeq(d), NEW id,
           KeptBy(c, id) = KeptBy(d, id), \A i \in KeptBy(c, id) : c[i] = d[i]
    PROVE  Omit(c, id) = Omit(d, id)
<1> DEFINE S == KeptBy(c, id)
           C == Cardinality(S)
<1>1. /\ Omit(c, id) = [k \in 1..C |-> c[At(S, k)]]
      /\ \A k \in 1..C : At(S, k) \in S
  BY Omitted
<1>2. Omit(d, id) = [k \in 1..C |-> d[At(S, k)]]
  BY Omitted
<1>3. \A k \in 1..C : c[At(S, k)] = d[At(S, k)]
  BY <1>1
<1> HIDE DEF S, C
<1> QED
  BY <1>1, <1>2, <1>3

\* Omitting twice is omitting once.
LEMMA OmittedTwice ==
    ASSUME NEW cands, IsSeq(cands), NEW id
    PROVE  Omit(Omit(cands, id), id) = Omit(cands, id)
<1> DEFINE s == Omit(cands, id)
           S == KeptBy(s, id)
           n == Len(s)
<1>1. IsSeq(s) /\ \A k \in DOMAIN s : s[k].id # id
  BY OmittedList
<1> HIDE DEF s
<1>2. n \in Nat /\ DOMAIN s = 1..n /\ s = [i \in 1..n |-> s[i]]
  BY <1>1, Listed
<1>3. S = 1..n
  BY <1>1, <1>2 DEF KeptBy
<1>4. Cardinality(S) = n
  BY <1>2, <1>3, PositionsUpTo
<1>5. /\ Omit(s, id) = [k \in 1..n |-> s[At(S, k)]]
      /\ \A k \in 1..n : At(S, k) \in S /\ Cardinality(UpTo(S, At(S, k))) = k
  BY <1>1, <1>4, Omitted
<1>6. ASSUME NEW k \in 1..n PROVE At(S, k) = k
  <2> DEFINE i == At(S, k)
  <2>1. i \in 1..n /\ Cardinality(UpTo(S, i)) = k
    BY <1>3, <1>5
  <2> HIDE DEF i
  <2>2. UpTo(S, i) = 1..i
    BY <1>2, <1>3, <2>1 DEF UpTo
  <2>3. i \in Nat /\ i >= 1
    BY <1>2, <2>1
  <2>4. i = k
    BY <2>1, <2>2, <2>3, PositionsUpTo
  <2> QED
    BY <2>4 DEF i
<1> HIDE DEF n, S
<1>7. Omit(s, id) = [k \in 1..n |-> s[k]]
  BY <1>5, <1>6
<1> QED
  BY <1>2, <1>7 DEF s

-----------------------------------------------------------------------------
(* The shape of payloads.                                                     *)

\* The first record of an id is one of the list.
LEMMA FirstRecord ==
    ASSUME NEW cands, IsSeq(cands), NEW id, \E i \in DOMAIN cands : cands[i].id = id
    PROVE  RecordById(cands, id) \in DOMAIN cands /\ cands[RecordById(cands, id)].id = id
<1> DEFINE S == {i \in DOMAIN cands : cands[i].id = id}
<1>1. S \in SUBSET Nat /\ S # {}
  BY Listed
<1>2. PICK i \in S : \A j \in S : i <= j
  BY <1>1, LeastNumber
<1> QED
  BY <1>2 DEF RecordById

\* A function on the positions up to n is a list.
LEMMA ListOf ==
    ASSUME NEW n \in Nat, NEW s, s \in [1..n -> ToSet(s)]
    PROVE  IsSeq(s)
BY SeqDef DEF IsSeq

\* A record of which one field is replaced.
LEMMA RecordExcept ==
    ASSUME NEW F, NEW r, r = [g \in F |-> r[g]], NEW f \in F, NEW v,
           NEW new, new = [r EXCEPT ![f] = v]
    PROVE  new = [g \in F |-> new[g]]
OBVIOUS

\* A list of which one record is replaced.
LEMMA ListExcept ==
    ASSUME NEW cands, IsSeq(cands), NEW i \in DOMAIN cands, NEW c, NEW new,
           new = [cands EXCEPT ![i] = c]
    PROVE  /\ IsSeq(new) /\ DOMAIN new = DOMAIN cands
           /\ new[i] = c /\ \A j \in DOMAIN cands \ {i} : new[j] = cands[j]
<1>1. Len(cands) \in Nat /\ DOMAIN cands = 1..Len(cands)
  BY Listed
<1>2. /\ DOMAIN new = DOMAIN cands /\ new = [j \in DOMAIN cands |-> new[j]]
      /\ new[i] = c /\ \A j \in DOMAIN cands \ {i} : new[j] = cands[j]
  OBVIOUS
<1>3. new \in [1..Len(cands) -> ToSet(new)]
  BY <1>1, <1>2 DEF ToSet
<1> QED
  BY <1>1, <1>2, <1>3, ListOf

\* A list with one more record.
LEMMA ListAppend ==
    ASSUME NEW cands, IsSeq(cands), NEW c
    PROVE  /\ IsSeq(Append(cands, c)) /\ DOMAIN Append(cands, c) = DOMAIN cands \cup {Len(cands) + 1}
           /\ Append(cands, c)[Len(cands) + 1] = c
           /\ \A j \in DOMAIN cands : j # Len(cands) + 1 /\ Append(cands, c)[j] = cands[j]
<1> DEFINE T == ToSet(cands) \cup {c}
           new == Append(cands, c)
           n == Len(cands)
<1>1. n \in Nat /\ DOMAIN cands = 1..n
  BY Listed
<1>2. cands \in Seq(T)
  BY SeqMonotonic DEF IsSeq
<1>3. /\ new \in Seq(T) /\ Len(new) = n + 1
      /\ \A j \in 1..n : new[j] = cands[j]
      /\ new[n + 1] = c
  BY <1>2, AppendProperties
<1> HIDE DEF new, T, n
<1>4. DOMAIN new = 1..(n + 1) /\ new = [j \in 1..(n + 1) |-> new[j]]
  BY <1>3, LenProperties
<1>5. new \in [1..(n + 1) -> ToSet(new)]
  BY <1>4 DEF ToSet
<1>6. new \in Seq(ToSet(new))
  <2>1. n + 1 \in Nat
    BY <1>1
  <2> QED
    BY <1>5, <2>1, SeqDef
<1>7. 1..(n + 1) = 1..n \cup {n + 1} /\ \A j \in 1..n : j # n + 1
  BY <1>1
<1> QED
  BY <1>1, <1>3, <1>4, <1>6, <1>7 DEF IsSeq, new, n

\* The fields of a candidate are not those of the other records, and the name of the
\* whole of one is none.
LEMMA FieldNames ==
    /\ CandidateFields = FieldsOf("candidate")
    /\ \A type \in {"stage1", "relation", "verification", "candidate"} :
          "candidate" \notin FieldsOf(type)
BY DEF CandidateFields, FieldsOf, ScopeFields

\* What an edit of one field leaves: the shape, and every other record.
LEMMA PutOne ==
    ASSUME PayloadOK(current), NEW s \in Scopes, NEW f \in FieldsOf(s[1]), Present(s), NEW v
    PROVE  LET p == Put(s, f, v)
           IN  /\ PayloadOK(p) /\ DOMAIN p.fixed = DOMAIN current.fixed
               /\ \/ /\ p.cands = current.cands
                     /\ \A t \in DOMAIN current.fixed \ {s} : p.fixed[t] = current.fixed[t]
                  \/ /\ p.fixed = current.fixed
                     /\ s[2] \in Ids /\ Omit(p.cands, s[2]) = Omit(current.cands, s[2])
<1> DEFINE p == Put(s, f, v)
           cands == current.cands
           fixed == current.fixed
<1>1. /\ current = [fixed |-> fixed, cands |-> cands]
      /\ DOMAIN fixed \subseteq Fixed /\ fixed = [t \in DOMAIN fixed |-> fixed[t]]
      /\ \A t \in DOMAIN fixed : fixed[t] = [g \in FieldsOf(t[1]) |-> fixed[t][g]]
      /\ IsSeq(cands)
      /\ \A i \in DOMAIN cands : IsCandidate(cands[i]) /\ cands[i].id \in Ids \cup {None}
  BY DEF PayloadOK, IsRecord, IsSeq
<1>2. CASE s[1] = "candidate"
  <2> DEFINE i == RecordById(cands, s[2])
             c == [id |-> cands[i].id, values |-> [cands[i].values EXCEPT ![f] = v]]
             new == [cands EXCEPT ![i] = c]
  <2>1. i \in DOMAIN cands /\ cands[i].id = s[2]
    BY <1>1, <1>2, FirstRecord DEF Present, HasCandidate
  <2>2. cands[i] = [id |-> cands[i].id, values |-> cands[i].values]
        /\ cands[i].values = [g \in CandidateFields |-> cands[i].values[g]]
    BY <1>1, <2>1 DEF IsCandidate, IsRecord
  <2>3. p = [current EXCEPT !.cands[i].values[f] = v]
    BY <1>2 DEF Put
  <2> HIDE DEF i, cands, fixed
  <2>4. p = [fixed |-> fixed, cands |-> new]
    BY <1>1, <2>1, <2>2, <2>3
  <2>5. IsCandidate(c) /\ c.id = cands[i].id
    BY <2>2 DEF IsCandidate, IsRecord
  <2> HIDE DEF p, c
  <2>6. /\ IsSeq(new) /\ DOMAIN new = DOMAIN cands
        /\ new[i] = c /\ \A j \in DOMAIN cands \ {i} : new[j] = cands[j]
    BY <1>1, <2>1, ListExcept
  <2> HIDE DEF new
  <2>7. p.fixed = fixed /\ p.cands = new
    BY <2>4
  <2>8. \A j \in DOMAIN new : IsCandidate(new[j]) /\ new[j].id = cands[j].id
    BY <2>5, <2>6, <1>1
  <2>9. PayloadOK(p)
    BY <1>1, <2>4, <2>6, <2>7, <2>8 DEF PayloadOK, IsRecord, IsSeq
  <2>10. s[2] \in Ids
    BY <1>2 DEF Scopes, Fixed
  <2>11. KeptBy(new, s[2]) = KeptBy(cands, s[2])
    BY <2>6, <2>8 DEF KeptBy
  <2>12. \A j \in KeptBy(new, s[2]) : new[j] = cands[j]
    BY <2>1, <2>6, <2>11 DEF KeptBy
  <2>13. Omit(new, s[2]) = Omit(cands, s[2])
    BY <1>1, <2>6, <2>11, <2>12, SameOthers
  <2> QED
    BY <2>7, <2>9, <2>10, <2>13 DEF p, cands, fixed
<1>3. CASE s[1] # "candidate"
  <2> DEFINE new == [fixed EXCEPT ![s][f] = v]
  <2>1. s \in DOMAIN fixed
    BY <1>3 DEF Present
  <2>2. p = [current EXCEPT !.fixed[s][f] = v]
    BY <1>3 DEF Put
  <2> HIDE DEF cands, fixed
  <2>3. p = [fixed |-> new, cands |-> cands]
    BY <1>1, <2>2
  <2>4. DOMAIN new = DOMAIN fixed /\ new = [t \in DOMAIN new |-> new[t]]
        /\ new[s] = [fixed[s] EXCEPT ![f] = v]
        /\ \A t \in DOMAIN fixed \ {s} : new[t] = fixed[t]
    BY <1>1, <2>1
  <2>5. new[s] = [g \in FieldsOf(s[1]) |-> new[s][g]]
    <3>1. fixed[s] = [g \in FieldsOf(s[1]) |-> fixed[s][g]]
      BY <1>1, <2>1
    <3> HIDE DEF new
    <3> QED
      BY <2>4, <3>1, RecordExcept
  <2> HIDE DEF new, p
  <2>6. p.fixed = new /\ p.cands = cands
    BY <2>3
  <2>7. \A t \in DOMAIN new : new[t] = [g \in FieldsOf(t[1]) |-> new[t][g]]
    BY <1>1, <2>4, <2>5
  <2>8. PayloadOK(p)
    BY <1>1, <2>3, <2>4, <2>6, <2>7 DEF PayloadOK, IsRecord, IsSeq
  <2> QED
    BY <2>4, <2>6, <2>8 DEF p, cands, fixed
<1> QED
  BY <1>2, <1>3

-----------------------------------------------------------------------------
(* The steps.                                                                 *)

\* All but one record stay as and where they are.
Elsewhere ==
    \/ current'.cands = current.cands
       /\ Cardinality({s \in DOMAIN current.fixed : current'.fixed[s] # current.fixed[s]}) <= 1
    \/ current'.fixed = current.fixed
       /\ \E id \in Ids \cup {None} : Others(current', id) = Others(current, id)

Shaped == PayloadOK(current') /\ DOMAIN current'.fixed = DOMAIN current.fixed

\* Where nothing is edited everything stays.
LEMMA SameElsewhere ==
    ASSUME PayloadOK(current), UNCHANGED current
    PROVE  Shaped /\ Elsewhere
<1>1. {s \in DOMAIN current.fixed : current'.fixed[s] # current.fixed[s]} = {}
  OBVIOUS
<1>2. Cardinality({}) = 0
  BY FS_EmptySet
<1> QED
  BY <1>1, <1>2 DEF Shaped, Elsewhere

\* The edit of one field.
LEMMA PutElsewhere ==
    ASSUME PayloadOK(current), NEW s \in Scopes, NEW f \in FieldsOf(s[1]), Present(s), NEW v,
           current' = Put(s, f, v)
    PROVE  Shaped /\ Elsewhere
<1>1. /\ Shaped
      /\ \/ /\ current'.cands = current.cands
            /\ \A t \in DOMAIN current.fixed \ {s} : current'.fixed[t] = current.fixed[t]
         \/ /\ current'.fixed = current.fixed
            /\ s[2] \in Ids /\ Others(current', s[2]) = Others(current, s[2])
  BY PutOne DEF Shaped, Others
<1> DEFINE D == {t \in DOMAIN current.fixed : current'.fixed[t] # current.fixed[t]}
<1>2. ASSUME \A t \in DOMAIN current.fixed \ {s} : current'.fixed[t] = current.fixed[t]
      PROVE  Cardinality(D) <= 1
  <2>1. D \subseteq {s}
    BY <1>2
  <2>2. IsFiniteSet({s}) /\ Cardinality({s}) = 1
    BY FS_Singleton
  <2> HIDE DEF D
  <2>3. Cardinality(D) <= Cardinality({s})
    BY <2>1, <2>2, FS_Subset
  <2> QED
    BY <2>2, <2>3
<1> QED
  BY <1>1, <1>2 DEF Elsewhere

\* A candidate that is added comes last.
LEMMA AddElsewhere ==
    ASSUME PayloadOK(current), NEW id \in Ids, NEW after \in NewCandidates, AddCandidate(id, after)
    PROVE  Shaped /\ Elsewhere
<1> DEFINE c == Created(id, after)
           cands == current.cands
           new == Append(cands, c)
           m == Len(cands) + 1
<1>1. IsCandidate(c) /\ c.id \in Ids \cup {None}
  BY LabelEditsAssumption DEF Created, IsCandidate
<1>2. /\ current = [fixed |-> current.fixed, cands |-> cands] /\ IsSeq(cands)
      /\ \A i \in DOMAIN cands : IsCandidate(cands[i]) /\ cands[i].id \in Ids \cup {None}
  BY DEF PayloadOK, IsSeq
<1>3. current' = [current EXCEPT !.cands = new]
  BY DEF AddCandidate
<1> HIDE DEF c, cands
<1>4. /\ IsSeq(new) /\ DOMAIN new = DOMAIN cands \cup {m} /\ new[m] = c
      /\ \A j \in DOMAIN cands : j # m /\ new[j] = cands[j]
  BY <1>2, ListAppend
<1> HIDE DEF new, m
<1>5. current' = [fixed |-> current.fixed, cands |-> new]
  BY <1>2, <1>3
<1>6. current'.fixed = current.fixed /\ current'.cands = new
  BY <1>5
<1>7. \A i \in DOMAIN new : IsCandidate(new[i]) /\ new[i].id \in Ids \cup {None}
  BY <1>1, <1>2, <1>4
<1>8. Shaped
  BY <1>4, <1>5, <1>6, <1>7 DEF Shaped, PayloadOK, IsSeq
<1>9. KeptBy(new, c.id) = KeptBy(cands, c.id)
  BY <1>4 DEF KeptBy
<1>10. \A j \in KeptBy(new, c.id) : new[j] = cands[j]
  BY <1>4, <1>9 DEF KeptBy
<1>11. Omit(new, c.id) = Omit(cands, c.id)
  BY <1>2, <1>4, <1>9, <1>10, SameOthers
<1> QED
  BY <1>1, <1>6, <1>8, <1>11 DEF Elsewhere, Others, cands

\* Candidates that are deleted leave the others in their order.
LEMMA DeleteElsewhere ==
    ASSUME PayloadOK(current), NEW id \in Ids, DeleteCandidate(id)
    PROVE  Shaped /\ Elsewhere
<1> DEFINE cands == current.cands
           new == Omit(cands, id)
<1>1. /\ current = [fixed |-> current.fixed, cands |-> cands] /\ IsSeq(cands)
      /\ \A i \in DOMAIN cands : IsCandidate(cands[i]) /\ cands[i].id \in Ids \cup {None}
  BY DEF PayloadOK, IsSeq
<1>2. current' = [current EXCEPT !.cands = new]
  BY DEF DeleteCandidate, Remaining
<1> HIDE DEF cands
<1>3. IsSeq(new) /\ \A k \in DOMAIN new : \E i \in DOMAIN cands : new[k] = cands[i]
  BY <1>1, OmittedList
<1>4. Omit(new, id) = new
  BY <1>1, OmittedTwice
<1> HIDE DEF new
<1>5. current' = [fixed |-> current.fixed, cands |-> new]
  BY <1>1, <1>2
<1>6. current'.fixed = current.fixed /\ current'.cands = new
  BY <1>5
<1>7. \A i \in DOMAIN new : IsCandidate(new[i]) /\ new[i].id \in Ids \cup {None}
  BY <1>1, <1>3
<1>8. Shaped
  BY <1>1, <1>3, <1>5, <1>6, <1>7 DEF Shaped, PayloadOK, IsSeq
<1> QED
  BY <1>4, <1>6, <1>8 DEF Elsewhere, Others, new, cands

\* The invariant: what is edited is a baseline of some sample, and has its shape.
Inv == TypeOK /\ baseline \in Baselines

LEMMA InitInv == Init => Inv
<1> SUFFICES ASSUME Init PROVE Inv
  OBVIOUS
<1>1. 0 \in 0..MaxOps
  BY LabelEditsAssumption
<1>2. PayloadOK(baseline) /\ raised \in BOOLEAN
  BY LabelEditsAssumption DEF Init
<1> QED
  BY <1>1, <1>2 DEF Init, Inv, TypeOK

\* What a step does to the annotation.
LEMMA StepEdits ==
    ASSUME Inv, Next
    PROVE  Shaped /\ Elsewhere /\ Next1 /\ raised' \in BOOLEAN
<1>1. PayloadOK(current) /\ raised \in BOOLEAN
  BY DEF Inv, TypeOK
<1>2. CASE FieldEdit
  <2>1. PICK s \in Scopes : \E f \in FieldsOf(s[1]), after \in Inputs :
            \/ Replace(s, f, after)
            \/ AddTag(s, f, after)
            \/ \E before \in Inputs : RemoveTag(s, f, before, after)
            \/ TagRaises(s, f, after)
            \/ Ignored(s, f, after)
    BY <1>2 DEF FieldEdit
  <2>2. PICK f \in FieldsOf(s[1]) : \E after \in Inputs :
            \/ Replace(s, f, after)
            \/ AddTag(s, f, after)
            \/ \E before \in Inputs : RemoveTag(s, f, before, after)
            \/ TagRaises(s, f, after)
            \/ Ignored(s, f, after)
    BY <2>1
  <2>3. ASSUME NEW v, Next1, Present(s), current' = Put(s, f, v), UNCHANGED raised
        PROVE  Shaped /\ Elsewhere /\ Next1 /\ raised' \in BOOLEAN
    BY <1>1, <2>3, PutElsewhere
  <2>4. ASSUME NEW after \in Inputs, TagRaises(s, f, after) \/ Ignored(s, f, after)
        PROVE  Shaped /\ Elsewhere /\ Next1 /\ raised' \in BOOLEAN
    BY <1>1, <2>4, SameElsewhere DEF TagRaises, Ignored
  <2>5. ASSUME NEW after \in Inputs,
               \/ Replace(s, f, after) \/ AddTag(s, f, after)
               \/ \E before \in Inputs : RemoveTag(s, f, before, after)
        PROVE  Shaped /\ Elsewhere /\ Next1 /\ raised' \in BOOLEAN
    BY <2>3, <2>5 DEF Replace, AddTag, RemoveTag
  <2> QED
    BY <2>2, <2>4, <2>5
<1>3. CASE CandidateEdit
  BY <1>1, <1>3, AddElsewhere, DeleteElsewhere DEF CandidateEdit, AddCandidate, DeleteCandidate
<1> QED
  BY <1>2, <1>3 DEF Next

LEMMA StepInv == Inv /\ [Next]_vars => Inv'
<1> SUFFICES ASSUME Inv, [Next]_vars PROVE Inv'
  OBVIOUS
<1>1. CASE UNCHANGED vars
  BY <1>1 DEF vars, Inv, TypeOK
<1>2. CASE Next
  <2>1. Shaped /\ Next1 /\ raised' \in BOOLEAN
    BY <1>2, StepEdits
  <2>2. applied' \in 0..MaxOps
    BY <2>1, LabelEditsAssumption DEF Next1, Inv, TypeOK
  <2> QED
    BY <2>1, <2>2 DEF Shaped, Next1, Inv, TypeOK
<1> QED
  BY <1>1, <1>2

LEMMA InvHolds == Spec => []Inv
BY InitInv, StepInv, PTL DEF Spec

\* No sequence of operations that validation lets through, of any length, breaks the
\* shape of the annotation: records of stage1, relations and verifications neither
\* come nor go, and no field is added to or taken from a record.
THEOREM EditTypes == Spec => []TypeOK
<1>1. Inv => TypeOK
  BY DEF Inv
<1> QED
  BY <1>1, InvHolds, PTL

\* An operation touches one record, whatever ids the candidates have been given: the
\* others stay as and where they were.
THEOREM OneRecord == Spec => OneRecordAtATime
<1>1. Inv /\ [Next]_vars => [Elsewhere]_vars
  BY StepEdits
<1> QED
  BY <1>1, InvHolds, PTL DEF Spec, OneRecordAtATime, Elsewhere

-----------------------------------------------------------------------------
(* The modification events.                                                   *)

\* Two payloads of one sample.
Comparable(b, c) ==
    PayloadOK(b) /\ PayloadOK(c) /\ DOMAIN b.fixed = DOMAIN c.fixed

Both(b, c) == CandidateIds(b) \cap CandidateIds(c)
One(b, c) == (CandidateIds(b) \cup CandidateIds(c)) \ Both(b, c)
Fixtures(p) == DOMAIN p.fixed \ {<<"stage1", None>>}

\* Where there are events: at the fields that differ, and at the candidates that only
\* one of the two has.
LEMMA KeysAre ==
    ASSUME NEW b, NEW c, Comparable(b, c)
    PROVE  /\ \A s \in Fixtures(b) : \A f \in FieldsOf(s[1]) :
                <<s, f>> \in Keys(b, c) <=> Get(b, s, f) # Get(c, s, f)
           /\ \A id \in Both(b, c) : \A f \in CandidateFields :
                <<<<"candidate", id>>, f>> \in Keys(b, c) <=>
                    Get(b, <<"candidate", id>>, f) # Get(c, <<"candidate", id>>, f)
           /\ \A id : <<<<"candidate", id>>, "candidate">> \in Keys(b, c) <=> id \in One(b, c)
           /\ \A k \in Keys(b, c) : k[2] = "candidate" =>
                \E id \in One(b, c) : k = <<<<"candidate", id>>, "candidate">>
<1> DEFINE F == Differing(b, c, Fixtures(b))
           D == Differing(b, c, CandidateScopes(Both(b, c)))
           W == CandidateScopes(One(b, c)) \X {"candidate"}
<1>1. Keys(b, c) = F \cup D \cup W
  BY DEF Keys, Both, One, Fixtures
<1>2. \A s \in Fixtures(b) : s[1] \in {"relation", "verification"} /\ s[1] # "candidate"
  BY DEF Comparable, PayloadOK, Fixtures, Fixed
<1>3. /\ \A k \in F : \E s \in Fixtures(b) : \E f \in FieldsOf(s[1]) :
           k = <<s, f>> /\ Get(b, s, f) # Get(c, s, f)
      /\ \A s \in Fixtures(b) : \A f \in FieldsOf(s[1]) :
           Get(b, s, f) # Get(c, s, f) => <<s, f>> \in F
  BY DEF Differing
<1>4. /\ \A k \in D : \E id \in Both(b, c) : \E f \in CandidateFields :
           k = <<<<"candidate", id>>, f>>
           /\ Get(b, <<"candidate", id>>, f) # Get(c, <<"candidate", id>>, f)
      /\ \A id \in Both(b, c) : \A f \in CandidateFields :
           Get(b, <<"candidate", id>>, f) # Get(c, <<"candidate", id>>, f)
              => <<<<"candidate", id>>, f>> \in D
  BY DEF Differing, CandidateScopes, CandidateFields
<1>5. /\ \A k \in W : \E id \in One(b, c) : k = <<<<"candidate", id>>, "candidate">>
      /\ \A id \in One(b, c) : <<<<"candidate", id>>, "candidate">> \in W
  BY DEF CandidateScopes
<1>6. "candidate" \notin CandidateFields
  BY FieldNames
<1> HIDE DEF F, D, W
<1>7. /\ \A k \in D : k[1][1] = "candidate" /\ k[2] \in CandidateFields
      /\ \A k \in W : k[1][1] = "candidate" /\ k[2] = "candidate"
  <2>1. ASSUME NEW k \in D PROVE k[1][1] = "candidate" /\ k[2] \in CandidateFields
    <3>1. PICK id \in Both(b, c) : \E f \in CandidateFields : k = <<<<"candidate", id>>, f>>
      BY <1>4
    <3> QED
      BY <3>1
  <2>2. ASSUME NEW k \in W PROVE k[1][1] = "candidate" /\ k[2] = "candidate"
    <3>1. PICK id \in One(b, c) : k = <<<<"candidate", id>>, "candidate">>
      BY <1>5
    <3> QED
      BY <3>1
  <2> QED
    BY <2>1, <2>2
<1>8. ASSUME NEW s \in Fixtures(b), NEW f \in FieldsOf(s[1])
      PROVE  <<s, f>> \in Keys(b, c) <=> Get(b, s, f) # Get(c, s, f)
  <2>1. <<s, f>> \notin D /\ <<s, f>> \notin W
    <3>1. <<s, f>>[1] = s /\ s[1] # "candidate"
      BY <1>2
    <3> QED
      BY <1>7, <3>1
  <2>2. <<s, f>> \in F <=> Get(b, s, f) # Get(c, s, f)
    BY <1>3
  <2> QED
    BY <1>1, <2>1, <2>2
<1>9. ASSUME NEW id \in Both(b, c), NEW f \in CandidateFields
      PROVE  <<<<"candidate", id>>, f>> \in Keys(b, c) <=>
                 Get(b, <<"candidate", id>>, f) # Get(c, <<"candidate", id>>, f)
  <2>1. <<<<"candidate", id>>, f>> \notin F
    BY <1>2, <1>3
  <2>2. f # "candidate"
    BY FieldNames
  <2>3. <<<<"candidate", id>>, f>> \notin W
    BY <1>5, <2>2
  <2>4. <<<<"candidate", id>>, f>> \in D <=>
            Get(b, <<"candidate", id>>, f) # Get(c, <<"candidate", id>>, f)
    BY <1>4
  <2> QED
    BY <1>1, <2>1, <2>3, <2>4
<1>10. ASSUME NEW k \in Keys(b, c), k[2] = "candidate" PROVE k \in W
  <2>1. k \notin F
    BY <1>2, <1>3, <1>10, FieldNames
  <2>2. k \notin D
    BY <1>6, <1>7, <1>10
  <2> QED
    BY <1>1, <2>1, <2>2
<1>11. ASSUME NEW id
      PROVE  <<<<"candidate", id>>, "candidate">> \in Keys(b, c) <=> id \in One(b, c)
  <2>1. ASSUME <<<<"candidate", id>>, "candidate">> \in Keys(b, c) PROVE id \in One(b, c)
    <3>1. <<<<"candidate", id>>, "candidate">> \in W
      BY <1>10, <2>1
    <3> QED
      BY <1>5, <3>1
  <2> QED
    BY <1>1, <1>5, <2>1
<1> QED
  BY <1>5, <1>8, <1>9, <1>10, <1>11

\* Read backwards, the events are those of the way back.
LEMMA UndoneEvents ==
    ASSUME NEW b, NEW c, Comparable(b, c)
    PROVE  Undo(DiffEvents(b, c)) = DiffEvents(c, b)
<1>1. Keys(c, b) = Keys(b, c)
  <2>1. \A S : Differing(b, c, S) = Differing(c, b, S)
    BY DEF Differing
  <2>2. Both(b, c) = Both(c, b) /\ One(b, c) = One(c, b) /\ Fixtures(b) = Fixtures(c)
    BY DEF Both, One, Fixtures, Comparable
  <2>3. \A x, y : Keys(x, y) = Differing(x, y, Fixtures(x))
                              \cup Differing(x, y, CandidateScopes(Both(x, y)))
                              \cup (CandidateScopes(One(x, y)) \X {"candidate"})
    BY DEF Keys, Both, One, Fixtures
  <2> QED
    BY <2>1, <2>2, <2>3
<1>2. DOMAIN DiffEvents(b, c) = Keys(b, c)
      /\ \A k \in Keys(b, c) :
           DiffEvents(b, c)[k] = [before |-> Get(b, k[1], k[2]), after |-> Get(c, k[1], k[2])]
  BY DEF DiffEvents
<1>3. Undo(DiffEvents(b, c)) =
        [k \in Keys(b, c) |-> [before |-> Get(c, k[1], k[2]), after |-> Get(b, k[1], k[2])]]
  BY <1>2 DEF Undo
<1> QED
  BY <1>1, <1>3 DEF DiffEvents

\* In a payload whose candidates are named apart, each is the last of its name.
LEMMA NamedApart ==
    ASSUME NEW p, PayloadOK(p), WellNamed(p)
    PROVE  /\ Candidates(p) = {<<id, Reads(Candidate(p, id))>> : id \in CandidateIds(p)}
           /\ \A id \in CandidateIds(p) : IsRecord(Candidate(p, id), CandidateFields)
<1>1. DOMAIN p.cands \subseteq Nat
  BY Listed DEF PayloadOK, IsSeq
<1>2. \A i \in DOMAIN p.cands :
        /\ IsRecord(p.cands[i].values, CandidateFields) /\ p.cands[i].id # None
        /\ \A j \in DOMAIN p.cands : p.cands[i].id = p.cands[j].id => i = j
  BY DEF PayloadOK, IsCandidate, WellNamed
<1>3. ASSUME NEW i \in DOMAIN p.cands PROVE LastWithId(p.cands, p.cands[i].id) = i
  <2>1. i <= i
    BY <1>1
  <2> QED
    BY <1>2, <2>1 DEF LastWithId
<1>4. \A i \in DOMAIN p.cands : /\ p.cands[i].id \in CandidateIds(p)
                                /\ Candidate(p, p.cands[i].id) = p.cands[i].values
  BY <1>2, <1>3 DEF CandidateIds, Candidate
<1>5. \A id \in CandidateIds(p) : \E i \in DOMAIN p.cands : id = p.cands[i].id
  BY DEF CandidateIds
<1>6. \A id \in CandidateIds(p) : IsRecord(Candidate(p, id), CandidateFields)
  BY <1>2, <1>4, <1>5
<1>7. Candidates(p) = {<<p.cands[i].id, Reads(Candidate(p, p.cands[i].id))>> : i \in DOMAIN p.cands}
  BY <1>4 DEF Candidates
<1> QED
  BY <1>4, <1>5, <1>6, <1>7

\* The events lead from one payload to the other: their relations and verifications,
LEMMA RecordsReplay ==
    ASSUME NEW b, NEW c, Comparable(b, c)
    PROVE  ReplayRecords(b, DiffEvents(b, c)) = Records(c)
<1> DEFINE E == DiffEvents(b, c)
<1>1. DOMAIN E = Keys(b, c) /\ \A k \in Keys(b, c) : E[k].after = Get(c, k[1], k[2])
  BY DEF DiffEvents
<1> HIDE DEF E
<1>2. Fixtures(b) = Fixtures(c)
  BY DEF Comparable, Fixtures
<1>3. ASSUME NEW p \in {b, c}, NEW s \in Fixtures(p)
      PROVE  /\ Reads(p.fixed[s]) = [f \in FieldsOf(s[1]) |-> Read(p.fixed[s][f])]
             /\ s[1] # "candidate"
             /\ \A f \in FieldsOf(s[1]) : Get(p, s, f) = Read(p.fixed[s][f])
  <2>1. PayloadOK(p) /\ s \in DOMAIN p.fixed /\ IsRecord(p.fixed[s], FieldsOf(s[1]))
    BY DEF Comparable, PayloadOK, Fixtures
  <2>2. s[1] \in {"relation", "verification"}
    BY <2>1 DEF PayloadOK, Fixtures, Fixed
  <2>3. DOMAIN p.fixed[s] = FieldsOf(s[1])
    BY <2>1 DEF IsRecord
  <2>4. \A f \in FieldsOf(s[1]) : f # "candidate"
    BY <2>2, FieldNames
  <2> QED
    BY <2>2, <2>3, <2>4 DEF Reads, Get
<1>4. ASSUME NEW s \in Fixtures(b)
      PROVE  [f \in FieldsOf(s[1]) |-> After(E, s, f, Records(b)[s][f])] = Records(c)[s]
  <2>1. Records(b)[s] = Reads(b.fixed[s]) /\ Records(c)[s] = Reads(c.fixed[s])
    BY <1>2 DEF Records, Fixtures
  <2>2. ASSUME NEW f \in FieldsOf(s[1])
        PROVE  After(E, s, f, Records(b)[s][f]) = Read(c.fixed[s][f])
    <3>1. <<s, f>> \in Keys(b, c) <=> Get(b, s, f) # Get(c, s, f)
      BY KeysAre
    <3>2. Get(b, s, f) = Read(b.fixed[s][f])
      BY <1>3
    <3>3. Get(c, s, f) = Read(c.fixed[s][f])
      BY <1>2, <1>3
    <3>4. Records(b)[s][f] = Read(b.fixed[s][f])
      <4>1. Reads(b.fixed[s]) = [g \in FieldsOf(s[1]) |-> Read(b.fixed[s][g])]
        BY <1>3
      <4> QED
        BY <2>1, <4>1
    <3>5. <<s, f>>[1] = s /\ <<s, f>>[2] = f
      OBVIOUS
    <3> QED
      BY <1>1, <3>1, <3>2, <3>3, <3>4, <3>5 DEF After
  <2> QED
    BY <1>2, <1>3, <2>1, <2>2
<1>5. DOMAIN Records(b) = Fixtures(b)
      /\ Records(c) = [s \in Fixtures(b) |-> Records(c)[s]]
  BY <1>2 DEF Records, Fixtures
<1> QED
  BY <1>4, <1>5 DEF ReplayRecords, E

\* and their candidates.
LEMMA CandidatesReplay ==
    ASSUME NEW b, NEW c, Comparable(b, c), WellNamed(b), WellNamed(c)
    PROVE  ReplayCandidates(b, DiffEvents(b, c)) = Candidates(c)
<1> DEFINE E == DiffEvents(b, c)
           stay == {d \in Candidates(b) : <<<<"candidate", d[1]>>, "candidate">> \notin DOMAIN E}
           edited == {<<x[1], [f \in CandidateFields |->
                                  After(E, <<"candidate", x[1]>>, f, x[2][f])]>> : x \in stay}
           come == {d \in DOMAIN E : d[2] = "candidate" /\ E[d].before = {}}
           added == UNION {{<<k[1][2], Reads(values)>> : values \in E[k].after} : k \in come}
           Common == Both(b, c)
           Fresh == CandidateIds(c) \ CandidateIds(b)
<1>1. DOMAIN E = Keys(b, c)
      /\ \A k \in Keys(b, c) : E[k].before = Get(b, k[1], k[2]) /\ E[k].after = Get(c, k[1], k[2])
  BY DEF DiffEvents
<1>2. ReplayCandidates(b, E) = edited \cup added
  BY DEF ReplayCandidates
<1> HIDE DEF E
<1>3. PayloadOK(b) /\ PayloadOK(c)
  BY DEF Comparable
<1>4. stay = {<<id, Reads(Candidate(b, id))>> : id \in Common}
  <2>1. Candidates(b) = {<<id, Reads(Candidate(b, id))>> : id \in CandidateIds(b)}
    BY <1>3, NamedApart
  <2>2. \A id \in CandidateIds(b) :
          <<<<"candidate", id>>, "candidate">> \notin DOMAIN E <=> id \in Common
    <3>1. \A id : <<<<"candidate", id>>, "candidate">> \in DOMAIN E <=> id \in One(b, c)
      BY <1>1, KeysAre
    <3>2. \A id \in CandidateIds(b) : id \notin One(b, c) <=> id \in Common
      BY DEF Both, One
    <3> QED
      BY <3>1, <3>2
  <2> QED
    BY <2>1, <2>2 DEF Both
<1>5. ASSUME NEW id \in Common
      PROVE  [f \in CandidateFields |-> After(E, <<"candidate", id>>, f, Reads(Candidate(b, id))[f])]
             = Reads(Candidate(c, id))
  <2>1. IsRecord(Candidate(b, id), CandidateFields) /\ IsRecord(Candidate(c, id), CandidateFields)
    BY <1>3, NamedApart DEF Both
  <2>2. /\ Reads(Candidate(b, id)) = [f \in CandidateFields |-> Read(Candidate(b, id)[f])]
        /\ Reads(Candidate(c, id)) = [f \in CandidateFields |-> Read(Candidate(c, id)[f])]
    BY <2>1 DEF Reads, IsRecord
  <2>3. ASSUME NEW f \in CandidateFields
        PROVE  After(E, <<"candidate", id>>, f, Reads(Candidate(b, id))[f]) = Read(Candidate(c, id)[f])
    <3>1. <<<<"candidate", id>>, f>> \in Keys(b, c) <=>
              Get(b, <<"candidate", id>>, f) # Get(c, <<"candidate", id>>, f)
      BY KeysAre
    <3>2. f # "candidate"
      BY FieldNames
    <3>3. \A p : Get(p, <<"candidate", id>>, f) = Read(Candidate(p, id)[f])
      BY <3>2 DEF Get
    <3>4. Reads(Candidate(b, id))[f] = Read(Candidate(b, id)[f])
      BY <2>2
    <3>5. <<<<"candidate", id>>, f>> \in Keys(b, c) =>
              E[<<<<"candidate", id>>, f>>].after = Get(c, <<"candidate", id>>, f)
      BY <1>1
    <3> QED
      BY <1>1, <3>1, <3>3, <3>4, <3>5 DEF After
  <2> QED
    BY <2>2, <2>3
<1>6. edited = {<<id, Reads(Candidate(c, id))>> : id \in Common}
  <2> HIDE DEF stay
  <2> DEFINE upd(id, r) ==
               <<id, [f \in CandidateFields |-> After(E, <<"candidate", id>>, f, r[f])]>>
             pair(id) == <<id, Reads(Candidate(b, id))>>
  <2>1. edited = {upd(x[1], x[2]) : x \in stay}
    OBVIOUS
  <2>2. \A id : pair(id)[1] = id /\ pair(id)[2] = Reads(Candidate(b, id))
    OBVIOUS
  <2>3. stay = {pair(id) : id \in Common}
    BY <1>4
  <2>4. \A id \in Common : upd(id, Reads(Candidate(b, id))) = <<id, Reads(Candidate(c, id))>>
    BY <1>5
  <2> HIDE DEF pair, edited, upd
  <2>5. edited = {upd(pair(id)[1], pair(id)[2]) : id \in Common}
    BY <2>1, <2>3
  <2> QED
    BY <2>2, <2>4, <2>5
<1>7. come = {<<<<"candidate", id>>, "candidate">> : id \in Fresh}
  <2>1. ASSUME NEW id
        PROVE  Get(b, <<"candidate", id>>, "candidate") = {} <=> id \notin CandidateIds(b)
    <3>1. Get(b, <<"candidate", id>>, "candidate") = {Candidate(b, i) : i \in {id} \cap CandidateIds(b)}
      BY DEF Get
    <3> QED
      BY <3>1
  <2>2. ASSUME NEW k \in come PROVE \E id \in Fresh : k = <<<<"candidate", id>>, "candidate">>
    <3>1. k \in Keys(b, c) /\ k[2] = "candidate" /\ E[k].before = {}
      BY <1>1
    <3>2. PICK id \in One(b, c) : k = <<<<"candidate", id>>, "candidate">>
      BY <3>1, KeysAre
    <3>3. Get(b, <<"candidate", id>>, "candidate") = {}
      BY <1>1, <3>1, <3>2
    <3>4. id \in Fresh
      BY <2>1, <3>3 DEF One, Both
    <3> QED
      BY <3>2, <3>4
  <2>3. ASSUME NEW id \in Fresh PROVE <<<<"candidate", id>>, "candidate">> \in come
    <3>1. <<<<"candidate", id>>, "candidate">> \in Keys(b, c)
      BY KeysAre DEF One, Both
    <3>2. E[<<<<"candidate", id>>, "candidate">>].before = {}
      BY <1>1, <2>1, <3>1
    <3> QED
      BY <1>1, <3>1, <3>2
  <2> QED
    BY <2>2, <2>3
<1>8. ASSUME NEW id \in Fresh
      PROVE  E[<<<<"candidate", id>>, "candidate">>].after = {Candidate(c, id)}
  <2>1. <<<<"candidate", id>>, "candidate">> \in Keys(b, c)
    BY KeysAre DEF One, Both
  <2>2. Get(c, <<"candidate", id>>, "candidate") = {Candidate(c, id)}
    BY DEF Get
  <2> QED
    BY <1>1, <2>1, <2>2
<1>9. added = {<<id, Reads(Candidate(c, id))>> : id \in Fresh}
  <2> HIDE DEF come
  <2>1. \A x \in added : \E id \in Fresh : x = <<id, Reads(Candidate(c, id))>>
    BY <1>7, <1>8
  <2>2. ASSUME NEW id \in Fresh PROVE <<id, Reads(Candidate(c, id))>> \in added
    <3> DEFINE k == <<<<"candidate", id>>, "candidate">>
    <3>1. k \in come /\ k[1][2] = id /\ E[k].after = {Candidate(c, id)}
      BY <1>7, <1>8
    <3> HIDE DEF k, Fresh
    <3>2. <<k[1][2], Reads(Candidate(c, id))>> \in {<<k[1][2], Reads(values)>> : values \in E[k].after}
      BY <3>1
    <3> QED
      BY <3>1, <3>2
  <2> QED
    BY <2>1, <2>2
<1>10. Candidates(c) = {<<id, Reads(Candidate(c, id))>> : id \in CandidateIds(c)}
  BY <1>3, NamedApart
<1>11. CandidateIds(c) = Common \cup Fresh
  BY DEF Both
<1> HIDE DEF edited, added, Fresh, Common
<1> QED
  BY <1>2, <1>6, <1>9, <1>10, <1>11 DEF E

\* The modification events are a faithful account of any confirmed annotation: applied
\* to the baseline they give it, read backwards they give the baseline back.
THEOREM EventsLead == Spec => []EventsReplay
<1>1. Inv => EventsReplay
  <2> SUFFICES ASSUME Inv, WellNamed(current) PROVE EventsReplay
    BY DEF EventsReplay
  <2>1. Comparable(baseline, current) /\ Comparable(current, baseline)
    BY DEF Inv, TypeOK, Comparable
  <2>2. WellNamed(baseline)
    BY LabelEditsAssumption DEF Inv
  <2>3. Undo(DiffEvents(baseline, current)) = DiffEvents(current, baseline)
    BY <2>1, UndoneEvents
  <2> QED
    BY <2>1, <2>2, <2>3, RecordsReplay, CandidatesReplay DEF EventsReplay
<1> QED
  BY <1>1, InvHolds, PTL
=============================================================================
