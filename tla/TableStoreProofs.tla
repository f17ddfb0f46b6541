--------------------------- MODULE TableStoreProofs ---------------------------
(***************************************************************************)
(* Machine-checked theorems about TableStore, for any keys, values,        *)
(* declarations, schemas, predicates and length of history: types, the     *)
(* @auto ids, and when where() runs past the end of its table.             *)
(***************************************************************************)
EXTENDS TableStore, FiniteSetTheorems, SequenceTheorems, TLAPS

-----------------------------------------------------------------------------
(* Finite sets and their maxima.                                           *)

LEMMA ImageFinite ==
    ASSUME NEW S, IsFiniteSet(S), NEW f, DOMAIN f = S
    PROVE  IsFiniteSet({f[x] : x \in S})
<1> DEFINE T == {f[x] : x \in S}
           g == [x \in S |-> f[x]]
<1>1. g \in Surjection(S, T)
  BY DEF Surjection
<1> QED
  BY <1>1, FS_Surjection

\* A set of integers of which every smaller nonempty subset has a greatest
\* element has one too.
LEMMA GreatestStep ==
    ASSUME NEW X, X \subseteq Int, X # {},
           \A x \in X : X \ {x} # {} => \E m \in X \ {x} : \A y \in X \ {x} : m >= y
    PROVE  \E m \in X : \A y \in X : m >= y
<1>1. PICK x \in X : TRUE
  OBVIOUS
<1>2. CASE X \ {x} = {}
  BY <1>1, <1>2
<1>3. CASE X \ {x} # {}
  <2>1. PICK m \in X \ {x} : \A y \in X \ {x} : m >= y
    BY <1>1, <1>3
  <2>2. CASE m >= x
    BY <1>1, <2>1, <2>2
  <2>3. CASE ~(m >= x)
    <3>1. x \in Int /\ m \in Int
      BY <1>1
    <3>2. \A y \in X : x >= y
      <4> SUFFICES ASSUME NEW y \in X PROVE x >= y
        OBVIOUS
      <4>1. y \in Int
        OBVIOUS
      <4>2. y = x \/ m >= y
        BY <2>1
      <4> QED
        BY <2>3, <3>1, <4>1, <4>2
    <3> QED
      BY <1>1, <3>2
  <2> QED
    BY <2>2, <2>3
<1> QED
  BY <1>2, <1>3

LEMMA GreatestExists ==
    ASSUME NEW S, IsFiniteSet(S), S \subseteq Int, S # {}
    PROVE  \E m \in S : \A y \in S : m >= y
<1> DEFINE Greatest(X) == \E m \in X : \A y \in X : m >= y
           Bad == {X \in FiniteSubsetsOf(S) : X # {} /\ ~Greatest(X)}
<1> SUFFICES ASSUME ~Greatest(S) PROVE FALSE
  OBVIOUS
<1>1. S \in Bad
  BY DEF FiniteSubsetsOf
<1>2. IsWellFoundedOn(StrictSubsetOrdering(S), FiniteSubsetsOf(S))
  BY FS_StrictSubsetOrderingWellFounded
<1>3. PICK X \in Bad : \A Y \in Bad : ~(<<Y, X>> \in StrictSubsetOrdering(S))
  <2>1. Bad # {} /\ Bad \subseteq FiniteSubsetsOf(S)
    BY <1>1
  <2> HIDE DEF Bad
  <2> QED
    BY <1>2, <2>1, WFMin
<1>4. X \subseteq S /\ IsFiniteSet(X) /\ X # {} /\ ~Greatest(X)
  BY <1>3 DEF FiniteSubsetsOf
<1>5. \A x \in X : X \ {x} # {} => Greatest(X \ {x})
  <2> SUFFICES ASSUME NEW x \in X, X \ {x} # {}, ~Greatest(X \ {x}) PROVE FALSE
    OBVIOUS
  <2>1. IsFiniteSet(X \ {x})
    BY <1>4, FS_RemoveElement
  <2>2. X \ {x} \in Bad
    BY <1>4, <2>1 DEF FiniteSubsetsOf
  <2>3. <<X \ {x}, X>> \in StrictSubsetOrdering(S)
    BY <1>4 DEF StrictSubsetOrdering
  <2> QED
    BY <1>3, <2>2, <2>3
<1> QED
  BY <1>4, <1>5, GreatestStep

LEMMA MaxIsGreatest ==
    ASSUME NEW S, IsFiniteSet(S), S \subseteq Int, S # {}
    PROVE  Max(S) \in S /\ \A y \in S : Max(S) >= y
BY GreatestExists DEF Max

-----------------------------------------------------------------------------
(* The rows in memory.                                                     *)

\* Rows of their type whose ids, in a table with an @auto column, start at 1
\* and are distinct.
RowsFor(auto, t) ==
    /\ t \in Seq(Row)
    /\ auto => /\ \A i \in DOMAIN t : t[i].id >= 1
               /\ \A i, j \in DOMAIN t : t[i].id = t[j].id => i = j

\* An id that is larger than those of t.
Fresh(n, t) == n \in Nat /\ n >= 1 /\ \A i \in DOMAIN t : n > t[i].id

LEMMA NextIdFresh ==
    ASSUME rows \in Seq(Row)
    PROVE  Fresh(NextId, rows)
<1> DEFINE D == DOMAIN rows
           f == [i \in D |-> rows[i].id]
           S == Ids(rows) \cup {0}
<1>1. IsFiniteSet(D)
  <2>1. D = 1 .. Len(rows) /\ Len(rows) \in Nat
    BY LenProperties
  <2> QED
    BY <2>1, FS_Interval
<1>2. IsFiniteSet({f[i] : i \in D})
  BY <1>1, ImageFinite
<1>3. {f[i] : i \in D} = Ids(rows)
  BY DEF Ids
<1>4. IsFiniteSet(S)
  BY <1>2, <1>3, FS_AddElement
<1>5. \A i \in D : rows[i].id \in Nat
  <2>1. D = 1 .. Len(rows)
    BY LenProperties
  <2>2. \A i \in D : rows[i] \in Row
    BY <2>1, ElementOfSeq
  <2> QED
    BY <2>2 DEF Row
<1>6. S \subseteq Nat /\ 0 \in S
  BY <1>5 DEF Ids
<1>7. Max(S) \in S /\ \A y \in S : Max(S) >= y
  <2> HIDE DEF S
  <2>1. S \subseteq Int /\ S # {}
    BY <1>6
  <2> QED
    BY <1>4, <2>1, MaxIsGreatest
<1>8. NextId = 1 + Max(S)
  BY DEF NextId, Max0
<1>9. \A i \in D : rows[i].id \in S
  BY DEF Ids
<1> HIDE DEF S
<1>10. Max(S) \in Nat
  BY <1>6, <1>7
<1>11. \A i \in D : NextId > rows[i].id
  <2> SUFFICES ASSUME NEW i \in D PROVE NextId > rows[i].id
    OBVIOUS
  <2>1. Max(S) >= rows[i].id
    BY <1>7, <1>9
  <2>2. rows[i].id \in Nat
    BY <1>5
  <2> QED
    BY <1>8, <1>10, <2>1, <2>2
<1> QED
  BY <1>8, <1>10, <1>11 DEF Fresh

LEMMA AppendRow ==
    ASSUME NEW auto \in BOOLEAN, NEW t, RowsFor(auto, t), NEW r \in Row,
           auto => Fresh(r.id, t)
    PROVE  RowsFor(auto, Append(t, r)) /\ Len(Append(t, r)) = Len(t) + 1
<1> DEFINE u == Append(t, r)
<1>1. /\ u \in Seq(Row) /\ Len(u) = Len(t) + 1 /\ Len(t) \in Nat
      /\ DOMAIN u = 1 .. Len(t) + 1 /\ DOMAIN t = 1 .. Len(t)
      /\ \A i \in 1 .. Len(t) : u[i] = t[i]
      /\ u[Len(t) + 1] = r
  BY AppendProperties, LenProperties DEF RowsFor
<1> HIDE DEF u
<1>2. \A i \in DOMAIN u : i = Len(t) + 1 \/ i \in DOMAIN t
  BY <1>1
<1>3. ASSUME auto PROVE \A i \in DOMAIN u : u[i].id >= 1
  BY <1>1, <1>2, <1>3 DEF RowsFor, Fresh
<1>4. \A i \in DOMAIN t : t[i].id \in Nat
  <2>1. t \in Seq(Row)
    BY DEF RowsFor
  <2>2. \A i \in DOMAIN t : t[i] \in Row
    BY <1>1, <2>1, ElementOfSeq
  <2> QED
    BY <2>2 DEF Row
<1>5. ASSUME auto, NEW i \in DOMAIN u, NEW j \in DOMAIN u, u[i].id = u[j].id PROVE i = j
  BY <1>1, <1>2, <1>4, <1>5 DEF RowsFor, Fresh
<1> QED
  BY <1>1, <1>3, <1>5 DEF RowsFor, u

LEMMA ReplaceRow ==
    ASSUME NEW auto \in BOOLEAN, NEW t, RowsFor(auto, t), NEW at, NEW r \in Row,
           auto => Fresh(r.id, t) \/ (at \in DOMAIN t => r.id = t[at].id)
    PROVE  /\ RowsFor(auto, [t EXCEPT ![at] = r])
           /\ Len([t EXCEPT ![at] = r]) = Len(t)
<1> DEFINE u == [t EXCEPT ![at] = r]
<1>1. t \in Seq(Row) /\ DOMAIN t = 1 .. Len(t) /\ Len(t) \in Nat
  BY LenProperties DEF RowsFor
<1>2. DOMAIN u = DOMAIN t /\ \A i \in DOMAIN t : u[i] = IF i = at THEN r ELSE t[i]
  OBVIOUS
<1>3. \A i \in DOMAIN t : t[i] \in Row
  BY <1>1, ElementOfSeq
<1>5. u \in Seq(Row) /\ Len(u) = Len(t)
  <2>1. CASE at \in DOMAIN t
    BY <1>1, <2>1, ExceptSeq
  <2>2. CASE at \notin DOMAIN t
    <3>1. t = [i \in DOMAIN t |-> t[i]]
      BY <1>1, LenProperties
    <3>2. u = t
      BY <2>2, <3>1
    <3> QED
      BY <1>1, <3>2
  <2> QED
    BY <2>1, <2>2
<1>6. \A i \in DOMAIN t : t[i].id \in Nat
  BY <1>3 DEF Row
<1>7. ASSUME auto PROVE \A i \in DOMAIN u : u[i].id >= 1
  <2> SUFFICES ASSUME NEW i \in DOMAIN u PROVE u[i].id >= 1
    OBVIOUS
  <2> HIDE DEF u
  <2> QED
    BY <1>2, <1>7 DEF RowsFor, Fresh
<1>8. ASSUME auto, NEW i \in DOMAIN u, NEW j \in DOMAIN u, u[i].id = u[j].id PROVE i = j
  <2> HIDE DEF u
  <2> QED
    BY <1>2, <1>6, <1>8 DEF RowsFor, Fresh
<1> QED
  BY <1>5, <1>7, <1>8 DEF RowsFor

LEMMA RemoveRow ==
    ASSUME NEW auto \in BOOLEAN, NEW t, RowsFor(auto, t), NEW at \in DOMAIN t
    PROVE  RowsFor(auto, RemoveAt(t, at))
<1> DEFINE u == RemoveAt(t, at)
<1>1. t \in Seq(Row) /\ DOMAIN t = 1 .. Len(t) /\ Len(t) \in Nat /\ at \in Int
  BY LenProperties DEF RowsFor
<1>2. /\ SubSeq(t, 1, at - 1) \in Seq(Row) /\ Len(SubSeq(t, 1, at - 1)) = at - 1
      /\ \A i \in 1 .. at - 1 : SubSeq(t, 1, at - 1)[i] = t[i]
  BY <1>1, SubSeqProperties
<1>3. /\ SubSeq(t, at + 1, Len(t)) \in Seq(Row) /\ Len(SubSeq(t, at + 1, Len(t))) = Len(t) - at
      /\ \A i \in 1 .. Len(t) - at : SubSeq(t, at + 1, Len(t))[i] = t[at + i]
  BY <1>1, SubSeqProperties
<1>4. /\ u \in Seq(Row) /\ Len(u) = Len(t) - 1
      /\ \A i \in 1 .. Len(u) : u[i] = IF i < at THEN t[i] ELSE t[i + 1]
  <2> DEFINE l == SubSeq(t, 1, at - 1)
             r == SubSeq(t, at + 1, Len(t))
  <2>1. u = l \o r
    BY DEF RemoveAt
  <2>2. l \in Seq(Row) /\ r \in Seq(Row) /\ Len(l) = at - 1 /\ Len(r) = Len(t) - at
    BY <1>2, <1>3
  <2> HIDE DEF l, r
  <2>3. /\ l \o r \in Seq(Row) /\ Len(l \o r) = Len(l) + Len(r)
        /\ \A i \in 1 .. Len(l) + Len(r) :
              (l \o r)[i] = IF i <= Len(l) THEN l[i] ELSE r[i - Len(l)]
    BY <2>2, ConcatProperties
  <2>4. Len(l) + Len(r) = Len(t) - 1
    BY <1>1, <2>2
  <2>5. ASSUME NEW i \in 1 .. Len(t) - 1
        PROVE  (l \o r)[i] = IF i < at THEN t[i] ELSE t[i + 1]
    <3>1. CASE i < at
      BY <1>1, <1>2, <2>2, <2>3, <2>4, <2>5, <3>1 DEF l
    <3>2. CASE ~(i < at)
      <4>1. i - (at - 1) \in 1 .. Len(t) - at /\ at + (i - (at - 1)) = i + 1 /\ ~(i <= at - 1)
        BY <1>1, <3>2
      <4>2. r[i - (at - 1)] = t[at + (i - (at - 1))]
        BY <1>3, <4>1 DEF r
      <4> QED
        BY <2>2, <2>3, <2>4, <3>2, <4>1, <4>2
    <3> QED
      BY <3>1, <3>2
  <2> QED
    BY <2>1, <2>3, <2>4, <2>5
<1> HIDE DEF u
<1>5. DOMAIN u = 1 .. Len(t) - 1
  BY <1>4, LenProperties
<1>6. \A i \in DOMAIN u : IF i < at THEN i \in DOMAIN t ELSE i + 1 \in DOMAIN t
  BY <1>1, <1>5
<1>7. ASSUME auto PROVE \A i \in DOMAIN u : u[i].id >= 1
  BY <1>4, <1>5, <1>6, <1>7 DEF RowsFor
<1>8. ASSUME auto, NEW i \in DOMAIN u, NEW j \in DOMAIN u, u[i].id = u[j].id PROVE i = j
  <2>1. i \in Int /\ j \in Int
    BY <1>5
  <2>2. CASE i < at /\ j < at
    BY <1>4, <1>5, <1>6, <1>8, <2>2 DEF RowsFor
  <2>3. CASE ~(i < at) /\ ~(j < at)
    <3>1. i + 1 = j + 1
      BY <1>4, <1>5, <1>6, <1>8, <2>3 DEF RowsFor
    <3> QED
      BY <2>1, <3>1
  <2>4. CASE i < at /\ ~(j < at)
    <3>1. i = j + 1
      BY <1>4, <1>5, <1>6, <1>8, <2>4 DEF RowsFor
    <3> QED
      BY <1>1, <2>1, <2>4, <3>1
  <2>5. CASE ~(i < at) /\ j < at
    <3>1. i + 1 = j
      BY <1>4, <1>5, <1>6, <1>8, <2>5 DEF RowsFor
    <3> QED
      BY <1>1, <2>1, <2>5, <3>1
  <2> QED
    BY <2>2, <2>3, <2>4, <2>5
<1> QED
  BY <1>4, <1>7, <1>8 DEF RowsFor, u

LEMMA NoRows == \A auto \in BOOLEAN : RowsFor(auto, <<>>)
BY DEF RowsFor

LEMMA DeclaredRows ==
    ASSUME TableAssumption, schema \in Schema, literal \in Literals
    PROVE  RowsFor(HasAuto, Declared)
<1>1. literal \in Seq([key : Key, val : Val])
  BY DEF TableAssumption
<1>2. DOMAIN literal = 1 .. Len(literal) /\ Len(literal) \in Nat
  BY <1>1, LenProperties
<1>3. \A i \in 1 .. Len(literal) : literal[i].key \in Int /\ literal[i].val \in Int
  <2>1. \A i \in 1 .. Len(literal) : literal[i] \in [key : Key, val : Val]
    BY <1>1, ElementOfSeq
  <2> QED
    BY <2>1 DEF TableAssumption
<1> DEFINE e(i) == [id |-> IF HasAuto THEN i ELSE 0, key |-> literal[i].key, val |-> literal[i].val]
<1>4. \A i \in 1 .. Len(literal) : e(i) \in Row
  BY <1>3 DEF Row, Cell
<1>5. Declared = [i \in 1 .. Len(literal) |-> e(i)]
  BY <1>2 DEF Declared
<1>6. Declared \in Seq(Row)
  <2> HIDE DEF e
  <2> QED
    BY <1>2, <1>4, <1>5
<1>7. ASSUME HasAuto PROVE \A i \in DOMAIN Declared : Declared[i].id = i /\ i >= 1
  BY <1>5, <1>7
<1> QED
  BY <1>6, <1>7 DEF RowsFor

-----------------------------------------------------------------------------
(* The rows in the database.                                               *)

\* A SQL table whose primary key is its id column exactly if that is @auto.
SqlFor(auto, d) ==
    /\ d \in SqlTable
    /\ IsFiniteSet(d.rows)
    /\ d.exists => (d.pk = "id" <=> auto)
    /\ auto => \A s \in d.rows : s.rid = s.id /\ s.id >= 1

LEMMA NoTableFits == \A auto \in BOOLEAN : SqlFor(auto, NoTable)
BY FS_EmptySet DEF SqlFor, SqlTable, NoTable

LEMMA SqlType == ASSUME NEW v \in Cell PROVE Sql(v) \in Int
BY DEF Sql, Cell

LEMMA OtherRows ==
    ASSUME NEW auto \in BOOLEAN, NEW d, SqlFor(auto, d),
           NEW R, IsFiniteSet(R), R \subseteq SqlRow,
           auto => \A s \in R : s.rid = s.id /\ s.id >= 1,
           NEW q \in Nat
    PROVE  SqlFor(auto, [d EXCEPT !.rows = R, !.seq = q])
<1> DEFINE e == [d EXCEPT !.rows = R, !.seq = q]
<1>1. e \in SqlTable /\ e.exists = d.exists /\ e.pk = d.pk /\ e.rows = R
  BY DEF SqlFor, SqlTable
<1> HIDE DEF e
<1>2. SqlFor(auto, e)
  BY <1>1 DEF SqlFor
<1> QED
  BY <1>2 DEF e

\* Rows may go at any time.
LEMMA FewerRows ==
    ASSUME NEW auto \in BOOLEAN, NEW d, SqlFor(auto, d), NEW R, R \subseteq d.rows
    PROVE  SqlFor(auto, [d EXCEPT !.rows = R])
<1>1. IsFiniteSet(R)
  BY FS_Subset DEF SqlFor
<1>2. SqlFor(auto, [d EXCEPT !.rows = R, !.seq = d.seq])
  <2>1. d.seq \in Nat /\ R \subseteq SqlRow /\ (auto => \A s \in R : s.rid = s.id /\ s.id >= 1)
    BY DEF SqlFor, SqlTable
  <2> QED
    BY <1>1, <2>1, OtherRows
<1>3. [d EXCEPT !.rows = R, !.seq = d.seq] = [d EXCEPT !.rows = R]
  BY DEF SqlFor, SqlTable
<1> QED
  BY <1>2, <1>3

LEMMA RidsFinite ==
    ASSUME NEW auto \in BOOLEAN, NEW d, SqlFor(auto, d)
    PROVE  IsFiniteSet(Rids(d)) /\ Rids(d) \subseteq Int
<1> DEFINE f == [s \in d.rows |-> s.rid]
<1>1. IsFiniteSet({f[s] : s \in d.rows})
  <2>1. DOMAIN f = d.rows /\ IsFiniteSet(d.rows)
    BY DEF SqlFor
  <2> HIDE DEF f
  <2> QED
    BY <2>1, ImageFinite
<1>2. {f[s] : s \in d.rows} = Rids(d)
  BY DEF Rids
<1> QED
  BY <1>1, <1>2 DEF Rids, SqlFor, SqlTable, SqlRow

LEMMA InsertFits ==
    ASSUME NEW auto \in BOOLEAN, NEW d, SqlFor(auto, d), NEW r \in Row,
           auto /\ d.exists => r.id >= 1
    PROVE  SqlFor(auto, SqlInsert(d, r))
<1>1. CASE ~InsertSucceeds(d, r)
  BY <1>1 DEF SqlInsert
<1>2. CASE InsertSucceeds(d, r)
  <2> DEFINE n == Record(d, r)
             q == Max({d.seq, r.id})
             e == [d EXCEPT !.rows = @ \cup {n}, !.seq = q]
  <2>1. d.exists /\ r.id \in Nat /\ r.key \in Cell /\ r.val \in Cell
    BY <1>2 DEF InsertSucceeds, Row
  <2>2. Sql(r.key) \in Int /\ Sql(r.val) \in Int
    BY <2>1, SqlType
  <2>3. RowId(d, r) \in Int /\ (auto => RowId(d, r) = r.id)
    <3>1. CASE d.pk = "id"
      BY <2>1, <3>1 DEF RowId
    <3>2. CASE d.pk = "key"
      BY <2>1, <2>2, <3>2 DEF RowId, SqlFor
    <3>3. CASE d.pk = "none"
      <4> DEFINE S == Rids(d) \cup {0}
      <4>1. IsFiniteSet(S) /\ S \subseteq Int /\ S # {}
        BY RidsFinite, FS_AddElement
      <4> HIDE DEF S
      <4>2. Max(S) \in Int
        BY <4>1, MaxIsGreatest
      <4>3. RowId(d, r) = 1 + Max(S)
        BY <3>3 DEF RowId, Max0, S
      <4> QED
        BY <2>1, <3>3, <4>2, <4>3 DEF SqlFor
    <3> QED
      BY <3>1, <3>2, <3>3 DEF SqlFor, SqlTable
  <2>4. n \in SqlRow /\ (auto => n.rid = n.id /\ n.id >= 1)
    BY <2>1, <2>2, <2>3 DEF Record, SqlRow
  <2>5. q \in Nat
    <3> DEFINE S == {d.seq, r.id}
    <3>1. IsFiniteSet(S) /\ S \subseteq Nat
      <4>1. S = {d.seq} \cup {r.id}
        OBVIOUS
      <4>2. IsFiniteSet({d.seq})
        BY FS_Singleton
      <4>3. IsFiniteSet(S)
        BY <4>1, <4>2, FS_AddElement
      <4> QED
        BY <2>1, <4>3 DEF SqlFor, SqlTable
    <3>2. S # {} /\ S \subseteq Int
      BY <3>1
    <3> HIDE DEF S
    <3>3. Max(S) \in Nat
      BY <3>1, <3>2, MaxIsGreatest
    <3> QED
      BY <3>3 DEF S
  <2>6. IsFiniteSet(d.rows \cup {n})
    BY FS_AddElement DEF SqlFor
  <2> HIDE DEF n, q
  <2>7. SqlFor(auto, e)
    <3> DEFINE R == d.rows \cup {n}
    <3>1. R \subseteq SqlRow /\ (auto => \A s \in R : s.rid = s.id /\ s.id >= 1)
      BY <2>4 DEF SqlFor, SqlTable
    <3> HIDE DEF R
    <3>2. SqlFor(auto, [d EXCEPT !.rows = R, !.seq = q])
      BY <2>5, <2>6, <3>1, OtherRows DEF R
    <3> QED
      BY <3>2 DEF R
  <2>8. SqlInsert(d, r) = e
    BY <1>2 DEF SqlInsert, n, q
  <2> QED
    BY <2>7, <2>8
<1> QED
  BY <1>1, <1>2

LEMMA UpdateFits ==
    ASSUME NEW auto \in BOOLEAN, NEW d, SqlFor(auto, d), NEW r \in Row, auto => r.id >= 1
    PROVE  SqlFor(auto, SqlUpdate(d, r))
<1>1. CASE ~UpdateSucceeds(d, r)
  BY <1>1 DEF SqlUpdate
<1>2. CASE UpdateSucceeds(d, r)
  <2> DEFINE M == Matching(d, r)
             f == [s \in M |-> [s EXCEPT !.rid = IF d.pk = "id" THEN r.id ELSE @,
                                         !.id = r.id, !.val = Sql(r.val)]]
             T == {f[s] : s \in M}
             R == (d.rows \ M) \cup T
  <2>1. d.exists /\ r.id \in Nat /\ Sql(r.val) \in Int
    BY <1>2, SqlType DEF UpdateSucceeds, Row
  <2>2. M \subseteq d.rows /\ IsFiniteSet(M)
    BY FS_Subset DEF SqlFor, Matching
  <2>3. IsFiniteSet(R)
    <3>1. IsFiniteSet(T)
      <4>1. DOMAIN f = M
        OBVIOUS
      <4> HIDE DEF f, M
      <4> QED
        BY <2>2, <4>1, ImageFinite
    <3>2. IsFiniteSet(d.rows \ M)
      BY FS_Difference DEF SqlFor
    <3> QED
      BY <3>1, <3>2, FS_Union
  <2>4. \A s \in M : f[s] \in SqlRow /\ (auto => f[s].rid = f[s].id /\ f[s].id >= 1)
    <3> SUFFICES ASSUME NEW s \in M
                 PROVE  f[s] \in SqlRow /\ (auto => f[s].rid = f[s].id /\ f[s].id >= 1)
      OBVIOUS
    <3>1. s \in SqlRow
      BY <2>2 DEF SqlFor, SqlTable
    <3>2. auto => d.pk = "id"
      BY <2>1 DEF SqlFor
    <3>3. f[s] = [s EXCEPT !.rid = IF d.pk = "id" THEN r.id ELSE @,
                           !.id = r.id, !.val = Sql(r.val)]
      OBVIOUS
    <3> HIDE DEF f, M
    <3>4. /\ f[s] = [rid |-> IF d.pk = "id" THEN r.id ELSE s.rid, id |-> r.id,
                     key |-> s.key, val |-> Sql(r.val)]
          /\ s.rid \in Int /\ s.key \in Int
      BY <3>1, <3>3 DEF SqlRow
    <3> QED
      BY <2>1, <3>2, <3>4 DEF SqlRow
  <2>5. SqlUpdate(d, r) = [d EXCEPT !.rows = R]
    <3>1. T = {[s EXCEPT !.rid = IF d.pk = "id" THEN r.id ELSE @,
                         !.id = r.id, !.val = Sql(r.val)] : s \in Matching(d, r)}
      OBVIOUS
    <3> HIDE DEF T
    <3> QED
      BY <1>2, <3>1 DEF SqlUpdate
  <2> HIDE DEF M, f
  <2>6. R \subseteq SqlRow /\ (auto => \A s \in R : s.rid = s.id /\ s.id >= 1)
    BY <2>4 DEF SqlFor, SqlTable
  <2> HIDE DEF R
  <2>7. SqlFor(auto, [d EXCEPT !.rows = R, !.seq = d.seq])
    <3>1. d.seq \in Nat
      BY DEF SqlFor, SqlTable
    <3> QED
      BY <2>3, <2>6, <3>1, OtherRows
  <2>8. [d EXCEPT !.rows = R, !.seq = d.seq] = [d EXCEPT !.rows = R]
    BY DEF SqlFor, SqlTable
  <2> QED
    BY <2>5, <2>7, <2>8
<1> QED
  BY <1>1, <1>2

LEMMA CreatedFits ==
    ASSUME NEW auto \in BOOLEAN, NEW d, SqlFor(auto, d),
           NEW pks \in SUBSET {"id", "key"}, "id" \in pks <=> auto
    PROVE  SqlFor(auto, Created(d, pks))
<1>1. CASE d.exists \/ Cardinality(pks) > 1
  BY <1>1 DEF Created
<1>2. CASE ~(d.exists \/ Cardinality(pks) > 1)
  <2> DEFINE p == IF pks = {} THEN "none" ELSE CHOOSE c \in pks : TRUE
  <2>1. pks # {"id", "key"}
    <3>1. Cardinality({"id"}) = 1 /\ IsFiniteSet({"id"})
      BY FS_Singleton
    <3>2. {"id", "key"} = {"id"} \cup {"key"} /\ "key" \notin {"id"}
      OBVIOUS
    <3>3. Cardinality({"id", "key"}) = 2
      BY <3>1, <3>2, FS_AddElement
    <3> QED
      BY <1>2, <3>3
  <2>2. pks = {} \/ pks = {"id"} \/ pks = {"key"}
    BY <2>1
  <2>3. (p = "id" <=> auto) /\ p \in {"none", "id", "key"}
    BY <2>2
  <2> HIDE DEF p
  <2>4. SqlFor(auto, [NoTable EXCEPT !.exists = TRUE, !.pk = p])
    <3> DEFINE e == [NoTable EXCEPT !.exists = TRUE, !.pk = p]
    <3>1. e.pk = p /\ e.rows = {} /\ e \in SqlTable
      BY <2>3 DEF NoTable, SqlTable
    <3> HIDE DEF e
    <3>2. SqlFor(auto, e)
      BY <2>3, <3>1, FS_EmptySet DEF SqlFor
    <3> QED
      BY <3>2 DEF e
  <2> QED
    BY <1>2, <2>4 DEF Created, p
<1> QED
  BY <1>1, <1>2

\* What fetch loads: ids are row ids, and no two rows have the same of those.
LEMMA SelectedRows ==
    ASSUME NEW auto \in BOOLEAN, NEW d, SqlFor(auto, d), NEW t \in Selected(d)
    PROVE  RowsFor(auto, t)
<1> DEFINE n == Cardinality(d.rows)
<1>1. n \in Nat
  BY FS_CardinalityType DEF SqlFor
<1>2. PICK f \in [1 .. n -> d.rows] :
          /\ \A i, j \in 1 .. n : i < j => f[i].rid < f[j].rid
          /\ t = [i \in 1 .. n |-> [id |-> f[i].id, key |-> f[i].key, val |-> f[i].val]]
  BY DEF Selected
<1> HIDE DEF n
<1>3. \A i \in 1 .. n : f[i] \in SqlRow /\ (auto => f[i].rid = f[i].id /\ f[i].id >= 1)
  BY DEF SqlFor, SqlTable
<1>4. \A i \in 1 .. n : t[i] \in Row /\ t[i].id = f[i].id
  BY <1>2, <1>3 DEF SqlRow, Row, Cell
<1>5. DOMAIN t = 1 .. n /\ t \in Seq(Row)
  BY <1>1, <1>2, <1>4
<1>6. ASSUME auto, NEW i \in 1 .. n, NEW j \in 1 .. n, t[i].id = t[j].id PROVE i = j
  <2>1. f[i].rid = f[j].rid /\ f[i].rid \in Int
    BY <1>3, <1>4, <1>6 DEF SqlRow
  <2>2. ~(i < j) /\ ~(j < i)
    BY <1>2, <2>1
  <2> QED
    BY <1>1, <2>2
<1>7. ASSUME auto, NEW i \in 1 .. n PROVE t[i].id >= 1
  BY <1>3, <1>4, <1>7
<1> QED
  BY <1>5, <1>6, <1>7 DEF RowsFor

-----------------------------------------------------------------------------
(* The inductive invariant.                                                *)

ScanFields == {"phase", "pred", "at", "total", "match", "kept", "touched", "shrunk"}
Phase == {"idle", "read", "call", "done", "panicked"}

\* A running where() is at one of the rows it counted, and unless rows have
\* been removed since then those rows are there.
ScanFits ==
    /\ ScanFields \subseteq DOMAIN scan
    /\ scan.phase \in Phase /\ scan.at \in Nat /\ scan.total \in Nat
    /\ scan.shrunk \in BOOLEAN
    /\ scan.phase \in {"read", "call"} =>
          scan.at \in 1 .. scan.total /\ (~scan.shrunk => scan.total <= Len(rows))
    /\ scan.phase = "panicked" => scan.shrunk

IInv ==
    /\ schema \in Schema /\ literal \in Literals
    /\ RowsFor(HasAuto, rows)
    /\ SqlFor(HasAuto, conn) /\ SqlFor(HasAuto, disk)
    /\ bound \in BOOLEAN /\ open \in BOOLEAN /\ tx \in BOOLEAN /\ mirrored \in BOOLEAN
    /\ ops \in 0 .. MaxOps
    /\ ScanFits

LEMMA IInvImplies == IInv => TypeOK /\ AutoIdsDistinct /\ PanicNeedsShrink
BY DEF IInv, TypeOK, AutoIdsDistinct, PanicNeedsShrink, RowsFor, SqlFor, ScanFits, Phase

LEMMA AutoBoolean == HasAuto \in BOOLEAN
BY DEF HasAuto

LEMMA IdleFits == ASSUME scan = Idle PROVE ScanFits
BY DEF Idle, ScanFits, ScanFields, Phase

LEMMA IInvInit == TableAssumption /\ Init => IInv
<1> SUFFICES ASSUME TableAssumption, Init PROVE IInv
  OBVIOUS
<1>1. RowsFor(HasAuto, rows)
  BY DeclaredRows DEF Init
<1>2. SqlFor(HasAuto, conn) /\ SqlFor(HasAuto, disk)
  BY NoTableFits, AutoBoolean DEF Init
<1>3. ScanFits
  BY IdleFits DEF Init
<1>4. ops \in 0 .. MaxOps
  BY DEF Init, TableAssumption
<1> QED
  BY <1>1, <1>2, <1>3, <1>4 DEF Init, IInv

\* What has to be shown of a step.
LEMMA StepKeeps ==
    ASSUME IInv, UNCHANGED program, RowsFor(HasAuto, rows'),
           SqlFor(HasAuto, conn'), SqlFor(HasAuto, disk'),
           bound' \in BOOLEAN, open' \in BOOLEAN, tx' \in BOOLEAN, mirrored' \in BOOLEAN,
           ops' \in 0 .. MaxOps, ScanFits'
    PROVE  IInv'
BY DEF IInv, program, HasAuto

LEMMA OperationFacts ==
    ASSUME TableAssumption, IInv, Operation
    PROVE  /\ UNCHANGED program /\ ops' \in 0 .. MaxOps
           /\ scan.phase \in {"idle", "call"}
BY DEF TableAssumption, IInv, Operation

LEMMA ExecuteFits ==
    ASSUME IInv, NEW d, SqlFor(HasAuto, d), Execute(d)
    PROVE  SqlFor(HasAuto, conn') /\ SqlFor(HasAuto, disk') /\ tx' \in BOOLEAN
BY DEF IInv, Execute

LEMMA StoreStays ==
    ASSUME IInv, UNCHANGED store
    PROVE  SqlFor(HasAuto, conn') /\ SqlFor(HasAuto, disk') /\ tx' \in BOOLEAN
BY DEF IInv, store

LEMMA ScanStays ==
    ASSUME IInv, scan' = scan \/ Touch(FALSE), Len(rows') \in Nat, Len(rows') >= Len(rows)
    PROVE  ScanFits'
<1>1. Len(rows) \in Nat
  BY LenProperties DEF IInv, RowsFor
<1>2. /\ ScanFields \subseteq DOMAIN scan'
      /\ scan'.phase = scan.phase /\ scan'.at = scan.at /\ scan'.total = scan.total
      /\ scan'.shrunk = scan.shrunk
  BY DEF IInv, ScanFits, ScanFields, Touch
<1>3. scan.total <= Len(rows) => scan.total <= Len(rows')
  BY <1>1 DEF IInv, ScanFits
<1> QED
  BY <1>2, <1>3 DEF IInv, ScanFits

LEMMA ScanShrinks ==
    ASSUME IInv, Touch(TRUE)
    PROVE  ScanFits'
<1>1. CASE scan.phase = "idle"
  BY <1>1 DEF IInv, ScanFits, Touch
<1>2. CASE scan.phase # "idle"
  <2>1. /\ ScanFields \subseteq DOMAIN scan'
        /\ scan'.phase = scan.phase /\ scan'.at = scan.at /\ scan'.total = scan.total
        /\ scan'.shrunk = TRUE
    BY <1>2 DEF IInv, ScanFits, ScanFields, Touch
  <2> QED
    BY <2>1 DEF IInv, ScanFits
<1> QED
  BY <1>1, <1>2

LEMMA RowsLen == ASSUME IInv PROVE Len(rows) \in Nat
BY LenProperties DEF IInv, RowsFor

-----------------------------------------------------------------------------
(* The methods of the table.                                               *)

LEMMA NewRowFacts ==
    ASSUME IInv, NEW k \in Cell, NEW v \in Cell
    PROVE  /\ NewRow(k, v) \in Row
           /\ HasAuto => Fresh(NewRow(k, v).id, rows) /\ NewRow(k, v).id >= 1
<1>1. Fresh(NextId, rows)
  BY NextIdFresh DEF IInv, RowsFor
<1> QED
  BY <1>1 DEF NewRow, Row, Fresh

LEMMA PushKeeps ==
    ASSUME TableAssumption, IInv, Operation, NEW k \in Cell, NEW v \in Cell,
           Push(NewRow(k, v)), UNCHANGED <<bound, open>>, mirrored' \in BOOLEAN
    PROVE  IInv'
<1> DEFINE r == NewRow(k, v)
<1>1. r \in Row /\ (HasAuto => Fresh(r.id, rows) /\ r.id >= 1)
  BY NewRowFacts
<1>2. RowsFor(HasAuto, Append(rows, r)) /\ Len(Append(rows, r)) = Len(rows) + 1
  BY <1>1, AppendRow, AutoBoolean DEF IInv
<1>3. SqlFor(HasAuto, IF bound THEN SqlInsert(conn, r) ELSE conn)
  BY <1>1, InsertFits, AutoBoolean DEF IInv
<1> HIDE DEF r
<1>4. /\ rows' = Append(rows, r) /\ scan' = scan
      /\ Execute(IF bound THEN SqlInsert(conn, r) ELSE conn)
  BY DEF Push, r
<1>5. SqlFor(HasAuto, conn') /\ SqlFor(HasAuto, disk') /\ tx' \in BOOLEAN
  BY <1>3, <1>4, ExecuteFits
<1>6. Len(rows') \in Nat /\ Len(rows') >= Len(rows)
  BY <1>2, <1>4, RowsLen
<1>7. ScanFits'
  BY <1>4, <1>6, ScanStays
<1>8. bound' \in BOOLEAN /\ open' \in BOOLEAN
  BY DEF IInv
<1> QED
  BY <1>2, <1>4, <1>5, <1>7, <1>8, OperationFacts, StepKeeps

LEMMA InsertKeeps ==
    ASSUME TableAssumption, IInv, NEW k \in Cell, NEW v \in Cell, Insert(k, v)
    PROVE  IInv'
<1>1. mirrored' \in BOOLEAN
  BY DEF Insert, IInv
<1>2. Operation /\ Push(NewRow(k, v)) /\ UNCHANGED <<bound, open>>
  BY DEF Insert
<1> QED
  BY <1>1, <1>2, PushKeeps

LEMMA SaveKeeps ==
    ASSUME TableAssumption, IInv, NEW k \in Cell, NEW v \in Cell, Save(k, v)
    PROVE  IInv'
<1> DEFINE r == NewRow(k, v)
           at == FirstWith(k)
<1>1. Operation /\ UNCHANGED <<bound, open>> /\ mirrored' \in BOOLEAN
  BY DEF Save, IInv
<1>2. CASE Push(r)
  BY <1>1, <1>2, PushKeeps
<1>3. CASE /\ rows' = ReplaceAt(rows, at, r)
           /\ Execute(IF bound THEN SqlUpdate(conn, r) ELSE conn)
           /\ Touch(FALSE)
  <2>1. r \in Row /\ (HasAuto => Fresh(r.id, rows) /\ r.id >= 1)
    BY NewRowFacts
  <2> HIDE DEF r, at
  <2>2. rows' = [rows EXCEPT ![at] = r]
    BY <1>3 DEF ReplaceAt
  <2>3. RowsFor(HasAuto, rows') /\ Len(rows') = Len(rows)
    <3>1. RowsFor(HasAuto, rows)
      BY DEF IInv
    <3> QED
      BY <2>1, <2>2, <3>1, ReplaceRow, AutoBoolean
  <2>4. SqlFor(HasAuto, IF bound THEN SqlUpdate(conn, r) ELSE conn)
    BY <2>1, UpdateFits, AutoBoolean DEF IInv
  <2>5. SqlFor(HasAuto, conn') /\ SqlFor(HasAuto, disk') /\ tx' \in BOOLEAN
    BY <1>3, <2>4, ExecuteFits
  <2>6. ScanFits'
    <3>1. Len(rows') \in Nat /\ Len(rows') >= Len(rows)
      BY <2>3, RowsLen
    <3> QED
      BY <1>3, <3>1, ScanStays
  <2>7. bound' \in BOOLEAN /\ open' \in BOOLEAN
    BY <1>1 DEF IInv
  <2> QED
    BY <1>1, <2>3, <2>5, <2>6, <2>7, OperationFacts, StepKeeps
<1> QED
  BY <1>2, <1>3 DEF Save

\* The methods that leave the database alone.
LEMMA InMemoryKeeps ==
    ASSUME TableAssumption, IInv, Operation, NEW t, RowsFor(HasAuto, t), InMemory(t), ScanFits'
    PROVE  IInv'
<1>1. mirrored' \in BOOLEAN /\ bound' \in BOOLEAN /\ open' \in BOOLEAN
  BY DEF InMemory, IInv
<1>2. UNCHANGED store /\ rows' = t
  BY DEF InMemory
<1> QED
  BY <1>1, <1>2, StoreStays, OperationFacts, StepKeeps

LEMMA UpdateKeeps ==
    ASSUME TableAssumption, IInv, NEW i \in DOMAIN rows, NEW k \in Key, NEW v \in Val,
           Update(i, k, v)
    PROVE  IInv'
<1> DEFINE r == [rows[i] EXCEPT !.key = k, !.val = v]
           t == [rows EXCEPT ![i].key = k, ![i].val = v]
<1>1. rows[i] \in Row
  BY ElementOfSeq, LenProperties DEF IInv, RowsFor
<1>2. r \in Row /\ r.id = rows[i].id
  BY <1>1 DEF Row, Cell, TableAssumption
<1>3. t = [rows EXCEPT ![i] = r]
  OBVIOUS
<1> HIDE DEF r
<1>4. RowsFor(HasAuto, t) /\ Len(t) = Len(rows)
  <2>1. RowsFor(HasAuto, rows)
    BY DEF IInv
  <2> HIDE DEF t
  <2> QED
    BY <1>2, <1>3, <2>1, ReplaceRow, AutoBoolean
<1>5. Operation /\ InMemory(t) /\ Touch(FALSE)
  BY DEF Update
<1> HIDE DEF t
<1>6. ScanFits'
  <2>1. Len(rows') \in Nat /\ Len(rows') >= Len(rows)
    BY <1>4, <1>5, RowsLen DEF InMemory
  <2> QED
    BY <1>5, <2>1, ScanStays
<1> QED
  BY <1>4, <1>5, <1>6, InMemoryKeeps

LEMMA DeleteKeeps ==
    ASSUME TableAssumption, IInv, NEW i \in DOMAIN rows, Delete(i)
    PROVE  IInv'
<1>1. Operation /\ InMemory(RemoveAt(rows, i)) /\ Touch(TRUE)
  BY DEF Delete
<1>2. RowsFor(HasAuto, RemoveAt(rows, i))
  BY RemoveRow, AutoBoolean DEF IInv
<1> QED
  BY <1>1, <1>2, ScanShrinks, InMemoryKeeps

LEMMA ClearKeeps ==
    ASSUME TableAssumption, IInv, Clear
    PROVE  IInv'
<1>1. Operation /\ InMemory(<<>>) /\ Touch(TRUE)
  BY DEF Clear
<1> QED
  BY <1>1, NoRows, AutoBoolean, ScanShrinks, InMemoryKeeps

LEMMA FetchKeeps ==
    ASSUME TableAssumption, IInv, Fetch
    PROVE  IInv'
<1>1. /\ Operation /\ rows' \in Selected(conn) /\ mirrored' = TRUE
      /\ scan.phase = "idle" /\ scan' = scan
      /\ bound' = bound /\ open' = open /\ UNCHANGED store
  BY DEF Fetch
<1>2. RowsFor(HasAuto, rows')
  BY <1>1, SelectedRows, AutoBoolean DEF IInv
<1>3. ScanFits'
  BY <1>1 DEF IInv, ScanFits
<1> QED
  BY <1>1, <1>2, <1>3, StoreStays, OperationFacts, StepKeeps DEF IInv

LEMMA RestartKeeps ==
    ASSUME TableAssumption, IInv, Restart
    PROVE  IInv'
<1>1. /\ rows' = Declared /\ scan' = Idle /\ UNCHANGED program
      /\ bound' = FALSE /\ open' = FALSE /\ tx' = FALSE /\ mirrored' = FALSE
      /\ conn' = disk /\ disk' = disk
  BY DEF Restart
<1>2. ops' \in 0 .. MaxOps
  BY DEF Restart, IInv, TableAssumption
<1>3. RowsFor(HasAuto, rows')
  BY <1>1, DeclaredRows DEF IInv
<1>4. ScanFits'
  BY <1>1 DEF Idle, ScanFits, ScanFields, Phase
<1> QED
  BY <1>1, <1>2, <1>3, <1>4, StepKeeps DEF IInv

-----------------------------------------------------------------------------
(* The methods of the database.                                            *)

\* A statement leaves the rows in memory and the running where() alone.
LEMMA StatementKeeps ==
    ASSUME TableAssumption, IInv, Operation, NEW d, SqlFor(HasAuto, d), Execute(d),
           UNCHANGED <<rows, scan>>,
           bound' \in BOOLEAN, open' \in BOOLEAN, mirrored' \in BOOLEAN
    PROVE  IInv'
<1>1. SqlFor(HasAuto, conn') /\ SqlFor(HasAuto, disk') /\ tx' \in BOOLEAN
  BY ExecuteFits
<1>2. RowsFor(HasAuto, rows')
  BY DEF IInv
<1>3. ScanFits'
  BY RowsLen, ScanStays
<1> QED
  BY <1>1, <1>2, <1>3, OperationFacts, StepKeeps

LEMMA InSqlKeeps ==
    ASSUME TableAssumption, IInv, Operation, NEW d, SqlFor(HasAuto, d), InSql(d)
    PROVE  IInv'
<1>1. Execute(d) /\ UNCHANGED <<rows, scan>>
  BY DEF InSql
<1>2. bound' \in BOOLEAN /\ open' \in BOOLEAN /\ mirrored' \in BOOLEAN
  BY DEF InSql, IInv
<1> QED
  BY <1>1, <1>2, StatementKeeps

LEMMA DatabaseInitKeeps ==
    ASSUME TableAssumption, IInv, NEW listed \in BOOLEAN, DatabaseInit(listed)
    PROVE  IInv'
<1> DEFINE pks == IF HasAuto THEN {"id"} ELSE {}
           d == IF listed THEN Created(conn, pks) ELSE conn
<1>1. pks \in SUBSET {"id", "key"} /\ ("id" \in pks <=> HasAuto)
  OBVIOUS
<1> HIDE DEF pks
<1>2. SqlFor(HasAuto, d)
  BY <1>1, CreatedFits, AutoBoolean DEF IInv
<1>3. Operation /\ Execute(d) /\ UNCHANGED <<rows, scan>>
  BY DEF DatabaseInit, pks
<1>4. bound' \in BOOLEAN /\ open' \in BOOLEAN /\ mirrored' \in BOOLEAN
  BY DEF DatabaseInit, IInv
<1> HIDE DEF d
<1> QED
  BY <1>2, <1>3, <1>4, StatementKeeps

LEMMA SyncKeeps ==
    ASSUME TableAssumption, IInv, Sync
    PROVE  IInv'
<1> DEFINE pks == (IF HasAuto THEN {"id"} ELSE {}) \cup (IF Keyed THEN {"key"} ELSE {})
           d == Created(conn, pks)
<1>1. pks \in SUBSET {"id", "key"} /\ ("id" \in pks <=> HasAuto)
  OBVIOUS
<1> HIDE DEF pks
<1>2. SqlFor(HasAuto, d)
  BY <1>1, CreatedFits, AutoBoolean DEF IInv
<1>3. Operation /\ Execute(d) /\ UNCHANGED <<rows, scan>>
  BY DEF Sync, pks
<1>4. bound' \in BOOLEAN /\ open' \in BOOLEAN /\ mirrored' \in BOOLEAN
  BY DEF Sync, IInv
<1> HIDE DEF d
<1> QED
  BY <1>2, <1>3, <1>4, StatementKeeps

\* remove, truncate and a DELETE keep a part of the rows.
LEMMA DeletingKeeps ==
    ASSUME TableAssumption, IInv, Operation, NEW R, R \subseteq conn.rows,
           InSql([conn EXCEPT !.rows = R])
    PROVE  IInv'
<1>1. SqlFor(HasAuto, [conn EXCEPT !.rows = R])
  BY FewerRows, AutoBoolean DEF IInv
<1> QED
  BY <1>1, InSqlKeeps

LEMMA RemoveWhereKeeps ==
    ASSUME TableAssumption, IInv, NEW p, RemoveWhere(p)
    PROVE  IInv'
<1> DEFINE R == {s \in conn.rows : ~SqlSelects(translate_filter_to_sql(p), s)}
<1>1. Operation /\ InSql([conn EXCEPT !.rows = R])
  BY DEF RemoveWhere
<1>2. R \subseteq conn.rows
  OBVIOUS
<1> HIDE DEF R
<1> QED
  BY <1>1, <1>2, DeletingKeeps

LEMMA TruncateKeeps ==
    ASSUME TableAssumption, IInv, Truncate
    PROVE  IInv'
BY DeletingKeeps DEF Truncate

LEMMA ExecDeleteKeeps ==
    ASSUME TableAssumption, IInv, NEW k \in Key, ExecDelete(k)
    PROVE  IInv'
<1> DEFINE R == {s \in conn.rows : s.key # k}
<1>1. Operation /\ InSql([conn EXCEPT !.rows = R])
  BY DEF ExecDelete
<1>2. R \subseteq conn.rows
  OBVIOUS
<1> HIDE DEF R
<1> QED
  BY <1>1, <1>2, DeletingKeeps

LEMMA DropKeeps ==
    ASSUME TableAssumption, IInv, Drop
    PROVE  IInv'
<1>1. Operation /\ InSql(NoTable)
  BY DEF Drop
<1> QED
  BY <1>1, NoTableFits, AutoBoolean, InSqlKeeps

LEMMA ExecInsertKeeps ==
    ASSUME TableAssumption, IInv, NEW k \in Key, NEW v \in Val, ExecInsert(k, v)
    PROVE  IInv'
<1> DEFINE S == {conn.seq} \cup Rids(conn)
           n == IF conn.pk = "id" THEN 1 + Max(S) ELSE 0
           r == [id |-> n, key |-> k, val |-> v]
<1>1. conn.seq \in Nat /\ (conn.exists => (conn.pk = "id" <=> HasAuto))
  BY DEF IInv, SqlFor, SqlTable
<1>2. Max(S) \in Nat
  <2>1. IsFiniteSet(Rids(conn)) /\ Rids(conn) \subseteq Int
    BY RidsFinite, AutoBoolean DEF IInv
  <2>2. S = Rids(conn) \cup {conn.seq}
    OBVIOUS
  <2>3. IsFiniteSet(S) /\ S \subseteq Int /\ conn.seq \in S
    <3>1. IsFiniteSet(Rids(conn) \cup {conn.seq})
      BY <2>1, FS_AddElement
    <3>2. \A x \in S : x \in Rids(conn) \/ x = conn.seq
      BY <2>2
    <3>3. conn.seq \in S
      BY <2>2
    <3>4. IsFiniteSet(S)
      BY <2>2, <3>1
    <3> HIDE DEF S
    <3>5. S \subseteq Int
      BY <1>1, <2>1, <3>2
    <3> QED
      BY <3>3, <3>4, <3>5
  <2> HIDE DEF S
  <2>4. Max(S) \in Int /\ Max(S) >= conn.seq
    BY <2>3, MaxIsGreatest
  <2> QED
    BY <1>1, <2>4
<1> HIDE DEF S
<1>3. n \in Nat /\ (HasAuto /\ conn.exists => n >= 1)
  BY <1>1, <1>2
<1>4. k \in Cell /\ v \in Cell
  BY DEF Cell, TableAssumption
<1> HIDE DEF n
<1>5. r \in Row /\ (HasAuto /\ conn.exists => r.id >= 1)
  BY <1>3, <1>4 DEF Row
<1>6. Operation /\ InSql(SqlInsert(conn, r))
  BY DEF ExecInsert, n, S
<1> HIDE DEF r
<1>7. SqlFor(HasAuto, SqlInsert(conn, r))
  BY <1>5, InsertFits, AutoBoolean DEF IInv
<1> QED
  BY <1>6, <1>7, InSqlKeeps

LEMMA TransactionKeeps ==
    ASSUME TableAssumption, IInv, Begin \/ Commit \/ Rollback
    PROVE  IInv'
<1>1. Operation /\ UNCHANGED <<rows, bound, open, scan>> /\ tx' \in BOOLEAN
  BY DEF Begin, Commit, Rollback
<1>2. SqlFor(HasAuto, conn') /\ SqlFor(HasAuto, disk')
  BY DEF IInv, Begin, Commit, Rollback
<1>3. mirrored' \in BOOLEAN
  BY DEF IInv, Begin, Commit, Rollback
<1>4. RowsFor(HasAuto, rows') /\ bound' \in BOOLEAN /\ open' \in BOOLEAN
  BY <1>1 DEF IInv
<1>5. ScanFits'
  BY <1>1, RowsLen, ScanStays
<1> QED
  BY <1>1, <1>2, <1>3, <1>4, <1>5, OperationFacts, StepKeeps

-----------------------------------------------------------------------------
(* where()                                                                 *)

LEMMA InScanKeeps ==
    ASSUME TableAssumption, IInv, InScan, UNCHANGED ops, ScanFits'
    PROVE  IInv'
<1>1. UNCHANGED <<program, rows, bound, open, store, mirrored>>
  BY DEF InScan
<1>2. RowsFor(HasAuto, rows') /\ bound' \in BOOLEAN /\ open' \in BOOLEAN /\ mirrored' \in BOOLEAN
  BY <1>1 DEF IInv
<1>3. ops' \in 0 .. MaxOps
  BY DEF IInv
<1> QED
  BY <1>1, <1>2, <1>3, StoreStays, StepKeeps

LEMMA WhereBeginKeeps ==
    ASSUME TableAssumption, IInv, NEW p, WhereBegin(p)
    PROVE  IInv'
<1>1. Operation /\ UNCHANGED <<rows, bound, open, store, mirrored>> /\ rows # <<>>
  BY DEF WhereBegin
<1>2. Len(rows) \in Nat /\ Len(rows) >= 1
  <2>1. rows \in Seq(Row)
    BY DEF IInv, RowsFor
  <2> QED
    BY <1>1, <2>1, EmptySeq, LenProperties
<1>3. /\ ScanFields \subseteq DOMAIN scan'
      /\ scan'.phase = "read" /\ scan'.at = 1 /\ scan'.total = Len(rows)
      /\ scan'.shrunk = FALSE
  BY DEF WhereBegin, Idle, ScanFields
<1>4. ScanFits'
  <2>1. rows' = rows /\ scan'.at \in 1 .. scan'.total /\ scan'.at \in Nat /\ scan'.total \in Nat
    BY <1>1, <1>2, <1>3
  <2>2. Len(rows') = Len(rows)
    BY <2>1
  <2>3. scan'.total <= Len(rows')
    BY <1>2, <1>3, <2>2
  <2>4. scan'.phase \in Phase /\ scan'.phase # "panicked" /\ scan'.shrunk \in BOOLEAN
    BY <1>3 DEF Phase
  <2> QED
    BY <1>3, <2>1, <2>3, <2>4 DEF ScanFits
<1>5. RowsFor(HasAuto, rows') /\ bound' \in BOOLEAN /\ open' \in BOOLEAN /\ mirrored' \in BOOLEAN
  BY <1>1 DEF IInv
<1> QED
  BY <1>1, <1>4, <1>5, StoreStays, OperationFacts, StepKeeps

\* Rows can only be missing if some have been removed.
LEMMA PanicFits ==
    ASSUME IInv, scan.phase \in {"read", "call"}, scan.at > Len(rows), Panic, rows' = rows
    PROVE  ScanFits'
<1>1. scan.shrunk
  BY RowsLen DEF IInv, ScanFits
<1> QED
  BY <1>1 DEF IInv, ScanFits, ScanFields, Phase, Panic

LEMMA AdvanceFits ==
    ASSUME IInv, scan.phase = "call", NEW kept, Advance(kept), rows' = rows
    PROVE  ScanFits'
<1>1. /\ ScanFields \subseteq DOMAIN scan'
      /\ scan'.at = scan.at + 1 /\ scan'.total = scan.total /\ scan'.shrunk = scan.shrunk
      /\ scan'.phase = IF scan.at < scan.total THEN "read" ELSE "done"
  BY DEF IInv, ScanFits, ScanFields, Advance
<1> QED
  BY <1>1 DEF IInv, ScanFits, Phase

LEMMA WhereReadKeeps ==
    ASSUME TableAssumption, IInv, WhereRead
    PROVE  IInv'
<1>1. InScan /\ UNCHANGED ops /\ rows' = rows /\ scan.phase = "read"
  BY DEF WhereRead, InScan
<1>2. CASE scan.at > Len(rows) /\ Panic
  BY <1>1, <1>2, PanicFits, InScanKeeps
<1>3. CASE scan' = [scan EXCEPT !.phase = "call", !.match = Holds(scan.pred, rows[scan.at])]
  <2>1. /\ ScanFields \subseteq DOMAIN scan' /\ scan'.phase = "call"
        /\ scan'.at = scan.at /\ scan'.total = scan.total /\ scan'.shrunk = scan.shrunk
    BY <1>3 DEF IInv, ScanFits, ScanFields
  <2>2. ScanFits'
    BY <1>1, <2>1 DEF IInv, ScanFits, Phase
  <2> QED
    BY <1>1, <2>2, InScanKeeps
<1> QED
  BY <1>2, <1>3 DEF WhereRead

LEMMA WhereCopyKeeps ==
    ASSUME TableAssumption, IInv, WhereCopy
    PROVE  IInv'
<1>1. InScan /\ UNCHANGED ops /\ rows' = rows /\ scan.phase = "call"
  BY DEF WhereCopy, InScan
<1>2. CASE scan.at > Len(rows) /\ Panic
  BY <1>1, <1>2, PanicFits, InScanKeeps
<1>3. CASE Advance(Append(scan.kept, rows[scan.at])) \/ Advance(scan.kept)
  BY <1>1, <1>3, AdvanceFits, InScanKeeps
<1> QED
  BY <1>2, <1>3 DEF WhereCopy

LEMMA WhereEndKeeps ==
    ASSUME TableAssumption, IInv, WhereEnd
    PROVE  IInv'
<1>1. InScan /\ UNCHANGED ops /\ scan' = Idle
  BY DEF WhereEnd
<1>2. ScanFits'
  BY <1>1 DEF Idle, ScanFits, ScanFields, Phase
<1> QED
  BY <1>1, <1>2, InScanKeeps

-----------------------------------------------------------------------------
(* The theorems.                                                           *)

LEMMA IInvStep == TableAssumption /\ IInv /\ [Next]_vars => IInv'
<1> SUFFICES ASSUME TableAssumption, IInv, [Next]_vars PROVE IInv'
  OBVIOUS
<1>1. Key \subseteq Cell /\ Val \subseteq Cell /\ Missing \in Cell
  BY DEF TableAssumption, Cell
<1>2. CASE TableMethod
  <2>1. ASSUME NEW k \in Cell, NEW v \in Cell, Insert(k, v) \/ Save(k, v) PROVE IInv'
    BY <2>1, InsertKeeps, SaveKeeps
  <2>2. ASSUME NEW i \in DOMAIN rows, Delete(i) PROVE IInv'
    BY <2>2, DeleteKeeps
  <2>3. ASSUME NEW i \in DOMAIN rows, NEW k \in Key, NEW v \in Val, Update(i, k, v) PROVE IInv'
    BY <2>3, UpdateKeeps
  <2>4. ASSUME NEW p, WhereBegin(p) PROVE IInv'
    BY <2>4, WhereBeginKeeps
  <2>5. CASE Clear \/ Fetch
    BY <2>5, ClearKeeps, FetchKeeps
  <2>6. CASE WhereRead \/ WhereCopy \/ WhereEnd
    BY <2>6, WhereReadKeeps, WhereCopyKeeps, WhereEndKeeps
  <2> QED
    BY <1>1, <1>2, <2>1, <2>2, <2>3, <2>4, <2>5, <2>6 DEF TableMethod
<1>3. CASE DatabaseMethod
  <2>1. ASSUME NEW listed \in BOOLEAN, DatabaseInit(listed) PROVE IInv'
    BY <2>1, DatabaseInitKeeps
  <2>2. ASSUME NEW p, RemoveWhere(p) PROVE IInv'
    BY <2>2, RemoveWhereKeeps
  <2>3. ASSUME NEW k \in Key, NEW v \in Val, ExecInsert(k, v) PROVE IInv'
    BY <2>3, ExecInsertKeeps
  <2>4. ASSUME NEW k \in Key, ExecDelete(k) PROVE IInv'
    BY <2>4, ExecDeleteKeeps
  <2>5. CASE Sync \/ Truncate \/ Drop
    BY <2>5, SyncKeeps, TruncateKeeps, DropKeeps
  <2>6. CASE Begin \/ Commit \/ Rollback
    BY <2>6, TransactionKeeps
  <2> QED
    BY <1>3, <2>1, <2>2, <2>3, <2>4, <2>5, <2>6 DEF DatabaseMethod
<1>4. CASE Restart
  BY <1>4, RestartKeeps
<1>5. CASE UNCHANGED vars
  <2>1. UNCHANGED <<program, rows, store, scan, ops>> /\ UNCHANGED <<bound, open, mirrored>>
    BY <1>5 DEF vars
  <2>2. RowsFor(HasAuto, rows') /\ ops' \in 0 .. MaxOps
    BY <2>1 DEF IInv
  <2>3. bound' \in BOOLEAN /\ open' \in BOOLEAN /\ mirrored' \in BOOLEAN
    BY <2>1 DEF IInv
  <2>4. ScanFits'
    BY <2>1, RowsLen, ScanStays
  <2> QED
    BY <2>1, <2>2, <2>3, <2>4, StoreStays, StepKeeps
<1> QED
  BY <1>2, <1>3, <1>4, <1>5 DEF Next

\* The inductive invariant holds in every reachable state.
THEOREM Invariant == Spec => []IInv
<1>1. Init => IInv
  BY IInvInit, TableAssumption
<1>2. IInv /\ [Next]_vars => IInv'
  BY IInvStep, TableAssumption
<1> QED
  BY <1>1, <1>2, PTL DEF Spec

\* Types, for rows (TableData::rows), the SQL table and its committed copy:
\* every @auto column holds an integer from 1 on, whatever was inserted,
\* saved, updated or fetched.
THEOREM TypeCorrect == Spec => []TypeOK
BY Invariant, IInvImplies, PTL

\* No two rows in memory ever have the same @auto id (max + 1 in
\* MethodKind::Insert), in any history of operations and restarts.
THEOREM AutoIdsAlwaysDistinct == Spec => []AutoIdsDistinct
BY Invariant, IInvImplies, PTL

\* where() indexes a row that is gone (t.rows[row_idx]) only after a function
\* its predicate calls has removed rows.
THEOREM PanicOnlyAfterShrink == Spec => []PanicNeedsShrink
BY Invariant, IInvImplies, PTL
===============================================================================
