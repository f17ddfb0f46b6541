------------------------- MODULE TableContentsProofs -------------------------
(***************************************************************************)
(* What is in the rows of a table, for any keys, values, declarations,     *)
(* schemas, predicates and length of history: memory and database hold the *)
(* same rows as long as the program only inserts and saves, each key once; *)
(* where() keeps the rows that match.  Types and ids come from             *)
(* TableStoreProofs.                                                       *)
(***************************************************************************)
EXTENDS TableStoreProofs

-----------------------------------------------------------------------------
(* The rows of a SQL table are told apart by their row ids, which are the  *)
(* keys if the key is the primary key.                                     *)

SqlKeys(keyed, d) ==
    /\ \A s, u \in d.rows : s.rid = u.rid => s = u
    /\ d.pk = "key" => keyed /\ \A s \in d.rows : s.rid = s.key

LEMMA KeysOfNone == \A keyed \in BOOLEAN : SqlKeys(keyed, NoTable)
BY DEF SqlKeys, NoTable

LEMMA KeysOfFewer ==
    ASSUME NEW keyed \in BOOLEAN, NEW d \in SqlTable, SqlKeys(keyed, d), NEW R, R \subseteq d.rows
    PROVE  SqlKeys(keyed, [d EXCEPT !.rows = R])
<1>1. [d EXCEPT !.rows = R].rows = R /\ [d EXCEPT !.rows = R].pk = d.pk
  BY DEF SqlTable
<1> QED
  BY <1>1 DEF SqlKeys

LEMMA KeysOfCreated ==
    ASSUME NEW keyed \in BOOLEAN, NEW d, SqlKeys(keyed, d),
           NEW pks \in SUBSET {"id", "key"}, "key" \in pks => keyed
    PROVE  SqlKeys(keyed, Created(d, pks))
<1>1. CASE d.exists \/ Cardinality(pks) > 1
  BY <1>1 DEF Created
<1>2. CASE ~(d.exists \/ Cardinality(pks) > 1)
  <2> DEFINE p == IF pks = {} THEN "none" ELSE CHOOSE c \in pks : TRUE
             e == [NoTable EXCEPT !.exists = TRUE, !.pk = p]
  <2>1. p = "key" => keyed
    OBVIOUS
  <2>2. Created(d, pks) = e
    BY <1>2 DEF Created
  <2> HIDE DEF p
  <2>3. e.pk = p /\ e.rows = {}
    BY DEF NoTable
  <2> HIDE DEF e
  <2> QED
    BY <2>1, <2>2, <2>3 DEF SqlKeys
<1> QED
  BY <1>1, <1>2

\* What a successful INSERT makes of a table.
LEMMA InsertedRow ==
    ASSUME NEW d \in SqlTable, NEW r, InsertSucceeds(d, r)
    PROVE  /\ SqlInsert(d, r).rows = d.rows \cup {Record(d, r)}
           /\ SqlInsert(d, r).pk = d.pk /\ SqlInsert(d, r).exists = d.exists
           /\ Record(d, r).rid \notin Rids(d)
           /\ Record(d, r) \notin d.rows
<1>1. Record(d, r).rid \notin Rids(d)
  BY DEF InsertSucceeds, Record
<1>2. Record(d, r) \notin d.rows
  BY <1>1 DEF Rids
<1> DEFINE R == d.rows \cup {Record(d, r)}
           q == Max({d.seq, r.id})
<1>3. SqlInsert(d, r) = [d EXCEPT !.rows = R, !.seq = q]
  BY DEF SqlInsert
<1> HIDE DEF R, q
<1>4. SqlInsert(d, r).rows = R /\ SqlInsert(d, r).pk = d.pk /\ SqlInsert(d, r).exists = d.exists
  BY <1>3 DEF SqlTable
<1> QED
  BY <1>1, <1>2, <1>4 DEF R

LEMMA KeysOfInserted ==
    ASSUME NEW keyed \in BOOLEAN, NEW d \in SqlTable, SqlKeys(keyed, d), NEW r
    PROVE  SqlKeys(keyed, SqlInsert(d, r))
<1>1. CASE ~InsertSucceeds(d, r)
  BY <1>1 DEF SqlInsert
<1>2. CASE InsertSucceeds(d, r)
  <2> DEFINE n == Record(d, r)
             e == SqlInsert(d, r)
  <2>1. e.rows = d.rows \cup {n} /\ e.pk = d.pk /\ n.rid \notin Rids(d)
    BY <1>2, InsertedRow
  <2>2. d.pk = "key" => n.rid = n.key
    BY DEF Record, RowId
  <2>3. \A s \in d.rows : s.rid # n.rid
    BY <2>1 DEF Rids
  <2> HIDE DEF n, e
  <2> QED
    BY <2>1, <2>2, <2>3 DEF SqlKeys, e
<1> QED
  BY <1>1, <1>2

\* What a successful UPDATE makes of one of its rows.
Updated(d, r, s) == [s EXCEPT !.rid = IF d.pk = "id" THEN r.id ELSE @,
                              !.id = r.id, !.val = Sql(r.val)]

LEMMA UpdatedRow ==
    ASSUME NEW d \in SqlTable, NEW r, NEW s \in d.rows
    PROVE  /\ Updated(d, r, s).rid = IF d.pk = "id" THEN r.id ELSE s.rid
           /\ Updated(d, r, s).id = r.id
           /\ Updated(d, r, s).key = s.key
           /\ Updated(d, r, s).val = Sql(r.val)
<1>1. s \in SqlRow
  BY DEF SqlTable
<1> QED
  BY <1>1 DEF SqlRow, Updated

LEMMA UpdatedRows ==
    ASSUME NEW d \in SqlTable, NEW r, UpdateSucceeds(d, r)
    PROVE  /\ SqlUpdate(d, r).rows = (d.rows \ Matching(d, r)) \cup
                                         {Updated(d, r, s) : s \in Matching(d, r)}
           /\ SqlUpdate(d, r).pk = d.pk /\ SqlUpdate(d, r).exists = d.exists
<1> DEFINE R == (d.rows \ Matching(d, r)) \cup {Updated(d, r, s) : s \in Matching(d, r)}
<1>1. SqlUpdate(d, r) = [d EXCEPT !.rows = R]
  BY DEF SqlUpdate, Updated
<1> HIDE DEF R
<1>2. SqlUpdate(d, r).rows = R /\ SqlUpdate(d, r).pk = d.pk /\ SqlUpdate(d, r).exists = d.exists
  BY <1>1 DEF SqlTable
<1> QED
  BY <1>2 DEF R

LEMMA AtMostOne ==
    ASSUME NEW S, IsFiniteSet(S), Cardinality(S) <= 1, NEW x \in S, NEW y \in S
    PROVE  x = y
<1> SUFFICES ASSUME x # y PROVE FALSE
  OBVIOUS
<1>1. IsFiniteSet({x}) /\ Cardinality({x}) = 1
  BY FS_Singleton
<1>2. {x, y} = {x} \cup {y} /\ y \notin {x}
  OBVIOUS
<1>3. Cardinality({x, y}) = 2
  BY <1>1, <1>2, FS_AddElement
<1>4. Cardinality({x, y}) <= Cardinality(S) /\ Cardinality(S) \in Nat
  BY FS_Subset, FS_CardinalityType
<1> QED
  BY <1>3, <1>4

LEMMA KeysOfUpdated ==
    ASSUME NEW auto \in BOOLEAN, NEW keyed \in BOOLEAN, NEW d, SqlFor(auto, d), SqlKeys(keyed, d),
           NEW r
    PROVE  SqlKeys(keyed, SqlUpdate(d, r))
<1>1. CASE ~UpdateSucceeds(d, r)
  BY <1>1 DEF SqlUpdate
<1>2. CASE UpdateSucceeds(d, r)
  <2> DEFINE M == Matching(d, r)
             e == SqlUpdate(d, r)
             R == d.rows \ M
             U == {Updated(d, r, s) : s \in M}
  <2>1. d \in SqlTable /\ M \subseteq d.rows /\ IsFiniteSet(M)
    BY FS_Subset DEF SqlFor, Matching
  <2>2. e.rows = R \cup U /\ e.pk = d.pk
    BY <1>2, <2>1, UpdatedRows
  <2>3. \A s \in M : /\ Updated(d, r, s).rid = IF d.pk = "id" THEN r.id ELSE s.rid
                     /\ Updated(d, r, s).key = s.key
    BY <2>1, UpdatedRow
  <2>4. d.pk = "id" => /\ \A s, u \in M : s = u
                       /\ \A s \in R : s.rid # r.id
    BY <1>2, <2>1, AtMostOne DEF UpdateSucceeds
  <2>5. \A s \in R, u \in M : s.rid # Updated(d, r, u).rid
    BY <2>1, <2>3, <2>4 DEF SqlKeys
  <2>6. \A s, u \in M : Updated(d, r, s).rid = Updated(d, r, u).rid => s = u
    BY <2>1, <2>3, <2>4 DEF SqlKeys
  <2> HIDE DEF M, e
  <2>7. \A s, u \in R \cup U : s.rid = u.rid => s = u
    BY <2>1, <2>5, <2>6 DEF SqlKeys
  <2>8. d.pk = "key" => keyed /\ \A s \in R \cup U : s.rid = s.key
    <3>1. ASSUME d.pk = "key", NEW s \in M PROVE Updated(d, r, s).rid = Updated(d, r, s).key
      BY <2>1, <2>3, <3>1 DEF SqlKeys
    <3> QED
      BY <3>1 DEF SqlKeys
  <2> HIDE DEF R, U
  <2>9. SqlKeys(keyed, e)
    BY <2>2, <2>7, <2>8 DEF SqlKeys
  <2> QED
    BY <2>9 DEF e
<1> QED
  BY <1>1, <1>2

-----------------------------------------------------------------------------
(* Pairings of the rows in memory with the rows in the database.           *)

\* f gives each row of t its row in the SQL table d.
Paired(f, t, d) ==
    /\ f \in [DOMAIN t -> d.rows]
    /\ \A i, j \in DOMAIN t : f[i] = f[j] => i = j
    /\ \A s \in d.rows : \E i \in DOMAIN t : f[i] = s
    /\ \A i \in DOMAIN t : Image(f[i]) = Stored(t[i])

LEMMA PairedFields ==
    ASSUME NEW f, NEW t, NEW d, Paired(f, t, d), NEW i \in DOMAIN t
    PROVE  /\ f[i] \in d.rows
           /\ f[i].id = t[i].id /\ f[i].key = Sql(t[i].key) /\ f[i].val = Sql(t[i].val)
BY DEF Paired, Image, Stored

LEMMA PairedEmpty ==
    ASSUME NEW d, d.rows = {}
    PROVE  \E f : Paired(f, <<>>, d)
<1> DEFINE f == [i \in {} |-> {}]
<1>1. DOMAIN <<>> = {}
  OBVIOUS
<1>2. Paired(f, <<>>, d)
  BY <1>1 DEF Paired
<1> QED
  BY <1>2

LEMMA PairedAppend ==
    ASSUME NEW f, NEW t \in Seq(Row), NEW d, Paired(f, t, d), NEW r, NEW n, NEW e,
           r \in Row, n \notin d.rows, e.rows = d.rows \cup {n}, Image(n) = Stored(r)
    PROVE  \E g : Paired(g, Append(t, r), e)
<1> DEFINE u == Append(t, r)
           g == [i \in DOMAIN u |-> IF i = Len(t) + 1 THEN n ELSE f[i]]
<1>1. /\ Len(t) \in Nat /\ DOMAIN u = 1 .. Len(t) + 1 /\ DOMAIN t = 1 .. Len(t)
      /\ \A i \in 1 .. Len(t) : u[i] = t[i]
      /\ u[Len(t) + 1] = r
  BY AppendProperties, LenProperties
<1> HIDE DEF u
<1>2. \A i \in DOMAIN u : i = Len(t) + 1 \/ (i \in DOMAIN t /\ i # Len(t) + 1)
  BY <1>1
<1>3. \A i \in DOMAIN t : i \in DOMAIN u /\ i # Len(t) + 1
  BY <1>1
<1>4. \A i \in DOMAIN t : g[i] = f[i] /\ f[i] \in d.rows
  BY <1>3 DEF Paired
<1>5. Len(t) + 1 \in DOMAIN u /\ g[Len(t) + 1] = n
  BY <1>1
<1>6. g \in [DOMAIN u -> e.rows]
  BY <1>2, <1>4, <1>5
<1> HIDE DEF g
<1>7. \A i, j \in DOMAIN u : g[i] = g[j] => i = j
  BY <1>2, <1>4, <1>5 DEF Paired
<1>8. \A s \in e.rows : \E i \in DOMAIN u : g[i] = s
  <2>1. \A s \in d.rows : \E i \in DOMAIN u : g[i] = s
    BY <1>3, <1>4 DEF Paired
  <2> QED
    BY <1>5, <2>1
<1>9. \A i \in DOMAIN u : Image(g[i]) = Stored(u[i])
  <2>1. \A i \in DOMAIN t : Image(g[i]) = Stored(u[i])
    BY <1>1, <1>4 DEF Paired
  <2> QED
    BY <1>1, <1>2, <1>5, <2>1
<1>10. Paired(g, u, e)
  BY <1>6, <1>7, <1>8, <1>9 DEF Paired
<1> QED
  BY <1>10 DEF u

LEMMA PairedReplace ==
    ASSUME NEW f, NEW t \in Seq(Row), NEW d, Paired(f, t, d), NEW at \in DOMAIN t,
           NEW r, NEW n, NEW e,
           n \notin d.rows \ {f[at]}, e.rows = (d.rows \ {f[at]}) \cup {n}, Image(n) = Stored(r)
    PROVE  \E g : Paired(g, [t EXCEPT ![at] = r], e)
<1> DEFINE u == [t EXCEPT ![at] = r]
           g == [i \in DOMAIN u |-> IF i = at THEN n ELSE f[i]]
<1>1. DOMAIN u = DOMAIN t /\ u[at] = r /\ \A i \in DOMAIN t : i # at => u[i] = t[i]
  OBVIOUS
<1>2. \A i \in DOMAIN t : i # at => f[i] \in d.rows \ {f[at]}
  BY DEF Paired
<1> HIDE DEF u
<1>3. g[at] = n /\ \A i \in DOMAIN t : i # at => g[i] = f[i]
  BY <1>1
<1>4. g \in [DOMAIN u -> e.rows]
  BY <1>1, <1>2
<1> HIDE DEF g
<1>5. \A i, j \in DOMAIN u : g[i] = g[j] => i = j
  BY <1>1, <1>2, <1>3 DEF Paired
<1>6. \A s \in e.rows : \E i \in DOMAIN u : g[i] = s
  <2>1. \A s \in d.rows \ {f[at]} : \E i \in DOMAIN u : g[i] = s
    BY <1>1, <1>3 DEF Paired
  <2> QED
    BY <1>1, <1>3, <2>1
<1>7. \A i \in DOMAIN u : Image(g[i]) = Stored(u[i])
  BY <1>1, <1>3 DEF Paired
<1>8. Paired(g, u, e)
  BY <1>4, <1>5, <1>6, <1>7 DEF Paired
<1> QED
  BY <1>8 DEF u

\* What fetch loads is paired with what it read: an integer is stored as it is.
LEMMA PairedSelected ==
    ASSUME TableAssumption, NEW auto \in BOOLEAN, NEW d, SqlFor(auto, d), NEW t \in Selected(d)
    PROVE  \E f : Paired(f, t, d)
<1> DEFINE n == Cardinality(d.rows)
<1>1. n \in Nat /\ IsFiniteSet(d.rows) /\ d.rows \subseteq SqlRow
  BY FS_CardinalityType DEF SqlFor, SqlTable
<1>2. PICK f \in [1 .. n -> d.rows] :
          /\ \A i, j \in 1 .. n : i < j => f[i].rid < f[j].rid
          /\ t = [i \in 1 .. n |-> [id |-> f[i].id, key |-> f[i].key, val |-> f[i].val]]
  BY DEF Selected
<1>3. \A i \in 1 .. n : f[i] \in SqlRow
  BY <1>1
<1>4. \A i, j \in 1 .. n : f[i] = f[j] => i = j
  <2> SUFFICES ASSUME NEW i \in 1 .. n, NEW j \in 1 .. n, f[i] = f[j] PROVE i = j
    OBVIOUS
  <2>1. f[i].rid \in Int
    BY <1>3 DEF SqlRow
  <2>2. ~(i < j) /\ ~(j < i)
    BY <1>2, <2>1
  <2> QED
    BY <1>1, <2>2
<1>5. f \in Surjection(1 .. n, d.rows)
  <2>1. f \in Injection(1 .. n, d.rows)
    BY <1>4 DEF Injection, IsInjective
  <2>2. Cardinality(1 .. n) = n
    <3> HIDE DEF n
    <3> QED
      BY <1>1, FS_Interval
  <2> QED
    BY <1>1, <2>1, <2>2, FS_Injection
<1>6. \A s \in d.rows : \E i \in 1 .. n : f[i] = s
  BY <1>5 DEF Surjection
<1>7. \A i \in 1 .. n : Image(f[i]) = Stored(t[i])
  <2> SUFFICES ASSUME NEW i \in 1 .. n PROVE Image(f[i]) = Stored(t[i])
    OBVIOUS
  <2>1. t[i].id = f[i].id /\ t[i].key = f[i].key /\ t[i].val = f[i].val
    BY <1>2
  <2>2. Sql(f[i].key) = f[i].key /\ Sql(f[i].val) = f[i].val
    BY <1>3 DEF SqlRow, Sql, TableAssumption
  <2> QED
    BY <2>1, <2>2 DEF Image, Stored
<1> HIDE DEF n
<1>8. DOMAIN t = 1 .. n
  BY <1>2
<1>9. Paired(f, t, d)
  BY <1>4, <1>6, <1>7, <1>8 DEF Paired
<1> QED
  BY <1>9

\* Paired tables have the same rows, and as many.
LEMMA PairedMirrors ==
    ASSUME NEW f, NEW t \in Seq(Row), NEW d, Paired(f, t, d)
    PROVE  /\ {Stored(t[i]) : i \in DOMAIN t} = {Image(s) : s \in d.rows}
           /\ Len(t) = Cardinality(d.rows)
<1>1. DOMAIN t = 1 .. Len(t) /\ Len(t) \in Nat
  BY LenProperties
<1>2. {Stored(t[i]) : i \in DOMAIN t} = {Image(s) : s \in d.rows}
  BY DEF Paired
<1>3. f \in Bijection(1 .. Len(t), d.rows)
  <2>1. f \in Injection(1 .. Len(t), d.rows)
    BY <1>1 DEF Paired, Injection, IsInjective
  <2>2. f \in Surjection(1 .. Len(t), d.rows)
    BY <1>1 DEF Paired, Surjection
  <2> QED
    BY <2>1, <2>2 DEF Bijection
<1>4. IsFiniteSet(1 .. Len(t)) /\ Cardinality(1 .. Len(t)) = Len(t)
  BY <1>1, FS_Interval
<1>5. Cardinality(d.rows) = Len(t)
  BY <1>3, <1>4, FS_Bijection DEF ExistsBijection
<1> QED
  BY <1>2, <1>5

-----------------------------------------------------------------------------
(* The inductive invariant.                                                *)

Mirrors == /\ bound /\ conn.exists
           /\ \E f : Paired(f, rows, conn)

MirrorInv ==
    /\ SqlKeys(Keyed, conn) /\ SqlKeys(Keyed, disk)
    /\ mirrored => Mirrors

LEMMA MirrorImplies == IInv /\ MirrorInv => MemoryMirrorsDatabase
<1> SUFFICES ASSUME IInv, MirrorInv, mirrored PROVE MemoryMirrorsDatabase
  BY DEF MemoryMirrorsDatabase
<1>1. bound /\ conn.exists
  BY DEF MirrorInv, Mirrors
<1>2. PICK f : Paired(f, rows, conn)
  BY DEF MirrorInv, Mirrors
<1>3. rows \in Seq(Row)
  BY DEF IInv, RowsFor
<1> QED
  BY <1>1, <1>2, <1>3, PairedMirrors DEF MemoryMirrorsDatabase

LEMMA KeyedBoolean == Keyed \in BOOLEAN
BY DEF Keyed

LEMMA SqlTypes == ASSUME IInv PROVE conn \in SqlTable /\ disk \in SqlTable
BY DEF IInv, SqlFor

LEMMA MirrorInit == Init => MirrorInv
BY KeysOfNone, KeyedBoolean DEF Init, MirrorInv

\* What has to be shown of a step.
LEMMA MirrorStep ==
    ASSUME MirrorInv, UNCHANGED program, SqlKeys(Keyed, conn'), SqlKeys(Keyed, disk'),
           mirrored' => Mirrors'
    PROVE  MirrorInv'
BY DEF MirrorInv, program, Keyed

LEMMA ExecuteKeys ==
    ASSUME MirrorInv, NEW d, SqlKeys(Keyed, d), Execute(d)
    PROVE  SqlKeys(Keyed, conn') /\ SqlKeys(Keyed, disk')
BY DEF MirrorInv, Execute

\* A step that leaves both tables as they are.
LEMMA MirrorStays ==
    ASSUME MirrorInv, UNCHANGED <<program, rows, bound, conn, disk>>, mirrored' => mirrored
    PROVE  MirrorInv'
<1>1. mirrored' => Mirrors'
  BY DEF MirrorInv, Mirrors
<1> QED
  BY <1>1, MirrorStep DEF MirrorInv

-----------------------------------------------------------------------------
(* insert and save.                                                        *)

\* The INSERT of a row whose id is fresh, and whose key is if the column is
\* a primary key, does not fail.
LEMMA FreshInsertSucceeds ==
    ASSUME IInv, MirrorInv, mirrored, NEW r \in Row,
           HasAuto => Fresh(r.id, rows),
           Keyed => \A i \in DOMAIN rows : Sql(rows[i].key) # Sql(r.key)
    PROVE  InsertSucceeds(conn, r)
<1>1. conn.exists /\ conn \in SqlTable /\ SqlFor(HasAuto, conn)
  BY DEF MirrorInv, Mirrors, IInv, SqlFor
<1>2. PICK f : Paired(f, rows, conn)
  BY DEF MirrorInv, Mirrors
<1>3. \A i \in DOMAIN rows : rows[i].id \in Nat
  <2>1. rows \in Seq(Row)
    BY DEF IInv, RowsFor
  <2>2. \A i \in DOMAIN rows : rows[i] \in Row
    BY <2>1, ElementOfSeq, LenProperties
  <2> QED
    BY <2>2 DEF Row
<1>4. ASSUME NEW s \in conn.rows PROVE s.rid # RowId(conn, r)
  <2>1. PICK i \in DOMAIN rows : f[i] = s
    BY <1>2 DEF Paired
  <2>2. s.id = rows[i].id /\ s.key = Sql(rows[i].key)
    BY <1>2, <2>1, PairedFields
  <2>3. CASE conn.pk = "id"
    <3>1. HasAuto /\ s.rid = s.id
      BY <1>1, <2>3 DEF SqlFor
    <3>2. rows[i].id # r.id
      BY <1>3, <2>1, <3>1 DEF Fresh
    <3>3. RowId(conn, r) = r.id
      BY <2>3 DEF RowId
    <3> QED
      BY <2>2, <3>1, <3>2, <3>3
  <2>4. CASE conn.pk = "key"
    <3>1. Keyed /\ s.rid = s.key
      BY <2>4 DEF MirrorInv, SqlKeys
    <3>2. RowId(conn, r) = Sql(r.key)
      BY <2>4 DEF RowId
    <3> QED
      BY <2>1, <2>2, <3>1, <3>2
  <2>5. CASE conn.pk = "none"
    <3> DEFINE S == Rids(conn) \cup {0}
    <3>1. IsFiniteSet(S) /\ S \subseteq Int /\ S # {} /\ s.rid \in S
      <4>1. IsFiniteSet(Rids(conn)) /\ Rids(conn) \subseteq Int
        BY <1>1, RidsFinite, AutoBoolean
      <4>2. IsFiniteSet(S)
        BY <4>1, FS_AddElement
      <4>3. s.rid \in Rids(conn)
        BY DEF Rids
      <4> QED
        BY <4>1, <4>2, <4>3
    <3>2. RowId(conn, r) = 1 + Max(S)
      BY <2>5 DEF RowId, Max0
    <3> HIDE DEF S
    <3>3. Max(S) \in Int /\ Max(S) >= s.rid /\ s.rid \in Int
      BY <3>1, MaxIsGreatest
    <3> QED
      BY <3>2, <3>3
  <2> QED
    BY <1>1, <2>3, <2>4, <2>5 DEF SqlTable
<1> QED
  BY <1>1, <1>4 DEF InsertSucceeds, Rids

LEMMA PushMirrors ==
    ASSUME TableAssumption, IInv, MirrorInv, Operation, NEW r \in Row, Push(r), UNCHANGED bound,
           mirrored' => /\ mirrored
                        /\ HasAuto => Fresh(r.id, rows)
                        /\ Keyed => \A i \in DOMAIN rows : Sql(rows[i].key) # Sql(r.key)
    PROVE  MirrorInv'
<1> DEFINE d == IF bound THEN SqlInsert(conn, r) ELSE conn
<1>1. rows' = Append(rows, r) /\ Execute(d) /\ conn' = d
  BY DEF Push, Execute
<1>2. SqlKeys(Keyed, d)
  BY KeysOfInserted, KeyedBoolean, SqlTypes DEF MirrorInv
<1>3. ASSUME mirrored' PROVE Mirrors'
  <2>1. InsertSucceeds(conn, r)
    BY <1>3, FreshInsertSucceeds
  <2>2. bound /\ conn.exists
    BY <1>3 DEF MirrorInv, Mirrors
  <2>3. PICK f : Paired(f, rows, conn)
    BY <1>3 DEF MirrorInv, Mirrors
  <2>4. /\ conn'.rows = conn.rows \cup {Record(conn, r)} /\ conn'.exists
        /\ Record(conn, r) \notin conn.rows
    BY <1>1, <2>1, <2>2, InsertedRow, SqlTypes
  <2>5. Image(Record(conn, r)) = Stored(r)
    BY DEF Image, Record, Stored
  <2>6. rows \in Seq(Row)
    BY DEF IInv, RowsFor
  <2>7. \E g : Paired(g, Append(rows, r), conn')
    BY <2>3, <2>4, <2>5, <2>6, PairedAppend
  <2> QED
    BY <1>1, <2>2, <2>4, <2>7 DEF Mirrors
<1> HIDE DEF d
<1>4. SqlKeys(Keyed, conn') /\ SqlKeys(Keyed, disk')
  BY <1>1, <1>2, ExecuteKeys
<1> QED
  BY <1>3, <1>4, OperationFacts, MirrorStep

LEMMA InsertMirrors ==
    ASSUME TableAssumption, IInv, MirrorInv, NEW k \in Cell, NEW v \in Cell, Insert(k, v)
    PROVE  MirrorInv'
<1> DEFINE r == NewRow(k, v)
<1>1. r \in Row /\ (HasAuto => Fresh(r.id, rows))
  BY NewRowFacts
<1>2. r.key = k
  BY DEF NewRow
<1>3. Operation /\ Push(r) /\ UNCHANGED bound
  BY DEF Insert
<1>4. mirrored' => mirrored /\ (Keyed => \A i \in DOMAIN rows : Sql(rows[i].key) # Sql(k))
  BY DEF Insert, Alike
<1> HIDE DEF r
<1> QED
  BY <1>1, <1>2, <1>3, <1>4, PushMirrors

LEMMA LeastExists ==
    ASSUME NEW S, IsFiniteSet(S), S \subseteq Int, S # {}
    PROVE  Min(S) \in S
<1> DEFINE f == [x \in S |-> 0 - x]
           T == {f[x] : x \in S}
<1>1. IsFiniteSet(T)
  <2>1. DOMAIN f = S
    OBVIOUS
  <2> HIDE DEF f
  <2> QED
    BY <2>1, ImageFinite
<1>2. T \subseteq Int /\ T # {}
  <2>1. \A x \in S : f[x] \in Int
    OBVIOUS
  <2> HIDE DEF f
  <2> QED
    BY <2>1
<1>3. PICK m \in T : \A y \in T : m >= y
  <2> HIDE DEF T
  <2> QED
    BY <1>1, <1>2, GreatestExists
<1>4. PICK x \in S : m = f[x]
  BY <1>3
<1>5. \A y \in S : x <= y
  <2> SUFFICES ASSUME NEW y \in S PROVE x <= y
    OBVIOUS
  <2>1. f[y] \in T /\ f[y] = 0 - y /\ f[x] = 0 - x
    OBVIOUS
  <2>2. f[x] >= f[y]
    BY <1>3, <1>4, <2>1
  <2>3. x \in Int /\ y \in Int
    OBVIOUS
  <2> HIDE DEF f, T
  <2>4. 0 - x >= 0 - y
    BY <2>1, <2>2
  <2> QED
    BY <2>3, <2>4
<1> QED
  BY <1>5 DEF Min

LEMMA FirstWithFacts ==
    ASSUME rows \in Seq(Row), NEW k
    PROVE  /\ FirstWith(k) # 0 => FirstWith(k) \in DOMAIN rows /\ rows[FirstWith(k)].key = k
           /\ FirstWith(k) = 0 => \A i \in DOMAIN rows : rows[i].key # k
<1> DEFINE I == {i \in 1 .. Len(rows) : rows[i].key = k}
<1>1. FirstWith(k) = IF I # {} THEN Min(I) ELSE 0
  BY DEF FirstWith, SelectInSeq
<1>2. DOMAIN rows = 1 .. Len(rows) /\ Len(rows) \in Nat
  BY LenProperties
<1>3. IsFiniteSet(I) /\ I \subseteq Int
  <2>1. IsFiniteSet(1 .. Len(rows))
    BY <1>2, FS_Interval
  <2> QED
    BY <2>1, FS_Subset
<1>4. I # {} => Min(I) \in I
  <2> HIDE DEF I
  <2> QED
    BY <1>3, LeastExists
<1>5. CASE I = {}
  BY <1>1, <1>2, <1>5
<1>6. CASE I # {}
  BY <1>1, <1>2, <1>4, <1>6
<1> QED
  BY <1>5, <1>6

\* The UPDATE for the only row of its key finds that row and no other, and
\* the id it gives the row is free.
LEMMA ReplaceMirrors ==
    ASSUME IInv, MirrorInv, mirrored, NEW at \in DOMAIN rows, NEW r \in Row,
           HasAuto => Fresh(r.id, rows),
           \A i \in DOMAIN rows : Sql(rows[i].key) = Sql(r.key) <=> i = at
    PROVE  /\ SqlUpdate(conn, r).exists
           /\ \E g : Paired(g, [rows EXCEPT ![at] = r], SqlUpdate(conn, r))
<1>1. conn.exists /\ conn \in SqlTable /\ SqlFor(HasAuto, conn) /\ SqlKeys(Keyed, conn)
  BY DEF MirrorInv, Mirrors, IInv, SqlFor
<1>2. PICK f : Paired(f, rows, conn)
  BY DEF MirrorInv, Mirrors
<1>3. rows \in Seq(Row)
  BY DEF IInv, RowsFor
<1>4. \A i \in DOMAIN rows : rows[i].id \in Nat
  <2>1. \A i \in DOMAIN rows : rows[i] \in Row
    BY <1>3, ElementOfSeq, LenProperties
  <2> QED
    BY <2>1 DEF Row
<1>5. \A i \in DOMAIN rows : f[i] \in conn.rows /\ f[i].id = rows[i].id /\ f[i].key = Sql(rows[i].key)
  BY <1>2, PairedFields
<1>6. \A s \in conn.rows : \E i \in DOMAIN rows : f[i] = s
  BY <1>2 DEF Paired
<1>7. Matching(conn, r) = {f[at]}
  BY <1>5, <1>6 DEF Matching
<1>8. conn.pk = "id" => \A s \in conn.rows : s.rid # r.id
  <2> SUFFICES ASSUME conn.pk = "id", NEW s \in conn.rows PROVE s.rid # r.id
    OBVIOUS
  <2>1. HasAuto /\ s.rid = s.id
    BY <1>1 DEF SqlFor
  <2>2. PICK i \in DOMAIN rows : f[i] = s
    BY <1>6
  <2> QED
    BY <1>4, <1>5, <2>1, <2>2 DEF Fresh
<1>9. UpdateSucceeds(conn, r)
  <2>1. Cardinality(Matching(conn, r)) = 1
    BY <1>7, FS_Singleton
  <2> QED
    BY <1>1, <1>8, <2>1 DEF UpdateSucceeds
<1> DEFINE n == Updated(conn, r, f[at])
           e == SqlUpdate(conn, r)
<1>10. e.rows = (conn.rows \ {f[at]}) \cup {n} /\ e.exists
  BY <1>1, <1>7, <1>9, UpdatedRows
<1>11. /\ n.rid = IF conn.pk = "id" THEN r.id ELSE f[at].rid
       /\ n.id = r.id /\ n.key = f[at].key /\ n.val = Sql(r.val)
  BY <1>1, <1>5, UpdatedRow
<1>12. Image(n) = Stored(r)
  BY <1>5, <1>11 DEF Image, Stored
<1>13. n \notin conn.rows \ {f[at]}
  BY <1>1, <1>5, <1>8, <1>11 DEF SqlKeys
<1> HIDE DEF n, e
<1>14. \E g : Paired(g, [rows EXCEPT ![at] = r], e)
  BY <1>2, <1>3, <1>10, <1>12, <1>13, PairedReplace
<1> QED
  BY <1>10, <1>14 DEF e

LEMMA SaveMirrors ==
    ASSUME TableAssumption, IInv, MirrorInv, NEW k \in Cell, NEW v \in Cell, Save(k, v)
    PROVE  MirrorInv'
<1> DEFINE r == NewRow(k, v)
           at == FirstWith(k)
<1>1. r \in Row /\ (HasAuto => Fresh(r.id, rows)) /\ r.key = k
  BY NewRowFacts DEF NewRow
<1>2. Operation /\ UNCHANGED bound
  BY DEF Save
<1>3. rows \in Seq(Row) /\ IsFiniteSet(DOMAIN rows)
  <2>1. rows \in Seq(Row)
    BY DEF IInv, RowsFor
  <2> QED
    BY <2>1, LenProperties, FS_Interval
<1>4. mirrored' => mirrored /\ (Keyed => /\ \A i, j \in Alike(k) : i = j
                                         /\ \A i \in Alike(k) : rows[i].key = k)
  <2>1. IsFiniteSet(Alike(k))
    BY <1>3, FS_Subset DEF Alike
  <2>2. mirrored' => mirrored /\ (Keyed => /\ Cardinality(Alike(k)) <= 1
                                           /\ \A i \in Alike(k) : rows[i].key = k)
    BY DEF Save
  <2> QED
    BY <2>1, <2>2, AtMostOne
<1>5. /\ at # 0 => at \in DOMAIN rows /\ rows[at].key = k
      /\ at = 0 => \A i \in DOMAIN rows : rows[i].key # k
  BY <1>3, FirstWithFacts
<1>6. \/ /\ Keyed /\ at # 0
         /\ rows' = ReplaceAt(rows, at, r)
         /\ Execute(IF bound THEN SqlUpdate(conn, r) ELSE conn)
      \/ ~(Keyed /\ at # 0) /\ Push(r)
  BY DEF Save
<1> HIDE DEF r, at
<1>7. CASE ~(Keyed /\ at # 0) /\ Push(r)
  <2>1. mirrored' /\ Keyed => \A i \in DOMAIN rows : Sql(rows[i].key) # Sql(k)
    BY <1>4, <1>5, <1>7 DEF Alike
  <2> QED
    BY <1>1, <1>2, <1>4, <1>7, <2>1, PushMirrors
<1>8. CASE /\ Keyed /\ at # 0
           /\ rows' = ReplaceAt(rows, at, r)
           /\ Execute(IF bound THEN SqlUpdate(conn, r) ELSE conn)
  <2> DEFINE d == IF bound THEN SqlUpdate(conn, r) ELSE conn
  <2>1. SqlKeys(Keyed, d)
    BY KeysOfUpdated, KeyedBoolean, AutoBoolean DEF MirrorInv, IInv
  <2>2. Execute(d) /\ conn' = d
    BY <1>8 DEF Execute
  <2>3. ASSUME mirrored' PROVE Mirrors'
    <3>1. bound /\ conn' = SqlUpdate(conn, r)
      BY <1>4, <2>2, <2>3 DEF MirrorInv, Mirrors
    <3>2. at \in DOMAIN rows /\ \A i \in DOMAIN rows : Sql(rows[i].key) = Sql(k) <=> i = at
      BY <1>4, <1>5, <1>8, <2>3 DEF Alike
    <3>3. /\ SqlUpdate(conn, r).exists
          /\ \E g : Paired(g, [rows EXCEPT ![at] = r], SqlUpdate(conn, r))
      BY <1>1, <1>4, <2>3, <3>2, ReplaceMirrors
    <3>4. rows' = [rows EXCEPT ![at] = r]
      BY <1>8 DEF ReplaceAt
    <3> QED
      BY <1>2, <3>1, <3>3, <3>4 DEF Mirrors
  <2> HIDE DEF d
  <2>4. SqlKeys(Keyed, conn') /\ SqlKeys(Keyed, disk')
    BY <2>1, <2>2, ExecuteKeys
  <2> QED
    BY <1>2, <2>3, <2>4, OperationFacts, MirrorStep
<1> QED
  BY <1>6, <1>7, <1>8

-----------------------------------------------------------------------------
(* The other operations: what sets memory and database apart ends the      *)
(* history in which they agree, and what begins one finds them equal.      *)

LEMMA InMemoryMirrors ==
    ASSUME TableAssumption, IInv, MirrorInv, Operation, NEW t, InMemory(t)
    PROVE  MirrorInv'
<1>1. /\ UNCHANGED <<program, bound, conn, disk>>
      /\ mirrored' => mirrored /\ rows' = rows
  BY OperationFacts DEF InMemory, store
<1>2. mirrored' => Mirrors'
  BY <1>1 DEF MirrorInv, Mirrors
<1> QED
  BY <1>1, <1>2, MirrorStep DEF MirrorInv

LEMMA FetchMirrors ==
    ASSUME TableAssumption, IInv, MirrorInv, Fetch
    PROVE  MirrorInv'
<1>1. /\ Operation /\ bound /\ conn.exists /\ rows' \in Selected(conn)
      /\ UNCHANGED <<bound, conn, disk>>
  BY DEF Fetch, store
<1>2. \E f : Paired(f, rows', conn)
  BY <1>1, PairedSelected, AutoBoolean DEF IInv
<1>3. Mirrors'
  BY <1>1, <1>2 DEF Mirrors
<1> QED
  BY <1>1, <1>3, OperationFacts, MirrorStep DEF MirrorInv

LEMMA InSqlMirrors ==
    ASSUME TableAssumption, IInv, MirrorInv, Operation, NEW d, SqlKeys(Keyed, d), InSql(d)
    PROVE  MirrorInv'
<1>1. /\ Execute(d) /\ conn' = d /\ UNCHANGED <<rows, bound>>
      /\ mirrored' => mirrored /\ d = conn
  BY DEF InSql, Execute
<1>2. SqlKeys(Keyed, conn') /\ SqlKeys(Keyed, disk')
  BY <1>1, ExecuteKeys
<1>3. mirrored' => Mirrors'
  BY <1>1 DEF MirrorInv, Mirrors
<1> QED
  BY <1>2, <1>3, OperationFacts, MirrorStep

LEMMA DeletingMirrors ==
    ASSUME TableAssumption, IInv, MirrorInv, Operation, NEW R, R \subseteq conn.rows,
           InSql([conn EXCEPT !.rows = R])
    PROVE  MirrorInv'
<1>1. SqlKeys(Keyed, [conn EXCEPT !.rows = R])
  BY KeysOfFewer, KeyedBoolean, SqlTypes DEF MirrorInv
<1> QED
  BY <1>1, InSqlMirrors

LEMMA RemoveWhereMirrors ==
    ASSUME TableAssumption, IInv, MirrorInv, NEW p, RemoveWhere(p)
    PROVE  MirrorInv'
<1> DEFINE R == {s \in conn.rows : ~SqlSelects(translate_filter_to_sql(p), s)}
<1>1. Operation /\ InSql([conn EXCEPT !.rows = R]) /\ R \subseteq conn.rows
  BY DEF RemoveWhere
<1> HIDE DEF R
<1> QED
  BY <1>1, DeletingMirrors

LEMMA ExecDeleteMirrors ==
    ASSUME TableAssumption, IInv, MirrorInv, NEW k, ExecDelete(k)
    PROVE  MirrorInv'
<1> DEFINE R == {s \in conn.rows : s.key # k}
<1>1. Operation /\ InSql([conn EXCEPT !.rows = R]) /\ R \subseteq conn.rows
  BY DEF ExecDelete
<1> HIDE DEF R
<1> QED
  BY <1>1, DeletingMirrors

LEMMA TruncateMirrors ==
    ASSUME TableAssumption, IInv, MirrorInv, Truncate
    PROVE  MirrorInv'
BY DeletingMirrors DEF Truncate

LEMMA DropMirrors ==
    ASSUME TableAssumption, IInv, MirrorInv, Drop
    PROVE  MirrorInv'
BY KeysOfNone, KeyedBoolean, InSqlMirrors DEF Drop

LEMMA ExecInsertMirrors ==
    ASSUME TableAssumption, IInv, MirrorInv, NEW k, NEW v, ExecInsert(k, v)
    PROVE  MirrorInv'
<1> DEFINE r == [id |-> IF conn.pk = "id" THEN 1 + Max({conn.seq} \cup Rids(conn)) ELSE 0,
                 key |-> k, val |-> v]
<1>1. Operation /\ InSql(SqlInsert(conn, r))
  BY DEF ExecInsert
<1> HIDE DEF r
<1>2. SqlKeys(Keyed, SqlInsert(conn, r))
  BY KeysOfInserted, KeyedBoolean, SqlTypes DEF MirrorInv
<1> QED
  BY <1>1, <1>2, InSqlMirrors

\* A declaration or sync() that finds both empty, or creates the table.
LEMMA CreatingMirrors ==
    ASSUME TableAssumption, IInv, MirrorInv, Operation,
           NEW pks \in SUBSET {"id", "key"}, "key" \in pks => Keyed,
           Execute(Created(conn, pks)), rows' = rows,
           mirrored' => bound' /\ (mirrored \/ Agreeing(rows, conn'))
    PROVE  MirrorInv'
<1>1. SqlKeys(Keyed, Created(conn, pks))
  BY KeysOfCreated, KeyedBoolean DEF MirrorInv
<1>2. SqlKeys(Keyed, conn') /\ SqlKeys(Keyed, disk') /\ conn' = Created(conn, pks)
  BY <1>1, ExecuteKeys DEF Execute
<1>3. ASSUME mirrored', mirrored PROVE Mirrors'
  <2>1. conn' = conn
    BY <1>2, <1>3 DEF MirrorInv, Mirrors, Created
  <2> QED
    BY <1>3, <2>1 DEF MirrorInv, Mirrors
<1>4. ASSUME mirrored', Agreeing(rows, conn') PROVE Mirrors'
  <2>1. rows' = <<>> /\ conn'.exists /\ conn'.rows = {}
    BY <1>4 DEF Agreeing
  <2> QED
    BY <1>4, <2>1, PairedEmpty DEF Mirrors
<1> QED
  BY <1>2, <1>3, <1>4, OperationFacts, MirrorStep

LEMMA SyncMirrors ==
    ASSUME TableAssumption, IInv, MirrorInv, Sync
    PROVE  MirrorInv'
<1> DEFINE pks == (IF HasAuto THEN {"id"} ELSE {}) \cup (IF Keyed THEN {"key"} ELSE {})
<1>1. pks \in SUBSET {"id", "key"} /\ ("key" \in pks => Keyed)
  OBVIOUS
<1>2. /\ Operation /\ Execute(Created(conn, pks)) /\ rows' = rows
      /\ mirrored' => bound' /\ (mirrored \/ Agreeing(rows, conn'))
  BY DEF Sync
<1> HIDE DEF pks
<1> QED
  BY <1>1, <1>2, CreatingMirrors

LEMMA DatabaseInitMirrors ==
    ASSUME TableAssumption, IInv, MirrorInv, NEW listed \in BOOLEAN, DatabaseInit(listed)
    PROVE  MirrorInv'
<1> DEFINE pks == IF HasAuto THEN {"id"} ELSE {}
<1>1. pks \in SUBSET {"id", "key"} /\ ~("key" \in pks)
  OBVIOUS
<1>2. /\ Operation /\ Execute(IF listed THEN Created(conn, pks) ELSE conn) /\ rows' = rows
      /\ mirrored' => listed /\ bound' /\ Agreeing(rows, conn')
  BY DEF DatabaseInit
<1> HIDE DEF pks
<1>3. CASE listed
  BY <1>1, <1>2, <1>3, CreatingMirrors
<1>4. CASE ~listed
  <2>1. SqlKeys(Keyed, conn') /\ SqlKeys(Keyed, disk')
    <3>1. SqlKeys(Keyed, conn) /\ Execute(conn)
      BY <1>2, <1>4 DEF MirrorInv
    <3> QED
      BY <3>1, ExecuteKeys
  <2> QED
    BY <1>2, <1>4, <2>1, OperationFacts, MirrorStep
<1> QED
  BY <1>3, <1>4

LEMMA TransactionMirrors ==
    ASSUME TableAssumption, IInv, MirrorInv, Begin \/ Commit \/ Rollback
    PROVE  MirrorInv'
<1>1. Operation /\ UNCHANGED <<rows, bound>>
  BY DEF Begin, Commit, Rollback
<1>2. SqlKeys(Keyed, conn') /\ SqlKeys(Keyed, disk')
  BY DEF Begin, Commit, Rollback, MirrorInv
<1>3. mirrored' => mirrored /\ conn' = conn
  BY DEF Begin, Commit, Rollback
<1>4. mirrored' => Mirrors'
  BY <1>1, <1>3 DEF MirrorInv, Mirrors
<1> QED
  BY <1>1, <1>2, <1>4, OperationFacts, MirrorStep

LEMMA RestartMirrors ==
    ASSUME MirrorInv, Restart
    PROVE  MirrorInv'
<1>1. /\ UNCHANGED program /\ ~mirrored' /\ conn' = disk /\ disk' = disk
  BY DEF Restart
<1> QED
  BY <1>1, MirrorStep DEF MirrorInv

LEMMA WhereMirrors ==
    ASSUME TableAssumption, IInv, MirrorInv,
           (\E p : WhereBegin(p)) \/ WhereRead \/ WhereCopy \/ WhereEnd
    PROVE  MirrorInv'
<1>1. UNCHANGED <<program, rows, bound, store, mirrored>>
  BY OperationFacts DEF WhereBegin, WhereRead, WhereCopy, WhereEnd, InScan
<1> QED
  BY <1>1, MirrorStays DEF store

LEMMA MirrorNext == TableAssumption /\ IInv /\ MirrorInv /\ [Next]_vars => MirrorInv'
<1> SUFFICES ASSUME TableAssumption, IInv, MirrorInv, [Next]_vars PROVE MirrorInv'
  OBVIOUS
<1>1. Key \subseteq Cell /\ Val \subseteq Cell /\ Missing \in Cell
  BY DEF TableAssumption, Cell
<1>2. CASE TableMethod
  <2>1. ASSUME NEW k \in Cell, NEW v \in Cell, Insert(k, v) \/ Save(k, v) PROVE MirrorInv'
    BY <2>1, InsertMirrors, SaveMirrors
  <2>2. ASSUME NEW i, Delete(i) PROVE MirrorInv'
    BY <2>2, InMemoryMirrors DEF Delete
  <2>3. ASSUME NEW i, NEW k, NEW v, Update(i, k, v) PROVE MirrorInv'
    BY <2>3, InMemoryMirrors DEF Update
  <2>4. CASE Clear \/ Fetch
    BY <2>4, InMemoryMirrors, FetchMirrors DEF Clear
  <2>5. CASE (\E p : WhereBegin(p)) \/ WhereRead \/ WhereCopy \/ WhereEnd
    BY <2>5, WhereMirrors
  <2> QED
    BY <1>1, <1>2, <2>1, <2>2, <2>3, <2>4, <2>5 DEF TableMethod
<1>3. CASE DatabaseMethod
  <2>1. ASSUME NEW listed \in BOOLEAN, DatabaseInit(listed) PROVE MirrorInv'
    BY <2>1, DatabaseInitMirrors
  <2>2. ASSUME NEW p, RemoveWhere(p) PROVE MirrorInv'
    BY <2>2, RemoveWhereMirrors
  <2>3. ASSUME NEW k, NEW v, ExecInsert(k, v) PROVE MirrorInv'
    BY <2>3, ExecInsertMirrors
  <2>4. ASSUME NEW k, ExecDelete(k) PROVE MirrorInv'
    BY <2>4, ExecDeleteMirrors
  <2>5. CASE Sync \/ Truncate \/ Drop
    BY <2>5, SyncMirrors, TruncateMirrors, DropMirrors
  <2>6. CASE Begin \/ Commit \/ Rollback
    BY <2>6, TransactionMirrors
  <2> QED
    BY <1>3, <2>1, <2>2, <2>3, <2>4, <2>5, <2>6 DEF DatabaseMethod
<1>4. CASE Restart
  BY <1>4, RestartMirrors
<1>5. CASE UNCHANGED vars
  BY <1>5, MirrorStays DEF vars, store
<1> QED
  BY <1>2, <1>3, <1>4, <1>5 DEF Next

\* The row ids of the database are distinct and are the keys where those are
\* the primary key, and a mirrored table is paired with its database's rows.
THEOREM MirrorInvariant == Spec => []MirrorInv
<1>1. Init => MirrorInv
  BY MirrorInit
<1>2. IInv /\ MirrorInv /\ [Next]_vars => MirrorInv'
  BY MirrorNext, TableAssumption
<1> QED
  BY <1>1, <1>2, Invariant, PTL DEF Spec

\* The rows in memory (TableData::rows) are the rows in the database, as many
\* times, in any history in which the program only inserts and saves since it
\* synchronised an empty table or fetched: MethodKind::Insert and Save write
\* the same values twice, and the ids they give out are free in both.
THEOREM MemoryMirrors == Spec => []MemoryMirrorsDatabase
BY Invariant, MirrorInvariant, MirrorImplies, PTL

-----------------------------------------------------------------------------
(* where(): the rows it has kept.                                          *)

\* from gives the place in t of each row kept: those of the first n rows that
\* satisfy p, in order.
KeptFrom(from, kept, p, t, n) ==
    /\ from \in [DOMAIN kept -> {j \in 1 .. n : Holds(p, t[j])}]
    /\ \A i, j \in DOMAIN kept : i < j => from[i] < from[j]
    /\ \A j \in 1 .. n : Holds(p, t[j]) => \E i \in DOMAIN kept : from[i] = j
    /\ \A i \in DOMAIN kept : kept[i] = t[from[i]]

Keeps(kept, p, t, n) == \E from : KeptFrom(from, kept, p, t, n)

LEMMA KeepsNone == \A p, t : Keeps(<<>>, p, t, -1) /\ Keeps(<<>>, p, t, 0)
<1> SUFFICES ASSUME NEW p, NEW t, NEW n \in {-1, 0} PROVE Keeps(<<>>, p, t, n)
  OBVIOUS
<1> DEFINE from == [i \in {} |-> 0]
<1>1. DOMAIN <<>> = {} /\ 1 .. n = {}
  OBVIOUS
<1>2. KeptFrom(from, <<>>, p, t, n)
  BY <1>1 DEF KeptFrom
<1> QED
  BY <1>2 DEF Keeps

\* Rows behind the n-th one do not matter.
LEMMA KeepsPrefix ==
    ASSUME NEW kept, NEW p, NEW t, NEW u, NEW n, Keeps(kept, p, t, n),
           \A j \in 1 .. n : u[j] = t[j]
    PROVE  Keeps(kept, p, u, n)
<1>1. PICK from : KeptFrom(from, kept, p, t, n)
  BY DEF Keeps
<1> DEFINE M == {j \in 1 .. n : Holds(p, t[j])}
<1>2. {j \in 1 .. n : Holds(p, u[j])} = M
  OBVIOUS
<1>3. from \in [DOMAIN kept -> M]
  BY <1>1 DEF KeptFrom
<1>4. \A i \in DOMAIN kept : from[i] \in 1 .. n
  BY <1>3
<1> HIDE DEF M
<1>5. \A i \in DOMAIN kept : kept[i] = u[from[i]]
  BY <1>1, <1>4 DEF KeptFrom
<1>6. \A j \in 1 .. n : Holds(p, u[j]) => \E i \in DOMAIN kept : from[i] = j
  BY <1>1 DEF KeptFrom
<1>7. \A i, j \in DOMAIN kept : i < j => from[i] < from[j]
  BY <1>1 DEF KeptFrom
<1>8. KeptFrom(from, kept, p, u, n)
  BY <1>2, <1>3, <1>5, <1>6, <1>7 DEF KeptFrom
<1> QED
  BY <1>8 DEF Keeps

LEMMA KeepsNext ==
    ASSUME NEW kept \in Seq(Row), NEW p, NEW t, NEW n \in Nat, Keeps(kept, p, t, n),
           Holds(p, t[n + 1]), t[n + 1] \in Row
    PROVE  Keeps(Append(kept, t[n + 1]), p, t, n + 1)
<1> DEFINE k == Append(kept, t[n + 1])
           M == {j \in 1 .. n + 1 : Holds(p, t[j])}
<1>1. /\ Len(kept) \in Nat /\ DOMAIN kept = 1 .. Len(kept) /\ DOMAIN k = 1 .. Len(kept) + 1
      /\ \A i \in 1 .. Len(kept) : k[i] = kept[i]
      /\ k[Len(kept) + 1] = t[n + 1]
  BY AppendProperties, LenProperties
<1>2. PICK from : KeptFrom(from, kept, p, t, n)
  BY DEF Keeps
<1> DEFINE f == [i \in DOMAIN k |-> IF i = Len(kept) + 1 THEN n + 1 ELSE from[i]]
<1>3. \A i \in DOMAIN kept : from[i] \in 1 .. n /\ Holds(p, t[from[i]])
  BY <1>2 DEF KeptFrom
<1> HIDE DEF k
<1>4. \A i \in DOMAIN k : i = Len(kept) + 1 \/ (i \in DOMAIN kept /\ i # Len(kept) + 1)
  BY <1>1
<1>5. \A i \in DOMAIN kept : i \in DOMAIN k /\ i < Len(kept) + 1 /\ f[i] = from[i] /\ k[i] = kept[i]
  BY <1>1
<1>6. Len(kept) + 1 \in DOMAIN k /\ f[Len(kept) + 1] = n + 1
  BY <1>1
<1>7. f \in [DOMAIN k -> M]
  <2>1. \A i \in DOMAIN k : (IF i = Len(kept) + 1 THEN n + 1 ELSE from[i]) \in M
    BY <1>3, <1>4
  <2> HIDE DEF M
  <2> QED
    BY <2>1
<1> HIDE DEF f
<1>8. \A i, j \in DOMAIN k : i < j => f[i] < f[j]
  <2> SUFFICES ASSUME NEW i \in DOMAIN k, NEW j \in DOMAIN k, i < j PROVE f[i] < f[j]
    OBVIOUS
  <2>1. i \in DOMAIN kept
    BY <1>1
  <2>2. CASE j \in DOMAIN kept
    BY <1>2, <1>5, <2>1, <2>2 DEF KeptFrom
  <2>3. CASE j = Len(kept) + 1
    BY <1>3, <1>5, <1>6, <2>1, <2>3
  <2> QED
    BY <1>4, <2>2, <2>3
<1>9. \A j \in 1 .. n + 1 : Holds(p, t[j]) => \E i \in DOMAIN k : f[i] = j
  <2> SUFFICES ASSUME NEW j \in 1 .. n + 1, Holds(p, t[j]) PROVE \E i \in DOMAIN k : f[i] = j
    OBVIOUS
  <2>1. CASE j = n + 1
    BY <1>6, <2>1
  <2>2. CASE j \in 1 .. n
    BY <1>2, <1>5, <2>2 DEF KeptFrom
  <2> QED
    BY <2>1, <2>2
<1>10. \A i \in DOMAIN k : k[i] = t[f[i]]
  BY <1>1, <1>2, <1>4, <1>5, <1>6 DEF KeptFrom
<1>11. KeptFrom(f, k, p, t, n + 1)
  BY <1>7, <1>8, <1>9, <1>10 DEF KeptFrom
<1> QED
  BY <1>11 DEF Keeps, k

LEMMA KeepsSkip ==
    ASSUME NEW kept, NEW p, NEW t, NEW n \in Nat, Keeps(kept, p, t, n), ~Holds(p, t[n + 1])
    PROVE  Keeps(kept, p, t, n + 1)
<1>1. PICK from : KeptFrom(from, kept, p, t, n)
  BY DEF Keeps
<1>2. {j \in 1 .. n + 1 : Holds(p, t[j])} = {j \in 1 .. n : Holds(p, t[j])}
  <2>1. \A j \in 1 .. n + 1 : j \in 1 .. n \/ j = n + 1
    OBVIOUS
  <2>2. \A j \in 1 .. n : j \in 1 .. n + 1
    OBVIOUS
  <2> QED
    BY <2>1, <2>2
<1>3. \A j \in 1 .. n + 1 : Holds(p, t[j]) => \E i \in DOMAIN kept : from[i] = j
  BY <1>1, <1>2 DEF KeptFrom
<1>4. KeptFrom(from, kept, p, t, n + 1)
  BY <1>1, <1>2, <1>3 DEF KeptFrom
<1> QED
  BY <1>4 DEF Keeps

\* The row at scan.at has been tested and not copied yet ("call").
WhereInv ==
    /\ scan.kept \in Seq(Row)
    /\ scan.shrunk => scan.touched
    /\ scan.phase = "idle" => scan.at = 0 /\ scan.kept = <<>>
    /\ ~scan.touched /\ scan.phase = "call" => (scan.match <=> Holds(scan.pred, rows[scan.at]))
    /\ ~scan.touched => Keeps(scan.kept, scan.pred, rows, scan.at - 1)

LEMMA WhereImplies == WhereInv => WhereKeepsMatches
<1> SUFFICES ASSUME WhereInv, ~scan.touched PROVE WhereKeepsMatches
  BY DEF WhereKeepsMatches
<1> DEFINE M == {j \in 1 .. scan.at - 1 : Holds(scan.pred, rows[j])}
<1>1. PICK from : KeptFrom(from, scan.kept, scan.pred, rows, scan.at - 1)
  BY DEF WhereInv, Keeps
<1>2. /\ from \in [DOMAIN scan.kept -> M]
      /\ \A i, j \in DOMAIN scan.kept : i < j => from[i] < from[j]
      /\ \A j \in M : \E i \in DOMAIN scan.kept : from[i] = j
      /\ \A i \in DOMAIN scan.kept : scan.kept[i] = rows[from[i]]
  BY <1>1 DEF KeptFrom
<1> HIDE DEF M
<1>3. \E f \in [DOMAIN scan.kept -> M] :
        /\ \A i, j \in DOMAIN scan.kept : i < j => f[i] < f[j]
        /\ \A j \in M : \E i \in DOMAIN scan.kept : f[i] = j
        /\ \A i \in DOMAIN scan.kept : scan.kept[i] = rows[f[i]]
  BY <1>2
<1> QED
  BY <1>3 DEF WhereKeepsMatches, M

LEMMA WhereIdle == ASSUME scan = Idle PROVE WhereInv
BY KeepsNone DEF Idle, WhereInv

\* No where() runs, or the rows up to the one it is at stay: whatever the
\* operation does, it has not spoiled the result.
LEMMA WhereScanStays ==
    ASSUME IInv, WhereInv, scan' = scan,
           \/ scan.phase = "idle"
           \/ scan.phase = "call" /\ \A j \in DOMAIN rows : rows'[j] = rows[j]
           \/ rows' = rows
    PROVE  WhereInv'
<1>1. /\ scan.kept' \in Seq(Row) /\ (scan.shrunk' => scan.touched')
      /\ scan.phase' = "idle" => scan.at' = 0 /\ scan.kept' = <<>>
  BY DEF WhereInv
<1>2. CASE scan.phase = "idle"
  <2>1. scan.at - 1 = -1 /\ scan.kept = <<>>
    BY <1>2 DEF WhereInv
  <2>2. Keeps(scan.kept, scan.pred, rows', scan.at - 1)
    BY <2>1, KeepsNone
  <2> QED
    BY <1>1, <1>2, <2>2 DEF WhereInv
<1>3. CASE scan.phase = "call" /\ \A j \in DOMAIN rows : rows'[j] = rows[j]
  <2>1. DOMAIN rows = 1 .. Len(rows) /\ Len(rows) \in Nat
    BY LenProperties DEF IInv, RowsFor
  <2>2. ASSUME ~scan.touched
        PROVE  /\ scan.at \in DOMAIN rows
               /\ \A j \in 1 .. scan.at - 1 : j \in DOMAIN rows
    BY <1>3, <2>1, <2>2 DEF WhereInv, IInv, ScanFits
  <2>3. ASSUME ~scan.touched
        PROVE  Keeps(scan.kept, scan.pred, rows', scan.at - 1)
    <3>1. \A j \in 1 .. scan.at - 1 : rows'[j] = rows[j]
      BY <1>3, <2>2, <2>3
    <3> QED
      BY <2>3, <3>1, KeepsPrefix DEF WhereInv
  <2>4. ~scan.touched => (scan.match <=> Holds(scan.pred, rows'[scan.at]))
    BY <1>3, <2>2 DEF WhereInv
  <2> QED
    BY <1>1, <2>3, <2>4 DEF WhereInv
<1> QED
  BY <1>2, <1>3 DEF WhereInv

\* A change that where() will notice.
LEMMA WhereTouched ==
    ASSUME IInv, WhereInv, NEW shrinks \in BOOLEAN, Touch(shrinks)
    PROVE  WhereInv'
<1>1. CASE scan.phase = "idle"
  BY <1>1, WhereScanStays DEF Touch
<1>2. CASE scan.phase # "idle"
  <2>1. scan'.kept = scan.kept /\ scan'.touched = TRUE /\ scan'.phase = scan.phase
    BY <1>2 DEF Touch, IInv, ScanFits, ScanFields
  <2> QED
    BY <1>2, <2>1 DEF WhereInv
<1> QED
  BY <1>1, <1>2

LEMMA WherePush ==
    ASSUME IInv, WhereInv, Operation, NEW r \in Row, Push(r)
    PROVE  WhereInv'
<1>1. rows' = Append(rows, r) /\ scan' = scan /\ scan.phase \in {"idle", "call"}
  BY DEF Push, Operation
<1>2. \A j \in DOMAIN rows : rows'[j] = rows[j]
  <2>1. rows \in Seq(Row)
    BY DEF IInv, RowsFor
  <2> QED
    BY <1>1, <2>1, AppendProperties, LenProperties
<1> QED
  BY <1>1, <1>2, WhereScanStays

LEMMA WhereAfterRead ==
    ASSUME TableAssumption, IInv, WhereInv, WhereRead
    PROVE  WhereInv'
<1>1. scan.phase = "read" /\ rows' = rows
  BY DEF WhereRead, InScan
<1>2. CASE Panic
  <2>1. /\ scan'.kept = scan.kept /\ scan'.at = scan.at /\ scan'.pred = scan.pred
        /\ scan'.shrunk = scan.shrunk /\ scan'.touched = scan.touched
        /\ scan'.phase = "panicked"
    BY <1>2 DEF Panic, IInv, ScanFits, ScanFields
  <2> QED
    BY <1>1, <2>1 DEF WhereInv
<1>3. CASE scan' = [scan EXCEPT !.phase = "call", !.match = Holds(scan.pred, rows[scan.at])]
  <2>1. /\ scan'.kept = scan.kept /\ scan'.at = scan.at /\ scan'.pred = scan.pred
        /\ scan'.shrunk = scan.shrunk /\ scan'.touched = scan.touched
        /\ scan'.phase = "call" /\ scan'.match = Holds(scan.pred, rows[scan.at])
    BY <1>3 DEF IInv, ScanFits, ScanFields
  <2> QED
    BY <1>1, <2>1 DEF WhereInv
<1> QED
  BY <1>2, <1>3 DEF WhereRead

LEMMA WhereAfterCopy ==
    ASSUME TableAssumption, IInv, WhereInv, WhereCopy
    PROVE  WhereInv'
<1>1. scan.phase = "call" /\ rows' = rows
  BY DEF WhereCopy, InScan
<1>2. rows \in Seq(Row) /\ DOMAIN rows = 1 .. Len(rows) /\ Len(rows) \in Nat
  BY LenProperties DEF IInv, RowsFor
<1>3. scan.at \in Nat \ {0}
  BY <1>1 DEF IInv, ScanFits
<1>4. CASE Panic
  <2>1. /\ scan'.kept = scan.kept /\ scan'.at = scan.at /\ scan'.pred = scan.pred
        /\ scan'.shrunk = scan.shrunk /\ scan'.touched = scan.touched
        /\ scan'.phase = "panicked"
    BY <1>4 DEF Panic, IInv, ScanFits, ScanFields
  <2> QED
    BY <1>1, <2>1 DEF WhereInv
<1>5. ASSUME NEW kept \in Seq(Row), Advance(kept),
             ~scan.touched => Keeps(kept, scan.pred, rows, scan.at)
      PROVE  WhereInv'
  <2>1. /\ scan'.kept = kept /\ scan'.at = scan.at + 1 /\ scan'.pred = scan.pred
        /\ scan'.shrunk = scan.shrunk /\ scan'.touched = scan.touched
        /\ scan'.phase \in {"read", "done"}
    BY <1>5 DEF Advance, IInv, ScanFits, ScanFields
  <2>2. scan'.at - 1 = scan.at
    BY <1>3, <2>1
  <2> QED
    BY <1>1, <1>5, <2>1, <2>2 DEF WhereInv
<1> DEFINE n == scan.at - 1
<1>6. n \in Nat /\ n + 1 = scan.at
  BY <1>3
<1>7. CASE scan.match /\ scan.at <= Len(rows) /\ Advance(Append(scan.kept, rows[scan.at]))
  <2>1. rows[scan.at] \in Row
    BY <1>2, <1>3, <1>7, ElementOfSeq
  <2>2. scan.kept \in Seq(Row) /\ Append(scan.kept, rows[scan.at]) \in Seq(Row)
    BY <2>1, AppendProperties DEF WhereInv
  <2>3. ~scan.touched => Keeps(scan.kept, scan.pred, rows, n) /\ Holds(scan.pred, rows[n + 1])
    BY <1>1, <1>6, <1>7 DEF WhereInv
  <2> HIDE DEF n
  <2>4. ~scan.touched => Keeps(Append(scan.kept, rows[scan.at]), scan.pred, rows, scan.at)
    BY <1>6, <2>1, <2>2, <2>3, KeepsNext
  <2> QED
    BY <1>5, <1>7, <2>2, <2>4
<1>8. CASE ~scan.match /\ Advance(scan.kept)
  <2>1. ~scan.touched => Keeps(scan.kept, scan.pred, rows, n) /\ ~Holds(scan.pred, rows[n + 1])
    BY <1>1, <1>6, <1>8 DEF WhereInv
  <2> HIDE DEF n
  <2>2. ~scan.touched => Keeps(scan.kept, scan.pred, rows, scan.at)
    BY <1>6, <2>1, KeepsSkip
  <2>3. scan.kept \in Seq(Row)
    BY DEF WhereInv
  <2> QED
    BY <1>5, <1>8, <2>2, <2>3
<1> QED
  BY <1>4, <1>7, <1>8 DEF WhereCopy

LEMMA WhereNext == TableAssumption /\ IInv /\ WhereInv /\ [Next]_vars => WhereInv'
<1> SUFFICES ASSUME TableAssumption, IInv, WhereInv, [Next]_vars PROVE WhereInv'
  OBVIOUS
<1>1. Key \subseteq Cell /\ Val \subseteq Cell /\ Missing \in Cell
  BY DEF TableAssumption, Cell
<1>2. CASE TableMethod
  <2>1. ASSUME NEW k \in Cell, NEW v \in Cell, Insert(k, v) \/ Save(k, v) PROVE WhereInv'
    <3>1. Operation /\ (Push(NewRow(k, v)) \/ Touch(FALSE))
      BY <2>1 DEF Insert, Save
    <3>2. NewRow(k, v) \in Row
      BY NewRowFacts
    <3> QED
      BY <3>1, <3>2, WherePush, WhereTouched
  <2>2. ASSUME NEW i, Delete(i) PROVE WhereInv'
    BY <2>2, WhereTouched DEF Delete
  <2>3. ASSUME NEW i, NEW k, NEW v, Update(i, k, v) PROVE WhereInv'
    BY <2>3, WhereTouched DEF Update
  <2>4. CASE Clear
    BY <2>4, WhereTouched DEF Clear
  <2>5. CASE Fetch
    BY <2>5, WhereScanStays DEF Fetch
  <2>6. ASSUME NEW p, WhereBegin(p) PROVE WhereInv'
    <3>1. /\ scan'.kept = <<>> /\ scan'.at = 1 /\ scan'.phase = "read"
          /\ scan'.touched = FALSE /\ scan'.shrunk = FALSE
      BY <2>6 DEF WhereBegin, Idle
    <3>2. scan'.at - 1 = 0 /\ Keeps(<<>>, scan'.pred, rows', 0)
      BY <3>1, KeepsNone
    <3> QED
      BY <3>1, <3>2 DEF WhereInv
  <2>7. CASE WhereRead \/ WhereCopy
    BY <2>7, WhereAfterRead, WhereAfterCopy
  <2>8. CASE WhereEnd
    <3>1. scan' = Idle
      BY <2>8 DEF WhereEnd
    <3> QED
      BY <3>1, KeepsNone DEF Idle, WhereInv
  <2> QED
    BY <1>1, <1>2, <2>1, <2>2, <2>3, <2>4, <2>5, <2>6, <2>7, <2>8 DEF TableMethod
<1>3. CASE DatabaseMethod
  <2>1. rows' = rows /\ scan' = scan
    BY <1>3 DEF DatabaseMethod, DatabaseInit, Sync, Truncate, Drop, RemoveWhere, ExecInsert,
                ExecDelete, InSql, Begin, Commit, Rollback
  <2> QED
    BY <2>1, WhereScanStays
<1>4. CASE Restart
  <2>1. scan' = Idle
    BY <1>4 DEF Restart
  <2> QED
    BY <2>1, KeepsNone DEF Idle, WhereInv
<1>5. CASE UNCHANGED vars
  BY <1>5, WhereScanStays DEF vars
<1> QED
  BY <1>2, <1>3, <1>4, <1>5 DEF Next

\* A where() that no update, replacement or deletion has disturbed has kept
\* the rows it looked at that match, in order.
THEOREM WhereInvariant == Spec => []WhereInv
<1>1. Init => WhereInv
  BY WhereIdle DEF Init
<1>2. IInv /\ WhereInv /\ [Next]_vars => WhereInv'
  BY WhereNext, TableAssumption
<1> QED
  BY <1>1, <1>2, Invariant, PTL DEF Spec

\* MethodKind::Where gives exactly the rows that satisfy the predicate, in the
\* order of the table, even if functions the predicate calls insert rows.
THEOREM WhereResult == Spec => []WhereKeepsMatches
BY WhereInvariant, WhereImplies, PTL

-----------------------------------------------------------------------------
(* db.remove(table).where(column, comparison, literal).                    *)

\* The code of such a predicate, and what it makes of a row.
LEMMA PlainParts ==
    ASSUME NEW p, IsPredicate(p), Plain(p)
    PROVE  /\ DOMAIN p.parts = {1}
           /\ p.parts[1].left.kind = "column" /\ p.parts[1].left.of \in Column
           /\ p.parts[1].right.kind = "literal"
<1>1. p.form = "compare" /\ p.parts[1].left.kind = "column" /\ p.parts[1].right.kind = "literal"
  BY DEF Plain
<1>2. Len(p.parts) = 1 /\ DOMAIN p.parts = 1 .. Len(p.parts)
  BY <1>1, LenProperties DEF IsPredicate
<1> DEFINE Part == [left : Operand, cc : Comparison, right : Operand]
<1>3. p.parts[1] \in Part
  <2>1. p.parts \in Seq(Part)
    BY DEF IsPredicate
  <2> HIDE DEF Part
  <2> QED
    BY <1>2, <2>1, ElementOfSeq
<1>4. p.parts[1].left \in Operand
  BY <1>3
<1> QED
  BY <1>1, <1>2, <1>4 DEF Operand

PlainCode(p) ==
    <<[op |-> "MethodCallCustom", dst |-> 1, column |-> p.parts[1].left.of],
      [op |-> "LoadConst", dst |-> 2, value |-> p.parts[1].right.of],
      [op |-> "Compare", cc |-> p.parts[1].cc, dst |-> 1, src1 |-> 1, src2 |-> 2]>>

LEMMA CodeOfPlain ==
    ASSUME NEW p, IsPredicate(p), Plain(p)
    PROVE  Code(p) = PlainCode(p) /\ Base(p) = 1 /\ Captures(p) = {}
<1>1. Captures(p) = {}
  BY PlainParts DEF Captures, Operands
<1>2. Base(p) = 1
  BY <1>1 DEF Base
<1>3. p.form = "compare"
  BY DEF Plain
<1>4. Load(p.parts[1].left, 1) = [op |-> "MethodCallCustom", dst |-> 1, column |-> p.parts[1].left.of]
  BY PlainParts DEF Load
<1>5. Load(p.parts[1].right, 2) = [op |-> "LoadConst", dst |-> 2, value |-> p.parts[1].right.of]
  BY PlainParts DEF Load
<1>6. Code(p) = CompareCode(p.parts[1], 1)
  BY <1>2, <1>3 DEF Code
<1>7. CompareCode(p.parts[1], 1) = PlainCode(p)
  BY <1>4, <1>5 DEF CompareCode, PlainCode
<1> QED
  BY <1>1, <1>2, <1>6, <1>7

LEMMA PlainInstructions ==
    ASSUME NEW p
    PROVE  /\ Len(PlainCode(p)) = 3
           /\ PlainCode(p)[1] = [op |-> "MethodCallCustom", dst |-> 1, column |-> p.parts[1].left.of]
           /\ PlainCode(p)[2] = [op |-> "LoadConst", dst |-> 2, value |-> p.parts[1].right.of]
           /\ PlainCode(p)[3] = [op |-> "Compare", cc |-> p.parts[1].cc, dst |-> 1, src1 |-> 1, src2 |-> 2]
BY DEF PlainCode

\* What the registers hold after each of three instructions.
LEMMA ExecutedThree ==
    ASSUME NEW p, NEW row, Len(Code(p)) = 3
    PROVE  LET step(regs, i) == [regs EXCEPT ![i.dst] = Result(regs, i, row)]
           IN  Executed(p, row) = step(step(step(Locals(p), Code(p)[1]), Code(p)[2]), Code(p)[3])
<1> DEFINE code == Code(p)
           base == Locals(p)
           step(regs, i) == [regs EXCEPT ![i.dst] = Result(regs, i, row)]
           After(f) == [n \in 0 .. Len(code) |-> IF n = 0 THEN base ELSE step(f[n - 1], code[n])]
           s1 == step(base, code[1])
           s2 == step(s1, code[2])
           s3 == step(s2, code[3])
           g == [n \in 0 .. 3 |-> IF n = 0 THEN base ELSE IF n = 1 THEN s1 ELSE IF n = 2 THEN s2 ELSE s3]
           R == CHOOSE f : f = After(f)
<1>1. Executed(p, row) = R[3]
  BY DEF Executed
<1> HIDE DEF code, base, step
<1>2. Len(code) = 3
  BY DEF code
<1>3. g = After(g)
  <2>1. g[0] = base /\ g[1] = s1 /\ g[2] = s2 /\ g[3] = s3
    OBVIOUS
  <2>2. \A n \in 0 .. 3 : n = 0 \/ n = 1 \/ n = 2 \/ n = 3
    OBVIOUS
  <2>3. \A n \in 0 .. 3 : g[n] = IF n = 0 THEN base ELSE step(g[n - 1], code[n])
    BY <2>1, <2>2
  <2> QED
    BY <1>2, <2>3
<1>4. R = After(R)
  BY <1>3
<1> HIDE DEF R
<1>5. /\ R[0] = base /\ R[1] = step(R[0], code[1])
      /\ R[2] = step(R[1], code[2]) /\ R[3] = step(R[2], code[3])
  BY <1>2, <1>4
<1>6. Executed(p, row) = s3
  BY <1>1, <1>5
<1> QED
  BY <1>6 DEF code, base, step

LEMMA TrackedThree ==
    ASSUME NEW p, Len(Code(p)) = 3
    PROVE  Tracked(p) = Track(Track(Track([regs |-> [r \in Register |-> Unknown], final |-> NoFilter],
                                          Code(p)[1]), Code(p)[2]), Code(p)[3])
<1> DEFINE code == Code(p)
           base == [regs |-> [r \in Register |-> Unknown], final |-> NoFilter]
           After(f) == [n \in 0 .. Len(code) |-> IF n = 0 THEN base ELSE Track(f[n - 1], code[n])]
           s1 == Track(base, code[1])
           s2 == Track(s1, code[2])
           s3 == Track(s2, code[3])
           g == [n \in 0 .. 3 |-> IF n = 0 THEN base ELSE IF n = 1 THEN s1 ELSE IF n = 2 THEN s2 ELSE s3]
           R == CHOOSE f : f = After(f)
<1>1. Tracked(p) = R[3]
  BY DEF Tracked
<1> HIDE DEF code, base
<1>2. Len(code) = 3
  BY DEF code
<1>3. g = After(g)
  <2>1. g[0] = base /\ g[1] = s1 /\ g[2] = s2 /\ g[3] = s3
    OBVIOUS
  <2>2. \A n \in 0 .. 3 : n = 0 \/ n = 1 \/ n = 2 \/ n = 3
    OBVIOUS
  <2>3. \A n \in 0 .. 3 : g[n] = IF n = 0 THEN base ELSE Track(g[n - 1], code[n])
    BY <2>1, <2>2
  <2> QED
    BY <1>2, <2>3
<1>4. R = After(R)
  BY <1>3
<1> HIDE DEF R
<1>5. /\ R[0] = base /\ R[1] = Track(R[0], code[1])
      /\ R[2] = Track(R[1], code[2]) /\ R[3] = Track(R[2], code[3])
  BY <1>2, <1>4
<1>6. Tracked(p) = s3
  BY <1>1, <1>5
<1> QED
  BY <1>6 DEF code, base

\* The machine reads the column and the literal and compares them.
LEMMA HoldsPlain ==
    ASSUME NEW p, IsPredicate(p), Plain(p), NEW row
    PROVE  Holds(p, row) = Relates(row[p.parts[1].left.of], p.parts[1].cc, p.parts[1].right.of)
<1> DEFINE col == p.parts[1].left.of
           v == p.parts[1].right.of
           cc == p.parts[1].cc
           c1 == [op |-> "MethodCallCustom", dst |-> 1, column |-> col]
           c2 == [op |-> "LoadConst", dst |-> 2, value |-> v]
           c3 == [op |-> "Compare", cc |-> cc, dst |-> 1, src1 |-> 1, src2 |-> 2]
           s0 == Locals(p)
           s1 == [s0 EXCEPT ![1] = row[col]]
           s2 == [s1 EXCEPT ![2] = v]
           s3 == [s2 EXCEPT ![1] = Relates(s2[1], cc, s2[2])]
<1>1. /\ Len(Code(p)) = 3 /\ Base(p) = 1
      /\ Code(p)[1] = c1 /\ Code(p)[2] = c2 /\ Code(p)[3] = c3
  BY CodeOfPlain, PlainInstructions
<1>2. DOMAIN s0 = 0 .. 4
  BY DEF Locals, Register
<1>3. Result(s0, c1, row) = row[col]
  BY DEF Result
<1>4. Result(s1, c2, row) = v
  BY DEF Result
<1>5. Result(s2, c3, row) = Relates(s2[1], cc, s2[2])
  BY DEF Result
<1> HIDE DEF s0, col, v, cc
<1>6. Executed(p, row) = s3
  <2> DEFINE step(regs, i) == [regs EXCEPT ![i.dst] = Result(regs, i, row)]
  <2>1. c1.dst = 1 /\ c2.dst = 2 /\ c3.dst = 1
    OBVIOUS
  <2>2. Executed(p, row) = step(step(step(s0, c1), c2), c3)
    <3> HIDE DEF c1, c2, c3
    <3> QED
      BY <1>1, ExecutedThree DEF s0
  <2> HIDE DEF c1, c2, c3
  <2>3. step(s0, c1) = s1
    BY <1>3, <2>1
  <2>4. step(s1, c2) = s2
    <3> HIDE DEF s1
    <3> QED
      BY <1>4, <2>1
  <2>5. step(s2, c3) = s3
    <3> HIDE DEF s2
    <3> QED
      BY <1>5, <2>1
  <2> HIDE DEF step, s1, s2, s3
  <2> QED
    BY <2>2, <2>3, <2>4, <2>5
<1>7. s2[1] = row[col] /\ s2[2] = v /\ 1 \in DOMAIN s2
  BY <1>2
<1> HIDE DEF s2
<1>8. s3[1] = Relates(row[col], cc, v)
  BY <1>7
<1> QED
  BY <1>1, <1>6, <1>8 DEF Holds, col, v, cc

\* The translation finds that column, that literal and that comparison.
LEMMA TranslationPlain ==
    ASSUME NEW p, IsPredicate(p), Plain(p)
    PROVE  LET where == translate_filter_to_sql(p)
           IN  /\ where # NoFilter
               /\ where.column = p.parts[1].left.of
               /\ where.cc = p.parts[1].cc
               /\ where.value = p.parts[1].right.of
<1> DEFINE col == p.parts[1].left.of
           v == p.parts[1].right.of
           cc == p.parts[1].cc
           c1 == [op |-> "MethodCallCustom", dst |-> 1, column |-> col]
           c2 == [op |-> "LoadConst", dst |-> 2, value |-> v]
           c3 == [op |-> "Compare", cc |-> cc, dst |-> 1, src1 |-> 1, src2 |-> 2]
           r0 == [r \in Register |-> Unknown]
           r1 == [r0 EXCEPT ![1] = [is |-> "column", of |-> col]]
           r2 == [r1 EXCEPT ![2] = [is |-> "value", of |-> v]]
           found == [[NoFilter EXCEPT !.column = col, !.value = v] EXCEPT !.cc = cc]
<1>1. /\ Len(Code(p)) = 3
      /\ Code(p)[1] = c1 /\ Code(p)[2] = c2 /\ Code(p)[3] = c3
  BY CodeOfPlain, PlainInstructions
<1>2. col # "none"
  BY PlainParts DEF Column
<1> HIDE DEF col, v, cc
<1>3. DOMAIN r0 = 0 .. 4
  BY DEF Register
<1> HIDE DEF r0
<1>4. Track([regs |-> r0, final |-> NoFilter], c1) = [regs |-> r1, final |-> NoFilter]
  BY DEF Track, Known
<1>5. Track([regs |-> r1, final |-> NoFilter], c2) = [regs |-> r2, final |-> NoFilter]
  BY DEF Track, Known
<1>6. r2[1] = [is |-> "column", of |-> col] /\ r2[2] = [is |-> "value", of |-> v]
  BY <1>3
<1> HIDE DEF r2
<1>7. Pair(NoFilter, r2[1], r2[2]) = [NoFilter EXCEPT !.column = col, !.value = v]
  BY <1>6 DEF Pair, IsA
<1>8. Found([regs |-> r2, final |-> NoFilter], c3) = found
  <2>1. [NoFilter EXCEPT !.column = col, !.value = v].column = col
    BY DEF NoFilter
  <2> QED
    BY <1>2, <1>7, <2>1 DEF Found
<1>9. Track([regs |-> r2, final |-> NoFilter], c3).final = found
  BY <1>8 DEF Track
<1>10. found.column = col /\ found.cc = cc /\ found.value = v
  BY DEF NoFilter
<1>11. Tracked(p).final = found
  <2> HIDE DEF c1, c2, c3, found, r1
  <2> QED
    BY <1>1, <1>4, <1>5, <1>9, TrackedThree DEF r0
<1>12. translate_filter_to_sql(p) = found
  BY <1>1, <1>11 DEF translate_filter_to_sql
<1> HIDE DEF found
<1>13. found # NoFilter
  BY <1>2, <1>10 DEF NoFilter
<1> QED
  BY <1>10, <1>12, <1>13 DEF col, v, cc

LEMMA PlainIsExact ==
    ASSUME NEW p, IsPredicate(p), Plain(p), NEW row
    PROVE  SqlSelects(translate_filter_to_sql(p), row) <=> Holds(p, row)
<1> DEFINE where == translate_filter_to_sql(p)
<1>1. /\ where # NoFilter /\ where.column = p.parts[1].left.of
      /\ where.cc = p.parts[1].cc /\ where.value = p.parts[1].right.of
  BY TranslationPlain
<1> HIDE DEF where
<1>2. SqlSelects(where, row) <=> Relates(row[where.column], where.cc, where.value)
  BY <1>1 DEF SqlSelects
<1> QED
  BY <1>1, <1>2, HoldsPlain DEF where

-----------------------------------------------------------------------------

\* The answer tells the operation.
LEMMA RemovedByRemove ==
    ASSUME NEW p, Next, reply' = <<"removed", p>>, ops' # ops
    PROVE  RemoveWhere(p)
<1>1. \A q : <<"removed", q>> = reply' => q = p
  OBVIOUS
<1>2. reply' # Silent
  BY DEF Silent
<1>3. \A r : reply' # <<"inserted", r>> /\ reply' # <<"saved", r>>
  OBVIOUS
<1>4. CASE TableMethod
  <2>1. ASSUME NEW k, NEW v, Insert(k, v) \/ Save(k, v) PROVE FALSE
    BY <1>3, <2>1 DEF Insert, Save
  <2>2. ASSUME NEW i, NEW k, NEW v, Delete(i) \/ Update(i, k, v) PROVE FALSE
    BY <1>2, <2>2 DEF Delete, Update, InMemory
  <2>3. ~Clear /\ ~Fetch
    BY <1>2 DEF Clear, Fetch, InMemory
  <2>4. ASSUME NEW q, WhereBegin(q) PROVE FALSE
    BY <1>2, <2>4 DEF WhereBegin
  <2>5. ~WhereRead /\ ~WhereCopy /\ ~WhereEnd
    BY DEF WhereRead, WhereCopy, WhereEnd
  <2> QED
    BY <1>4, <2>1, <2>2, <2>3, <2>4, <2>5 DEF TableMethod
<1>5. CASE DatabaseMethod
  <2>1. ASSUME NEW listed, DatabaseInit(listed) PROVE FALSE
    BY <1>2, <2>1 DEF DatabaseInit
  <2>2. ~Sync /\ ~Truncate /\ ~Drop
    BY <1>2 DEF Sync, Truncate, Drop
  <2>3. ASSUME NEW k, NEW v, ExecInsert(k, v) \/ ExecDelete(k) PROVE FALSE
    BY <1>2, <2>3 DEF ExecInsert, ExecDelete
  <2>4. ~Begin /\ ~Commit /\ ~Rollback
    BY <1>2 DEF Begin, Commit, Rollback
  <2>5. ASSUME NEW q, RemoveWhere(q) PROVE RemoveWhere(p)
    BY <1>1, <2>5 DEF RemoveWhere
  <2> QED
    BY <1>5, <2>1, <2>2, <2>3, <2>4, <2>5 DEF DatabaseMethod
<1>6. CASE Restart
  BY <1>2, <1>6 DEF Restart
<1> QED
  BY <1>4, <1>5, <1>6 DEF Next

LEMMA RemoveStep ==
    ASSUME TableAssumption, IInv, Next, NEW p \in Predicate, Plain(p)
    PROVE  RemoveIsExactFor(p)
<1> SUFFICES ASSUME reply' = <<"removed", p>>, ops' # ops
             PROVE  conn'.rows = {s \in conn.rows : ~Holds(p, s)}
  BY DEF RemoveIsExactFor
<1> DEFINE where == translate_filter_to_sql(p)
<1>1. conn' = [conn EXCEPT !.rows = {s \in conn.rows : ~SqlSelects(where, s)}]
  BY RemovedByRemove DEF RemoveWhere, InSql, Execute
<1>2. conn'.rows = {s \in conn.rows : ~SqlSelects(where, s)}
  <2> HIDE DEF where
  <2> QED
    BY <1>1, SqlTypes DEF SqlTable
<1>3. IsPredicate(p)
  BY DEF TableAssumption
<1>4. \A s \in conn.rows : SqlSelects(where, s) <=> Holds(p, s)
  BY <1>3, PlainIsExact
<1> QED
  BY <1>2, <1>4

\* db.remove(table).where(column, comparison, literal) deletes exactly the rows
\* the predicate selects: what translate_filter_to_sql makes of the predicate's
\* code selects the rows for which the machine's own evaluation says true.
THEOREM RemoveExact == Spec => RemoveIsExact
<1>1. IInv /\ [Next]_vars => [\A p \in Predicate : Plain(p) => RemoveIsExactFor(p)]_vars
  BY RemoveStep, TableAssumption
<1> QED
  BY <1>1, Invariant, PTL DEF Spec, RemoveIsExact
==============================================================================
