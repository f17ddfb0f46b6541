----------------------------- MODULE TableStore -----------------------------
(***************************************************************************)
(* One table of a program and the SQLite table it is bound to.  The rows   *)
(* in memory (TableData::rows) and the rows in the database are written by *)
(* separate steps of the same method: insert and save do both, update,     *)
(* delete and clear only the first, remove, truncate, drop and exec only   *)
(* the second.  A statement that fails is printed and forgotten.           *)
(*                                                                         *)
(* The columns are id (an @auto column, if the schema has one), key (which *)
(* may be @pk) and val.  SQLite is external: a table, its AUTOINCREMENT    *)
(* counter, its primary key and one transaction.                           *)
(***************************************************************************)
EXTENDS TableFilter, FiniteSets, FiniteSetsExt

CONSTANTS Key, Val,     \* values a program stores
          Literals,     \* the rows programs declare their table with
          Schema,       \* the schemas looked at: subsets of {"auto", "keyed"}
          Predicate,    \* the predicates of db.remove(...).where
          RowTest,      \* the predicates of where() on the table in memory
          MaxOps        \* bound: operations of the whole history

ASSUME TableAssumption ==
    /\ Missing \notin Int
    /\ Key \cup Val \subseteq Int
    /\ Literals \subseteq Seq([key : Key, val : Val])
    /\ Schema \subseteq SUBSET {"auto", "keyed"}
    /\ \A p \in Predicate \cup RowTest : IsPredicate(p)
    /\ MaxOps \in Nat

VARIABLES schema,    \* the attributes of the table's columns
          literal,   \* the rows of its declaration
          rows,      \* TableData::rows
          bound,     \* TableData::sql_binding is set
          open,      \* the database is declared and connected
          conn,      \* the SQL table as the connection sees it
          disk,      \* the SQL table as committed
          tx,        \* a transaction is open
          scan,      \* the where() that waits for its predicate, if any
          reply,     \* what the last operation told the program
          mirrored,  \* history: nothing set memory and database apart
          ops

program == <<schema, literal>>
store == <<conn, disk, tx>>
vars == <<program, rows, bound, open, store, scan, reply, mirrored, ops>>

HasAuto == "auto" \in schema
Keyed   == "keyed" \in schema

Max0(S) == Max(S \cup {0})
Ids(t) == {t[i].id : i \in DOMAIN t}

NoTable == [exists |-> FALSE, pk |-> "none", rows |-> {}, seq |-> 0]
Idle == [phase |-> "idle", pred |-> "none", at |-> 0, total |-> 0,
         match |-> FALSE, kept |-> <<>>, touched |-> FALSE, shrunk |-> FALSE]
Silent == <<"none">>

-----------------------------------------------------------------------------
(* SQLite                                                                  *)

\* Binding a value to a statement: false is stored as 0.
Sql(v) == IF v = Missing THEN 0 ELSE v
Stored(r) == [id |-> r.id, key |-> Sql(r.key), val |-> Sql(r.val)]
Rids(d) == {s.rid : s \in d.rows}

\* The row id: the primary key, or a hidden number.
RowId(d, r) == CASE d.pk = "id"   -> r.id
                 [] d.pk = "key"  -> Sql(r.key)
                 [] d.pk = "none" -> 1 + Max0(Rids(d))

Record(d, r) == [rid |-> RowId(d, r), id |-> r.id, key |-> Sql(r.key), val |-> Sql(r.val)]

InsertSucceeds(d, r) == d.exists /\ RowId(d, r) \notin Rids(d)
SqlInsert(d, r) ==
    IF InsertSucceeds(d, r)
    THEN [d EXCEPT !.rows = @ \cup {Record(d, r)}, !.seq = Max({@, r.id})]
    ELSE d

\* UPDATE ... WHERE key = r.key, which sets the id column too.
Matching(d, r) == {s \in d.rows : s.key = Sql(r.key)}
UpdateSucceeds(d, r) ==
    /\ d.exists
    /\ d.pk = "id" => /\ Cardinality(Matching(d, r)) <= 1
                      /\ \A s \in d.rows \ Matching(d, r) : s.rid # r.id
\* Mutant: the UPDATE leaves the id column out.
SqlUpdateKeepsId(d, r) ==
    IF UpdateSucceeds(d, r)
    THEN [d EXCEPT !.rows = (@ \ Matching(d, r)) \cup
              {[s EXCEPT !.val = Sql(r.val)] : s \in Matching(d, r)}]
    ELSE d

SqlUpdate(d, r) ==
    IF UpdateSucceeds(d, r)
    THEN [d EXCEPT !.rows = (@ \ Matching(d, r)) \cup
              {[s EXCEPT !.rid = IF d.pk = "id" THEN r.id ELSE @,
                         !.id = r.id, !.val = Sql(r.val)] : s \in Matching(d, r)}]
    ELSE d

\* CREATE TABLE IF NOT EXISTS.  Two primary keys are an error.
Created(d, pks) ==
    IF d.exists \/ Cardinality(pks) > 1 THEN d
    ELSE [NoTable EXCEPT !.exists = TRUE,
              !.pk = IF pks = {} THEN "none" ELSE CHOOSE c \in pks : TRUE]

\* SELECT *: the rows by row id.
Selected(d) ==
    LET sorted == {f \in [1 .. Cardinality(d.rows) -> d.rows] :
                       \A i, j \in DOMAIN f : i < j => f[i].rid < f[j].rid}
        row(s) == [id |-> s.id, key |-> s.key, val |-> s.val]
    IN  {[i \in DOMAIN f |-> row(f[i])] : f \in sorted}

\* A statement takes effect on disk at once, or when its transaction commits.
Execute(d) == /\ conn' = d
              /\ disk' = IF tx THEN disk ELSE d
              /\ UNCHANGED tx

-----------------------------------------------------------------------------
\* The rows TableInit makes of the declaration: ids 1, 2, ...
Declared == [i \in DOMAIN literal |->
                [id |-> IF HasAuto THEN i ELSE 0, key |-> literal[i].key, val |-> literal[i].val]]

Init ==
    /\ schema \in Schema /\ literal \in Literals
    /\ rows = Declared
    /\ bound = FALSE /\ open = FALSE
    /\ conn = NoTable /\ disk = NoTable /\ tx = FALSE
    /\ scan = Idle /\ reply = Silent /\ mirrored = FALSE /\ ops = 0

\* An operation of the program: the main flow, or a function the predicate of
\* a running where() calls.
Operation == /\ scan.phase \in {"idle", "call"}
             /\ ops < MaxOps
             /\ ops' = ops + 1
             /\ UNCHANGED program

\* What a running where() will have to live with.
Touch(shrinks) ==
    scan' = IF scan.phase = "idle" THEN scan
            ELSE [scan EXCEPT !.touched = TRUE, !.shrunk = @ \/ shrinks]

Agreeing(t, d) == t = <<>> /\ d.exists /\ d.rows = {}

\* A database declaration: the connection, and its tables if it lists them.
\* (It makes only the @auto column a primary key.)
DatabaseInit(listed) ==
    /\ Operation /\ scan.phase = "idle" /\ ~open
    /\ open' = TRUE
    /\ bound' = (bound \/ listed)
    /\ Execute(IF listed THEN Created(conn, IF HasAuto THEN {"id"} ELSE {}) ELSE conn)
    /\ mirrored' = (listed /\ Agreeing(rows, conn'))
    /\ reply' = Silent
    /\ UNCHANGED <<rows, scan>>

Sync ==
    /\ Operation /\ open
    /\ bound' = TRUE
    /\ Execute(Created(conn, (IF HasAuto THEN {"id"} ELSE {}) \cup (IF Keyed THEN {"key"} ELSE {})))
    /\ mirrored' = (mirrored \/ Agreeing(rows, conn'))
    /\ reply' = Silent
    /\ UNCHANGED <<rows, open, scan>>

-----------------------------------------------------------------------------
(* Methods of the table                                                    *)

\* Mutant: the next id is the largest one.
NextIdFromZero == Max0(Ids(rows))
\* Mutant: the next id is counted.
NextIdFromCount == 1 + Len(rows)

\* The id of a new row follows the largest one in memory.
NextId == 1 + Max0(Ids(rows))
\* The rows the database cannot tell from one of key k: false is 0 there.
Alike(k) == {i \in DOMAIN rows : Sql(rows[i].key) = Sql(k)}
NewRow(k, v) == [id |-> IF HasAuto THEN NextId ELSE 0, key |-> k, val |-> v]

FirstWith(k) == SelectInSeq(rows, LAMBDA r : r.key = k)

\* The row goes to memory first; the INSERT may fail.
Push(r) ==
    /\ rows' = Append(rows, r)
    /\ Execute(IF bound THEN SqlInsert(conn, r) ELSE conn)
    /\ UNCHANGED scan

Insert(k, v) ==
    /\ Operation
    /\ Push(NewRow(k, v))
    /\ mirrored' = (mirrored /\ (Keyed => Alike(k) = {}))
    /\ reply' = <<"inserted", NewRow(k, v)>>
    /\ UNCHANGED <<bound, open>>

\* save() replaces the first row of the same @pk, if that column is not @auto.
Save(k, v) ==
    /\ Operation
    /\ LET at == FirstWith(k)
       IN  \/ /\ Keyed /\ at # 0
              /\ rows' = ReplaceAt(rows, at, NewRow(k, v))
              /\ Execute(IF bound THEN SqlUpdate(conn, NewRow(k, v)) ELSE conn)
              /\ Touch(FALSE)
           \/ /\ ~(Keyed /\ at # 0)
              /\ Push(NewRow(k, v))
    /\ mirrored' = (mirrored /\ (Keyed => /\ Cardinality(Alike(k)) <= 1
                                           /\ \A i \in Alike(k) : rows[i].key = k))
    /\ reply' = <<"saved", NewRow(k, v)>>
    /\ UNCHANGED <<bound, open>>

\* What changes the rows in memory only.
InMemory(t) == /\ rows' = t
               /\ mirrored' = (mirrored /\ t = rows)
               /\ reply' = Silent
               /\ UNCHANGED <<bound, open, store>>

Update(i, k, v) ==
    /\ Operation /\ i \in DOMAIN rows
    /\ InMemory([rows EXCEPT ![i].key = k, ![i].val = v])
    /\ Touch(FALSE)

Delete(i) ==
    /\ Operation /\ i \in DOMAIN rows
    /\ InMemory(RemoveAt(rows, i))
    /\ Touch(TRUE)

Clear ==
    /\ Operation /\ rows # <<>>
    /\ InMemory(<<>>)
    /\ Touch(TRUE)

\* users = db.fetch(users): a new table of the same binding.
Fetch ==
    /\ Operation /\ scan.phase = "idle"
    /\ open /\ bound /\ conn.exists
    /\ rows' \in Selected(conn)
    /\ mirrored' = TRUE
    /\ reply' = Silent
    /\ UNCHANGED <<bound, open, store, scan>>

-----------------------------------------------------------------------------
(* Methods of the database                                                 *)

\* What changes the SQL table only.
InSql(d) == /\ Execute(d)
            /\ mirrored' = (mirrored /\ d = conn)
            /\ UNCHANGED <<rows, bound, open, scan>>

\* db.remove(users).where(p).  A predicate that is not translated deletes all.
RemoveWhere(p) ==
    /\ Operation /\ open /\ bound
    /\ InSql([conn EXCEPT !.rows =
                 {s \in @ : ~SqlSelects(translate_filter_to_sql(p), s)}])
    /\ reply' = <<"removed", p>>

Truncate ==
    /\ Operation /\ open /\ bound
    /\ InSql([conn EXCEPT !.rows = {}])
    /\ reply' = Silent

Drop ==
    /\ Operation /\ open /\ bound
    /\ InSql(NoTable)
    /\ reply' = Silent

\* db.exec: a row the database numbers, or the rows of a key deleted.
ExecInsert(k, v) ==
    /\ Operation /\ open
    /\ InSql(SqlInsert(conn, [id |-> IF conn.pk = "id" THEN 1 + Max({conn.seq} \cup Rids(conn)) ELSE 0,
                              key |-> k, val |-> v]))
    /\ reply' = Silent

ExecDelete(k) ==
    /\ Operation /\ open
    /\ InSql([conn EXCEPT !.rows = {s \in @ : s.key # k}])
    /\ reply' = Silent

Begin ==
    /\ Operation /\ open
    /\ tx' = TRUE
    /\ reply' = Silent
    /\ UNCHANGED <<rows, bound, open, conn, disk, scan, mirrored>>

Commit ==
    /\ Operation /\ open /\ tx
    /\ tx' = FALSE /\ disk' = conn
    /\ reply' = Silent
    /\ UNCHANGED <<rows, bound, open, conn, scan, mirrored>>

Rollback ==
    /\ Operation /\ open /\ tx
    /\ tx' = FALSE /\ conn' = disk
    /\ mirrored' = (mirrored /\ conn = disk)
    /\ reply' = Silent
    /\ UNCHANGED <<rows, bound, open, disk, scan>>

-----------------------------------------------------------------------------
(* users.where(p), row by row.  The number of rows is read once and the    *)
(* table is not locked while the predicate runs: its columns are read from *)
(* the row at that index ("read"), it may call a function that changes the *)
(* table ("call"), and the row at that index is copied if it said true.    *)

InScan == UNCHANGED <<program, rows, bound, open, store, reply, mirrored>>

WhereBegin(p) ==
    /\ Operation /\ scan.phase = "idle" /\ rows # <<>>
    /\ scan' = [Idle EXCEPT !.phase = "read", !.pred = p, !.at = 1, !.total = Len(rows)]
    /\ reply' = Silent
    /\ UNCHANGED <<rows, bound, open, store, mirrored>>

\* A row that is gone: t.rows[row_idx] panics.
Panic == scan' = [scan EXCEPT !.phase = "panicked"]

WhereRead ==
    /\ scan.phase = "read"
    /\ \/ /\ scan.at > Len(rows) /\ Panic
       \/ /\ scan.at <= Len(rows)
          /\ scan' = [scan EXCEPT !.phase = "call", !.match = Holds(scan.pred, rows[scan.at])]
    /\ InScan /\ UNCHANGED ops

\* Mutant: one row too many.
AdvancePastEnd(kept) ==
    scan' = [scan EXCEPT !.phase = IF scan.at <= scan.total THEN "read" ELSE "done",
                         !.at = @ + 1, !.kept = kept]

Advance(kept) ==
    scan' = IF scan.at < scan.total
            THEN [scan EXCEPT !.phase = "read", !.at = @ + 1, !.kept = kept]
            ELSE [scan EXCEPT !.phase = "done", !.at = @ + 1, !.kept = kept]

\* Mutant: the row is kept whatever the predicate said.
WhereCopyKeepsAll ==
    /\ scan.phase = "call"
    /\ \/ /\ scan.at > Len(rows) /\ Panic
       \/ /\ scan.at <= Len(rows) /\ Advance(Append(scan.kept, rows[scan.at]))
    /\ InScan /\ UNCHANGED ops

WhereCopy ==
    /\ scan.phase = "call"
    /\ \/ /\ scan.match /\ scan.at > Len(rows) /\ Panic
       \/ /\ scan.match /\ scan.at <= Len(rows) /\ Advance(Append(scan.kept, rows[scan.at]))
       \/ /\ ~scan.match /\ Advance(scan.kept)
    /\ InScan /\ UNCHANGED ops

\* The result is the program's, the next operation may begin.
WhereEnd ==
    /\ scan.phase = "done"
    /\ scan' = Idle
    /\ InScan /\ UNCHANGED ops

\* The process ends, orderly or not, and runs again.
Restart ==
    /\ ops < MaxOps /\ ops' = ops + 1
    /\ rows' = Declared
    /\ bound' = FALSE /\ open' = FALSE
    /\ conn' = disk /\ tx' = FALSE
    /\ scan' = Idle /\ reply' = Silent /\ mirrored' = FALSE
    /\ UNCHANGED <<program, disk>>

TableMethod ==
    \/ \E k \in Key, v \in Val : Insert(k, v) \/ Save(k, v)
    \/ Insert(Missing, Missing) \/ Save(Missing, Missing)
    \/ \E i \in DOMAIN rows : Delete(i) \/ \E k \in Key, v \in Val : Update(i, k, v)
    \/ Clear \/ Fetch
    \/ \E p \in RowTest : WhereBegin(p)
    \/ WhereRead \/ WhereCopy \/ WhereEnd

DatabaseMethod ==
    \/ \E listed \in BOOLEAN : DatabaseInit(listed)
    \/ Sync \/ Truncate \/ Drop
    \/ \E p \in Predicate : RemoveWhere(p)
    \/ \E k \in Key, v \in Val : ExecInsert(k, v)
    \/ \E k \in Key : ExecDelete(k)
    \/ Begin \/ Commit \/ Rollback

Next == TableMethod \/ DatabaseMethod \/ Restart
Spec == Init /\ [][Next]_vars

-----------------------------------------------------------------------------
(* Properties                                                              *)

Cell == Int \cup {Missing}
Row == [id : Nat, key : Cell, val : Cell]
SqlRow == [rid : Int, id : Nat, key : Int, val : Int]
SqlTable == [exists : BOOLEAN, pk : {"none", "id", "key"}, rows : SUBSET SqlRow, seq : Nat]

\* Every variable has its type, and a row's @auto column an id from 1 on.
TypeOK ==
    /\ schema \in Schema /\ literal \in Literals
    /\ rows \in Seq(Row)
    /\ HasAuto => \A i \in DOMAIN rows : rows[i].id >= 1
    /\ bound \in BOOLEAN /\ open \in BOOLEAN /\ tx \in BOOLEAN
    /\ conn \in SqlTable /\ disk \in SqlTable
    /\ scan.phase \in {"idle", "read", "call", "done", "panicked"}
    /\ mirrored \in BOOLEAN
    /\ ops \in 0 .. MaxOps

\* No two rows in memory have the same @auto id, whatever the program inserts,
\* saves, deletes, updates or loads in whatever order: insert numbers a row
\* after the largest id that is left, not after the number of rows.
AutoIdsDistinct ==
    HasAuto => \A i, j \in DOMAIN rows : rows[i].id = rows[j].id => i = j

Image(s) == [id |-> s.id, key |-> s.key, val |-> s.val]

\* As long as the program only inserts and saves rows since the table was
\* synchronised empty or fetched, each key once, and rolls nothing back, the
\* rows in memory are the rows in the database: insert and save do both halves
\* of their work with the same values, and the ids memory gives out are free.
MemoryMirrorsDatabase ==
    mirrored => /\ bound /\ conn.exists
                /\ {Stored(rows[i]) : i \in DOMAIN rows} = {Image(s) : s \in conn.rows}
                /\ Len(rows) = Cardinality(conn.rows)

\* where() has kept, in order, exactly the rows it has looked at that satisfy
\* its predicate, even if a function the predicate calls inserts rows; it takes
\* an update, a replacement or a deletion to make that untrue.
WhereKeepsMatches ==
    ~scan.touched =>
        LET matches == {j \in 1 .. scan.at - 1 : Holds(scan.pred, rows[j])}
        IN  \E from \in [DOMAIN scan.kept -> matches] :
                /\ \A i, j \in DOMAIN scan.kept : i < j => from[i] < from[j]
                /\ \A j \in matches : \E i \in DOMAIN scan.kept : from[i] = j
                /\ \A i \in DOMAIN scan.kept : scan.kept[i] = rows[from[i]]

\* where() looks at as many rows as there were when it began: it can only run
\* past the end of the table if a function its predicate calls removes rows.
PanicNeedsShrink == scan.phase = "panicked" => scan.shrunk

\* db.remove(users).where(column, comparison, literal) deletes the rows of the
\* database that the machine's own evaluation of the predicate selects.
Plain(p) == /\ p.form = "compare"
            /\ p.parts[1].left.kind = "column" /\ p.parts[1].right.kind = "literal"
RemoveIsExactFor(p) ==
    (reply' = <<"removed", p>> /\ ops' # ops) =>
        conn'.rows = {s \in conn.rows : ~Holds(p, s)}
RemoveIsExact == [][\A p \in Predicate : Plain(p) => RemoveIsExactFor(p)]_vars

\* documentation/language/database.md:400-407 allows AND, OR, NOT, literals and
\* local variables, with a column on the left, in the predicate of a statement
\* sent to the database.
Documented(p) == \A i \in DOMAIN p.parts :
    p.parts[i].left.kind = "column" /\ p.parts[i].right.kind \in {"literal", "local"}
RemoveDeletesMatching == [][\A p \in Predicate : Documented(p) => RemoveIsExactFor(p)]_vars

\* documentation/language/database.md:297: when the operation fails the program
\* does not see a result object: a row it was told of is in the database.
ReportedMeansStored ==
    (bound /\ reply[1] \in {"inserted", "saved"}) =>
        Stored(reply[2]) \in {Image(s) : s \in conn.rows}
==============================================================================
