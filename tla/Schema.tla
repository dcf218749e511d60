------------------------------- MODULE Schema -------------------------------
(***************************************************************************)
(* A PostgreSQL database as far as migrations and the seed can break it,   *)
(* and the statements they run.  Each statement is refused by what it      *)
(* would leave inconsistent, and DDL is transactional like the rest.       *)
(***************************************************************************)
EXTENDS Integers

Stamps == {"created_at", "updated_at"}

Tab(name, cols, refs, uniques) ==
  [name |-> name, cols |-> cols \cup {"id"}, refs |-> refs, keys |-> uniques]

\* With the columns of TimestampMixin.
Stamped(name, cols, refs, uniques) == Tab(name, cols \cup Stamps, refs, uniques)

Cascade(col, table)  == <<col, table, "CASCADE">>
SetNull(col, table)  == <<col, table, "SET NULL">>
Protect(col, table) == <<col, table, "RESTRICT">>

\* rows holds what the seed and the administrators wrote, as <<table, name,
\* mark, set>>: the mark is what the next job looks at, and set the columns
\* that an administrator gave a value which the row still has.
EmptyDatabase == [tables |-> {}, width |-> 100, check |-> {}, rows |-> {}]

Names(db)   == {t.name : t \in db.tables}
TheTable(db, name) == CHOOSE t \in db.tables : t.name = name
Columns(db, name)  == UNION {t.cols : t \in {u \in db.tables : u.name = name}}

\* The row without what was stored in cols: a column that is added again has
\* the server default in every row, not what was there before.
Without(r, cols) == <<r[1], r[2], r[3], r[4] \ cols>>

-----------------------------------------------------------------------------
CreateTable(t)              == [kind |-> "create", table |-> t]
DropTable(name)             == [kind |-> "drop", name |-> name]
AddColumns(name, cols, refs) ==
  [kind |-> "add", name |-> name, cols |-> cols, refs |-> refs]
DropColumns(name, cols)     == [kind |-> "remove", name |-> name, cols |-> cols]
KeyWidth(n)                 == [kind |-> "width", to |-> n]
CheckRoles(roles)           == [kind |-> "check", roles |-> roles]
InsertMissing(name, names)  == [kind |-> "insert", name |-> name, names |-> names]
InsertAdmin(spelled)        == [kind |-> "admin", spelled |-> spelled]

\* An empty check admits every role.
Admits(db, role) == db.check = {} \/ role \in db.check

References(db, name) ==
  \E t \in db.tables : t.name # name /\ \E r \in t.refs : r[2] = name

\* The statement is at odds with the schema it meets.
Broken(db, s) ==
  CASE s.kind = "create" -> \/ s.table.name \in Names(db)
                            \/ ~{r[2] : r \in s.table.refs} \subseteq
                                  Names(db) \cup {s.table.name}
    [] s.kind = "drop"   -> s.name \notin Names(db) \/ References(db, s.name)
    [] s.kind = "add"    -> \/ s.name \notin Names(db)
                            \/ TheTable(db, s.name).cols \cap s.cols # {}
                            \/ ~{r[2] : r \in s.refs} \subseteq Names(db)
    [] s.kind = "remove" -> \/ s.name \notin Names(db)
                            \/ ~s.cols \subseteq TheTable(db, s.name).cols
    [] s.kind = "insert" -> s.name \notin Names(db)
    [] OTHER             -> FALSE

\* The statement is at odds with what is stored.  The seed looks the address
\* of the development admin up as it is spelled and stores it in lower case.
Refused(db, s) ==
  \E r \in db.rows :
    CASE s.kind = "width" -> r[1] = "app_config" /\ r[3] = "long" /\ s.to < 120
      [] s.kind = "check" -> r[1] = "users" /\ r[2] \notin s.roles
      [] s.kind = "admin" -> r[1] = "users" /\ r[3] = "dev" /\ s.spelled = "mixed"
      [] OTHER            -> FALSE

\* Fault: rows that were edited count as missing.
FaultMissing(db, s) == {n \in s.names : <<s.name, n, "seeded", {}>> \notin db.rows}

\* _get_or_create: the names under which no row is found.
Missing(db, s) ==
  {n \in s.names : \A r \in db.rows : r[1] = s.name /\ r[2] = n => r[3] = "renamed"}

Apply(db, s) ==
  LET Replaced(t) == [db EXCEPT !.tables = (@ \ {TheTable(db, s.name)}) \cup {t}] IN
  CASE s.kind = "create" -> [db EXCEPT !.tables = @ \cup {s.table}]
    [] s.kind = "drop"   -> [db EXCEPT !.tables = {t \in @ : t.name # s.name},
                                       !.rows = {r \in @ : r[1] # s.name}]
    [] s.kind = "add"    -> Replaced([TheTable(db, s.name) EXCEPT !.cols = @ \cup s.cols,
                                                               !.refs = @ \cup s.refs])
    [] s.kind = "remove" -> [Replaced([TheTable(db, s.name) EXCEPT
                                         !.cols = @ \ s.cols,
                                         !.refs = {r \in @ : r[1] \notin s.cols}])
                               EXCEPT !.rows = {IF r[1] = s.name THEN Without(r, s.cols)
                                                ELSE r : r \in @}]
    [] s.kind = "width"  -> [db EXCEPT !.width = s.to]
    [] s.kind = "check"  -> [db EXCEPT !.check = s.roles]
    [] s.kind = "insert" -> [db EXCEPT !.rows = @ \cup {<<s.name, n, "seeded", {}>> :
                                                         n \in Missing(db, s)}]
    [] s.kind = "admin"  -> IF s.spelled = "unset" THEN db
                            ELSE [db EXCEPT !.rows =
                                    @ \cup {<<"users", "SUPER_ADMIN", "dev", {}>>}]
=============================================================================
