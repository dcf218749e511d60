----------------------------- MODULE Deployment -----------------------------
(***************************************************************************)
(* Deploying the backend: the one-shot job `alembic upgrade head && python *)
(* -m app.seed`, the service that starts when it has succeeded, and a      *)
(* downgrade by hand while the service is stopped.  Each of the three is   *)
(* one transaction; the process may end at any statement.                  *)
(***************************************************************************)
EXTENDS Migrations, Models, ConfigKeys

CONSTANTS
  Edited,        \* configuration keys that an administrator edits
  EditedColumns, \* the sets of their columns that one update writes
  MaxJobs        \* bound on the jobs that are started

ConfigColumns == {"value", "description", "category", "is_public", "is_active"}

ASSUME DeploymentAssumption ==
  /\ Edited \subseteq SeededKeys
  /\ EditedColumns \subseteq SUBSET ConfigColumns
  /\ MaxJobs \in Nat

Role == FirstRoles \cup NewRoles

VARIABLES
  db,     \* the committed database
  head,   \* its revision in alembic_version
  job,    \* "none", "upgrade", "seed" or "downgrade"
  work,   \* the database as the job's transaction sees it
  todo,   \* the statements left to it
  goal,   \* the revision it ends at
  spelled,\* DEV_ADMIN_EMAIL in the job's environment: unset, lower or mixed case
  up,     \* the service runs
  jobs    \* number of jobs started

dvars == <<db, head, job, work, todo, goal, spelled, up, jobs>>

Init ==
  /\ db = EmptyDatabase /\ head = 0
  /\ job = "none" /\ work = EmptyDatabase /\ todo = << >> /\ goal = 0
  /\ spelled = "unset" /\ up = FALSE /\ jobs = 0

-----------------------------------------------------------------------------
Languages   == {"en", "hi", "bn", "ta", "te", "kn", "ml", "mr", "gu", "pa", "or", "ur"}
Religions   == {"Hindu", "Muslim", "Christian", "Sikh", "Jain", "Buddhist", "Parsi", "Other"}
Castes ==
  {"Hindu"} \X {"Brahmin", "Kshatriya", "Vaishya", "Shudra", "Rajput", "Maratha", "Reddy",
                "Nair", "Iyer", "Jat", "Baniya", "Other"}
  \cup {"Muslim"} \X {"Sunni", "Shia", "Other"}
  \cup {"Christian"} \X {"Catholic", "Protestant", "Syrian Christian", "Other"}
  \cup {"Sikh"} \X {"Jat Sikh", "Khatri", "Arora", "Other"}
  \cup {"Jain"} \X {"Digambara", "Shwetambara", "Other"}
Countries   == {"IN", "US", "GB", "CA", "AU", "AE", "SG"}
States ==
  {"IN"} \X {"Andhra Pradesh", "Assam", "Bihar", "Chhattisgarh", "Delhi", "Goa", "Gujarat",
             "Haryana", "Himachal Pradesh", "Jharkhand", "Karnataka", "Kerala",
             "Madhya Pradesh", "Maharashtra", "Odisha", "Punjab", "Rajasthan",
             "Tamil Nadu", "Telangana", "Uttar Pradesh", "Uttarakhand", "West Bengal"}
Education ==
  {"High School", "Diploma", "Bachelor's Degree", "Master's Degree", "Doctorate",
   "Professional Degree"}
Occupations ==
  {"Software Engineer", "Doctor", "Lawyer", "Teacher", "Business Owner", "Accountant",
   "Architect", "Civil Engineer", "Nurse", "Marketing Manager", "Consultant",
   "Data Scientist", "Financial Analyst", "Government Employee", "Retired", "Homemaker"}
Interests ==
  {"sports", "travel", "cooking", "music", "movies", "reading", "fitness", "pets",
   "volunteering", "yoga", "photography", "dance"}
Plans == {"Premium Plus", "Premium"}

\* seed.  The permissions of the roles are seeded in Roles.
Seed(email) ==
  << InsertMissing("languages", Languages), InsertMissing("religions", Religions),
     InsertMissing("castes", Castes), InsertMissing("countries", Countries),
     InsertMissing("states", States), InsertMissing("education_levels", Education),
     InsertMissing("occupations", Occupations), InsertMissing("interests", Interests),
     InsertMissing("subscription_plans", Plans), InsertMissing("app_config", SeededKeys),
     InsertAdmin(email) >>

-----------------------------------------------------------------------------
Begin(j, statements, to) ==
  /\ job' = j /\ todo' = statements /\ goal' = to /\ work' = db
  /\ UNCHANGED <<db, head>>

\* docker compose up
StartJob(email) ==
  /\ job = "none" /\ ~up /\ jobs < MaxJobs
  /\ Begin("upgrade", Upgrade(head), Latest)
  /\ spelled' = email /\ jobs' = jobs + 1
  /\ UNCHANGED up

StartDowngrade(to) ==
  /\ job = "none" /\ ~up /\ jobs < MaxJobs
  /\ to < head
  /\ Begin("downgrade", Downgrade(head, to), to)
  /\ jobs' = jobs + 1
  /\ UNCHANGED <<spelled, up>>

Blocked == todo # << >> /\ (Broken(work, Head(todo)) \/ Refused(work, Head(todo)))

Statement ==
  /\ todo # << >> /\ ~Blocked
  /\ work' = Apply(work, Head(todo))
  /\ todo' = Tail(todo)
  /\ UNCHANGED <<db, head, job, goal, spelled, up, jobs>>

\* An upgrade is followed by the seed, the seed by the service.
Commit ==
  /\ job # "none" /\ todo = << >>
  /\ db' = work /\ head' = goal
  /\ CASE job = "upgrade"   -> job' = "seed" /\ todo' = Seed(spelled) /\ UNCHANGED <<work, up>>
       [] job = "seed"      -> /\ job' = "none" /\ up' = TRUE /\ work' = EmptyDatabase
                               /\ UNCHANGED todo
       [] job = "downgrade" -> /\ job' = "none" /\ work' = EmptyDatabase
                               /\ UNCHANGED <<todo, up>>
  /\ UNCHANGED <<goal, spelled, jobs>>

\* A statement that is refused, or the end of the process, at any of them.
Abort ==
  /\ job # "none"
  /\ job' = "none" /\ todo' = << >> /\ work' = EmptyDatabase
  /\ UNCHANGED <<db, head, goal, spelled, up, jobs>>

-----------------------------------------------------------------------------
(***************************************************************************)
(* What administrators do with the service that matters to the next job.   *)
(***************************************************************************)
Writes(rows) ==
  /\ up
  /\ db' = [db EXCEPT !.rows = rows]
  /\ UNCHANGED <<head, job, work, todo, goal, spelled, up, jobs>>

Edit(r, mark, cols) ==
  r \in db.rows
  /\ Writes((db.rows \ {r}) \cup {<<r[1], r[2], mark, r[4] \cup cols>>})

\* update, and deactivate with cols = {"is_active"}.
EditConfig(k, cols) ==
  \E r \in db.rows :
    r[1] = "app_config" /\ r[2] = k /\ Edit(r, r[3], cols \cup {"updated_by"})

\* A key of 101 to 120 characters.
CreateLongKey ==
  Writes(db.rows \cup {<<"app_config", Key("app", FALSE, "long"), "long",
                        ConfigColumns \cup {"key", "value_type", "updated_by"}>>})

RenamePlan(p) ==
  \E r \in db.rows :
    /\ r[1] = "subscription_plans" /\ r[2] = p /\ r[3] = "seeded"
    /\ Edit(r, "renamed", {"name"})

GiveRole(x) == Admits(db, x) /\ Writes(db.rows \cup {<<"users", x, "staff", {"role"}>>})

StopService == up /\ up' = FALSE /\ UNCHANGED <<db, head, job, work, todo, goal, spelled, jobs>>

Next ==
  \/ \E email \in {"unset", "lower", "mixed"} : StartJob(email)
  \/ \E to \in 0 .. Latest - 1 : StartDowngrade(to)
  \/ Statement \/ Commit \/ Abort \/ StopService
  \/ \E k \in Edited, cols \in EditedColumns : EditConfig(k, cols)
  \/ CreateLongKey
  \/ RenamePlan("Premium")
  \/ \E x \in {"MODERATOR", "FINANCE"} : GiveRole(x)

Spec == Init /\ [][Next]_dvars

-----------------------------------------------------------------------------
\* However a database got to its revision, by upgrades, downgrades and jobs
\* that failed or were cut off at any statement, it has the tables, columns,
\* references and keys that a fresh installation has at that revision.
\* (Not the CHECK on users.role, which a downgrade adds and 1 and 2 never had.)
RevisionDecidesSchema ==
  /\ db.tables = SchemaAt[head].tables
  /\ db.width = SchemaAt[head].width

\* The service only ever runs on the tables its models describe, with every
\* role storable and every row that the seed promises.
ServiceFindsItsModel ==
  up => /\ db.tables = Model
        /\ \A x \in Role : Admits(db, x)
        /\ \A i \in DOMAIN Seed(spelled) :
             LET s == Seed(spelled)[i] IN
             s.kind = "insert" =>
               \A n \in s.names : \E r \in db.rows : r[1] = s.name /\ r[2] = n

\* The statements of a migration or a seed fit each other in their order,
\* so that only what is stored can stop a job: a key too long or a role too
\* new for the revision a downgrade goes to, or a second development admin.
OnlyDataStopsJobs ==
  todo # << >> => ~Broken(work, Head(todo))

\* What a job that ends with the database d has to leave of the row r.
Left(r, d) ==
  IF job = "downgrade" THEN Without(r, Columns(db, r[1]) \ Columns(d, r[1])) ELSE r

\* A job leaves every value that administrators set as it is, and adds no
\* second row under a name.  The upgrade and the seed keep all of the rows;
\* only a downgrade takes an edit back, with the column it was made in or with
\* its table, and never one in a column that the older schema has.
EditsSurvive ==
  [][job # "none" =>
       /\ \A r \in db.rows : r[1] \in Names(db') => Left(r, db') \in db'.rows
       /\ \A q \in db'.rows \ {Left(r, db') : r \in db.rows}, r \in db.rows :
            q[1] = r[1] /\ q[2] = r[2] => r[3] = "renamed" \/ q[1] = "users"]_db
=============================================================================
