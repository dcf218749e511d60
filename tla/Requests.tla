------------------------------ MODULE Requests ------------------------------
(***************************************************************************)
(* Requests as they arrive, are worked on and answered: each one is a      *)
(* coroutine with a database transaction of its own, rolled back unless    *)
(* the router reaches session.commit().  The modules that extend this one  *)
(* add tables and one action per statement or group of statements between  *)
(* which others can commit.  A member of Req is one request, is used once, *)
(* and stands for the id of whatever it creates.  One that a check refuses *)
(* changes nothing and is left out; what is refused by the database is in. *)
(***************************************************************************)
EXTENDS Integers, FiniteSets

CONSTANTS
  Req,          \* the requests that may arrive
  Mixes,        \* what behaviours start from: a set of records that hold the
                \* kinds of request that may arrive in .ops
  MaxInFlight   \* how many requests the servers work on at the same time

ASSUME InFlightAssumption == MaxInFlight \in Nat \ {0}

VARIABLES
  mix,      \* where this behaviour started, a member of Mixes
  req,      \* what each request asks for
  pc,       \* how far it has come
  loaded,   \* what it has read and kept
  before    \* the requests that had been answered when it arrived

requests == <<mix, req, pc, loaded, before>>

NoRequest == [op |-> "none"]
Nothing   == [none |-> 0]
Open      == {"read", "locked", "flushed", "got", "dropped"}
Answered  == {"committed", "integrity", "failed"}

RequestsInit ==
  /\ mix \in Mixes
  /\ req = [r \in Req |-> NoRequest]
  /\ pc = [r \in Req |-> "new"]
  /\ loaded = [r \in Req |-> Nothing]
  /\ before = [r \in Req |-> {}]

\* A request for q arrives, reads l and reaches step s.
Arrives(r, q, l, s) ==
  /\ pc[r] = "new"
  /\ q.op \in mix.ops
  /\ Cardinality({o \in Req : pc[o] \in Open}) < MaxInFlight
  /\ req' = [req EXCEPT ![r] = q]
  /\ loaded' = [loaded EXCEPT ![r] = l]
  /\ pc' = [pc EXCEPT ![r] = s]
  /\ before' = [before EXCEPT ![r] = {o \in Req : pc[o] \in Answered}]
  /\ UNCHANGED mix

At(r, s, ops) == pc[r] = s /\ req[r].op \in ops

Goes(r, s) ==
  /\ pc' = [pc EXCEPT ![r] = s]
  /\ UNCHANGED <<mix, req, loaded, before>>

\* The transaction is rolled back and the request forgotten.
Fails(r, s) ==
  /\ pc' = [pc EXCEPT ![r] = s]
  /\ req' = [req EXCEPT ![r] = NoRequest]
  /\ loaded' = [loaded EXCEPT ![r] = Nothing]
  /\ UNCHANGED <<mix, before>>

\* The same, keeping l.
Keeps(r, l, s) ==
  /\ pc' = [pc EXCEPT ![r] = s]
  /\ loaded' = [loaded EXCEPT ![r] = l]
  /\ UNCHANGED <<mix, req, before>>

\* An exception, a lost connection or the end of the process.
Rollback(r) == pc[r] \in Open /\ Fails(r, "failed")

\* Another transaction has updated that row and not ended.
RowLocked(r, row) == \E o \in Req \ {r} : pc[o] = "locked" /\ req[o].row = row

Committed(r) == pc[r] = "committed"

\* Both have arrived, and neither had been answered when the other did.
Overlap(q, r) == q # r /\ "new" \notin {pc[q], pc[r]}
                 /\ q \notin before[r] /\ r \notin before[q]
=============================================================================
