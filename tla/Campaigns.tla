----------------------------- MODULE Campaigns -----------------------------
(***************************************************************************)
(* Notification campaigns.  The router commits the campaign and then       *)
(* queues a job; the worker's job notifies the audience in batches and     *)
(* commits each.  The worker's session expires what it holds at a commit   *)
(* (tasks.py builds AsyncSession(engine) with the default), so the first   *)
(* read of the campaign's title in a second batch raises MissingGreenlet   *)
(* and the job ends.  A job that raises is not run again; one whose worker *)
(* went away is.                                                           *)
(***************************************************************************)
EXTENDS Sessions

CONSTANTS
  Audience,    \* the sets of users that an audience may select
  BatchSize    \* CAMPAIGN_BATCH_SIZE

ASSUME CampaignsAssumption ==
  /\ \A audience \in Audience : audience \subseteq User /\ IsFiniteSet(audience)
  /\ BatchSize \in Nat \ {0}

VARIABLES
  campaigns,  \* rows [id, audience, status, target, delivered]
  queue,      \* the campaigns whose job arq holds
  notes       \* notifications [campaign, run, user]

news == <<campaigns, queue, notes>>

CampaignsInit == campaigns = {} /\ queue = {} /\ notes = {}

\* _resolve_audience
Resolved(audience) == {u \in audience : Found(u)}

Campaign(id) == CHOOSE c \in campaigns : c.id = id

\* The campaign of job r's row, changed to c.
Changed(r, c) == campaigns' = (campaigns \ {Campaign(req[r].row)}) \cup {c}

-----------------------------------------------------------------------------
CampaignRead(r, a, audience) ==
  /\ Permitted(a, "notifications.send")
  /\ Resolved(audience) # {}
  /\ Arrives(r, [op |-> "campaign", by |-> a, row |-> r, audience |-> audience],
             [count |-> Cardinality(Resolved(audience))], "read")
  /\ UNCHANGED news

CampaignCommit(r) ==
  /\ At(r, "read", {"campaign"})
  /\ campaigns' = campaigns \cup
       {[id |-> r, audience |-> req[r].audience, status |-> "QUEUED",
         target |-> loaded[r].count, delivered |-> 0]}
  /\ Goes(r, "got")
  /\ UNCHANGED <<queue, notes>>

\* enqueue_job is best effort; a process that ends before it rolls nothing back.
Enqueue(r) ==
  /\ At(r, "got", {"campaign"})
  /\ queue' = queue \cup {r} \/ UNCHANGED queue
  /\ Goes(r, "committed")
  /\ UNCHANGED <<campaigns, notes>>

-----------------------------------------------------------------------------
\* Fault: a campaign that is done is sent again.
FaultWorkLeft(c) == c.status \in {"QUEUED", "SENDING", "DONE"}

WorkLeft(c) == c.status # "DONE"

\* arq gives one worker the job at a time.
FanoutRead(r, c) ==
  /\ c.id \in queue
  /\ ~\E o \in Req : pc[o] \in Open /\ req[o].op = "fanout" /\ req[o].row = c.id
  /\ IF WorkLeft(c)
     THEN /\ Arrives(r, [op |-> "fanout", row |-> c.id], [left |-> Resolved(c.audience)], "read")
          /\ UNCHANGED queue
     ELSE /\ Arrives(r, [op |-> "fanout", row |-> c.id], Nothing, "committed")
          /\ queue' = queue \ {c.id}
  /\ UNCHANGED <<campaigns, notes>>

\* One batch, in the order the database returned the users.
FanoutBatch(r) ==
  LET left == loaded[r].left
      c    == Campaign(req[r].row)
  IN
  /\ At(r, "read", {"fanout"})
  /\ \E batch \in SUBSET left :
       /\ batch # {}
       /\ batch = left \/ Cardinality(batch) = BatchSize
       /\ Cardinality(batch) <= BatchSize
       /\ notes' = notes \cup {[campaign |-> c.id, run |-> r, user |-> u] : u \in batch}
       /\ Changed(r, [c EXCEPT !.status = "SENDING", !.target = Cardinality(left),
                               !.delivered = Cardinality(batch)])
       /\ Goes(r, IF batch = left THEN "got" ELSE "dropped")
  /\ UNCHANGED queue

\* The worker may go away between the commit and the removal of the job.
FanoutDone(r) ==
  LET c == Campaign(req[r].row) IN
  /\ \/ At(r, "got", {"fanout"}) /\ Changed(r, [c EXCEPT !.status = "DONE"])
     \/ /\ At(r, "read", {"fanout"}) /\ loaded[r].left = {}
        /\ Changed(r, [c EXCEPT !.status = "DONE", !.target = 0])
  /\ queue' \in {queue, queue \ {c.id}}
  /\ Goes(r, "committed")
  /\ UNCHANGED notes

\* MissingGreenlet after the first of several batches, and anything else that
\* raises.
FanoutRaises(r) ==
  /\ pc[r] \in Open /\ req[r].op = "fanout"
  /\ queue' = queue \ {req[r].row}
  /\ Fails(r, "failed")
  /\ UNCHANGED <<campaigns, notes>>

CampaignStep(r) ==
  \/ \E a \in User, audience \in Audience : CampaignRead(r, a, audience)
  \/ \E c \in campaigns : FanoutRead(r, c)
  \/ CampaignCommit(r) \/ Enqueue(r) \/ FanoutBatch(r) \/ FanoutDone(r) \/ FanoutRaises(r)

-----------------------------------------------------------------------------
NotesOf(run) == {n \in notes : n.run = run}

\* A campaign that is done has counted whom it notified, and one run notified
\* them all; it notifies somebody again only after a run that did not end.
CampaignAccounts ==
  /\ \A c \in campaigns : c.status = "DONE" =>
       \E r \in Req :
         /\ Committed(r) /\ req[r].op = "fanout" /\ req[r].row = c.id
         /\ Cardinality(NotesOf(r)) = c.target
         /\ c.target \in {c.delivered, 0}
  /\ \A m, n \in notes : m.campaign = n.campaign /\ m.run # n.run =>
       "failed" \in {pc[m.run], pc[n.run]}
=============================================================================
