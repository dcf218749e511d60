------------------------------ MODULE Settings ------------------------------
(***************************************************************************)
(* The application configuration: rows of app_configs, written by          *)
(* administrators, and the public payload that is kept in Redis for five   *)
(* minutes.  A write is flushed, then deletes the cached payload, then     *)
(* commits; a reader who finds no payload reads the rows and stores what   *)
(* it read.  Redis is best effort: any of its calls may do nothing.        *)
(***************************************************************************)
EXTENDS Sessions, ConfigKeys

CONSTANT ConfigKey   \* the keys that are used

\* Two keys with one public name would share a place in the payload.
ASSUME ConfigAssumption ==
  \A k, l \in ConfigKey : PublicName(k) = PublicName(l) => k = l

VARIABLES
  config,   \* the row of each key: [value, on]; value is the request that set
            \* it or Never, on whether it is public and active
  cache     \* the payload in Redis: [data, by], or NoPayload

settings == <<config, cache>>

NoPayload == [data |-> {}, by |-> Never]

SettingsInit ==
  /\ config = [k \in ConfigKey |->
                 IF k \in SeededKeys THEN [value |-> Old, on |-> TRUE]
                 ELSE [value |-> Never, on |-> FALSE]]
  /\ cache = NoPayload

HasRow(k) == config[k].value # Never

\* list_public_active and _group.
Payload == {<<PublicName(k), config[k].value>> : k \in {x \in ConfigKey : config[x].on}}

-----------------------------------------------------------------------------
ConfigOps == {"create_config", "update_config", "deactivate_config"}

\* require_role, and what create and get_by_key ask of the key.
ConfigRead(r, op, a, k, show) ==
  /\ op \in ConfigOps
  /\ role[a] \in {"ADMIN", "SUPER_ADMIN"} /\ CanCall(account[a])
  /\ (op = "create_config") = ~HasRow(k)
  /\ op = "deactivate_config" => ~show
  /\ Arrives(r, [op |-> op, by |-> a, row |-> k, show |-> show], [row |-> config[k]], "read")
  /\ UNCHANGED settings

\* Fault: the payload stays.
FaultConfigFlush(r) ==
  /\ At(r, "read", ConfigOps)
  /\ ~RowLocked(r, req[r].row)
  /\ Keeps(r, [row |-> loaded[r].row, lost |-> FALSE], "locked")
  /\ UNCHANGED settings

\* The flush, which waits for other writers of the key and where the INSERT
\* of a key that has come to exist fails; then _invalidate_cache.
ConfigFlush(r) ==
  LET q == req[r] IN
  /\ At(r, "read", ConfigOps)
  /\ ~RowLocked(r, q.row)
  /\ \/ /\ q.op = "create_config" /\ HasRow(q.row)
        /\ Fails(r, "integrity")
        /\ UNCHANGED cache
     \/ /\ q.op = "create_config" => ~HasRow(q.row)
        /\ \/ /\ cache' = NoPayload
              /\ Keeps(r, [row |-> loaded[r].row, lost |-> FALSE], "locked")
           \/ /\ UNCHANGED cache
              /\ Keeps(r, [row |-> loaded[r].row, lost |-> TRUE], "locked")
  /\ UNCHANGED config

\* deactivate leaves the value; on is written if it changes what was loaded.
ConfigCommit(r) ==
  LET q == req[r] IN
  /\ At(r, "locked", ConfigOps)
  /\ config' = [config EXCEPT ![q.row] =
                  [value |-> IF q.op = "deactivate_config" THEN @.value ELSE r,
                   on |-> IF loaded[r].row.on = q.show THEN @.on ELSE q.show]]
  /\ Goes(r, "committed")
  /\ UNCHANGED cache

-----------------------------------------------------------------------------
\* get_public, when Redis has no payload or does not answer; the answer from
\* the cache changes nothing.
ConfigMiss(r) ==
  /\ Arrives(r, [op |-> "read_config"], [data |-> Payload], "got")
  /\ UNCHANGED settings

\* _cache_set
ConfigFill(r) ==
  /\ At(r, "got", {"read_config"})
  /\ cache' = [data |-> loaded[r].data, by |-> r] \/ UNCHANGED cache
  /\ Goes(r, "committed")
  /\ UNCHANGED config

\* APP_CONFIG_CACHE_TTL
CacheExpires == cache # NoPayload /\ cache' = NoPayload /\ UNCHANGED config

SettingsStep(r) ==
  \/ \E op \in ConfigOps \cap mix.ops, a \in User, k \in ConfigKey, show \in BOOLEAN :
       ConfigRead(r, op, a, k, show)
  \/ ConfigFlush(r) \/ ConfigCommit(r) \/ ConfigMiss(r) \/ ConfigFill(r)

-----------------------------------------------------------------------------
\* What clients are served from the cache is the committed configuration,
\* unless a write overlapped the reader who filled it, which happens because
\* the payload is deleted before the commit, or a write's delete was lost.
CacheCatchesUp ==
  cache # NoPayload /\ cache.data # Payload =>
    \E w \in Req : /\ Committed(w) /\ req[w].op \in ConfigOps
                   /\ loaded[w].lost \/ Overlap(w, cache.by)
=============================================================================
