----------------------------- MODULE RuntimeConfig -----------------------------
(***************************************************************************)
(* One setting that the platform owner edits, the Stripe key: its row in   *)
(* platform_config, the cache shared by the instances, the snapshot each   *)
(* instance re-resolves on its request path, and the payment client built  *)
(* from the snapshot and held.  Reading the setting awaits twice or three  *)
(* times; requests of an instance, other instances and the owner's edits   *)
(* go on in between.  The prompts the owner edits are in PromptRegistry.   *)
(***************************************************************************)
EXTENDS PromptRegistry

CONSTANTS
  Instances,
  Visits,      \* concurrent requests
  Home,        \* Home[r]: the instance that serves r
  Values,      \* what may be stored
  Bad,         \* the values out of the key's bounds
  Env,         \* the environment's value
  Unset,       \* no row; in the cache, the miss sentinel
  Absent,      \* not cached; no client
  CacheTtl,    \* CACHE_TTL_SECONDS
  RefreshTime, \* SETTINGS_REFRESH_SECONDS
  Slowest,     \* bound on the time a refresh takes
  TimeMax,     \* bound on the monotonic clock
  WriteMax     \* bound on the edits of the row

ASSUME ConfigAssumption ==
  /\ Bad \subseteq Values /\ Env # Unset /\ Env # Absent /\ Unset # Absent
  /\ {Env, Unset, Absent} \cap Values = {}
  /\ Home \in [Visits -> Instances]
  /\ CacheTtl \in Nat \ {0} /\ RefreshTime \in Nat \ {0} /\ Slowest \in Nat
  /\ TimeMax \in Nat /\ WriteMax \in Nat

VARIABLES
  now,       \* time.monotonic(): it starts when the machine does
  stored, cachedRow, expires,
  effective, \* an instance: the setting in its snapshot
  resolvedAt,\* _effective_at
  client,    \* the client it holds: the key it was built from
  visit,     \* a request: where it is
  edit,      \* put_setting or delete_setting
  edits,
  \* history variables
  lastTrue,  \* a setting: when it last was what the row resolves to
  blind,     \* an instance: its last refresh failed
  settled,   \* an instance: it handled the last write
  muddied    \* an instance: why it may hold a client of an older value

configVars == <<now, stored, cachedRow, expires, effective, resolvedAt, client, visit, edit, edits,
                lastTrue, blind, settled, muddied>>
settingRow == <<stored, cachedRow, expires, edits, lastTrue>>
instanceVars == <<effective, resolvedAt, client, blind, settled, muddied>>

Storable == Values \cup {Unset}
Away == [at |-> "away", got |-> Absent, since |-> 0]
Served == [Away EXCEPT !.at = "served"]
NoEdit == [at |-> "none", on |-> Absent]

ConfigTypeOK ==
  /\ now \in 0 .. TimeMax /\ stored \in Storable /\ cachedRow \in Storable \cup {Absent}
  /\ effective \in [Instances -> (Values \ Bad) \cup {Env}]
  /\ client \in [Instances -> (Values \ Bad) \cup {Env, Absent}]
  /\ \A r \in Visits : visit[r].at \in {"away", "cache", "row", "fill", "end", "served"}
  /\ edit.at \in {"none", "drop", "reset"}

-----------------------------------------------------------------------------
EffectiveAny(value) == IF value = Unset THEN Env ELSE value \* mutant: bounds are checked on write only

\* RuntimeConfigService.get: a row that is out of bounds is discarded.
Effective(value) == IF value \in Values \ Bad THEN value ELSE Env

ConfigInit ==
  /\ now = 0 /\ stored \in Storable /\ cachedRow = Absent /\ expires = 0 /\ edits = 0
  /\ effective = [i \in Instances |-> Env] /\ resolvedAt = [i \in Instances |-> 0]
  /\ client = [i \in Instances |-> Absent]
  /\ visit = [r \in Visits |-> Away] /\ edit = NoEdit
  /\ lastTrue = [v \in Values \cup {Env} |-> 0]
  /\ blind = [i \in Instances |-> FALSE] /\ settled = [i \in Instances |-> FALSE]
  /\ muddied = [i \in Instances |-> {}]

\* Lifetimes are whole ticks; a refresh takes at most Slowest.
Passes ==
  /\ now < TimeMax
  /\ \A r \in Visits : visit[r].at \in {"away", "served"} \/ now < visit[r].since + Slowest
  /\ now' = now + 1
  /\ lastTrue' = [lastTrue EXCEPT ![Effective(stored)] = now + 1]
  /\ UNCHANGED <<stored, cachedRow, expires, edits, instanceVars, visit, edit>>

-----------------------------------------------------------------------------
Cell == IF now < expires THEN cachedRow ELSE Absent

\* The middleware: effective_settings, which trusts a recent snapshot.
Arrive(r) ==
  /\ visit[r].at = "away"
  /\ visit' = [visit EXCEPT ![r] =
       IF now - resolvedAt[Home[r]] < RefreshTime THEN Served
       ELSE [Away EXCEPT !.at = "cache", !.since = now]]
  /\ UNCHANGED <<now, settingRow, instanceVars, edit>>

ReadCached(r) ==
  /\ visit[r].at = "cache"
  /\ visit' = [visit EXCEPT ![r].at = IF Cell = Absent THEN "row" ELSE "end", ![r].got = Cell]
  /\ UNCHANGED <<now, settingRow, instanceVars, edit>>

ReadRow(r) ==
  /\ visit[r].at = "row"
  /\ visit' = [visit EXCEPT ![r].at = "fill", ![r].got = stored]
  /\ UNCHANGED <<now, settingRow, instanceVars, edit>>

Fill(r) ==
  /\ visit[r].at = "fill"
  /\ cachedRow' = visit[r].got /\ expires' = now + CacheTtl
  /\ visit' = [visit EXCEPT ![r].at = "end"]
  /\ UNCHANGED <<now, stored, edits, lastTrue, instanceVars, edit>>

\* _overlay; the snapshot is as old as the beginning of the refresh.
Resolved(r) ==
  LET i == Home[r] IN
  /\ visit[r].at = "end"
  /\ effective' = [effective EXCEPT ![i] = Effective(visit[r].got)]
  /\ resolvedAt' = [resolvedAt EXCEPT ![i] = visit[r].since]
  /\ blind' = [blind EXCEPT ![i] = FALSE]
  /\ visit' = [visit EXCEPT ![r] = Served]
  /\ UNCHANGED <<now, settingRow, client, settled, muddied, edit>>

\* The cache or the database fails: the previous snapshot is served.
RefreshFails(r) ==
  LET i == Home[r] IN
  /\ visit[r].at \in {"cache", "row", "fill"}
  /\ resolvedAt' = [resolvedAt EXCEPT ![i] = visit[r].since]
  /\ blind' = [blind EXCEPT ![i] = TRUE]
  /\ muddied' = [muddied EXCEPT ![i] = IF settled[i] THEN @ \cup {"failed"} ELSE @]
  /\ visit' = [visit EXCEPT ![r] = Served]
  /\ UNCHANGED <<now, settingRow, effective, client, settled, edit>>

\* The request: one that pays uses the client, built when there is none.
Finish(r) ==
  LET i == Home[r] IN
  /\ visit[r].at = "served"
  /\ visit' = [visit EXCEPT ![r] = Away]
  /\ \/ UNCHANGED client
     \/ client' = [client EXCEPT ![i] = IF @ = Absent THEN effective[i] ELSE @]
  /\ UNCHANGED <<now, settingRow, effective, resolvedAt, blind, settled, muddied, edit>>

\* test_billing_connection drops the client, so that another is built.
TestConnection(r) ==
  LET i == Home[r] IN
  /\ visit[r].at = "served"
  /\ visit' = [visit EXCEPT ![r] = Away]
  /\ client' = [client EXCEPT ![i] = effective[i]]
  /\ UNCHANGED <<now, settingRow, effective, resolvedAt, blind, settled, muddied, edit>>

-----------------------------------------------------------------------------
Writes(value, why) ==
  /\ edits < WriteMax /\ edits' = edits + 1
  /\ stored' = value
  /\ lastTrue' = [lastTrue EXCEPT ![Effective(stored)] = now, ![Effective(value)] = now]
  /\ settled' = [i \in Instances |-> FALSE] /\ muddied' = [i \in Instances |-> why]

\* put_setting, whose value is validated, or delete_setting, on an instance.
WriteSetting(i, value) ==
  /\ edit = NoEdit /\ value \notin Bad
  /\ Writes(value, {})
  /\ edit' = [at |-> "drop", on |-> i]
  /\ UNCHANGED <<now, cachedRow, expires, effective, resolvedAt, client, visit, blind>>

DropCached ==
  /\ edit.at = "drop"
  /\ cachedRow' = Absent /\ expires' = 0
  /\ edit' = [edit EXCEPT !.at = "reset"]
  /\ muddied' = [muddied EXCEPT ![edit.on] =
       IF \E r \in Visits : visit[r].at = "fill" /\ visit[r].got # stored THEN {"filled"} ELSE {}]
  /\ UNCHANGED <<now, stored, edits, lastTrue, effective, resolvedAt, client, blind, settled, visit>>

KeepClient == \* mutant: _reset_dependents is not called
  LET i == edit.on IN
  /\ edit.at = "reset"
  /\ resolvedAt' = [resolvedAt EXCEPT ![i] = 0]
  /\ edit' = NoEdit
  /\ settled' = [settled EXCEPT ![i] = TRUE]
  /\ muddied' = [muddied EXCEPT ![i] =
       @ \cup (IF \E r \in Visits : Home[r] = i /\ visit[r].at # "away" THEN {"underway"} ELSE {})
         \cup (IF now < RefreshTime THEN {"young"} ELSE {})]
  /\ UNCHANGED <<now, settingRow, client, effective, blind, visit>>

\* invalidate_settings and _reset_dependents, for this instance.
ResetInstance ==
  LET i == edit.on IN
  /\ edit.at = "reset"
  /\ resolvedAt' = [resolvedAt EXCEPT ![i] = 0]
  /\ client' = [client EXCEPT ![i] = Absent]
  /\ edit' = NoEdit
  /\ settled' = [settled EXCEPT ![i] = TRUE]
  /\ muddied' = [muddied EXCEPT ![i] =
       @ \cup (IF \E r \in Visits : Home[r] = i /\ visit[r].at # "away" THEN {"underway"} ELSE {})
         \cup (IF now < RefreshTime THEN {"young"} ELSE {})]
  /\ UNCHANGED <<now, settingRow, effective, blind, visit>>

\* The request dies after its write.
EditDies ==
  /\ edit # NoEdit
  /\ edit' = NoEdit /\ muddied' = [i \in Instances |-> {}]
  /\ UNCHANGED <<now, settingRow, effective, resolvedAt, client, blind, settled, visit>>

\* set_config, or a row edited by hand: nothing is checked and nothing dropped.
WriteRow(value) ==
  /\ Writes(value, {"unhandled"})
  /\ UNCHANGED <<now, cachedRow, expires, effective, resolvedAt, client, visit, edit, blind>>

\* flush_cache.
Flush ==
  /\ Cell # Absent
  /\ cachedRow' = Absent /\ expires' = 0
  /\ UNCHANGED <<now, stored, edits, lastTrue, instanceVars, visit, edit>>

ConfigNext ==
  \/ Passes \/ DropCached \/ ResetInstance \/ EditDies \/ Flush
  \/ \E r \in Visits :
       \/ Arrive(r) \/ ReadCached(r) \/ ReadRow(r) \/ Fill(r) \/ Resolved(r)
       \/ RefreshFails(r) \/ Finish(r) \/ TestConnection(r)
  \/ \E value \in Storable : WriteRow(value) \/ \E i \in Instances : WriteSetting(i, value)

ConfigSpec == ConfigInit /\ [][ConfigNext]_configVars

-----------------------------------------------------------------------------
\* An instance whose snapshot is trusted, was read, and read successfully.
Trusts(i) == now - resolvedAt[i] < RefreshTime /\ resolvedAt[i] # 0 /\ ~blind[i]

\* Types: no snapshot and no client ever holds a value out of bounds, whoever
\* wrote the row; a snapshot is never staler than the two lifetimes and one slow
\* refresh together, in whole ticks (runtime_config.py:21 says the TTL bounds
\* it); and the instance that handled the last edit "is corrected at once"
\* (admin.py:81-85): its client is of the new value, unless when it dropped the
\* cache a refresh was about to put the old value back, a request was under way
\* on it when it dropped its client, a refresh of it failed since, the row was
\* written by hand between its dropping the cache and its dropping its client, or
\* the machine was so young that the snapshot counts as recent.  And the prompts
\* that are edited beside the settings hold together.
EditsTakeEffect ==
  /\ ConfigTypeOK /\ PromptsHoldTogether
  /\ \A i \in Instances :
       /\ Trusts(i) => now - lastTrue[effective[i]] <= (CacheTtl - 1) + (RefreshTime - 1) + Slowest
       /\ settled[i] /\ muddied[i] = {} => client[i] \in {Absent, Effective(stored)}
=============================================================================
