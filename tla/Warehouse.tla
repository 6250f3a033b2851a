------------------------------ MODULE Warehouse ------------------------------
(***************************************************************************)
(* The hourly pipeline of the warehouse box.  run_sync.sh inserts a row    *)
(* 'running' in woo.sync_control, has pull_fdm4.py copy the tables of FDM4 *)
(* into a dump, has load_dump.py swap the raw tables (one transaction) and *)
(* then rebuild woo.store_product_state (another), and writes 'success'    *)
(* with the version the transform reached.  WordPress reconciles only when *)
(* that version is new; a feed consumer pages through the rows by version. *)
(*                                                                         *)
(* A run is a script and at most one child process, which may outlive it:  *)
(* cron's flock is held while either lives.  timeout terminates the whole  *)
(* group, reap.sh kills what is past the cap and closes rows left          *)
(* 'running', and the box can stop.  Time is not counted: a run is at some *)
(* moment "aged", past the cap, and may then be terminated and reaped.     *)
(*                                                                         *)
(* Each table of the source yields one row of the projection, so that a    *)
(* dump torn between two edits of FDM4 yields a torn projection.  A        *)
(* manifest that fails validation is an import that fails; the retention   *)
(* of old dumps, of control rows past 30 days and the price, mix and PIM   *)
(* overlays of the transform are left out.                                 *)
(***************************************************************************)
EXTENDS Integers, FiniteSets, FiniteSetsExt

CONSTANTS
    Tables,      \* the tables pulled from FDM4
    Contents,    \* what a table can hold for the row it yields
    Absent,      \* no row
    Unread,      \* not pulled yet, or not transformed yet
    Failed,      \* the dump of this table failed
    Runs,        \* slots for the rows of sync_control with op 'pull'
    Limit,       \* page size of /feed/products
    MaxEdits,    \* bound: edits of FDM4
    MaxFaults    \* bound: failed tables, loads and transforms, slow runs, stops of the box

ASSUME LimitAssumption == Limit \in Nat \ {0}
ASSUME BoundsAssumption == MaxEdits \in Nat /\ MaxFaults \in Nat
ASSUME TablesAssumption == Tables # {} /\ IsFiniteSet(Tables)
ASSUME AtomsAssumption == Absent \notin Contents /\ {Unread, Failed} \cap (Contents \cup {Absent}) = {}

VARIABLES
    source,      \* FDM4
    dump,        \* the dump current.json names
    raw,         \* fdm4.*
    projection,  \* woo.store_product_state: per row its content, is_active, row_version
    seq,         \* woo.state_version_seq
    flag,        \* woo.app_flag 'fdm4_load': down, up, or up for more than 15 minutes
    control,     \* status of each pull row
    advertised,  \* refresh_version of the last successful pull
    script,      \* run_sync.sh of each run
    child,       \* the pull_fdm4 or load_dump of each run
    batch,       \* the rows a child works on
    staged,      \* rows written by a transform that has not committed
    result,      \* the refresh_version a load printed
    aged,        \* runs past the 55 minute cap
    latest,      \* the run started last
    had,         \* history: what FDM4 has held since a run started
    consumer,    \* a feed consumer: its cursor and what it was served
    shop,        \* WordPress: version of the last full reconcile, the open gate, its catalogue
    edits, faults

fdm4 == <<source, edits>>
layers == <<dump, raw, projection, seq>>
books == <<control, advertised, latest, had>>
process == <<script, child, batch, staged, result, aged>>
readers == <<consumer, shop>>
vars == <<source, dump, raw, projection, seq, flag, control, advertised, script, child, batch,
          staged, result, aged, latest, had, consumer, shop, edits, faults>>

Held == Contents \cup {Absent}
Blank == [t \in Tables |-> Unread]
Row == [content : Held, active : BOOLEAN, version : Nat]
NoRow == [content |-> Absent, active |-> FALSE, version |-> 0]
Shown(row) == IF row.active THEN row.content ELSE Absent
Carries(rows) == [t \in Tables |-> Shown(rows[t])]
Version(rows) == Max({rows[t].version : t \in Tables})
Dead(r) == script[r] = "none" /\ child[r] = "none"

TypeOK ==
    /\ source \in [Tables -> Held] /\ dump \in [Tables -> Held] /\ raw \in [Tables -> Held]
    /\ projection \in [Tables -> Row] /\ seq \in Nat
    /\ \A t \in Tables : projection[t].version <= seq
    /\ flag \in {"down", "up", "stale"}
    /\ control \in [Runs -> {"none", "running", "success", "failed"}]
    /\ advertised \in Nat /\ latest \in Runs \cup {Absent}
    /\ script \in [Runs -> {"none", "pull", "load"}]
    /\ child \in [Runs -> {"none", "pull", "load", "swap", "swapped", "refresh", "ok", "bad"}]
    /\ batch \in [Runs -> [Tables -> Held \cup {Unread, Failed}]]
    /\ staged \in [Runs -> [Tables -> Row \cup {Unread}]]
    /\ result \in [Runs -> Nat] /\ aged \subseteq Runs
    /\ had \in [Runs -> [Tables -> SUBSET Held]]
    /\ consumer \in [cursor : Nat, served : [Tables -> Held]]
    /\ shop \in [full : Nat, gate : Nat, holds : [Tables -> Held]]
    /\ edits \in 0..MaxEdits /\ faults \in 0..MaxFaults

\* The warehouse has been filled once; every reader has caught up with it.
Init ==
    /\ source \in [Tables -> Held]
    /\ dump = source /\ raw = source
    /\ projection = [t \in Tables |-> IF source[t] = Absent THEN NoRow
                                      ELSE [content |-> source[t], active |-> TRUE, version |-> 1]]
    /\ seq = 1 /\ flag = "down"
    /\ control = [r \in Runs |-> "none"] /\ advertised = 1 /\ latest = Absent
    /\ script = [r \in Runs |-> "none"] /\ child = [r \in Runs |-> "none"]
    /\ batch = [r \in Runs |-> Blank] /\ staged = [r \in Runs |-> Blank]
    /\ result = [r \in Runs |-> 0] /\ aged = {}
    /\ had = [r \in Runs |-> [t \in Tables |-> {}]]
    /\ consumer = [cursor |-> 1, served |-> source]
    /\ shop = [full |-> 1, gate |-> 0, holds |-> source]
    /\ edits = 0 /\ faults = 0

(***************************************************************************)
(* FDM4, outside the repository.                                           *)
(***************************************************************************)
EditFdm4(t, c) ==
    /\ edits < MaxEdits /\ c # source[t]
    /\ source' = [source EXCEPT ![t] = c]
    /\ had' = [r \in Runs |-> IF Dead(r) THEN had[r] ELSE [had[r] EXCEPT ![t] = @ \cup {c}]]
    /\ edits' = edits + 1
    /\ UNCHANGED <<layers, flag, control, advertised, latest, process, readers, faults>>

(***************************************************************************)
(* run_sync.sh.                                                            *)
(***************************************************************************)
\* flock -n: the descriptor is inherited, so a child left alone holds the lock.
LockFree == \A r \in Runs : Dead(r)

Start(r) ==
    /\ LockFree /\ Dead(r) /\ control[r] # "running"
    /\ control' = [control EXCEPT ![r] = "running"]
    /\ latest' = r
    /\ had' = [had EXCEPT ![r] = [t \in Tables |-> {source[t]}]]
    /\ script' = [script EXCEPT ![r] = "pull"]
    /\ child' = [child EXCEPT ![r] = "pull"]
    /\ UNCHANGED <<fdm4, layers, flag, advertised, batch, staged, result, aged, readers, faults>>

\* fault: the status of the grep behind the pull is looked at.
StartAnyLoad(r) ==
    /\ script[r] = "pull" /\ child[r] \in {"ok", "bad"}
    /\ script' = [script EXCEPT ![r] = "load"]
    /\ child' = [child EXCEPT ![r] = "load"]
    /\ batch' = [batch EXCEPT ![r] = dump]
    /\ UNCHANGED <<fdm4, layers, flag, books, staged, result, aged, readers, faults>>

\* pull_rc is that of the pull, not of the grep behind it; load_dump.py opens
\* the dump current.json names.
StartLoad(r) ==
    /\ script[r] = "pull" /\ child[r] = "ok"
    /\ script' = [script EXCEPT ![r] = "load"]
    /\ child' = [child EXCEPT ![r] = "load"]
    /\ batch' = [batch EXCEPT ![r] = dump]
    /\ UNCHANGED <<fdm4, layers, flag, books, staged, result, aged, readers, faults>>

\* The processes of these runs end; the server rolls back what they had open.
Gone(dead) ==
    /\ script' = [r \in Runs |-> IF r \in dead THEN "none" ELSE script[r]]
    /\ child' = [r \in Runs |-> IF r \in dead THEN "none" ELSE child[r]]
    /\ batch' = [r \in Runs |-> IF r \in dead THEN Blank ELSE batch[r]]
    /\ staged' = [r \in Runs |-> IF r \in dead THEN Blank ELSE staged[r]]
    /\ result' = [r \in Runs |-> IF r \in dead THEN 0 ELSE result[r]]
    /\ had' = [r \in Runs |-> IF r \in dead THEN [t \in Tables |-> {}] ELSE had[r]]
    /\ aged' = aged \ dead

\* fail(): its UPDATE does not ask that the row be still running.
FailRun(r) ==
    /\ script[r] # "none" /\ child[r] = "bad"
    /\ control' = [control EXCEPT ![r] = "failed"]
    /\ Gone({r})
    /\ UNCHANGED <<fdm4, layers, flag, advertised, latest, readers, faults>>

\* fault: the last UPDATE closes the row whatever its status.
FinalizeAnyRow(r) ==
    /\ script[r] = "load" /\ child[r] = "ok"
    /\ control' = [control EXCEPT ![r] = "success"]
    /\ advertised' = Max({result[r], advertised})
    /\ Gone({r})
    /\ UNCHANGED <<fdm4, layers, flag, latest, readers, faults>>

Finalize(r) ==
    /\ script[r] = "load" /\ child[r] = "ok"
    /\ IF control[r] = "running"
       THEN /\ control' = [control EXCEPT ![r] = "success"]
            /\ advertised' = Max({result[r], advertised})
       ELSE UNCHANGED <<control, advertised>>
    /\ Gone({r})
    /\ UNCHANGED <<fdm4, layers, flag, latest, readers, faults>>

(***************************************************************************)
(* pull_fdm4.py: one table after the other, with no snapshot of FDM4.      *)
(***************************************************************************)
PullTable(r, t) ==
    /\ child[r] = "pull" /\ batch[r][t] = Unread
    /\ batch' = [batch EXCEPT ![r][t] = source[t]]
    /\ UNCHANGED <<fdm4, layers, flag, books, script, child, staged, result, aged, readers, faults>>

PullTableFails(r, t) ==
    /\ child[r] = "pull" /\ batch[r][t] = Unread /\ faults < MaxFaults
    /\ batch' = [batch EXCEPT ![r][t] = Failed]
    /\ faults' = faults + 1
    /\ UNCHANGED <<fdm4, layers, flag, books, script, child, staged, result, aged, readers>>

Complete(rows) == \A t \in Tables : rows[t] \in Held

\* Only a complete dump is publishable and becomes the current one.
Promote(r) ==
    /\ child[r] = "pull" /\ \A t \in Tables : batch[r][t] # Unread
    /\ IF Complete(batch[r])
       THEN /\ dump' = batch[r]
            /\ child' = [child EXCEPT ![r] = "ok"]
       ELSE /\ UNCHANGED dump
            /\ child' = [child EXCEPT ![r] = "bad"]
    /\ UNCHANGED <<fdm4, raw, projection, seq, flag, books, script, batch, staged, result, aged, readers, faults>>

(***************************************************************************)
(* load_dump.py.                                                           *)
(***************************************************************************)
RaiseFlag(r) ==
    /\ child[r] = "load"
    /\ flag' = "up"
    /\ child' = [child EXCEPT ![r] = "swap"]
    /\ UNCHANGED <<fdm4, layers, books, script, batch, staged, result, aged, readers, faults>>

Swap(r) ==
    /\ child[r] = "swap"
    /\ raw' = batch[r]
    /\ child' = [child EXCEPT ![r] = "swapped"]
    /\ UNCHANGED <<fdm4, dump, projection, seq, flag, books, script, batch, staged, result, aged, readers, faults>>

\* The flag comes down and the transform computes the rows it wants.
BeginRefresh(r) ==
    /\ child[r] = "swapped"
    /\ flag' = "down"
    /\ batch' = [batch EXCEPT ![r] = raw]
    /\ staged' = [staged EXCEPT ![r] = Blank]
    /\ child' = [child EXCEPT ![r] = "refresh"]
    /\ UNCHANGED <<fdm4, layers, books, script, result, aged, readers, faults>>

Live(content, v) == [content |-> content, active |-> TRUE, version |-> v]
\* fault: a row that comes back as it was keeps the version of its tombstone.
Unrevived(row, content, v) ==
    IF content = Absent
    THEN IF row.active THEN [row EXCEPT !.active = FALSE, !.version = v] ELSE row
    ELSE IF row.content # content THEN Live(content, v) ELSE Live(content, row.version)
\* A version is spent on what a consumer can see: new content, a row back from
\* its tombstone, a row gone.
Refreshed(row, content, v) ==
    IF content = Absent
    THEN IF row.active THEN [row EXCEPT !.active = FALSE, !.version = v] ELSE row
    ELSE IF row.content # content \/ ~row.active THEN Live(content, v) ELSE row

\* A row that another transform has written is locked until it commits.
RefreshRow(r, t) ==
    LET row == Refreshed(projection[t], batch[r][t], seq + 1)
    IN  /\ child[r] = "refresh" /\ staged[r][t] = Unread
        /\ \A q \in Runs \ {r} : staged[q][t] = Unread
        /\ batch[r][t] = Absent =>
               \A u \in Tables : batch[r][u] # Absent => staged[r][u] # Unread
        /\ staged' = [staged EXCEPT ![r][t] = row]
        /\ seq' = IF row = projection[t] THEN seq ELSE seq + 1
        /\ UNCHANGED <<fdm4, dump, raw, projection, flag, books, script, child, batch, result, aged, readers, faults>>

\* The version is read in the transaction of the transform, tombstones included.
CommitRefresh(r) ==
    /\ child[r] = "refresh" /\ \A t \in Tables : staged[r][t] # Unread
    /\ projection' = staged[r]
    /\ result' = [result EXCEPT ![r] = Version(staged[r])]
    /\ staged' = [staged EXCEPT ![r] = Blank]
    /\ child' = [child EXCEPT ![r] = "ok"]
    /\ UNCHANGED <<fdm4, dump, raw, seq, flag, books, script, batch, aged, readers, faults>>

\* An exception rolls the open transaction back and takes the flag down.
LoadFails(r) ==
    /\ child[r] \in {"swap", "swapped", "refresh"} /\ faults < MaxFaults
    /\ flag' = "down"
    /\ staged' = [staged EXCEPT ![r] = Blank]
    /\ child' = [child EXCEPT ![r] = "bad"]
    /\ faults' = faults + 1
    /\ UNCHANGED <<fdm4, layers, books, script, batch, result, aged, readers>>

\* FDM4_LOAD_FLAG_MAX_AGE: an old flag no longer pauses the syncs.
FlagAges ==
    /\ flag = "up" /\ flag' = "stale"
    /\ UNCHANGED <<fdm4, layers, books, process, readers, faults>>

(***************************************************************************)
(* Runs that are slow, hung, killed.                                       *)
(***************************************************************************)
Age(r) ==
    /\ ~Dead(r) /\ r \notin aged /\ faults < MaxFaults
    /\ aged' = aged \cup {r}
    /\ faults' = faults + 1
    /\ UNCHANGED <<fdm4, layers, flag, books, script, child, batch, staged, result, readers>>

\* timeout 3300: the child dies, the trap runs and the script ends.
Terminate(r) ==
    /\ r \in aged /\ script[r] # "none"
    /\ Gone({r})
    /\ control' = [control EXCEPT ![r] = IF @ = "running" THEN "failed" ELSE @]
    /\ UNCHANGED <<fdm4, layers, flag, advertised, latest, readers, faults>>

\* fault: only the script is looked for.
ReapScript(r) ==
    /\ r \in aged /\ script[r] # "none"
    /\ script' = [script EXCEPT ![r] = "none"]
    /\ UNCHANGED <<fdm4, layers, flag, books, child, batch, staged, result, aged, readers, faults>>

\* reap.sh, 1): a load is younger than its script and may be spared.
Reap(r) ==
    /\ r \in aged
    /\ \/ Gone({r})
       \/ /\ script[r] = "load"
          /\ script' = [script EXCEPT ![r] = "none"]
          /\ UNCHANGED <<child, batch, staged, result, had, aged>>
    /\ UNCHANGED <<fdm4, layers, flag, control, advertised, latest, readers, faults>>

\* reap.sh, 2), and the daily prune: whether or not the script still lives.
CloseRow(r) ==
    /\ control[r] = "running" /\ (r \in aged \/ script[r] = "none")
    /\ control' = [control EXCEPT ![r] = "failed"]
    /\ UNCHANGED <<fdm4, layers, flag, advertised, latest, had, process, readers, faults>>

\* A child whose script was killed ends; nobody reads what it printed.
Exit(r) ==
    /\ script[r] = "none" /\ child[r] \in {"ok", "bad"}
    /\ Gone({r})
    /\ UNCHANGED <<fdm4, layers, flag, control, advertised, latest, readers, faults>>

\* The box stops: nothing runs, nothing uncommitted is left.
Stop ==
    /\ faults < MaxFaults /\ ~LockFree
    /\ Gone(Runs)
    /\ faults' = faults + 1
    /\ UNCHANGED <<fdm4, layers, flag, control, advertised, latest, readers>>

(***************************************************************************)
(* The readers: GET /feed/products, and WordPress (outside the repository) *)
(* with its gate and its full reconcile.                                   *)
(***************************************************************************)
Newer(since) == {t \in Tables : projection[t].version > since}
Page(since) ==
    {t \in Newer(since) :
        Cardinality({u \in Newer(since) : projection[u].version < projection[t].version}) < Limit}

FeedProducts ==
    /\ Newer(consumer.cursor) # {}
    /\ consumer' =
        [cursor |-> Max({projection[t].version : t \in Page(consumer.cursor)}),
         served |-> [t \in Tables |-> IF t \in Page(consumer.cursor)
                                      THEN Shown(projection[t]) ELSE consumer.served[t]]]
    /\ UNCHANGED <<fdm4, layers, flag, books, process, shop, faults>>

SyncGate ==
    /\ shop.gate = 0 /\ advertised > shop.full
    /\ shop' = [shop EXCEPT !.gate = advertised]
    /\ UNCHANGED <<fdm4, layers, flag, books, process, consumer, faults>>

Reconcile ==
    /\ shop.gate # 0
    /\ shop' = [full |-> shop.gate, gate |-> 0, holds |-> Carries(projection)]
    /\ UNCHANGED <<fdm4, layers, flag, books, process, consumer, faults>>

(***************************************************************************)
(* The specification.  A run past its cap may hang for ever, so nothing is *)
(* assumed of its own steps; cron, the reaper and the readers keep coming. *)
(***************************************************************************)
Progress(r) ==
    \/ StartLoad(r) \/ FailRun(r) \/ Finalize(r)
    \/ \E t \in Tables : PullTable(r, t) \/ RefreshRow(r, t)
    \/ Promote(r) \/ RaiseFlag(r) \/ Swap(r) \/ BeginRefresh(r) \/ CommitRefresh(r)
    \/ Exit(r)

Faults(r) ==
    \/ \E t \in Tables : PullTableFails(r, t)
    \/ LoadFails(r) \/ Age(r)

Upkeep(r) == Terminate(r) \/ Reap(r) \/ CloseRow(r)

Next ==
    \/ \E t \in Tables, c \in Held : EditFdm4(t, c)
    \/ \E r \in Runs : Start(r) \/ Progress(r) \/ Faults(r) \/ Upkeep(r)
    \/ FlagAges \/ Stop
    \/ FeedProducts \/ SyncGate \/ Reconcile

Fairness ==
    /\ \A r \in Runs : WF_vars(r \notin aged /\ Progress(r)) /\ WF_vars(Reap(r)) /\ WF_vars(CloseRow(r))
    /\ WF_vars(\E r \in Runs : Start(r))
    /\ WF_vars(FeedProducts) /\ WF_vars(SyncGate) /\ WF_vars(Reconcile)

Spec == Init /\ [][Next]_vars /\ Fairness

(***************************************************************************)
(* Properties.                                                             *)
(***************************************************************************)

\* The row of a pull that left 'running' keeps its outcome until its slot is
\* used again: a run closed by the reaper while its script still works is
\* never turned into a success behind the back of those who saw it failed.
OutcomeStands ==
    [][\A r \in Runs :
         control[r] \in {"success", "failed"} => control'[r] \in {control[r], "running"}]_vars

\* A pull is certified only for rows read from FDM4 after it began: each row
\* the projection then shows is one FDM4 has held since the run started,
\* however the tables were torn and whatever earlier dump was left over.
CertifiedIsFresh ==
    [][\A r \in Runs :
         control[r] = "running" /\ control'[r] = "success" =>
            \A t \in Tables : Shown(projection[t]) \in had[r][t]]_vars

FeedMissesNothing ==
    \A t \in Tables :
        projection[t].version <= consumer.cursor => consumer.served[t] = Shown(projection[t])
GateMissesNothing ==
    (LockFree /\ latest # Absent /\ control[latest] = "success" /\ advertised <= shop.full) =>
        shop.holds = Carries(projection)

\* Neither reader steps over a change: every row at or below the cursor of a
\* consumer of the feed is the row it was served; and when the last pull
\* succeeded and the gate finds nothing newer than the last reconcile, the
\* shop carries the projection, removals included.
ReadersMissNothing == TypeOK /\ FeedMissesNothing /\ GateMissesNothing

\* Once FDM4 rests, the shop and the consumer come to show it, through runs
\* that fail, hang, are killed or leave the raw tables ahead of the projection.
ReadersConverge == <>[](shop.holds = source /\ consumer.served = source)

=============================================================================
