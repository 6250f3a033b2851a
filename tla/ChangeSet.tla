------------------------------ MODULE ChangeSet ------------------------------
(* Reviewed change sets of the logo-admin agent (logo-admin/staging.py and   *)
(* snapshots.py) over the PostgreSQL tables they edit.                       *)
(*                                                                           *)
(* A write the agent proposes is STAGED: previewed in a transaction that is  *)
(* rolled back, then kept with a hash of what it would change.  A human who  *)
(* has seen the preview APPLIES the set; an applied set can be UNDONE.       *)
(* Beside them, HTTP editors take the same advisory scope locks, imports     *)
(* take none, and a dependency trigger bumps row versions on its own.        *)
(*                                                                           *)
(* The transactions are READ COMMITTED: a statement sees what is committed   *)
(* when it runs, and the transaction's own writes.  One action is one        *)
(* statement, or a group of statements nothing can come between.             *)
EXTENDS Integers, Sequences, FiniteSets

CONSTANTS
    Rows,      \* row keys: the editable tables and the warehouse they read
    Tables,
    TableOf,   \* [Rows -> Tables]
    Stores,
    StoreOf,   \* [the logo.assignment rows -> Stores]
    Values,    \* row contents, as far as a diff can tell them apart
    Absent,    \* the content of a row that does not exist
    Start,     \* the contents the tables may start with
    Commands,  \* what a tool call may stage
    Edits,     \* what an HTTP editor may send
    Loads,     \* what an import or a warehouse load may do to a row
    Named,     \* assignment rows a display name or default cost applies to
    Sets,      \* change-set ids
    Clients,   \* concurrent database connections
    Calls,     \* tool-call ids
    None,
    MaxClock,  \* bound: transactions that commit a change of a row
    MaxRev,    \* bound: revisions of a change set
    MaxItems,  \* max_items of stage_write
    MaxTries   \* the 3 of "for _attempt in range(3)"

AsgRows == DOMAIN StoreOf

ASSUME RowsAssumption ==
    /\ TableOf \in [Rows -> Tables]
    /\ AsgRows \subseteq Rows
    /\ StoreOf \in [AsgRows -> Stores]
    /\ Named \subseteq AsgRows
ASSUME ValuesAssumption == Absent \notin Values
(* Two kinds remove a row: "delete" a logo.assignment row (the hard-delete   *)
(* tools and remove_design with hard=true), "clear" a row of another table   *)
(* (a pricing tier, a color price, a display name, a stock or sync row ...). *)
Command == {m \in [kind : {"set", "copy", "delete", "clear", "fill"},
                   row : Rows, src : Rows, val : Values] :
               /\ m.kind \in {"fill", "delete"} => m.row \in AsgRows
               /\ m.kind = "clear" => m.row \notin AsgRows}
ASSUME CommandsAssumption == Commands \cup Edits \cup Loads \subseteq Command
ASSUME StartAssumption == Start \subseteq [Rows -> Values \cup {Absent}]
ASSUME BoundsAssumption ==
    /\ MaxClock \in Nat /\ MaxRev \in Nat
    /\ MaxItems \in Nat /\ MaxTries \in Nat \ {0}

Vals   == Values \cup {Absent}
Row    == [val : Vals, stamp : Nat, ver : Nat]
Item   == [call : Calls, cmd : Command]
States == [Rows -> Row \cup {None}]
Diffs  == [Rows -> (Vals \X Vals) \cup {None}]
Hash   == [rev : Nat, cmds : Seq(Command), diff : Diffs]

SetRow == [status : {"none", "pending", "applied", "undone", "discarded"},
           rev : Nat, items : Seq(Item), hash : Hash \cup {None},
           hardDelete : BOOLEAN, expired : BOOLEAN]
Place  == {"idle", "request", "lock", "tables", "dispatch", "restore", "persist"}
Job    == [op : {"none", "stage", "refresh", "apply", "undo", "write", "import"},
           set : Sets \cup {None}, base : Nat, cmds : Seq(Command),
           call : Calls \cup {None}, hash : Hash \cup {None}, ack : BOOLEAN,
           tries : Nat, loaded : Row]
ASSUME NoneAssumption ==
    /\ None \notin Sets \cup Vals \cup Row \cup Hash
    /\ None \notin [before : States, after : States]
ASSUME DiffAssumption == None \notin (Vals \X Vals) \cup Diffs

VARIABLES
    db,       \* [Rows -> Row]: what is committed
    clock,    \* now() of the last committed writer, and the version sequence
    cs,       \* logo.agent_change_set with its items, per set
    journal,  \* the 'apply' row of logo.agent_action_journal, per set, or None
    touched,  \* history: a row of this applied set was really written since
    pc,       \* where each client is
    job,      \* the request each client is serving
    done,     \* commands the open transaction has dispatched
    held,     \* advisory transaction locks (scopes)
    tabs,     \* SHARE ROW EXCLUSIVE table locks
    work,     \* uncommitted contents written by the open transaction
    before    \* its "before" snapshot

tx   == <<pc, job, done, held, tabs, work, before>>
vars == <<db, clock, cs, journal, touched, tx>>

-----------------------------------------------------------------------------
(* Rows.  "stamp" is updated_at, "ver" the trigger-managed row_version: two  *)
(* writes never leave the same stamp, and a write always moves the version.  *)

Gone == [val |-> Absent, stamp |-> 0, ver |-> 0]

RowWith(v, s) == [val |-> v, stamp |-> s, ver |-> clock + 1]
NoRows == [r \in Rows |-> None]
NewRow(v) == IF v = Absent THEN Gone ELSE RowWith(v, clock + 1)

Dirty(c) == {r \in Rows : work[c][r] # None}
Visible(c) ==
    [r \in Rows |-> IF r \in Dirty(c) THEN NewRow(work[c][r]) ELSE db[r]]

(* Rows outside the snapshot, and rows a diff does not mention, map to None. *)
Snapshot(view, rows) == [r \in Rows |-> IF r \in rows THEN view[r] ELSE None]

(* states_equal: everything but the trigger-managed row_version.             *)
SameRow(x, y) == x = y                     \* fault: versions compared too
Same(x, y) ==
    \/ x = None /\ y = None
    \/ x # None /\ y # None /\ x.val = y.val /\ x.stamp = y.stamp
StatesEqual(left, right) == \A r \in Rows : Same(left[r], right[r])

(* diff_states without the volatile columns: only contents count.            *)
Diff(old, new) ==
    [r \in Rows |-> IF old[r] # None /\ old[r].val # new[r].val
                   THEN <<old[r].val, new[r].val>> ELSE None]

-----------------------------------------------------------------------------
(* Scopes: an assignment command locks its row scope and its store, whatever *)
(* else it locks; a whole-store scope contains the rows' own.                *)

RowScope(r)   == [kind |-> "row", key |-> r]
StoreScope(x) == [kind |-> "store", key |-> x]
Scopes == {RowScope(r) : r \in Rows} \cup {StoreScope(x) : x \in Stores}

AffectedScope(m) ==
    IF m.kind = "fill" THEN StoreScope(StoreOf[m.row]) ELSE RowScope(m.row)

Contained(s, S) == \E r \in AsgRows : s = RowScope(r) /\ StoreScope(StoreOf[r]) \in S
CompactScopes(S) == {s \in S : ~Contained(s, S)}
AllScopes(cmds) == CompactScopes({AffectedScope(cmds[i]) : i \in DOMAIN cmds})

RowsOf(s) ==
    {r \in Rows : s = RowScope(r) \/ (r \in AsgRows /\ s = StoreScope(StoreOf[r]))}
ScopeRows(cmds) == UNION {RowsOf(s) : s \in AllScopes(cmds)}
ScopeTables(cmds) == {TableOf[r] : r \in ScopeRows(cmds)}

OwnScopes(S) == S                          \* fault: no ancestor locks
LockSet(S) == S \cup {StoreScope(StoreOf[r]) : r \in {q \in AsgRows : RowScope(q) \in S}}

-----------------------------------------------------------------------------
(* Commands.                                                                 *)

Written(m, view) ==
    IF m.kind = "fill"
    THEN {r \in RowsOf(StoreScope(StoreOf[m.row])) : view[r].val # Absent}
    ELSE {m.row}

NewVal(m, view) ==
    CASE m.kind \in {"delete", "clear"} -> Absent
      [] m.kind = "copy"              -> view[m.src].val
      [] OTHER                        -> m.val

Valid(m, view) ==
    /\ m.kind \in {"delete", "clear"} => view[m.row].val # Absent
    /\ m.kind = "copy"   => view[m.src].val # Absent
    /\ m.kind = "fill"   => Written(m, view) # {}

(* HARD_DELETE_TOOLS and remove_design(hard=true): no "clear" is flagged.    *)
LastDestructive(cmds) == cmds[Len(cmds)].kind = "delete"  \* fault: last item only
Destructive(cmds) == \E i \in DOMAIN cmds : cmds[i].kind = "delete"

Digest(rev, cmds, diff) == [rev |-> rev, cmds |-> cmds, diff |-> diff]

-----------------------------------------------------------------------------
(* Change sets and jobs.                                                     *)

NewSet == [status |-> "none", rev |-> 0, items |-> <<>>, hash |-> None,
           hardDelete |-> FALSE, expired |-> FALSE]

ItemCmds(s) == [i \in DOMAIN cs[s].items |-> cs[s].items[i].cmd]
Open(s) == cs[s].status = "pending" /\ ~cs[s].expired

NoJob == [op |-> "none", set |-> None, base |-> 0, cmds |-> <<>>, call |-> None,
          hash |-> None, ack |-> FALSE, tries |-> 0, loaded |-> Gone]

Previewing(c) == job[c].op \in {"stage", "refresh"}

(* Apply and undo keep the change-set row locked (FOR UPDATE) to their end;  *)
(* every other writer of that row takes it for one statement.                *)
HoldsSet(c, s) ==
    job[c].op \in {"apply", "undo"} /\ job[c].set = s
    /\ pc[c] \in {"lock", "tables", "dispatch", "restore"}
NoRowLock(s) == TRUE                       \* fault: no FOR UPDATE
SetFree(s) == \A d \in Clients : ~HoldsSet(d, s)

(* pg_advisory_xact_lock; LOCK TABLE ... IN SHARE ROW EXCLUSIVE MODE, which  *)
(* conflicts with itself and with open writes of the table; a row write.     *)
CanLock(c, S) == \A d \in Clients \ {c} : held[d] \cap S = {}
NoTableLock(c, T) == TRUE                  \* fault: lock not waited for
CanLockTables(c, T) == \A d \in Clients \ {c} :
    tabs[d] \cap T = {} /\ \A r \in Dirty(d) : TableOf[r] \notin T
CanWrite(c, rows) == \A d \in Clients \ {c} : \A r \in rows :
    TableOf[r] \notin tabs[d] /\ r \notin Dirty(d)

(* The transaction of c ends and its locks go; "next" and "j" say what the   *)
(* request does then.                                                        *)
EndTx(c, next, j) ==
    /\ pc'     = [pc EXCEPT ![c] = next]
    /\ job'    = [job EXCEPT ![c] = j]
    /\ done'   = [done EXCEPT ![c] = 0]
    /\ held'   = [held EXCEPT ![c] = {}]
    /\ tabs'   = [tabs EXCEPT ![c] = {}]
    /\ work'   = [work EXCEPT ![c] = NoRows]
    /\ before' = [before EXCEPT ![c] = NoRows]
Finish(c) == EndTx(c, "idle", NoJob)

Database == <<db, clock, journal, touched>>
Metadata == <<cs, Database>>

(* Commit of new rows by a transaction: every applied set that has one of    *)
(* them in scope, except "own", has been touched.                            *)
CommitRows(new, own) ==
    /\ clock < MaxClock
    /\ clock' = clock + 1
    /\ db' = new
    /\ touched' = [s \in Sets |->
         IF s = own THEN FALSE
         ELSE touched[s] \/ (/\ cs[s].status = "applied"
                             /\ \E r \in ScopeRows(ItemCmds(s)) : new[r] # db[r])]

Init ==
    /\ \E init \in Start :
          db = [r \in Rows |-> [val |-> init[r], stamp |-> 0, ver |-> 0]]
    /\ clock = 0
    /\ cs = [s \in Sets |-> NewSet]
    /\ journal = [s \in Sets |-> None]
    /\ touched = [s \in Sets |-> FALSE]
    /\ pc = [c \in Clients |-> "idle"]
    /\ job = [c \in Clients |-> NoJob]
    /\ done = [c \in Clients |-> 0]
    /\ held = [c \in Clients |-> {}]
    /\ tabs = [c \in Clients |-> {}]
    /\ work = [c \in Clients |-> NoRows]
    /\ before = [c \in Clients |-> NoRows]

-----------------------------------------------------------------------------
(* Staging and refreshing: read the set, preview in a transaction that is    *)
(* rolled back, persist the result if the revision is still the one read.    *)

(* get_or_create_pending_change_set inserting a set.                         *)
Create(s) ==
    /\ cs[s].status = "none"
    /\ cs' = [cs EXCEPT ![s].status = "pending"]
    /\ UNCHANGED <<Database, tx>>

(* The unlocked read of stage_write and refresh_change_set.  The early       *)
(* returns (a call already staged, a full set, a closed set) end the request.*)
ReadSet(c, j) ==
    LET s == j.set
        items == cs[s].items
        refused == \/ ~Open(s)
                   \/ /\ j.op = "stage"
                      /\ \/ \E i \in DOMAIN items : items[i].call = j.call
                         \/ Len(items) >= MaxItems
        cmds == IF j.op = "stage" THEN Append(ItemCmds(s), j.cmds[Len(j.cmds)])
                ELSE ItemCmds(s)
    IN IF refused THEN Finish(c)
       ELSE /\ pc'  = [pc EXCEPT ![c] = "lock"]
            /\ job' = [job EXCEPT ![c] = [j EXCEPT !.base = cs[s].rev, !.cmds = cmds]]
            /\ UNCHANGED <<done, held, tabs, work, before>>

Stage(c, s, m, k) ==
    /\ pc[c] = "idle"
    /\ cs[s].rev < MaxRev
    /\ ReadSet(c, [NoJob EXCEPT !.op = "stage", !.set = s, !.cmds = <<m>>, !.call = k])
    /\ UNCHANGED Metadata

(* The next attempt after a lost revision race, or the refresh the apply     *)
(* route starts when the preview has drifted.                                *)
Read(c) ==
    /\ pc[c] = "request" /\ Previewing(c)
    /\ cs[job[c].set].rev < MaxRev
    /\ ReadSet(c, job[c])
    /\ UNCHANGED Metadata

(* The rolled-back preview has dispatched everything: take the after         *)
(* snapshot, compute diff and hash, let every lock go.                       *)
PreviewEnd(c) ==
    /\ pc[c] = "dispatch" /\ Previewing(c)
    /\ done[c] = Len(job[c].cmds)
    /\ LET j == job[c]
           diff == Diff(before[c], Snapshot(Visible(c), ScopeRows(j.cmds)))
       IN EndTx(c, "persist", [j EXCEPT !.hash = Digest(j.base + 1, j.cmds, diff)])
    /\ UNCHANGED Metadata

(* The set as the UPDATE after a preview leaves it; a stage also inserts     *)
(* its item and recomputes contains_hard_delete.                             *)
Persisted(s, j) ==
    LET row == [cs[s] EXCEPT !.rev = j.base + 1, !.hash = j.hash]
        item == [call |-> j.call, cmd |-> j.cmds[Len(j.cmds)]]
    IN IF j.op = "stage"
       THEN [row EXCEPT !.items = Append(cs[s].items, item),
                        !.hardDelete = Destructive(j.cmds)]
       ELSE row

StillPending(s, base) == Open(s)           \* fault: no revision fence
Current(s, base) == Open(s) /\ cs[s].rev = base

Persist(c) ==
    LET j == job[c]
        s == j.set
    IN /\ pc[c] = "persist"
       /\ SetFree(s)
       /\ Current(s, j.base)
       /\ cs' = [cs EXCEPT ![s] = Persisted(s, j)]
       /\ Finish(c)
       /\ UNCHANGED Database

PersistRefused(c) ==
    LET j == job[c]
        s == j.set
        again == Open(s) /\ j.tries + 1 < MaxTries
    IN /\ pc[c] = "persist"
       /\ SetFree(s)
       /\ ~Current(s, j.base)
       /\ IF again
          THEN EndTx(c, "request", [j EXCEPT !.tries = j.tries + 1, !.hash = None])
          ELSE Finish(c)
       /\ UNCHANGED Metadata

-----------------------------------------------------------------------------
(* Statements the transactions share.                                        *)

(* lock_scopes: sorted tokens, so waiting for some while holding others only *)
(* delays; taken here in one step.  A preview then takes its snapshot.       *)
AfterLock(op) == IF op \in {"apply", "undo"} THEN "tables" ELSE "dispatch"

LockScopes(c) ==
    LET cmds == job[c].cmds
        want == LockSet(AllScopes(cmds))
    IN /\ pc[c] = "lock"
       /\ CanLock(c, want)
       /\ held' = [held EXCEPT ![c] = want]
       /\ before' = [before EXCEPT ![c] =
             IF Previewing(c) THEN Snapshot(db, ScopeRows(cmds)) ELSE NoRows]
       /\ pc' = [pc EXCEPT ![c] = AfterLock(job[c].op)]
       /\ UNCHANGED <<job, done, tabs, work, Metadata>>

(* lock_scope_tables, then the exact snapshot FOR UPDATE.                    *)
LockTables(c) ==
    LET cmds == job[c].cmds
    IN /\ pc[c] = "tables"
       /\ CanLockTables(c, ScopeTables(cmds))
       /\ tabs' = [tabs EXCEPT ![c] = ScopeTables(cmds)]
       /\ before' = [before EXCEPT ![c] = Snapshot(db, ScopeRows(cmds))]
       /\ pc' = [pc EXCEPT ![c] = IF job[c].op = "undo" THEN "restore" ELSE "dispatch"]
       /\ UNCHANGED <<job, done, held, work, Metadata>>

(* save_assignment with expected_updated_at: the row must still be the one   *)
(* the editor loaded.                                                        *)
Expecting(c) == job[c].op = "write" /\ job[c].loaded # Gone
NeverStale(c, m) == FALSE                  \* fault: expected stamp ignored
StaleLoad(c, m) == Expecting(c) /\
    (db[m.row] = Gone \/ db[m.row].stamp # job[c].loaded.stamp)

Dispatch(c) ==
    /\ pc[c] = "dispatch" /\ done[c] < Len(job[c].cmds)
    /\ LET m == job[c].cmds[done[c] + 1]
           view == Visible(c)
           rows == Written(m, view)
       IN /\ Valid(m, view) /\ ~StaleLoad(c, m)
          /\ CanWrite(c, rows)
          /\ work' = [work EXCEPT ![c] = [r \in Rows |->
                IF r \in rows THEN NewVal(m, view) ELSE work[c][r]]]
    /\ done' = [done EXCEPT ![c] = done[c] + 1]
    /\ UNCHANGED <<pc, job, held, tabs, before, Metadata>>

(* A handler raises (InvalidCommand, NotFound, Conflict): rolled back.       *)
DispatchRaises(c) ==
    /\ pc[c] = "dispatch" /\ done[c] < Len(job[c].cmds)
    /\ LET m == job[c].cmds[done[c] + 1]
       IN ~Valid(m, Visible(c)) \/ StaleLoad(c, m)
    /\ Finish(c)
    /\ UNCHANGED Metadata

-----------------------------------------------------------------------------
(* Applying.                                                                 *)

(* The user confirms the preview on the screen; the request is on its way.   *)
Apply(c, s, ack) ==
    /\ pc[c] = "idle"
    /\ cs[s].hash # None
    /\ pc' = [pc EXCEPT ![c] = "request"]
    /\ job' = [job EXCEPT ![c] = [NoJob EXCEPT
                  !.op = "apply", !.set = s, !.hash = cs[s].hash, !.ack = ack]]
    /\ UNCHANGED <<done, held, tabs, work, before, Metadata>>

(* The row of the set is locked FOR UPDATE and every condition read from it. *)
Confirmed(s, j) ==
    /\ Open(s)
    /\ cs[s].hash = j.hash /\ cs[s].rev = j.hash.rev
    /\ cs[s].hardDelete => j.ack
    /\ cs[s].items # <<>>

ApplyBegin(c) ==
    LET s == job[c].set
    IN /\ pc[c] = "request" /\ job[c].op = "apply"
       /\ SetFree(s)
       /\ IF Confirmed(s, job[c])
          THEN /\ pc' = [pc EXCEPT ![c] = "lock"]
               /\ job' = [job EXCEPT ![c].cmds = ItemCmds(s)]
               /\ UNCHANGED <<done, held, tabs, work, before>>
          ELSE Finish(c)
       /\ UNCHANGED Metadata

Applied(c) == pc[c] = "dispatch" /\ job[c].op = "apply" /\ done[c] = Len(job[c].cmds)

ConfirmedDigest(c) == job[c].hash          \* fault: result not compared
ActualDigest(c) ==
    LET j == job[c]
    IN Digest(j.hash.rev, j.cmds,
              Diff(before[c], Snapshot(Visible(c), ScopeRows(j.cmds))))

ApplyCommit(c) ==
    LET s == job[c].set
        new == Visible(c)
    IN /\ Applied(c)
       /\ ActualDigest(c) = job[c].hash
       /\ CommitRows(new, s)
       /\ journal' = [journal EXCEPT ![s] =
             [before |-> before[c], after |-> Snapshot(new, ScopeRows(job[c].cmds))]]
       /\ cs' = [cs EXCEPT ![s].status = "applied"]
       /\ Finish(c)

(* PreviewDrift: rolled back, and the route asks for a refresh.              *)
ApplyDrift(c) ==
    /\ Applied(c)
    /\ ActualDigest(c) # job[c].hash
    /\ EndTx(c, "request", [NoJob EXCEPT !.op = "refresh", !.set = job[c].set])
    /\ UNCHANGED Metadata

(* discard_change_set by the user; maintenance discards what has expired.    *)
Discard(s) ==
    /\ cs[s].status = "pending" /\ SetFree(s)
    /\ cs' = [cs EXCEPT ![s].status = "discarded"]
    /\ UNCHANGED <<Database, tx>>

(* 24 hours pass.                                                            *)
Expire(s) ==
    /\ cs[s].status = "pending" /\ ~cs[s].expired
    /\ cs' = [cs EXCEPT ![s].expired = TRUE]
    /\ UNCHANGED <<Database, tx>>

-----------------------------------------------------------------------------
(* Undoing.                                                                  *)

UndoBegin(c, s) ==
    /\ pc[c] = "idle"
    /\ cs[s].status = "applied" /\ SetFree(s)
    /\ pc' = [pc EXCEPT ![c] = "lock"]
    /\ job' = [job EXCEPT ![c] = [NoJob EXCEPT
                  !.op = "undo", !.set = s, !.cmds = ItemCmds(s)]]
    /\ UNCHANGED <<done, held, tabs, work, before, Metadata>>

CanUndo(c) == StatesEqual(before[c], journal[job[c].set].after)

(* restore_state: the rows of the scopes are deleted and the recorded ones   *)
(* inserted, stamps included, under fresh versions.                          *)
RestoredNow(c) ==                          \* fault: restored rows restamped
    LET old == journal[job[c].set].before
    IN [r \in Rows |-> IF old[r] = None THEN db[r] ELSE NewRow(old[r].val)]
Restored(c) ==
    LET old == journal[job[c].set].before
    IN [r \in Rows |->
          IF old[r] = None THEN db[r]
          ELSE IF old[r].val = Absent THEN Gone
          ELSE RowWith(old[r].val, old[r].stamp)]

UndoCommit(c) ==
    LET s == job[c].set
    IN /\ pc[c] = "restore"
       /\ CanUndo(c)
       /\ CommitRows(Restored(c), s)
       /\ cs' = [cs EXCEPT ![s].status = "undone"]
       /\ Finish(c)
       /\ UNCHANGED journal

UndoRefused(c) ==
    /\ pc[c] = "restore"
    /\ ~CanUndo(c)
    /\ Finish(c)
    /\ UNCHANGED Metadata

-----------------------------------------------------------------------------
(* Writers outside the review.                                               *)

(* An HTTP editor: scope locks, no table locks, with or without the stamp of *)
(* the row it loaded.                                                        *)
Write(c, m, loaded) ==
    /\ pc[c] = "idle" /\ clock < MaxClock
    /\ loaded \in {Gone} \cup (IF m.kind = "set" THEN {db[m.row]} ELSE {})
    /\ pc' = [pc EXCEPT ![c] = "lock"]
    /\ job' = [job EXCEPT ![c] = [NoJob EXCEPT
                  !.op = "write", !.cmds = <<m>>, !.loaded = loaded]]
    /\ UNCHANGED <<done, held, tabs, work, before, Metadata>>

(* An import or a warehouse load: no scope locks.                            *)
Import(c, m) ==
    /\ pc[c] = "idle" /\ clock < MaxClock
    /\ pc' = [pc EXCEPT ![c] = "dispatch"]
    /\ job' = [job EXCEPT ![c] = [NoJob EXCEPT !.op = "import", !.cmds = <<m>>]]
    /\ UNCHANGED <<done, held, tabs, work, before, Metadata>>

CommitWrite(c) ==
    /\ pc[c] = "dispatch" /\ job[c].op \in {"write", "import"}
    /\ done[c] = Len(job[c].cmds)
    /\ CommitRows(Visible(c), None)
    /\ Finish(c)
    /\ UNCHANGED <<cs, journal>>

(* display_name_feed_bump and default_cost_feed_bump: a new row_version on   *)
(* an assignment whose contents did not change.                              *)
Bump(r) ==
    /\ clock < MaxClock
    /\ db[r].val # Absent
    /\ \A d \in Clients : TableOf[r] \notin tabs[d] /\ r \notin Dirty(d)
    /\ db' = [db EXCEPT ![r].ver = clock + 1]
    /\ clock' = clock + 1
    /\ UNCHANGED <<cs, journal, touched, tx>>

(* Statement timeout, deadlock victim, lost connection, process crash.       *)
Abort(c) ==
    /\ pc[c] # "idle"
    /\ Finish(c)
    /\ UNCHANGED Metadata

-----------------------------------------------------------------------------
Request(c) ==
    \/ \E s \in Sets, m \in Commands, k \in Calls : Stage(c, s, m, k)
    \/ \E s \in Sets, ack \in BOOLEAN : Apply(c, s, ack)
    \/ \E s \in Sets : UndoBegin(c, s)
    \/ \E m \in Edits, loaded \in {Gone} \cup {db[r] : r \in Rows} :
          Write(c, m, loaded)
    \/ \E m \in Loads : Import(c, m)

Step(c) ==
    \/ Read(c) \/ PreviewEnd(c) \/ Persist(c) \/ PersistRefused(c)
    \/ LockScopes(c) \/ LockTables(c) \/ Dispatch(c) \/ DispatchRaises(c)
    \/ ApplyBegin(c) \/ ApplyCommit(c) \/ ApplyDrift(c)
    \/ UndoCommit(c) \/ UndoRefused(c)
    \/ CommitWrite(c) \/ Abort(c)

Next ==
    \/ \E c \in Clients : Request(c) \/ Step(c)
    \/ \E s \in Sets : Create(s) \/ Discard(s) \/ Expire(s)
    \/ \E r \in Named : Bump(r)

Spec == Init /\ [][Next]_vars

-----------------------------------------------------------------------------
(* Properties.                                                               *)

(* Every variable keeps the shape of the row or structure it models.        *)
TypeOK ==
    /\ db \in [Rows -> Row]
    /\ clock \in Nat
    /\ cs \in [Sets -> SetRow]
    /\ journal \in [Sets -> [before : States, after : States] \cup {None}]
    /\ touched \in [Sets -> BOOLEAN]
    /\ pc \in [Clients -> Place]
    /\ job \in [Clients -> Job]
    /\ done \in [Clients -> Nat]
    /\ held \in [Clients -> SUBSET Scopes]
    /\ tabs \in [Clients -> SUBSET Tables]
    /\ work \in [Clients -> [Rows -> Vals \cup {None}]]
    /\ before \in [Clients -> States]

(* What a request carries fits the place it has reached: the control flow of *)
(* the handlers.                                                             *)
Snapped(c) == pc[c] = "restore" \/
    (pc[c] = "dispatch" /\ job[c].op \in {"stage", "refresh", "apply"})
JobFits(c) ==
    /\ job[c].op \in {"stage", "refresh", "apply", "undo"} => job[c].set \in Sets
    /\ job[c].op = "stage" => job[c].cmds # <<>> /\ job[c].call \in Calls
    /\ job[c].op = "apply" => job[c].hash # None
    /\ job[c].op = "undo" => journal[job[c].set] # None
    /\ pc[c] = "request" => job[c].op \in {"stage", "refresh", "apply"}
    /\ pc[c] = "lock" => job[c].op \notin {"none", "import"}
    /\ pc[c] = "tables" => job[c].op \in {"apply", "undo"}
    /\ pc[c] = "dispatch" => job[c].op \notin {"none", "undo"}
    /\ pc[c] = "restore" => job[c].op = "undo"
    /\ pc[c] = "persist" => Previewing(c) /\ job[c].hash # None
    /\ Snapped(c) => \A r \in Rows :
          before[c][r] # None <=> r \in ScopeRows(job[c].cmds)
Shape ==
    /\ \A c \in Clients : JobFits(c)
    /\ \A s \in Sets : cs[s].status \in {"applied", "undone"} => journal[s] # None

(* The hash a user can confirm describes the commands that are staged, at    *)
(* the revision that is stored, whoever staged beside whom.                  *)
PreviewIsOfItems ==
    \A s \in Sets : cs[s].hash # None =>
        cs[s].hash.cmds = ItemCmds(s) /\ cs[s].hash.rev = cs[s].rev

(* What apply and undo read from the set under its row lock still stands     *)
(* whenever they act on it.                                                  *)
ReviewStands ==
    \A c \in Clients : HoldsSet(c, job[c].set) =>
        LET s == job[c].set
        IN /\ job[c].cmds = ItemCmds(s)
           /\ job[c].op = "apply" => cs[s].status = "pending" /\ cs[s].hash = job[c].hash
           /\ job[c].op = "undo" => cs[s].status = "applied"

(* An exact snapshot is current for as long as its transaction lasts: no     *)
(* editor, import or version bump gets between it and the commit.            *)
Exact(c) == pc[c] = "restore" \/ (pc[c] = "dispatch" /\ job[c].op = "apply")
SnapshotIsCurrent ==
    \A c \in Clients : Exact(c) => before[c] = Snapshot(db, ScopeRows(job[c].cmds))

(* Transactions that take scope locks never cover a common row, however      *)
(* differently their scopes name it: a row, or its whole store.              *)
Covering(c) == job[c].op # "import" /\ pc[c] \in {"tables", "dispatch", "restore"}
CooperatingWritersExclude ==
    \A c, d \in Clients : c # d /\ Covering(c) /\ Covering(d) =>
        ScopeRows(job[c].cmds) \cap ScopeRows(job[d].cmds) = {}

(* A row version bump alone never makes an undo refuse: it refuses only when *)
(* a row of the set has been written since the apply.                        *)
RefusedOnlyIfTouched ==
    \A c \in Clients : pc[c] = "restore" /\ ~touched[job[c].set] => CanUndo(c)

(* An editor that loaded a row overwrites just what it had loaded.           *)
SaveReplacesWhatWasLoaded ==
    \A c \in Clients : pc[c] = "dispatch" /\ Expecting(c) /\ done[c] = 1 =>
        LET r == job[c].cmds[1].row
        IN db[r].val = job[c].loaded.val

StatusStep(s, from, to) == cs[s].status = from /\ cs'[s].status = to

(* The journal is the change: an apply turns exactly "before" into "after"   *)
(* and touches no other row; an undo turns "after" back into "before", up to *)
(* row versions, and touches no other row.                                   *)
OthersKept(rows) == \A r \in Rows \ rows : db'[r] = db[r]
JournalIsTheChange ==
    [][\A s \in Sets :
         LET rows == ScopeRows(ItemCmds(s))
         IN /\ StatusStep(s, "pending", "applied") =>
                  /\ journal'[s].before = Snapshot(db, rows)
                  /\ journal'[s].after = Snapshot(db', rows)
                  /\ OthersKept(rows)
            /\ StatusStep(s, "applied", "undone") =>
                  /\ StatesEqual(Snapshot(db, rows), journal[s].after)
                  /\ StatesEqual(Snapshot(db', rows), journal[s].before)
                  /\ OthersKept(rows)]_vars

(* No applied set removes a logo.assignment row unless the user who applied  *)
(* it acknowledged a hard delete.  Rows of other tables may go without one.  *)
HardDeletesAcknowledged ==
    [][\A s \in Sets : StatusStep(s, "pending", "applied") =>
         \A r \in AsgRows : db[r].val # Absent /\ db'[r].val = Absent =>
            \E c \in Clients : job[c].op = "apply" /\ job[c].set = s /\ job[c].ack]_vars

(* A change set does what ReviewedChange promises: the step that applies it  *)
(* changes exactly the rows its last persisted preview lists, from the       *)
(* listed content to the listed content, and the undo exactly reverses it.   *)
Promise == INSTANCE ReviewedChange WITH
    data  <- [r \in Rows |-> db[r].val],
    phase <- [s \in Sets |-> cs[s].status],
    plan  <- [s \in Sets |-> IF cs[s].hash = None THEN None ELSE cs[s].hash.diff]
KeepsPromise == Promise!Spec
==============================================================================
