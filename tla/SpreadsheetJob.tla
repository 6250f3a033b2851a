---------------------------- MODULE SpreadsheetJob ---------------------------
(* A spreadsheet from its upload to the change sets its rows become          *)
(* (logo-admin/spreadsheet.py, spreadsheet_mapping.py, staging.py) beside    *)
(* the hourly cleanup (logo-admin/maintenance.py).                           *)
(*                                                                           *)
(* A job is a row, a private file, and after the mapping is confirmed one    *)
(* change set per chunk of rows.  Whoever confirms works through many short  *)
(* transactions; a second tab, an expiry, the cleanup or a restart may come  *)
(* between any two of them.                                                  *)
EXTENDS Naturals, FiniteSets

CONSTANTS
    Uploads, Confirmers, None,
    Owner,        \* the user of each upload
    ChunksOf,     \* into how many chunks its rows fall
    Accepted,     \* the chunks of which some row is accepted
    Tabs,         \* bound: the jobs each confirmer has open
    Fragile,      \* bound: the uploads that may not be read again
    UserCap, GlobalCap

ASSUME CapsAssumption == UserCap \in Nat \ {0} /\ GlobalCap \in Nat \ {0}
ASSUME BoundsAssumption ==
    /\ ChunksOf \in [Uploads -> Nat \ {0}]
    /\ Accepted \in [Uploads -> SUBSET Nat] /\ Tabs \in [Confirmers -> SUBSET Uploads]
    /\ \A u \in Uploads : Accepted[u] \subseteq 1..ChunksOf[u]
    /\ Fragile \subseteq Uploads
ASSUME NoneAssumption == None \notin Uploads

Sets == UNION {{u} \X (1..ChunksOf[u]) : u \in Uploads}
SetsOf(u) == {s \in Sets : s[1] = u}

VARIABLES
    job,       \* logo.agent_spreadsheet_job; status "none": no row
    file,      \* the private upload is on disk
    aged,      \* its hour is over (expires_at)
    set,       \* logo.agent_change_set
    up, conf,  \* requests that upload, requests that confirm
    maint      \* the cleanup

request == <<up, conf>>
vars == <<job, file, aged, set, up, conf, maint>>

Job == [status : {"none", "mapping_processing", "mapping_pending", "mapping_confirmed",
                  "staged", "rejected"},
        linked : BOOLEAN,      \* change_set_id
        chunks : BOOLEAN]      \* mapping -> '_change_set_ids'
NoJob == [status |-> "none", linked |-> FALSE, chunks |-> FALSE]
ChangeSet == [status : {"none", "pending", "applied", "discarded"}, items : BOOLEAN]
NewSet == [status |-> "pending", items |-> FALSE]

Confirming == [pc : {"idle", "read", "missed", "reject", "link", "chunks", "stage",
                     "store", "final", "unlink", "drop", "gone"},
               u : Uploads \cup {None}, k : Nat, staged : BOOLEAN]
Idle == [pc |-> "idle", u |-> None, k |-> 0, staged |-> FALSE]
Cleaning == [pc : {"idle", "delete", "unlink"}, old : SUBSET Uploads, drop : SUBSET Sets]
Resting == [pc |-> "idle", old |-> {}, drop |-> {}]

Init ==
    /\ job = [u \in Uploads |-> NoJob]
    /\ file = [u \in Uploads |-> FALSE]
    /\ aged = [u \in Uploads |-> FALSE]
    /\ set = [s \in Sets |-> [status |-> "none", items |-> FALSE]]
    /\ up = [u \in Uploads |-> "idle"]
    /\ conf = [c \in Confirmers |-> Idle]
    /\ maint = Resting

-----------------------------------------------------------------------------
(* The upload.  A reservation counts the live jobs under two advisory locks  *)
(* and commits its row before a byte is written.                             *)

Live(u) == job[u].status \in {"mapping_processing", "mapping_pending", "mapping_confirmed"} /\ ~aged[u]
LiveJobs(S) == Cardinality({u \in S : Live(u)})
SameOwner(u) == {v \in Uploads : Owner[v] = Owner[u]}
NoUploadLock(u) == TRUE              \* fault: counts without the advisory locks
LockFree(u) == \A v \in Uploads \ {u} : up[v] # "admitted"
Room(u) == LiveJobs(SameOwner(u)) < UserCap /\ LiveJobs(Uploads) < GlobalCap

Admit(u) ==
    /\ up[u] = "idle" /\ LockFree(u)
    /\ up' = [up EXCEPT ![u] = IF Room(u) THEN "admitted" ELSE "done"]
    /\ UNCHANGED <<job, file, aged, set, conf, maint>>

ReserveJob(u) ==
    /\ up[u] = "admitted"
    /\ job' = [job EXCEPT ![u].status = "mapping_processing"]
    /\ up' = [up EXCEPT ![u] = "write"]
    /\ UNCHANGED <<file, aged, set, conf, maint>>

WriteFile(u) ==
    /\ up[u] = "write"
    /\ file' = [file EXCEPT ![u] = TRUE]
    /\ up' = [up EXCEPT ![u] = "map"]
    /\ UNCHANGED <<job, aged, set, conf, maint>>

Unreserved(u) == IF job[u].status = "mapping_processing" THEN [job EXCEPT ![u] = NoJob] ELSE job

WriteFails(u) ==
    /\ up[u] = "write"
    /\ job' = Unreserved(u)
    /\ up' = [up EXCEPT ![u] = "done"]
    /\ UNCHANGED <<file, aged, set, conf, maint>>

(* Parsing the file and finding its mapping touch nothing of this; they      *)
(* succeed, or the sheet, the provider or the browser gives up.              *)
ParseSheet == {"parsed", "refused"}
ProposeMapping == {"finalize", "discard"}

SheetFails(u) ==
    /\ up[u] = "map" /\ ("refused" \in ParseSheet \/ "discard" \in ProposeMapping)
    /\ up' = [up EXCEPT ![u] = "discard"]
    /\ UNCHANGED <<job, file, aged, set, conf, maint>>

(* The thread that finalizes is joined when its request is cancelled: the    *)
(* commit stands and the compensation follows it.                            *)
Finalize(u) ==
    LET ready == job[u].status = "mapping_processing" /\ ~aged[u]
    IN /\ up[u] = "map" /\ "parsed" \in ParseSheet /\ "finalize" \in ProposeMapping
       /\ job' = IF ready THEN [job EXCEPT ![u].status = "mapping_pending"] ELSE job
       /\ \E cancelled \in BOOLEAN :
             up' = [up EXCEPT ![u] = IF ready /\ ~cancelled THEN "done" ELSE "discard"]
       /\ UNCHANGED <<file, aged, set, conf, maint>>

Discards(u) == job[u].status = "mapping_processing"

DiscardReserved(u) ==
    /\ up[u] = "discard"
    /\ job' = IF Discards(u) THEN [job EXCEPT ![u] = NoJob] ELSE job
    /\ up' = [up EXCEPT ![u] = IF Discards(u) THEN "unlink" ELSE "done"]
    /\ UNCHANGED <<file, aged, set, conf, maint>>

RemovePrivateFile(u) ==
    /\ up[u] = "unlink"
    /\ file' = [file EXCEPT ![u] = FALSE]
    /\ up' = [up EXCEPT ![u] = "done"]
    /\ UNCHANGED <<job, aged, set, conf, maint>>

Upload(u) ==
    \/ Admit(u) \/ ReserveJob(u) \/ WriteFile(u) \/ WriteFails(u) \/ SheetFails(u)
    \/ Finalize(u) \/ DiscardReserved(u) \/ RemovePrivateFile(u)

-----------------------------------------------------------------------------
(* The confirmation of a mapping.                                            *)

Step(c, pc) == conf' = [conf EXCEPT ![c].pc = pc]
Return(c) == conf' = [conf EXCEPT ![c] = Idle]
Goes(c, pc) == conf[c].pc = pc
Of(c) == conf[c].u
Terminal(u) == job[u].status \in {"staged", "rejected"}
Unconfirmed(u) == job[u].status \in {"mapping_pending", "mapping_confirmed"}
Confirmable(u) == Unconfirmed(u) /\ ~aged[u]
Held(s) == maint.pc = "delete" /\ s \in maint.drop     \* written by the open cleanup

(* A job is known by its answer; _terminal_confirmation_result answers for   *)
(* one that is finished.                                                     *)
Confirm(c, u) ==
    /\ Goes(c, "idle") /\ Unconfirmed(u)
    /\ conf' = [conf EXCEPT ![c] = [pc |-> "read", u |-> u, k |-> 1, staged |-> FALSE]]
    /\ UNCHANGED <<job, file, aged, set, up, maint>>

(* The file is read, hashed, parsed and translated again: gone, damaged or   *)
(* no longer fit, it is missed.                                              *)
ReadUpload(c) ==
    /\ Goes(c, "read")
    /\ \/ file[Of(c)] /\ Step(c, "link")
       \/ (~file[Of(c)] \/ Of(c) \in Fragile) /\ Step(c, "missed")
    /\ UNCHANGED <<job, file, aged, set, up, maint>>

Discarded(s) == [set EXCEPT ![s].status = IF @ = "pending" THEN "discarded" ELSE @]

Missed(c) ==
    /\ Goes(c, "missed")
    /\ IF Terminal(Of(c)) \/ job[Of(c)].status = "none" THEN Return(c) ELSE Step(c, "reject")
    /\ UNCHANGED <<job, file, aged, set, up, maint>>

MarkRejected(c) ==
    LET u == Of(c)
    IN /\ Goes(c, "reject") /\ (job[u].linked => ~Held(<<u, 1>>))
       /\ IF Unconfirmed(u)
          THEN /\ job' = [job EXCEPT ![u].status = "rejected"]
               /\ set' = IF job[u].linked THEN Discarded(<<u, 1>>) ELSE set
          ELSE UNCHANGED <<job, set>>
       /\ Step(c, "gone")
       /\ UNCHANGED <<file, aged, up, maint>>

(* _ensure_linked_change_set.  The last case cannot arise: while a job is    *)
(* confirmed and its hour is not over, nobody may close its change set.      *)
Link(c) ==
    LET u == Of(c)
    IN /\ Goes(c, "link")
       /\ CASE ~Confirmable(u) -> Return(c) /\ UNCHANGED <<job, set>>
            [] Confirmable(u) /\ ~job[u].linked ->
                 /\ job' = [job EXCEPT ![u].status = "mapping_confirmed", ![u].linked = TRUE]
                 /\ set' = [set EXCEPT ![<<u, 1>>] = NewSet]
                 /\ Step(c, "chunks")
            [] Confirmable(u) /\ job[u].linked /\ set[<<u, 1>>].status = "pending" ->
                 Step(c, "chunks") /\ UNCHANGED <<job, set>>
            [] OTHER ->
                 /\ job' = [job EXCEPT ![u].status = "rejected"]
                 /\ Step(c, "gone") /\ UNCHANGED set
       /\ UNCHANGED <<file, aged, up, maint>>

Stages(c, k) == conf' = [conf EXCEPT ![c].pc = "stage", ![c].k = k]

EnsureChunkLinks(c) ==
    LET u == Of(c)
    IN /\ Goes(c, "chunks")
       /\ CASE job[u].status = "none" -> Return(c) /\ UNCHANGED <<job, set>>
            [] job[u].status # "none" /\ job[u].chunks -> Stages(c, 1) /\ UNCHANGED <<job, set>>
            [] ~job[u].chunks /\ Unconfirmed(u) ->
                 /\ job' = [job EXCEPT ![u].chunks = TRUE]
                 /\ set' = [s \in Sets |-> IF s[1] = u /\ s[2] > 1 THEN NewSet ELSE set[s]]
                 /\ Stages(c, 1)
            [] OTHER -> Return(c) /\ UNCHANGED <<job, set>>
       /\ UNCHANGED <<file, aged, up, maint>>

(* stage_write_batch of a chunk: read and preview, then store under the lock *)
(* of the set; another try when the set has changed in between.              *)
NextChunk(c, staged) ==
    conf' = [conf EXCEPT ![c].pc = IF conf[c].k < ChunksOf[Of(c)] THEN "stage" ELSE "final",
                         ![c].k = IF @ < ChunksOf[Of(c)] THEN @ + 1 ELSE @,
                         ![c].staged = @ \/ staged]

PreviewBatch(c) ==
    LET s == <<Of(c), conf[c].k>>
    IN /\ Goes(c, "stage")
       /\ CASE set[s].status # "pending" -> Return(c)
            [] set[s].status = "pending" /\ s[2] \notin Accepted[s[1]] -> NextChunk(c, FALSE)
            [] set[s].status = "pending" /\ s[2] \in Accepted[s[1]] /\ set[s].items -> NextChunk(c, TRUE)
            [] OTHER -> Step(c, "store")
       /\ UNCHANGED <<job, file, aged, set, up, maint>>

StoreBatch(c) ==
    LET s == <<Of(c), conf[c].k>>
    IN /\ Goes(c, "store") /\ ~Held(s)
       /\ CASE set[s].status # "pending" -> Return(c) /\ UNCHANGED set
            [] set[s].status = "pending" /\ set[s].items -> Step(c, "stage") /\ UNCHANGED set
            [] OTHER -> NextChunk(c, TRUE) /\ set' = [set EXCEPT ![s].items = TRUE]
       /\ UNCHANGED <<job, file, aged, up, maint>>

(* The status of the job, under its lock.                                    *)
Outcome(c) == IF conf[c].staged THEN "staged" ELSE "rejected"

FinishJob(c) ==
    LET u == Of(c)
        status == IF Terminal(u) THEN job[u].status ELSE Outcome(c)
    IN /\ Goes(c, "final")
       /\ IF job[u].status = "none" THEN Return(c) /\ UNCHANGED <<job>>
          ELSE /\ job' = [job EXCEPT ![u].status = status]
               /\ conf' = [conf EXCEPT ![c].pc = "unlink", ![c].staged = status = "staged"]
       /\ UNCHANGED <<file, aged, set, up, maint>>

ConfirmUnlink(c) ==
    /\ conf[c].pc \in {"unlink", "gone"}
    /\ file' = [file EXCEPT ![Of(c)] = FALSE]
    /\ IF Goes(c, "unlink") /\ ~conf[c].staged THEN Step(c, "drop") ELSE Return(c)
    /\ UNCHANGED <<job, aged, set, up, maint>>

(* _spreadsheet_build_in_progress, the gate of every review.                 *)
BuildInProgress(s) ==
    /\ job[s[1]].status \in {"mapping_processing", "mapping_confirmed"}
    /\ (job[s[1]].linked /\ s[2] = 1) \/ job[s[1]].chunks
Reviewable(s) == set[s].status = "pending" /\ ~BuildInProgress(s) /\ ~Held(s)

(* A rejected job's first change set is discarded; a failure is ignored.     *)
DropEmpty(c) ==
    LET s == <<Of(c), 1>>
    IN /\ Goes(c, "drop") /\ ~Held(s)
       /\ set' = IF Reviewable(s) THEN Discarded(s) ELSE set
       /\ Return(c)
       /\ UNCHANGED <<job, file, aged, up, maint>>

ConfirmMapping(c) ==
    \/ ReadUpload(c) \/ Missed(c) \/ Link(c) \/ EnsureChunkLinks(c)
    \/ PreviewBatch(c) \/ StoreBatch(c) \/ FinishJob(c) \/ ConfirmUnlink(c) \/ DropEmpty(c)

-----------------------------------------------------------------------------
(* The person who reviews the change sets.                                   *)

Apply(s) ==
    /\ Reviewable(s) /\ set[s].items
    /\ set' = [set EXCEPT ![s].status = "applied"]
    /\ UNCHANGED <<job, file, aged, request, maint>>

Discard(s) ==
    /\ Reviewable(s)
    /\ set' = Discarded(s)
    /\ UNCHANGED <<job, file, aged, request, maint>>

-----------------------------------------------------------------------------
(* The cleanup, a process of its own: one transaction whose now() is its     *)
(* beginning, and then the files.                                            *)

Incomplete(u) == job[u].status \in {"mapping_processing", "mapping_confirmed"}
NoneUnfinished(old) == {}            \* fault: retires the job and not its chunks
Unfinished(old) == {s \in Sets : /\ s[1] \in old /\ Incomplete(s[1]) /\ set[s].status = "pending"
                                 /\ (job[s[1]].linked /\ s[2] = 1) \/ job[s[1]].chunks}

(* A set lives a day, longer than any job: none expires here by itself.      *)
(* A cleanup when nothing is left of an old upload is left out.              *)
CleanupUpdate ==
    LET old == {u \in Uploads : aged[u] /\ job[u] # NoJob}
    IN /\ maint.pc = "idle" /\ \E u \in Uploads : aged[u] /\ (job[u] # NoJob \/ file[u])
       /\ maint' = [pc |-> "delete", old |-> old, drop |-> Unfinished(old)]
       /\ UNCHANGED <<job, file, aged, set, request>>

(* Files to remove: of jobs that are gone, and old.  One that is fresh may    *)
(* belong to an upload that begins just now; none becomes old in the moment  *)
(* between the commit and the sweep.                                         *)
OwnJobs(rows) == maint.old           \* fault: removes the files of the jobs it retires only
Orphans(rows) == {u \in Uploads : rows[u] = NoJob /\ aged[u]}

CleanupDelete ==
    /\ maint.pc = "delete"
    /\ set' = [s \in Sets |-> IF s \in maint.drop THEN [set[s] EXCEPT !.status = "discarded"] ELSE set[s]]
    /\ job' = [u \in Uploads |-> IF u \in maint.old THEN NoJob ELSE job[u]]
    /\ maint' = [pc |-> "unlink", drop |-> {}, old |-> Orphans(job')]
    /\ UNCHANGED <<file, aged, request>>

CleanupFiles ==
    /\ maint.pc = "unlink"
    /\ file' = [u \in Uploads |-> file[u] /\ u \notin maint.old]
    /\ maint' = Resting
    /\ UNCHANGED <<job, aged, set, request>>

Cleanup == CleanupUpdate \/ CleanupDelete \/ CleanupFiles

-----------------------------------------------------------------------------
(* Time and restarts.                                                        *)

Age(u) ==
    /\ job[u] # NoJob \/ file[u]
    /\ ~aged[u]
    /\ aged' = [aged EXCEPT ![u] = TRUE]
    /\ UNCHANGED <<job, file, set, request, maint>>

Restart ==
    /\ up' = [u \in Uploads |-> IF up[u] = "idle" THEN "idle" ELSE "done"]
    /\ conf' = [c \in Confirmers |-> Idle]
    /\ UNCHANGED <<job, file, aged, set, maint>>

(* A cleanup that is killed before its commit has not been.                  *)
KillCleanup ==
    /\ maint.pc = "unlink" /\ maint' = Resting
    /\ UNCHANGED <<job, file, aged, set, request>>

Next ==
    \/ \E u \in Uploads : Upload(u) \/ Age(u)
    \/ \E c \in Confirmers : ConfirmMapping(c) \/ MarkRejected(c) \/ \E u \in Tabs[c] : Confirm(c, u)
    \/ \E s \in Sets : Apply(s) \/ Discard(s)
    \/ Cleanup \/ Restart \/ KillCleanup

(* The timer of the cleanup fires every hour, it is not killed for ever      *)
(* before its files, and the hour of a job passes.                    *)
Fairness ==
    /\ WF_vars(CleanupUpdate \/ CleanupDelete) /\ SF_vars(CleanupFiles)
    /\ \A u \in Uploads : WF_vars(Age(u))
Spec == Init /\ [][Next]_vars /\ Fairness

-----------------------------------------------------------------------------
(* Properties.                                                               *)

(* Every variable keeps the shape of what it models, and a change set exists *)
(* only once its job, or the memory of it, is linked to it.                  *)
TypeOK ==
    /\ job \in [Uploads -> Job] /\ set \in [Sets -> ChangeSet]
    /\ file \in [Uploads -> BOOLEAN] /\ aged \in [Uploads -> BOOLEAN]
    /\ up \in [Uploads -> {"idle", "admitted", "write", "map", "discard", "unlink", "done"}]
    /\ conf \in [Confirmers -> Confirming] /\ maint \in Cleaning
    /\ \A u \in Uploads : job[u].linked => set[<<u, 1>>].status # "none"

(* Uploads that come in together never take more places than there are: the  *)
(* committed rows are counted under the locks of the user and of everybody;  *)
(* and a mapping that can still be confirmed has its file: neither a cleanup *)
(* nor another confirmation takes it away early.                             *)
WithinCaps ==
    /\ TypeOK
    /\ \A u \in Uploads : Confirmable(u) => file[u]
    /\ LiveJobs(Uploads) <= GlobalCap
    /\ \A u \in Uploads : LiveJobs(SameOwner(u)) <= UserCap

(* "Reviewable as finished work once every chunk has staged": no part of a   *)
(* sheet is applied before the rows of every chunk have been staged, whatever *)
(* restarts, second tabs and cleanups come in between.  Not so of a sheet     *)
(* that cannot be read again, or whose first chunk has nothing to stage: the  *)
(* gate of its other chunks can open early (README, section 3).               *)
Steady(u) == u \notin Fragile /\ 1 \in Accepted[u]
ReviewedWhole ==
    [][\A s \in Sets : set[s].status # "applied" /\ set'[s].status = "applied" /\ Steady(s[1])
         => \A k \in Accepted[s[1]] : set[<<s[1], k>>].items]_vars

(* Private uploads do not stay: however requests and cleanups were cut       *)
(* short, every stored file is removed in the end.                           *)
UploadsAreRemoved == (\E u \in Uploads : file[u]) ~> (\A u \in Uploads : ~file[u])
==============================================================================
