---------------------------- MODULE CategoryRuns ----------------------------
(* Apply runs of the category editor (logo-admin/categories_runs.py).  A run *)
(* freezes one plan per blog; one worker thread per run claims its jobs one  *)
(* at a time and converges each blog through the WordPress broker: terms,    *)
(* pages of memberships, finalize, each a durable job on the WordPress side  *)
(* under a key of (job, attempt, phase).  Progress is saved after each phase *)
(* so that a later worker resumes.  Operators pause, resume, cancel, retry,  *)
(* skip and restore meanwhile, threads die and the process restarts.         *)
(*                                                                           *)
(* One action is one transaction, one broker call, or one export.  There is  *)
(* one process: a run has at most one thread, so the worker_token of a live  *)
(* worker is always the one in the row and is left out.                      *)
EXTENDS Integers, Sequences, FiniteSets

CONSTANTS
    Runs, Blogs,
    Targets,       \* the blogs of each run, in the order of seq
    Pages,         \* membership pages of a plan
    StopModes,     \* the values of stop_on_failure each run may have
    MaxAttempt,    \* bound: attempts of a job
    MaxEdits,      \* bound: changes of a blog by anyone else
    MaxMoves,      \* bound: interventions, edits and failures in a behaviour
    MaxVersion,    \* bound: imports of a blog's snapshot
    RestoreIds,    \* request_ids of restores; bound: threads that restore
    None

Last == Pages + 2
Phases == 1..Last                         \* 1: apply-terms .. Last: finalize
Keys == Runs \X Blogs \X (1..MaxAttempt) \X Phases   \* job_key
BlogsOf(r) == {Targets[r][i] : i \in DOMAIN Targets[r]}

ASSUME RunsAssumption ==
    /\ \A r \in Runs : Targets[r] \in Seq(Blogs)
    /\ \A r \in Runs : Targets[r] # <<>>
    /\ Pages \in Nat /\ StopModes \in [Runs -> SUBSET BOOLEAN]
    /\ MaxAttempt \in Nat \ {0} /\ MaxEdits \in Nat /\ MaxVersion \in Nat \ {0}
    /\ MaxMoves \in Nat
Content == [edits : Nat,               \* changes by others
            mixed : BOOLEAN,           \* half restored
            step : [Runs -> 0..Last]]  \* the phases of each plan that landed
ASSUME NoneAssumption == None \notin Content \cup Runs \cup Blogs

VARIABLES
    run,         \* catmgr.run
    job,         \* catmgr.run_job of each run and blog
    copy,        \* catmgr.job_snapshot: the state a restore puts back
    snapshot,    \* catmgr.snapshot: the warehouse copy plans are made from
    store,       \* WordPress: the categories of each blog
    broker,      \* WordPress: the durable jobs, by key
    worker,      \* the thread of each run
    restorers,   \* the threads that restore a blog
    beside,      \* history: jobs whose restore was let in beside another writer
    undone,      \* history: blogs that a pass of a restore has reached
    request,     \* the operator's request that holds the environment lock
    cancelling,  \* the run whose cancel has read a status it accepts
    importing,   \* blogs whose re-import has passed the check for runs
    moves        \* bound: how many moves there have been

database == <<run, job, copy, snapshot>>
wordpress == <<store, broker>>
threads == <<worker, restorers>>
history == <<beside, undone>>
requests == <<request, cancelling, importing>>
vars == <<database, wordpress, threads, requests, history, moves>>

Active == {"queued", "running", "paused"}
Finished == {"completed", "completed_with_skips", "completed_unverified"}
Run == [status : {"none", "failed", "cancelled"} \cup Active \cup Finished,
        cancel : BOOLEAN,              \* cancel_requested
        started : BOOLEAN,             \* started_at is set
        stop : BOOLEAN,                \* stop_on_failure
        stale : BOOLEAN]               \* no heartbeat for STALE_JOB_MINUTES
Progress == [taken : BOOLEAN,          \* snapshot_taken
             at : 0..Last,             \* terms_done, membership_offset, finalize_done
             refreshed : BOOLEAN,      \* snapshot_refreshed
             verified : BOOLEAN]
Marks == {"none", "running", "stale", "done", "failed"}
Job == [status : {"none", "pending", "running", "done", "failed", "skipped", "cancelled"},
        attempt : 1..MaxAttempt,
        version : 0..MaxVersion,       \* payload.snapshot_version
        plan : Content \cup {None},    \* payload.snapshot_fingerprint
        progress : Progress,
        verified : BOOLEAN, restored : BOOLEAN,         \* result
        restore : Marks]               \* progress.restore
Places == {"off", "claim", "fence", "live", "copy", "save", "phase", "post", "wait",
           "verify", "import", "finish", "fail", "stop", "leave"}
Worker == [pc : Places,
           blog : Blogs \cup {None},
           progress : Progress,        \* the worker's own copy, taken at the claim
           mark : Marks,               \* progress.restore in that copy
           live : Content \cup {None}, \* the export it has read
           key : 0..MaxAttempt,        \* the attempt whose key it polls
           then : Places]              \* where it goes when progress is saved

Nothing == [taken |-> FALSE, at |-> 0, refreshed |-> FALSE, verified |-> TRUE]
NoJob == [status |-> "none", attempt |-> 1, version |-> 0, plan |-> None, progress |-> Nothing,
          verified |-> FALSE, restored |-> FALSE, restore |-> "none"]
Off == [pc |-> "off", blog |-> None, progress |-> Nothing, mark |-> "none", live |-> None,
        key |-> 0, then |-> "off"]
Pristine == [edits |-> 0, mixed |-> FALSE, step |-> [r \in Runs |-> 0]]

Init ==
    /\ run = [r \in Runs |-> [status |-> "none", cancel |-> FALSE, started |-> FALSE,
                              stop |-> TRUE, stale |-> TRUE]]
    /\ job = [r \in Runs |-> [b \in Blogs |-> NoJob]]
    /\ copy = [r \in Runs |-> [b \in Blogs |-> None]]
    /\ snapshot = [b \in Blogs |-> [version |-> 1, content |-> Pristine]]
    /\ store = [b \in Blogs |-> Pristine]
    /\ broker = [key \in Keys |-> "none"]
    /\ worker = [r \in Runs |-> Off] /\ restorers = {}
    /\ request = None /\ cancelling = None /\ importing = {} /\ moves = 0
    /\ beside = {} /\ undone = {}

-----------------------------------------------------------------------------
(* Admission.  request # None stands for the advisory lock of the            *)
(* environment (lock_env), which a request holds to the end of its           *)
(* transaction; requests that do not wait inside are one step.               *)

Others(r) == {o \in Runs \ {r} : run[o].status \in Active}
Restoring == {j \in Runs \X Blogs : job[j[1]][j[2]].restore = "running"}
OnlyRuns(r) == Others(r) = {}              \* fault: restores are not looked at
Exclusive(r) == Others(r) = {} /\ Restoring = {}

HasJob(r, b, statuses) == b \in BlogsOf(r) /\ job[r][b].status \in statuses
Open == {"pending", "running"}
LockedByRuns == {b \in Blogs : \E r \in Runs : run[r].status \in Active /\ HasJob(r, b, Open)}

(* start_run: one thread per run; a live one is left alone.                  *)
Spawn(r) == worker' = IF worker[r].pc = "off"
                      THEN [worker EXCEPT ![r].pc = "claim"] ELSE worker
Woken(r) == [run EXCEPT ![r].status = "queued", ![r].cancel = FALSE, ![r].started = TRUE]

Pending(jobs, r) == \E b \in BlogsOf(r) : jobs[b].status \in Open

(* _finish_run                                                               *)
Partial == "completed_with_skips"
Outcome(jobs, r) ==
    LET some(S) == \E b \in BlogsOf(r) : jobs[b].status \in S
    IN IF some({"failed"}) THEN "failed"
       ELSE IF some({"skipped"}) \/ \E b \in BlogsOf(r) : jobs[b].restored
            THEN Partial
       ELSE IF \E b \in BlogsOf(r) : jobs[b].status = "done" /\ ~jobs[b].verified
            THEN "completed_unverified"
       ELSE "completed"

(* create_run: the plans are made from the snapshots of this moment.         *)
Create(r) ==
    /\ request = None /\ run[r].status = "none" /\ Exclusive(r)
    /\ \E stop \in StopModes[r] :
          run' = [run EXCEPT ![r].status = "queued", ![r].stop = stop]
    /\ job' = [job EXCEPT ![r] = [b \in Blogs |->
                  IF b \notin BlogsOf(r) THEN NoJob
                  ELSE [NoJob EXCEPT !.status = "pending",
                                     !.version = snapshot[b].version,
                                     !.plan = snapshot[b].content]]]
    /\ UNCHANGED <<copy, snapshot, wordpress, threads, requests>>

Reclaimed(jobs) == [b \in Blogs |-> IF jobs[b].status = "running"
                                    THEN [jobs[b] EXCEPT !.status = "pending"] ELSE jobs[b]]

(* start, resume and retry_job hold the lock over a call to WordPress        *)
(* (_require_ready), between what they read and what they write.             *)
MayStart(r) == run[r].status = "queued"
MayResume(r) == \/ run[r].status = "running" /\ run[r].stale
                \/ run[r].status \in {"paused", "failed", "queued"}
MayRetry(r) == run[r].status # "none" /\ (run[r].status = "running" => run[r].stale)
Ask(op, r, b) ==
    /\ request = None /\ Exclusive(r)
    /\ request' = [op |-> op, run |-> r, blog |-> b, reclaim |-> run[r].status = "running"]
    /\ UNCHANGED <<database, wordpress, threads, cancelling, importing>>
AskStart(r) == MayStart(r) /\ Ask("start", r, None)
AskResume(r) == MayResume(r) /\ Ask("resume", r, None)
AskRetry(r, b) == MayRetry(r) /\ b \in BlogsOf(r) /\ Ask("retry", r, b)

NotReady ==
    /\ request # None /\ request' = None
    /\ UNCHANGED <<database, wordpress, threads, cancelling, importing>>

Asked(op) == request # None /\ request.op = op /\ request' = None
Start ==
    /\ Asked("start")
    /\ run' = [run EXCEPT ![request.run].started = TRUE]
    /\ Spawn(request.run)
    /\ UNCHANGED <<job, copy, snapshot, wordpress, restorers, cancelling, importing>>
Resume ==
    /\ Asked("resume")
    /\ run' = Woken(request.run)
    /\ job' = IF request.reclaim THEN [job EXCEPT ![request.run] = Reclaimed(@)] ELSE job
    /\ Spawn(request.run)
    /\ UNCHANGED <<copy, snapshot, wordpress, restorers, cancelling, importing>>
Retry ==
    LET r == request.run  b == request.blog
    IN /\ Asked("retry")
       /\ HasJob(r, b, {"failed", "skipped"}) /\ job[r][b].attempt < MaxAttempt
       /\ job' = [job EXCEPT ![r][b].status = "pending", ![r][b].attempt = @ + 1]
       /\ run' = Woken(r) /\ Spawn(r)
       /\ UNCHANGED <<copy, snapshot, wordpress, restorers, cancelling, importing>>

Skip(r, b) ==
    LET jobs == [job[r] EXCEPT ![b].status = "skipped"]
    IN /\ request = None /\ HasJob(r, b, {"failed"})
       /\ job' = [job EXCEPT ![r] = jobs]
       /\ IF Pending(jobs, r)
          THEN Exclusive(r) /\ run' = Woken(r) /\ Spawn(r)
          ELSE run' = [run EXCEPT ![r].status = Outcome(jobs, r)] /\ UNCHANGED worker
       /\ UNCHANGED <<copy, snapshot, wordpress, restorers, requests>>

(* request_pause and cancel take no lock.                                    *)
RequestPause(r) ==
    /\ run[r].status \in {"queued", "running"} /\ ~run[r].cancel
    /\ run' = [run EXCEPT ![r].cancel = TRUE]
    /\ UNCHANGED <<job, copy, snapshot, wordpress, threads, requests>>
ReadCancel(r) ==
    /\ cancelling = None
    /\ run[r].status \notin {"none", "completed", "cancelled", "running"}
    /\ cancelling' = r
    /\ UNCHANGED <<database, wordpress, threads, request, importing>>
Cancel(r) ==
    /\ cancelling = r /\ cancelling' = None
    /\ run' = [run EXCEPT ![r].status = "cancelled"]
    /\ job' = [job EXCEPT ![r] = [b \in Blogs |->
                  IF job[r][b].status = "pending"
                  THEN [job[r][b] EXCEPT !.status = "cancelled"] ELSE job[r][b]]]
    /\ UNCHANGED <<copy, snapshot, wordpress, threads, request, importing>>

(* A re-import of the warehouse copy: the check, then the export.            *)
CheckImport(b) ==
    /\ b \notin importing \cup LockedByRuns /\ snapshot[b].version < MaxVersion
    /\ importing' = importing \cup {b}
    /\ UNCHANGED <<database, wordpress, threads, request, cancelling>>
Imported(b, content) ==
    [snapshot EXCEPT ![b] = [version |-> @.version + 1, content |-> content]]
Import(b) ==
    /\ b \in importing /\ importing' = importing \ {b}
    /\ snapshot[b].version < MaxVersion /\ snapshot' = Imported(b, store[b])
    /\ UNCHANGED <<run, job, copy, wordpress, threads, request, cancelling>>

-----------------------------------------------------------------------------
(* WordPress.                                                                *)

(* Anyone else changes the categories of a blog.                             *)
Edit(b) ==
    /\ store[b].edits < MaxEdits
    /\ store' = [store EXCEPT ![b].edits = @ + 1]
    /\ UNCHANGED <<database, broker, threads, requests>>

(* A phase needs the ones before it; the rows it names are fenced, so it may *)
(* be refused where the blog is not as the plan expects.                     *)
Fits(r, b, k) == store[b].step[r] >= k - 1
AsPlanned(r, b) ==
    /\ ~store[b].mixed /\ store[b].edits = job[r][b].plan.edits
    /\ \A o \in Runs \ {r} : store[b].step[o] = job[r][b].plan.step[o]
Land(r, b, k) ==
    store' = [store EXCEPT ![b].step[r] = IF @ >= k THEN @ ELSE k]
Running == {key \in Keys : broker[key] = "running"}
Busy(b) == \E key \in Running : key[2] = b
Settle(key, status) ==
    /\ broker' = [broker EXCEPT ![key] = status]
    /\ UNCHANGED <<database, threads, requests>>
PhaseLands(key) ==
    Fits(key[1], key[2], key[4]) /\ Land(key[1], key[2], key[4]) /\ Settle(key, "done")
PhaseRefused(key) ==
    /\ ~(Fits(key[1], key[2], key[4]) /\ AsPlanned(key[1], key[2]))
    /\ Settle(key, "refused") /\ UNCHANGED store
PhaseDies(key) ==                          \* lock_free: its worker died
    /\ Settle(key, "dead")
    /\ \/ UNCHANGED store
       \/ Fits(key[1], key[2], key[4]) /\ Land(key[1], key[2], key[4])

-----------------------------------------------------------------------------
(* The worker.                                                               *)

Goto(r, pc) == worker' = [worker EXCEPT ![r].pc = pc]
Doing(r, pc) == worker[r].pc = pc
Mine(r) == job[r][worker[r].blog]
Known(r) == worker[r].progress
NextPhase(r) == Known(r).at + 1
Key(r, n) == <<r, worker[r].blog, n, NextPhase(r)>>
KeyState(r, n) == broker[Key(r, n)]
Beat(r) == [run EXCEPT ![r].stale = FALSE]

(* _claim_next_job                                                           *)
MayClaim(r) == run[r].status \in {"queued", "running"}
Turn(r, jobs) ==
    LET seqs == {i \in DOMAIN Targets[r] : jobs[Targets[r][i]].status = "pending"}
    IN Targets[r][CHOOSE i \in seqs : \A j \in seqs : i <= j]
Claim(r) ==
    LET jobs == IF run[r].stale THEN Reclaimed(job[r]) ELSE job[r]
        some(status) == \E b \in BlogsOf(r) : jobs[b].status = status
        b == Turn(r, jobs)
    IN /\ Doing(r, "claim")
       /\ IF ~MayClaim(r) THEN Goto(r, "leave") /\ UNCHANGED <<run, job>>
          ELSE IF run[r].cancel
          THEN /\ run' = [run EXCEPT ![r].status = "paused", ![r].cancel = FALSE]
               /\ job' = [job EXCEPT ![r] = jobs] /\ Goto(r, "leave")
          ELSE IF some("running") THEN Goto(r, "leave") /\ UNCHANGED <<run, job>>
          ELSE IF ~some("pending")
          THEN /\ run' = [run EXCEPT ![r].status = Outcome(jobs, r)]
               /\ job' = [job EXCEPT ![r] = jobs] /\ Goto(r, "leave")
          ELSE /\ run' = [run EXCEPT ![r].status = "running", ![r].started = TRUE,
                                     ![r].stale = FALSE]
               /\ job' = [job EXCEPT ![r] = [jobs EXCEPT ![b].status = "running"]]
               /\ worker' = [worker EXCEPT ![r] =
                     [Off EXCEPT !.pc = "fence", !.blog = b, !.progress = jobs[b].progress,
                                  !.mark = jobs[b].restore]]
       /\ UNCHANGED <<copy, snapshot, wordpress, restorers, requests>>

(* _execute_job.  The fence on the snapshot's version holds until terms are  *)
(* done; a job whose refresh is saved only lacks its status.                 *)
VersionFence(r) ==
    /\ Doing(r, "fence")
    /\ IF Known(r).refreshed THEN Goto(r, "finish")
       ELSE IF Known(r).at > 0
       THEN Goto(r, IF Known(r).at < Last THEN "phase" ELSE "verify")
       ELSE Goto(r, IF snapshot[worker[r].blog].version = Mine(r).version
                    THEN "live" ELSE "fail")
    /\ UNCHANGED <<database, wordpress, restorers, requests>>

(* What is saved is the worker's whole copy, the restore mark it was claimed *)
(* with included, over whatever the row says by then; most reports that fail *)
(* a job are saved the same way.                                             *)
Save(r, progress, then) ==
    worker' = [worker EXCEPT ![r].pc = "save", ![r].progress = progress, ![r].then = then,
                             ![r].live = None, ![r].key = 0]
Reports(r) == Save(r, Known(r), "fail")
SaveProgress(r) ==
    /\ Doing(r, "save")
    /\ job' = [job EXCEPT ![r][worker[r].blog].progress = Known(r),
                          ![r][worker[r].blog].restore = worker[r].mark]
    /\ run' = Beat(r)
    /\ worker' = [worker EXCEPT ![r].pc = worker[r].then, ![r].then = "off"]
    /\ UNCHANGED <<copy, snapshot, wordpress, restorers, requests>>

(* The live export must be what the plan was built on; then it is copied.    *)
NoCopy(r) == "phase"                       \* fault: the live state is not kept
AfterLive(r) == IF Known(r).taken THEN "phase" ELSE "copy"
Unchanged(r, content) == content = Mine(r).plan
FetchLive(r) ==
    LET content == store[worker[r].blog]
    IN /\ Doing(r, "live")
       /\ IF Unchanged(r, content)
          THEN worker' = [worker EXCEPT ![r].live = content, ![r].pc = AfterLive(r)]
          ELSE Reports(r)
       /\ UNCHANGED <<database, wordpress, restorers, requests>>
ExportFails(r) ==
    /\ Doing(r, "live") /\ Goto(r, "fail")
    /\ UNCHANGED <<database, wordpress, restorers, requests>>
TakeCopy(r) ==
    /\ Doing(r, "copy")
    /\ copy' = [copy EXCEPT ![r][worker[r].blog] = worker[r].live]
    /\ Save(r, [Known(r) EXCEPT !.taken = TRUE], "phase")
    /\ UNCHANGED <<run, job, snapshot, wordpress, restorers, requests>>

(* broker_job: the own key and those of two earlier attempts are looked up   *)
(* first; an answer that does not come counts as no such key.                *)
Candidates(r) == {n \in 1..Mine(r).attempt : n >= Mine(r).attempt - 2}
Tells(r, n) == \/ KeyState(r, n) \in {"done", "running"}
               \/ KeyState(r, n) = "refused" /\ n = Mine(r).attempt
Advance(r) ==
    LET progress == [Known(r) EXCEPT !.at = @ + 1]
    IN Save(r, progress, IF progress.at < Last THEN "phase" ELSE "verify")
Await(r, n) == worker' = [worker EXCEPT ![r].pc = "wait", ![r].key = n, ![r].live = None]
(* A refusal of the terms fails the job; a report of a later phase is saved. *)
Refused(r) == Goto(r, "fail") \/ (NextPhase(r) > 1 /\ Reports(r))
Heed(r, n, status) ==
    CASE status = "done" -> Advance(r)
      [] status = "running" -> Await(r, n)
      [] OTHER -> Refused(r)
ProbeFinds(r) ==
    /\ Doing(r, "phase")
    /\ \E n \in Candidates(r) :
          /\ Tells(r, n) /\ \A m \in Candidates(r) : m > n => ~Tells(r, m)
          /\ Heed(r, n, KeyState(r, n))
    /\ UNCHANGED <<database, wordpress, restorers, requests>>
ProbeMisses(r) ==
    /\ Doing(r, "phase") /\ Goto(r, "post")
    /\ \A n \in Candidates(r) : ~Tells(r, n)
    /\ UNCHANGED <<database, wordpress, restorers, requests>>
ProbeUnheard(r) ==
    /\ Doing(r, "phase") /\ Goto(r, "post")
    /\ \E n \in Candidates(r) : Tells(r, n)
    /\ UNCHANGED <<database, wordpress, restorers, requests>>

(* The POST starts a durable job, is answered by the stored one, is refused  *)
(* while the blog is busy, or fails; one that starts may be taken for failed.*)
Starts(r, n) ==
    /\ Doing(r, "post") /\ ~Busy(worker[r].blog)
    /\ KeyState(r, n) \notin {"done", "running"}
    /\ broker' = [broker EXCEPT ![Key(r, n)] = "running"]
Post(r) ==
    /\ Starts(r, Mine(r).attempt) /\ Await(r, Mine(r).attempt)
    /\ UNCHANGED <<database, store, restorers, requests>>
PostUnheard(r) ==
    /\ Starts(r, Mine(r).attempt) /\ Goto(r, "fail")
    /\ UNCHANGED <<database, store, restorers, requests>>
PostAnswered(r) ==
    LET n == Mine(r).attempt
    IN /\ Doing(r, "post") /\ KeyState(r, n) \in {"done", "running"}
       /\ Heed(r, n, KeyState(r, n))
       /\ UNCHANGED <<database, wordpress, restorers, requests>>
PostRefused(r) ==
    /\ Doing(r, "post") /\ Busy(worker[r].blog) /\ Goto(r, "fail")
    /\ UNCHANGED <<database, wordpress, restorers, requests>>
PostFails(r) ==
    /\ Doing(r, "post") /\ Goto(r, "fail")
    /\ UNCHANGED <<database, wordpress, restorers, requests>>

(* _poll_job ends with the job, with its worker's death, or when the answers *)
(* stop or take too long: then WordPress may still be working.               *)
DoneOrDead == {"done", "dead"}             \* fault: a dead worker's phase counts
SettledWell == {"done"}
Poll(r) ==
    LET status == KeyState(r, worker[r].key)
    IN /\ Doing(r, "wait") /\ status # "running"
       /\ IF status \in SettledWell THEN Advance(r)
          ELSE IF status = "refused" THEN Refused(r) ELSE Goto(r, "fail")
       /\ UNCHANGED <<database, wordpress, restorers, requests>>
NeverGivesUp(r) == FALSE                   \* fault: no limit on the wait
WaitsTooLong(r) == Doing(r, "wait")
GiveUp(r) ==
    /\ WaitsTooLong(r) /\ Goto(r, "fail")
    /\ UNCHANGED <<database, wordpress, restorers, requests>>

(* A fresh export must show what the plan wanted; it is then imported.  An   *)
(* export that cannot be had leaves the job unverified.                      *)
Converged(r) == store[worker[r].blog].step[r] = Last
Verify(r) ==
    /\ Doing(r, "verify")
    /\ \/ /\ Converged(r)
          /\ worker' = [worker EXCEPT ![r].pc = "import", ![r].live = store[worker[r].blog]]
       \/ ~(Converged(r) /\ AsPlanned(r, worker[r].blog)) /\ Reports(r)
    /\ UNCHANGED <<database, wordpress, restorers, requests>>
CannotVerify(r) ==
    /\ Doing(r, "verify") /\ Save(r, [Known(r) EXCEPT !.verified = FALSE], "finish")
    /\ UNCHANGED <<database, wordpress, restorers, requests>>
Refresh(r) ==
    /\ Doing(r, "import") /\ snapshot[worker[r].blog].version < MaxVersion
    /\ snapshot' = Imported(worker[r].blog, worker[r].live)
    /\ Save(r, [Known(r) EXCEPT !.refreshed = TRUE, !.verified = TRUE], "finish")
    /\ UNCHANGED <<run, job, copy, wordpress, restorers, requests>>
RefreshFails(r) ==
    /\ Doing(r, "import")
    /\ worker' = [worker EXCEPT ![r].pc = "finish", ![r].live = None,
                                ![r].progress.verified = TRUE]
    /\ UNCHANGED <<database, wordpress, restorers, requests>>

(* _finish_job, and the run's own status in a transaction of its own.        *)
Finish(r, status, verified) ==
    /\ job' = [job EXCEPT ![r][worker[r].blog].status = status,
                          ![r][worker[r].blog].verified = verified,
                          ![r][worker[r].blog].restored = FALSE]
    /\ run' = Beat(r)
    /\ worker' = [worker EXCEPT ![r] = [Off EXCEPT !.pc =
                     IF status = "failed" /\ run[r].stop THEN "stop" ELSE "claim"]]
    /\ UNCHANGED <<copy, snapshot, wordpress, restorers, requests>>
FinishDone(r) == Doing(r, "finish") /\ Finish(r, "done", Known(r).verified)
FinishFailed(r) == Doing(r, "fail") /\ Finish(r, "failed", FALSE)
StopRun(r) ==
    /\ Doing(r, "stop") /\ Goto(r, "leave")
    /\ run' = [run EXCEPT ![r].status = "failed"]
    /\ UNCHANGED <<job, copy, snapshot, wordpress, restorers, requests>>
Leave(r) ==
    /\ Doing(r, "leave") /\ worker' = [worker EXCEPT ![r] = Off]
    /\ UNCHANGED <<database, wordpress, restorers, requests>>

Step(r) ==
    \/ Claim(r) \/ VersionFence(r) \/ FetchLive(r) \/ TakeCopy(r) \/ SaveProgress(r)
    \/ ProbeFinds(r) \/ ProbeMisses(r) \/ Post(r) \/ PostAnswered(r) \/ PostRefused(r)
    \/ Poll(r) \/ GiveUp(r) \/ Verify(r) \/ Refresh(r) \/ RefreshFails(r)
    \/ FinishDone(r) \/ FinishFailed(r) \/ StopRun(r) \/ Leave(r)
WorkerStep(r) == Step(r) /\ UNCHANGED <<history, moves>>
WorkerFails(r) ==
    ExportFails(r) \/ ProbeUnheard(r) \/ PostUnheard(r) \/ PostFails(r) \/ CannotVerify(r)

(* A database error escapes process_run and ends the thread; after           *)
(* STALE_JOB_MINUTES without a heartbeat the run counts as abandoned.  A     *)
(* live worker is assumed to beat, and a request to end, sooner than that.   *)
Die(r) ==
    /\ ~Doing(r, "off") /\ worker' = [worker EXCEPT ![r] = Off]
    /\ UNCHANGED <<database, wordpress, restorers, requests>>
GoStale(r) ==
    /\ Doing(r, "off") /\ run[r].status # "none" /\ ~run[r].stale /\ request = None
    /\ run' = [run EXCEPT ![r].stale = TRUE]
    /\ UNCHANGED <<job, copy, snapshot, wordpress, threads, requests>>

-----------------------------------------------------------------------------
(* Restore.  The passes before the last, and the WordPress jobs that carry   *)
(* them, are one step: what they leave behind is half restored.              *)

Thread(r, b, id) == [run |-> r, blog |-> b, id |-> id, pc |-> "passes"]
Goes(t, pc) == restorers' = (restorers \ {t}) \cup {[t EXCEPT !.pc = pc]}
Ends(t) == restorers' = restorers \ {t}
Marked(t, status) == [job EXCEPT ![t.run][t.blog].restore = status]

(* _restore_threads tells whether the job's restore lives; where two live,   *)
(* which of them is the newer one is not told apart.  A restore is let in    *)
(* beside another writer of the job's progress when a cancelled run's worker *)
(* is still in the job, or an earlier restore is past its verification.      *)
RestoresOf(r, b) == {t \in restorers : t.run = r /\ t.blog = b}
Writers(r, b) == worker[r].blog = b \/ RestoresOf(r, b) # {}
FreeIds == {id \in RestoreIds : \A t \in restorers : t.id # id}
RestoreBlog(r, b) ==
    /\ request = None /\ copy[r][b] # None
    /\ \A o \in Runs : run[o].status \in Active => run[o].status = "running" /\ run[o].stale
    /\ Restoring = {} /\ ~(job[r][b].restore = "stale" /\ RestoresOf(r, b) # {})
    /\ FreeIds # {}
    /\ job' = [job EXCEPT ![r][b].restore = "running"]
    /\ restorers' = restorers \cup {Thread(r, b, CHOOSE id \in FreeIds : TRUE)}
    /\ beside' = IF Writers(r, b) THEN beside \cup {<<r, b>>} ELSE beside
    /\ UNCHANGED <<run, copy, snapshot, wordpress, worker, requests, undone>>

(* Each pass saves the mark, running, again.                                 *)
Half(t) == [copy[t.run][t.blog] EXCEPT !.mixed = TRUE]
Passes(t) ==
    /\ store' = [store EXCEPT ![t.blog] = Half(t)]
    /\ undone' = undone \cup {t.blog}
Finalize(t) ==
    /\ store' = [store EXCEPT ![t.blog] = IF @ = Half(t) THEN copy[t.run][t.blog] ELSE @]
    /\ undone' = undone \cup {t.blog}
RestorePasses(t) ==
    /\ t.pc = "passes" /\ ~Busy(t.blog) /\ Passes(t) /\ Goes(t, "finalize")
    /\ job' = Marked(t, "running")
    /\ UNCHANGED <<run, copy, snapshot, broker, worker, requests, beside>>
RestoreFinalize(t) ==
    /\ t.pc = "finalize" /\ ~Busy(t.blog) /\ Finalize(t) /\ Goes(t, "verify")
    /\ job' = Marked(t, "running")
    /\ UNCHANGED <<run, copy, snapshot, broker, worker, requests, beside>>
RestoreVerify(t) ==
    /\ t.pc = "verify" /\ store[t.blog] = copy[t.run][t.blog]
    /\ job' = Marked(t, "done") /\ Goes(t, "flag")
    /\ UNCHANGED <<run, copy, snapshot, wordpress, worker, requests>>
RestoreFlag(t) ==
    /\ t.pc = "flag" /\ Goes(t, "import")
    /\ job' = [job EXCEPT ![t.run][t.blog].restored = TRUE]
    /\ UNCHANGED <<run, copy, snapshot, wordpress, worker, requests>>
(* The export that was verified is imported, or not, and the progress is     *)
(* saved once more, whatever the row holds by now.                           *)
RestoreImport(t) ==
    /\ t.pc = "import"
    /\ \/ /\ snapshot[t.blog].version < MaxVersion
          /\ snapshot' = Imported(t.blog, copy[t.run][t.blog])
       \/ UNCHANGED snapshot
    /\ job' = Marked(t, "done") /\ Ends(t)
    /\ UNCHANGED <<run, copy, wordpress, worker, requests>>
RestoreFails(t) ==
    /\ t.pc # "import" /\ job' = Marked(t, "failed") /\ Ends(t)
    /\ \/ UNCHANGED <<store, undone>>
       \/ t.pc = "passes" /\ ~Busy(t.blog) /\ Passes(t)
       \/ t.pc = "finalize" /\ ~Busy(t.blog) /\ Finalize(t)
    /\ UNCHANGED <<run, copy, snapshot, broker, worker, requests, beside>>
RestoreDies(t) ==
    /\ Ends(t) /\ UNCHANGED <<database, wordpress, worker, requests>>
RestoreGoesStale(r, b) ==
    /\ job[r][b].restore = "running"
    /\ \A t \in restorers : <<t.run, t.blog>> # <<r, b>>
    /\ job' = [job EXCEPT ![r][b].restore = "stale"]
    /\ UNCHANGED <<run, copy, snapshot, wordpress, threads, requests>>
RestoreStep(t) ==
    \/ RestorePasses(t) \/ RestoreFinalize(t)
    \/ (RestoreVerify(t) \/ RestoreFlag(t) \/ RestoreImport(t)) /\ UNCHANGED history

(* The process dies and starts again (recover_runs).                         *)
Recovered == {r \in Runs : \/ run[r].status = "running"
                           \/ run[r].status = "queued" /\ run[r].started}
Restart ==
    /\ run' = [r \in Runs |-> IF run[r].status = "running"
                   THEN [run[r] EXCEPT !.status = "queued", !.stale = FALSE] ELSE run[r]]
    /\ job' = [r \in Runs |-> [b \in Blogs |->
                   LET j == IF r \in Recovered THEN Reclaimed(job[r])[b] ELSE job[r][b]
                   IN IF j.restore \in {"running", "stale"}
                      THEN [j EXCEPT !.restore = "failed"] ELSE j]]
    /\ worker' = [r \in Runs |-> IF r \in Recovered THEN [Off EXCEPT !.pc = "claim"] ELSE Off]
    /\ restorers' = {} /\ beside' = {} /\ request' = None /\ cancelling' = None /\ importing' = {}
    /\ UNCHANGED <<copy, snapshot, wordpress, undone>>

(* Moves are what people and failures do to a run that was created and       *)
(* started, and are bounded; the rest is what follows.                       *)
Acts ==
    \/ \E r \in Runs :
          \/ WorkerFails(r) \/ AskStart(r) \/ AskResume(r) \/ RequestPause(r) \/ ReadCancel(r) \/ Die(r)
          \/ \E b \in Blogs : AskRetry(r, b) \/ Skip(r, b)
    \/ \E b \in Blogs : CheckImport(b) \/ Edit(b)
    \/ \E t \in restorers : RestoreDies(t)
    \/ \E key \in Running : PhaseDies(key)
Moves ==
    \/ Restart
    \/ \E r \in Runs, b \in Blogs : RestoreBlog(r, b)
    \/ \E t \in restorers : RestoreFails(t)
    \/ Acts /\ UNCHANGED history
Ensues ==
    \/ Start \/ Resume \/ Retry \/ NotReady
    \/ \E r \in Runs :
          \/ Create(r) \/ Cancel(r) \/ GoStale(r)
          \/ \E b \in Blogs : RestoreGoesStale(r, b)
    \/ \E b \in Blogs : Import(b)
    \/ \E key \in Running : PhaseLands(key) \/ PhaseRefused(key)
Follows ==
    \/ Ensues /\ UNCHANGED history
    \/ \E t \in restorers : RestoreStep(t)
Next ==
    \/ \E r \in Runs : WorkerStep(r)
    \/ Follows /\ UNCHANGED moves
    \/ Moves /\ moves < MaxMoves /\ moves' = moves + 1

(* A live worker thread takes its next step.                                 *)
Spec == Init /\ [][Next]_vars /\ \A r \in Runs : WF_vars(WorkerStep(r))

-----------------------------------------------------------------------------
(* Properties                                                                *)

TypeOK ==
    /\ run \in [Runs -> Run] /\ job \in [Runs -> [Blogs -> Job]]
    /\ copy \in [Runs -> [Blogs -> Content \cup {None}]]
    /\ snapshot \in [Blogs -> [version : 1..MaxVersion, content : Content]]
    /\ store \in [Blogs -> Content]
    /\ worker \in [Runs -> Worker]
    /\ restorers \subseteq [run : Runs, blog : Blogs,
                            id : RestoreIds,
                            pc : {"passes", "finalize", "verify", "flag", "import"}]
    /\ beside \subseteq Runs \X Blogs /\ undone \subseteq Blogs
    /\ cancelling \in Runs \cup {None} /\ importing \subseteq Blogs

(* One environment has one active run, and no restore whose row says it runs *)
(* is beside a run with a live worker: the checks of create, start, resume,  *)
(* retry, skip and restore compose, whatever happens between them and over   *)
(* a restart (_assert_env_exclusive, restore_blog, recover_runs).  Excepted  *)
(* are restores let in while something else still wrote the job's progress:  *)
(* their mark is overwritten, and comes back (_save_progress,                *)
(* _save_restore_progress).  And a run that has let the environment go has   *)
(* no job left to claim or under way (_claim_next_job, skip_job,             *)
(* _finish_run), although skips, cancels and restarts end it from outside    *)
(* the worker.                                                               *)
OneReservation ==
    /\ TypeOK
    /\ \A r \in Runs : run[r].status \in Finished =>
           \A b \in BlogsOf(r) : job[r][b].status \notin Open
    /\ \A r, o \in Runs : {run[r].status, run[o].status} \subseteq Active => r = o
    /\ Restoring \ beside # {} => \A r \in Runs : run[r].status \in Active =>
                                      /\ run[r].status = "running" /\ run[r].stale
                                      /\ Doing(r, "off")

(* What a job's progress says is done has landed on its blog, so a resumed   *)
(* worker skips nothing, and a done job has landed whole (_execute_job,      *)
(* broker_job), whatever was lost, repeated or answered by an earlier        *)
(* attempt.  A blog that a restore has passed over is excepted, whatever the *)
(* row still says of that restore.                                           *)
CursorIsLanded ==
    \A r \in Runs, b \in Blogs \ undone :
        /\ store[b].step[r] >= job[r][b].progress.at
        /\ job[r][b].status = "done" => store[b].step[r] = Last

(* No phase of a plan lands on a blog before its state has been kept, and    *)
(* what is kept never has a phase of that plan in it (_execute_job: fences,  *)
(* then job_snapshot, then apply-terms), retries and restarts included.      *)
RestorePointIsBefore ==
    \A r \in Runs, b \in Blogs :
        /\ store[b].step[r] > 0 => copy[r][b] # None
        /\ copy[r][b] # None => copy[r][b].step[r] = 0 /\ copy[r][b] = job[r][b].plan

(* A worker does not stay in a job for ever, even when WordPress never       *)
(* settles the phase it polls (_poll_job's limits).                          *)
InJob(r) == worker[r].blog # None
JobSettles == \A r \in Runs : InJob(r) ~> ~InJob(r)
=============================================================================
