------------------------ MODULE CategoryRunsProofs -------------------------
(* The runs of the category editor: theorems about CategoryRuns.             *)
EXTENDS CategoryRuns, FiniteSetTheorems, WellFoundedInduction, TLAPS

-----------------------------------------------------------------------------
(* The inductive invariant, in parts.                                        *)

Requests == [op : {"start", "resume", "retry"}, run : Runs, blog : Blogs \cup {None}, reclaim : BOOLEAN]
InBlog == {"fence", "live", "copy", "save", "phase", "post", "wait", "verify", "import", "finish", "fail"}

(* Where a worker is, and what its own copy of the progress then says.       *)
Placed(r) ==
    LET w == worker[r]
    IN  /\ w.pc \in InBlog => w.blog \in BlogsOf(r)
        /\ w.pc \in {"live", "copy"} => w.progress.at = 0
        /\ w.pc \in {"copy", "import"} => w.live # None
        /\ w.pc = "copy" => w.live = job[r][w.blog].plan
        /\ w.pc \in {"phase", "post", "wait"} => w.progress.at < Last /\ w.progress.taken
        /\ w.pc \in {"verify", "import", "finish"} => w.progress.at = Last
        /\ w.pc = "save" => w.then \in {"phase", "verify", "finish", "fail"}
        /\ w.pc = "save" /\ w.then = "phase" => w.progress.at < Last /\ w.progress.taken
        /\ w.pc = "save" /\ w.then \in {"verify", "finish"} => w.progress.at = Last
        /\ w.pc = "wait" => w.key \in 1..MaxAttempt
Shaped ==
    /\ TypeOK /\ request \in Requests \cup {None}
    /\ broker \in [Keys -> {"none", "running", "done", "refused", "dead"}]
    /\ \A r \in Runs : Placed(r)

(* Admission.                                                                *)
OneActive == \A r, o \in Runs : run[r].status \in Active /\ run[o].status \in Active => r = o
Calm == \A r \in Runs, b \in Blogs : <<r, b>> \notin beside => job[r][b].restore # "running"
Alone(r) == \A o \in Runs \ {r} : run[o].status \notin Active
Aside == ~ Calm => \A r \in Runs : run[r].status \in Active =>
            run[r].status = "running" /\ run[r].stale /\ Doing(r, "off")
Beating == \A r \in Runs : worker[r].pc # "off" /\ run[r].status = "running" => ~ run[r].stale
Locked ==
    request # None =>
        /\ Calm /\ Alone(request.run) /\ run[request.run].status # "none"
        /\ request.op = "start" /\ run[request.run].status = "running" => ~ run[request.run].stale
Admitted == OneActive /\ Aside /\ Beating /\ Locked
Over == \A r \in Runs : run[r].status \in Finished => \A b \in BlogsOf(r) : job[r][b].status \notin Open

(* What is kept before a plan begins.                                        *)
Fresh(r) == run[r].status = "none" =>
    worker[r].pc = "off" /\ \A b \in Blogs : copy[r][b] = None
Pure(r, b, c) == c # None /\ c.step[r] > 0 => copy[r][b] # None
PureAll(r, b) ==
    /\ Pure(r, b, store[b]) /\ Pure(r, b, snapshot[b].content)
    /\ \A o \in Runs : /\ Pure(r, b, copy[o][b]) /\ Pure(r, b, job[o][b].plan)
                       /\ worker[o].pc \in InBlog /\ worker[o].blog = b => Pure(r, b, worker[o].live)
Point(r, b) ==
    /\ job[r][b].plan # None => job[r][b].plan.step[r] = 0
    /\ copy[r][b] # None => copy[r][b] = job[r][b].plan
    /\ \A n \in 1..MaxAttempt, k \in Phases : broker[<<r, b, n, k>>] # "none" => copy[r][b] # None
Threaded == \A t \in restorers : copy[t.run][t.blog] # None

(* The writers of a restore mark.  A restore that was not let in beside      *)
(* another writer is the only thread of its job, no worker is in that job    *)
(* until it is verified, and the mark it has set stays.                      *)
Rewriting == {"passes", "finalize", "verify"}
Writes(t) ==
    <<t.run, t.blog>> \notin beside =>
        /\ \A u \in restorers : u.run = t.run /\ u.blog = t.blog => u = t
        /\ t.pc \in Rewriting => /\ job[t.run][t.blog].restore = "running"
                                 /\ ~ (worker[t.run].pc \in InBlog /\ worker[t.run].blog = t.blog)
Recalls(r) ==
    worker[r].pc \in InBlog /\ <<r, worker[r].blog>> \notin beside => worker[r].mark # "running"
Remarks == (\A t \in restorers : Writes(t)) /\ (\A r \in Runs : Recalls(r))

(* What progress says.                                                       *)
Sound(r, b, p) ==
    /\ p.refreshed => p.at = Last
    /\ p.at > 0 => p.taken
    /\ p.taken => copy[r][b] # None
    /\ b \notin undone => p.at <= store[b].step[r]
Landed(r, b) ==
    /\ Sound(r, b, job[r][b].progress)
    /\ worker[r].pc \in InBlog /\ worker[r].blog = b => Sound(r, b, worker[r].progress)
    /\ b \notin undone => \A n \in 1..MaxAttempt, k \in Phases :
          broker[<<r, b, n, k>>] = "done" => store[b].step[r] >= k
    /\ b \notin undone /\ job[r][b].status = "done" => store[b].step[r] = Last

AllFresh == \A r \in Runs : Fresh(r)
AllPure == \A r \in Runs, b \in Blogs : PureAll(r, b)
AllPoint == \A r \in Runs, b \in Blogs : Point(r, b)
AllLanded == \A r \in Runs, b \in Blogs : Landed(r, b)
-----------------------------------------------------------------------------
(* What the steps do, field by field.                                        *)

Elsewhere(r) == \A o \in Runs \ {r} : worker'[o] = worker[o]
Stays(r) ==
    /\ Elsewhere(r) /\ worker'[r].blog = worker[r].blog /\ worker'[r].progress = worker[r].progress
    /\ worker'[r].mark = worker[r].mark
Turns(r, pc) ==
    /\ Stays(r) /\ worker'[r].pc = pc /\ worker'[r].live = worker[r].live
Saves(r, at, taken, refreshed, then) ==
    /\ Elsewhere(r) /\ worker'[r].blog = worker[r].blog /\ worker'[r].pc = "save"
    /\ worker'[r].then = then /\ worker'[r].live = None /\ worker'[r].mark = worker[r].mark
    /\ worker'[r].progress.at = at /\ worker'[r].progress.taken = taken
    /\ worker'[r].progress.refreshed = refreshed
Reported(r) == Saves(r, Known(r).at, Known(r).taken, Known(r).refreshed, "fail")
Waits(r) ==
    Stays(r) /\ worker'[r].pc = "wait" /\ worker'[r].key \in 1..MaxAttempt /\ worker'[r].live = None
Advances(r) ==
    /\ \E n \in 1..MaxAttempt : KeyState(r, n) = "done"
    /\ Saves(r, NextPhase(r), Known(r).taken, Known(r).refreshed,
             IF NextPhase(r) < Last THEN "phase" ELSE "verify")
Wakes(r) ==
    /\ Elsewhere(r)
    /\ \/ worker[r].pc = "off" /\ worker'[r].pc = "claim"
       \/ worker[r].pc # "off" /\ worker'[r] = worker[r]
Leaves(r, pc) == Elsewhere(r) /\ worker'[r].pc = pc

OtherRuns(r) == \A o \in Runs \ {r} : run'[o] = run[o]
SameRuns == \A o \in Runs : run'[o].status = run[o].status /\ run'[o].stale = run[o].stale
Beats(r) == OtherRuns(r) /\ run'[r].status = run[r].status /\ ~ run'[r].stale

Plans == \A o \in Runs, c \in Blogs : job'[o][c].plan = job[o][c].plan
Progresses == \A o \in Runs, c \in Blogs : job'[o][c].progress = job[o][c].progress
Restores == \A o \in Runs, c \in Blogs : job'[o][c].restore = job[o][c].restore
Unmarks == \A o \in Runs, c \in Blogs : job'[o][c].restore = "running" => job[o][c].restore = "running"
Dones == \A o \in Runs, c \in Blogs : job'[o][c].status = "done" => job[o][c].status = "done"
Opens == \A o \in Runs, c \in Blogs : job'[o][c].status \in Open => job[o][c].status \in Open
JobsKeep == Plans /\ Progresses /\ Restores /\ Dones
Marking(r, b, s) ==
    \A o \in Runs, c \in Blogs :
       job'[o][c].restore = IF o = r /\ c = b THEN s ELSE job[o][c].restore

OtherBlogs(b) == \A c \in Blogs \ {b} : store'[c] = store[c]
Lands(r, b, k) ==
    /\ OtherBlogs(b) /\ \A o \in Runs \ {r} : store'[b].step[o] = store[b].step[o]
    /\ store'[b].step[r] >= k /\ store'[b].step[r] >= store[b].step[r]
Settles(r, b, n, k, status) ==
    /\ broker[<<r, b, n, k>>] = "running" /\ broker'[<<r, b, n, k>>] = status
    /\ \A key \in Keys \ {<<r, b, n, k>>} : broker'[key] = broker[key]
Posts(r, n) ==
    /\ n \in 1..MaxAttempt /\ NextPhase(r) \in Phases
    /\ KeyState(r, n) # "done" /\ broker'[Key(r, n)] = "running"
    /\ \A key \in Keys \ {Key(r, n)} : broker'[key] = broker[key]
Imports(b, c) ==
    snapshot'[b].content = c /\ \A d \in Blogs \ {b} : snapshot'[d] = snapshot[d]
RestoreThread == [run : Runs, blog : Blogs, id : RestoreIds,
                  pc : {"passes", "finalize", "verify", "flag", "import"}]
Joins(r, b) == \E t \in RestoreThread : t.run = r /\ t.blog = b /\ restorers' = restorers \cup {t}
Threads == \A t \in restorers' : \E u \in restorers : t.run = u.run /\ t.blog = u.blog

RunFits == run' \in [Runs -> Run]
JobFits == job' \in [Runs -> [Blogs -> Job]]
CopyFits == copy' \in [Runs -> [Blogs -> Content \cup {None}]]
SnapshotFits == snapshot' \in [Blogs -> [version : 1..MaxVersion, content : Content]]
StoreFits == store' \in [Blogs -> Content]
BrokerFits == broker' \in [Keys -> {"none", "running", "done", "refused", "dead"}]
WorkerFits == worker' \in [Runs -> Worker]
RestorersFits == restorers' \subseteq RestoreThread
RequestFits == request' \in Requests \cup {None}
RestFits == cancelling' \in Runs \cup {None} /\ importing' \subseteq Blogs
HistoryFits == beside' \subseteq Runs \X Blogs /\ undone' \subseteq Blogs
AllFit ==
    /\ RunFits /\ JobFits /\ CopyFits /\ SnapshotFits /\ StoreFits /\ BrokerFits
    /\ WorkerFits /\ RestorersFits /\ RequestFits /\ RestFits

(* The blogs of a run are blogs.                                             *)
LEMMA BlogsIn ==
    ASSUME NEW r \in Runs PROVE BlogsOf(r) \subseteq Blogs
  BY RunsAssumption DEF BlogsOf

(* There are phases, and the last of them is not the first.                  *)
LEMMA LastIn == Last \in Nat /\ Last >= 2 /\ Phases = 1..Last
  BY RunsAssumption DEF Last, Phases

(* The shape of a worker.                                                    *)
LEMMA WorkerHas ==
    ASSUME Shaped, NEW r \in Runs
    PROVE  /\ worker \in [Runs -> Worker] /\ worker[r] \in Worker /\ worker[r].pc \in Places
           /\ worker[r].blog \in Blogs \cup {None} /\ worker[r].progress \in Progress
           /\ worker[r].progress.at \in 0..Last /\ worker[r].progress.taken \in BOOLEAN
           /\ worker[r].progress.refreshed \in BOOLEAN /\ worker[r].progress.verified \in BOOLEAN
           /\ worker[r].live \in Content \cup {None} /\ worker[r].key \in 0..MaxAttempt
           /\ worker[r].then \in Places /\ worker[r].mark \in Marks
           /\ worker[r].pc \in InBlog => worker[r].blog \in BlogsOf(r) /\ worker[r].blog \in Blogs
  <1>1. worker \in [Runs -> Worker] /\ worker[r] \in Worker
    BY DEF Shaped, TypeOK
  <1>2. worker[r].progress \in Progress
    BY <1>1 DEF Worker
  <1>3. worker[r].pc \in InBlog => worker[r].blog \in BlogsOf(r)
    BY DEF Shaped, Placed
  <1> QED BY <1>1, <1>2, <1>3, BlogsIn DEF Worker, Progress

(* The shape of a job.                                                       *)
LEMMA JobHas ==
    ASSUME Shaped, NEW r \in Runs, NEW b \in Blogs
    PROVE  /\ job \in [Runs -> [Blogs -> Job]] /\ job[r] \in [Blogs -> Job] /\ job[r][b] \in Job
           /\ job[r][b].status \in {"none", "pending", "running", "done", "failed", "skipped", "cancelled"}
           /\ job[r][b].attempt \in 1..MaxAttempt /\ job[r][b].version \in 0..MaxVersion
           /\ job[r][b].plan \in Content \cup {None} /\ job[r][b].progress \in Progress
           /\ job[r][b].progress.at \in 0..Last
           /\ job[r][b].verified \in BOOLEAN /\ job[r][b].restored \in BOOLEAN
           /\ job[r][b].restore \in Marks
  <1>1. job \in [Runs -> [Blogs -> Job]] /\ job[r] \in [Blogs -> Job] /\ job[r][b] \in Job
    BY DEF Shaped, TypeOK
  <1>2. job[r][b].progress \in Progress
    BY <1>1 DEF Job
  <1> QED BY <1>1, <1>2 DEF Job, Progress

(* The shape of a run.                                                       *)
LEMMA RunHas ==
    ASSUME Shaped, NEW r \in Runs
    PROVE  /\ run \in [Runs -> Run] /\ run[r] \in Run
           /\ run[r].status \in {"none", "failed", "cancelled"} \cup Active \cup Finished
           /\ run[r].cancel \in BOOLEAN /\ run[r].started \in BOOLEAN /\ run[r].stop \in BOOLEAN
           /\ run[r].stale \in BOOLEAN
  <1>1. run \in [Runs -> Run] /\ run[r] \in Run
    BY DEF Shaped, TypeOK
  <1> QED BY <1>1 DEF Run

(* The shape of the rest.                                                    *)
LEMMA RestHas ==
    ASSUME Shaped
    PROVE  /\ copy \in [Runs -> [Blogs -> Content \cup {None}]]
           /\ snapshot \in [Blogs -> [version : 1..MaxVersion, content : Content]]
           /\ \A b \in Blogs : snapshot[b].version \in 1..MaxVersion /\ snapshot[b].content \in Content
           /\ store \in [Blogs -> Content]
           /\ broker \in [Keys -> {"none", "running", "done", "refused", "dead"}]
           /\ restorers \subseteq RestoreThread /\ request \in Requests \cup {None}
           /\ cancelling \in Runs \cup {None} /\ importing \subseteq Blogs
           /\ \A t \in restorers : t.run \in Runs /\ t.blog \in Blogs
           /\ beside \subseteq Runs \X Blogs /\ undone \subseteq Blogs
  <1>1. snapshot \in [Blogs -> [version : 1..MaxVersion, content : Content]]
    BY DEF Shaped, TypeOK
  <1>2. restorers \subseteq RestoreThread
    BY DEF Shaped, TypeOK, RestoreThread
  <1>3. \A t \in restorers : t.run \in Runs /\ t.blog \in Blogs
    BY <1>2 DEF RestoreThread
  <1> QED BY <1>1, <1>2, <1>3 DEF Shaped, TypeOK

(* A request that is under way names a run.                                  *)
LEMMA RequestHas ==
    ASSUME Shaped, request # None
    PROVE  request \in Requests /\ request.run \in Runs /\ request.blog \in Blogs \cup {None}
  <1>1. request \in Requests
    BY RestHas
  <1> QED BY <1>1 DEF Requests

(* Writing the record of one worker.                                         *)
LEMMA WorkerPut ==
    ASSUME Shaped, NEW r \in Runs, NEW w \in Worker, worker' = [worker EXCEPT ![r] = w]
    PROVE  WorkerFits /\ Elsewhere(r) /\ worker'[r] = w
  BY WorkerHas DEF WorkerFits, Elsewhere

(* A step to another place changes the place only.                           *)
LEMMA GotoTurns ==
    ASSUME Shaped, NEW r \in Runs, NEW pc \in Places, Goto(r, pc)
    PROVE  WorkerFits /\ Turns(r, pc) /\ Leaves(r, pc)
  <1> DEFINE w == [worker[r] EXCEPT !.pc = pc]
  <1>1. worker' = [worker EXCEPT ![r] = w]
    BY DEF Goto
  <1>2. w \in Worker
    BY WorkerHas DEF Worker
  <1>3. WorkerFits /\ Elsewhere(r) /\ worker'[r] = w
    BY <1>1, <1>2, WorkerPut
  <1> QED BY <1>3, WorkerHas DEF Turns, Stays, Leaves, Worker

(* A worker that begins again.                                               *)
LEMMA PutLeaves ==
    ASSUME Shaped, NEW r \in Runs, NEW pc \in Places, worker' = [worker EXCEPT ![r] = [Off EXCEPT !.pc = pc]]
    PROVE  WorkerFits /\ Leaves(r, pc)
  <1> DEFINE w == [Off EXCEPT !.pc = pc]
  <1>1. w \in Worker /\ w.pc = pc
    <2>1. Nothing \in Progress
      BY LastIn DEF Nothing, Progress
    <2>2. 0 \in 0..MaxAttempt /\ "off" \in Places /\ "none" \in Marks
      BY RunsAssumption DEF Places, Marks
    <2>3. w = [pc |-> pc, blog |-> None, progress |-> Nothing, mark |-> "none", live |-> None,
                key |-> 0, then |-> "off"]
      BY DEF Off
    <2> QED BY <2>1, <2>2, <2>3 DEF Worker
  <1> HIDE DEF w
  <1>2. WorkerFits /\ Elsewhere(r) /\ worker'[r] = w
    BY <1>1, WorkerPut DEF w
  <1> QED BY <1>1, <1>2 DEF Leaves

(* Saving.                                                                   *)
LEMMA SaveSaves ==
    ASSUME Shaped, NEW r \in Runs, NEW p \in Progress, NEW then \in Places, Save(r, p, then)
    PROVE  WorkerFits /\ Saves(r, p.at, p.taken, p.refreshed, then)
  <1> DEFINE w == [worker[r] EXCEPT !.pc = "save", !.progress = p, !.then = then, !.live = None, !.key = 0]
  <1>1. worker' = [worker EXCEPT ![r] = w]
    BY DEF Save
  <1>2. w \in Worker
    <2>1. worker[r] \in Worker /\ 0 \in 0..MaxAttempt /\ "save" \in Places /\ None \in Content \cup {None}
      BY WorkerHas, RunsAssumption DEF Places
    <2> QED BY <2>1 DEF Worker
  <1>3. WorkerFits /\ Elsewhere(r) /\ worker'[r] = w
    BY <1>1, <1>2, WorkerPut
  <1> QED BY <1>3, WorkerHas DEF Saves, Worker

(* Waiting for the job under a key.                                          *)
LEMMA AwaitWaits ==
    ASSUME Shaped, NEW r \in Runs, NEW n \in 1..MaxAttempt, Await(r, n)
    PROVE  WorkerFits /\ Waits(r)
  <1> DEFINE w == [worker[r] EXCEPT !.pc = "wait", !.key = n, !.live = None]
  <1>1. worker' = [worker EXCEPT ![r] = w]
    BY DEF Await
  <1>2. w \in Worker
    <2>1. worker[r] \in Worker /\ n \in 0..MaxAttempt /\ "wait" \in Places /\ None \in Content \cup {None}
      BY WorkerHas, RunsAssumption DEF Places
    <2> QED BY <2>1 DEF Worker
  <1>3. WorkerFits /\ Elsewhere(r) /\ worker'[r] = w
    BY <1>1, <1>2, WorkerPut
  <1> QED BY <1>3, WorkerHas DEF Waits, Stays, Worker

(* A report that fails the job is saved with what was known.                 *)
LEMMA ReportsSaves ==
    ASSUME Shaped, NEW r \in Runs, Reports(r) PROVE WorkerFits /\ Reported(r)
  <1>1. Known(r) \in Progress /\ "fail" \in Places
    BY WorkerHas DEF Known, Places
  <1> QED BY <1>1, SaveSaves DEF Reports, Reported

(* Going on after a phase.                                                   *)
LEMMA AdvanceSaves ==
    ASSUME Shaped, NEW r \in Runs, worker[r].pc \in {"phase", "post", "wait"}, Advance(r)
    PROVE  WorkerFits /\ Saves(r, NextPhase(r), Known(r).taken, Known(r).refreshed,
                               IF NextPhase(r) < Last THEN "phase" ELSE "verify")
  <1> DEFINE p == [Known(r) EXCEPT !.at = @ + 1]
             then == IF p.at < Last THEN "phase" ELSE "verify"
  <1>1. Known(r).at \in 0..Last /\ Known(r).at < Last /\ Known(r) \in Progress
    BY WorkerHas DEF Known, Shaped, Placed
  <1>2. p \in Progress /\ p.at = NextPhase(r) /\ p.taken = Known(r).taken /\ p.refreshed = Known(r).refreshed
    BY <1>1, LastIn DEF Progress, NextPhase
  <1>3. Save(r, p, then) /\ then \in Places
    BY DEF Advance, Places
  <1>4. then = IF NextPhase(r) < Last THEN "phase" ELSE "verify"
    BY <1>2
  <1> HIDE DEF p, then
  <1>5. WorkerFits /\ Saves(r, p.at, p.taken, p.refreshed, then)
    BY <1>2, <1>3, SaveSaves
  <1> QED BY <1>2, <1>4, <1>5

(* Starting the thread of a run.                                             *)
LEMMA SpawnWakes ==
    ASSUME Shaped, NEW r \in Runs, Spawn(r)
    PROVE  WorkerFits /\ Wakes(r)
  <1>1. CASE worker[r].pc = "off"
    <2>1. Goto(r, "claim")
      BY <1>1 DEF Spawn, Goto
    <2>2. WorkerFits /\ Turns(r, "claim")
      BY <2>1, GotoTurns DEF Places
    <2> QED BY <1>1, <2>2 DEF Wakes, Turns, Stays
  <1>2. CASE worker[r].pc # "off"
    BY <1>2, WorkerHas DEF Spawn, Wakes, Elsewhere, WorkerFits
  <1> QED BY <1>1, <1>2

(* Writing the row of one run.                                               *)
LEMMA RunPut ==
    ASSUME Shaped, NEW r \in Runs, NEW x \in Run, run' = [run EXCEPT ![r] = x]
    PROVE  RunFits /\ OtherRuns(r) /\ run'[r] = x
  BY RunHas DEF RunFits, OtherRuns

(* The status of a run.                                                      *)
LEMMA RunStatus ==
    ASSUME Shaped, NEW r \in Runs, NEW s \in {"failed", "cancelled"} \cup Active \cup Finished,
           run' = [run EXCEPT ![r].status = s]
    PROVE  RunFits /\ OtherRuns(r) /\ run'[r].status = s /\ run'[r].stale = run[r].stale
  <1> DEFINE x == [run[r] EXCEPT !.status = s]
  <1>1. x \in Run /\ x.status = s /\ x.stale = run[r].stale
    BY RunHas DEF Run
  <1> HIDE DEF x
  <1>2. run' = [run EXCEPT ![r] = x]
    BY DEF x
  <1> QED BY <1>1, <1>2, RunPut

(* A heartbeat.                                                              *)
LEMMA BeatBeats ==
    ASSUME Shaped, NEW r \in Runs, run' = Beat(r)
    PROVE  RunFits /\ Beats(r)
  <1> DEFINE x == [run[r] EXCEPT !.stale = FALSE]
  <1>1. x \in Run /\ x.status = run[r].status /\ ~ x.stale
    BY RunHas DEF Run
  <1> HIDE DEF x
  <1>2. run' = [run EXCEPT ![r] = x]
    BY DEF x, Beat
  <1> QED BY <1>1, <1>2, RunPut DEF Beats

(* A run that is woken is queued.                                            *)
LEMMA WokenQueued ==
    ASSUME Shaped, NEW r \in Runs, run' = Woken(r)
    PROVE  RunFits /\ OtherRuns(r) /\ run'[r].status = "queued"
  <1> DEFINE x == [run[r] EXCEPT !.status = "queued", !.cancel = FALSE, !.started = TRUE]
  <1>1. x \in Run /\ x.status = "queued"
    BY RunHas DEF Run, Active
  <1> HIDE DEF x
  <1>2. run' = [run EXCEPT ![r] = x]
    BY DEF x, Woken
  <1> QED BY <1>1, <1>2, RunPut

(* Writing one job.                                                          *)
JobGets(r, b, j) ==
    job'[r][b] = j /\ \A o \in Runs, c \in Blogs : o # r \/ c # b => job'[o][c] = job[o][c]
(* What the job of one blog of one run becomes when it is put.               *)
LEMMA JobPut ==
    ASSUME Shaped, NEW r \in Runs, NEW b \in Blogs, NEW j \in Job, job' = [job EXCEPT ![r][b] = j]
    PROVE  JobFits /\ JobGets(r, b, j)
  BY JobHas DEF JobFits, JobGets

(* Writing the jobs of one run.                                              *)
LEMMA JobsPut ==
    ASSUME Shaped, NEW r \in Runs, NEW js \in [Blogs -> Job], job' = [job EXCEPT ![r] = js]
    PROVE  JobFits /\ job'[r] = js /\ \A o \in Runs \ {r} : job'[o] = job[o]
  <1>1. job \in [Runs -> [Blogs -> Job]]
    BY DEF Shaped, TypeOK
  <1> QED BY <1>1 DEF JobFits

(* What a claim or a resume takes back is pending again.                     *)
LEMMA ReclaimedJobs ==
    ASSUME NEW js \in [Blogs -> Job]
    PROVE  /\ Reclaimed(js) \in [Blogs -> Job]
           /\ \A c \in Blogs : /\ Reclaimed(js)[c].plan = js[c].plan
                               /\ Reclaimed(js)[c].progress = js[c].progress
                               /\ Reclaimed(js)[c].restore = js[c].restore
                               /\ Reclaimed(js)[c].status =
                                     IF js[c].status = "running" THEN "pending" ELSE js[c].status
  <1>1. ASSUME NEW c \in Blogs
        PROVE  /\ Reclaimed(js)[c] \in Job /\ Reclaimed(js)[c].plan = js[c].plan
               /\ Reclaimed(js)[c].progress = js[c].progress
               /\ Reclaimed(js)[c].restore = js[c].restore
               /\ Reclaimed(js)[c].status = IF js[c].status = "running" THEN "pending" ELSE js[c].status
    BY DEF Reclaimed, Job
  <1> QED BY <1>1 DEF Reclaimed

(* The restore of a job gets a status.                                       *)
RestorePut(r, b, s) == job' = [job EXCEPT ![r][b].restore = s]

(* A restore mark that is put changes no other field of any job.             *)
LEMMA RestoreGets ==
    ASSUME Shaped, NEW r \in Runs, NEW b \in Blogs, NEW s \in Marks,
           RestorePut(r, b, s)
    PROVE  /\ JobFits /\ job'[r][b].restore = s /\ Plans /\ Progresses /\ Dones /\ Opens
           /\ \A o \in Runs, c \in Blogs : o # r \/ c # b => job'[o][c].restore = job[o][c].restore
  <1> DEFINE j == [job[r][b] EXCEPT !.restore = s]
  <1>1. /\ j \in Job /\ j.restore = s /\ j.plan = job[r][b].plan /\ j.progress = job[r][b].progress
        /\ j.status = job[r][b].status
    <2>1. job[r][b] \in Job
      BY JobHas
    <2> QED BY <2>1 DEF Job
  <1> HIDE DEF j
  <1>2. job' = [job EXCEPT ![r][b] = j]
    BY DEF j, RestorePut
  <1>3. JobFits /\ JobGets(r, b, j)
    BY <1>1, <1>2, JobPut
  <1> QED BY <1>1, <1>3 DEF JobGets, Plans, Progresses, Dones, Opens

(* The thread of a restore goes on.                                          *)
LEMMA GoesThreads ==
    ASSUME Shaped, NEW t \in restorers, NEW pc \in {"passes", "finalize", "verify", "flag", "import"}, Goes(t, pc)
    PROVE  RestorersFits /\ Threads
  <1>1. [t EXCEPT !.pc = pc] \in RestoreThread /\ [t EXCEPT !.pc = pc].run = t.run
        /\ [t EXCEPT !.pc = pc].blog = t.blog
    BY RestHas DEF RestoreThread
  <1> QED BY <1>1, RestHas DEF Goes, RestorersFits, Threads

(* The thread of a restore ends.                                             *)
LEMMA EndsThreads ==
    ASSUME Shaped, NEW t \in restorers, Ends(t) PROVE RestorersFits /\ Threads
  BY RestHas DEF Ends, RestorersFits, Threads


(* Importing the content of one blog.                                        *)
LEMMA ImportedImports ==
    ASSUME Shaped, NEW b \in Blogs, NEW c \in Content, snapshot[b].version < MaxVersion,
           snapshot' = Imported(b, c)
    PROVE  SnapshotFits /\ Imports(b, c)
  <1>1. /\ snapshot \in [Blogs -> [version : 1..MaxVersion, content : Content]]
        /\ snapshot[b].version + 1 \in 1..MaxVersion
    BY RestHas, RunsAssumption
  <1>2. [version |-> snapshot[b].version + 1, content |-> c] \in [version : 1..MaxVersion, content : Content]
    BY <1>1
  <1> QED BY <1>1, <1>2 DEF Imported, SnapshotFits, Imports

(* Writing the content of one blog.                                          *)
LEMMA StorePut ==
    ASSUME Shaped, NEW b \in Blogs, NEW c \in Content, store' = [store EXCEPT ![b] = c]
    PROVE  StoreFits /\ OtherBlogs(b) /\ store'[b] = c
  BY RestHas DEF StoreFits, OtherBlogs

(* A phase that lands.                                                       *)
LEMMA LandLands ==
    ASSUME Shaped, NEW r \in Runs, NEW b \in Blogs, NEW k \in Phases, Land(r, b, k)
    PROVE  StoreFits /\ Lands(r, b, k)
  <1> DEFINE n == IF store[b].step[r] >= k THEN store[b].step[r] ELSE k
             c == [store[b] EXCEPT !.step[r] = n]
  <1>1. store[b] \in Content /\ store[b].step \in [Runs -> 0..Last] /\ store[b].step[r] \in 0..Last
    BY RestHas DEF Content
  <1>2. n \in 0..Last /\ n >= k /\ n >= store[b].step[r]
    BY <1>1, LastIn
  <1>3. store' = [store EXCEPT ![b] = c]
    BY DEF Land
  <1>4. c \in Content /\ c.step[r] = n /\ \A o \in Runs \ {r} : c.step[o] = store[b].step[o]
    <2> HIDE DEF n
    <2> QED BY <1>1, <1>2 DEF Content
  <1> HIDE DEF n, c
  <1>5. StoreFits /\ OtherBlogs(b) /\ store'[b] = c
    BY <1>3, <1>4, StorePut
  <1> QED BY <1>2, <1>4, <1>5 DEF Lands

(* The attempt of the job that a worker is in.                               *)
LEMMA MineHas ==
    ASSUME Shaped, NEW r \in Runs, worker[r].pc \in InBlog
    PROVE  worker[r].blog \in Blogs /\ Mine(r).attempt \in 1..MaxAttempt /\ Mine(r) = job[r][worker[r].blog]
  <1>1. worker[r].blog \in Blogs
    BY WorkerHas
  <1> QED BY <1>1, JobHas DEF Mine

(* What a worker makes of the state of a phase.                              *)
LEMMA HeedHeeds ==
    ASSUME Shaped, NEW r \in Runs, NEW n \in 1..MaxAttempt, worker[r].pc \in {"phase", "post"},
           Heed(r, n, KeyState(r, n))
    PROVE  WorkerFits /\ (Advances(r) \/ Waits(r) \/ Turns(r, "fail") \/ Reported(r))
  <1>1. CASE KeyState(r, n) = "done"
    <2>1. Advance(r)
      BY <1>1 DEF Heed
    <2>2. WorkerFits /\ Saves(r, NextPhase(r), Known(r).taken, Known(r).refreshed,
                               IF NextPhase(r) < Last THEN "phase" ELSE "verify")
      BY <2>1, AdvanceSaves
    <2> QED BY <1>1, <2>2 DEF Advances
  <1>2. CASE KeyState(r, n) = "running"
    <2>1. Await(r, n)
      BY <1>2 DEF Heed
    <2> QED BY <2>1, AwaitWaits
  <1>3. CASE KeyState(r, n) \notin {"done", "running"}
    <2>1. Goto(r, "fail") \/ Reports(r)
      BY <1>3 DEF Heed, Refused
    <2> QED BY <2>1, GotoTurns, ReportsSaves DEF Places
  <1> QED BY <1>1, <1>2, <1>3

(* The POST of a phase.                                                      *)
LEMMA StartsPosts ==
    ASSUME Shaped, NEW r \in Runs, NEW n \in 1..MaxAttempt, Starts(r, n)
    PROVE  BrokerFits /\ Posts(r, n) /\ worker[r].pc = "post"
  <1>1. /\ worker[r].pc = "post" /\ KeyState(r, n) # "done"
        /\ broker' = [broker EXCEPT ![Key(r, n)] = "running"]
    BY DEF Starts, Doing
  <1>2. worker[r].blog \in Blogs /\ Known(r).at \in 0..Last /\ Known(r).at < Last
    BY <1>1, WorkerHas DEF InBlog, Known, Shaped, Placed
  <1>3. NextPhase(r) \in Phases
    BY <1>2, LastIn DEF NextPhase
  <1>4. Key(r, n) \in Keys
    BY <1>2, <1>3 DEF Key, Keys
  <1>5. broker \in [Keys -> {"none", "running", "done", "refused", "dead"}]
    BY RestHas
  <1>6. BrokerFits /\ broker'[Key(r, n)] = "running" /\ \A key \in Keys \ {Key(r, n)} : broker'[key] = broker[key]
    BY <1>1, <1>4, <1>5 DEF BrokerFits
  <1> QED BY <1>1, <1>3, <1>6 DEF Posts

(* A run is over as it is said, when no job is open.                         *)
LEMMA OutcomeIn ==
    ASSUME NEW js, NEW r PROVE Outcome(js, r) \in {"failed"} \cup Finished
  BY DEF Outcome, Finished, Partial

(* A set of numbers that is not empty has a least one.                       *)
LEMMA LeastNumber ==
    ASSUME NEW T \in SUBSET Nat, T # {} PROVE \E m \in T : \A n \in T : m <= n
  <1>1. PICK m \in T : \A n \in T : ~ (<<n, m>> \in OpToRel(<, Nat))
    BY NatLessThanWellFounded, WFMin, Zenon
  <1>2. \A n \in T : m <= n
    <2> TAKE n \in T
    <2>1. <<n, m>> \in Nat \X Nat /\ ~ (n < m)
      BY <1>1 DEF OpToRel
    <2> QED BY <2>1
  <1> QED BY <1>2

(* The next job of a run is a pending one of its blogs.                      *)
LEMMA TurnIn ==
    ASSUME NEW r \in Runs, NEW js, \E b \in BlogsOf(r) : js[b].status = "pending"
    PROVE  Turn(r, js) \in BlogsOf(r) /\ js[Turn(r, js)].status = "pending"
  <1> DEFINE seqs == {i \in DOMAIN Targets[r] : js[Targets[r][i]].status = "pending"}
  <1>1. seqs \in SUBSET Nat /\ seqs # {}
    <2>1. Targets[r] \in Seq(Blogs) /\ DOMAIN Targets[r] \subseteq Nat
      BY RunsAssumption
    <2> QED BY <2>1 DEF BlogsOf
  <1>2. \E i \in seqs : \A j \in seqs : i <= j
    BY <1>1, LeastNumber
  <1>3. (CHOOSE i \in seqs : \A j \in seqs : i <= j) \in seqs
    BY <1>2
  <1> QED BY <1>3 DEF Turn, BlogsOf

(* Both idle shapes of a worker.                                             *)
LEMMA OffIn ==
    /\ Off \in Worker /\ Off.pc = "off" /\ Off.live = None /\ Off.mark = "none"
    /\ [Off EXCEPT !.pc = "claim"] \in Worker /\ [Off EXCEPT !.pc = "claim"].pc = "claim"
  <1>1. Nothing \in Progress
    BY LastIn DEF Nothing, Progress
  <1>2. 0 \in 0..MaxAttempt /\ "off" \in Places /\ "claim" \in Places /\ "none" \in Marks
    BY RunsAssumption DEF Places, Marks
  <1>3. Off \in Worker
    BY <1>1, <1>2 DEF Off, Worker
  <1> QED BY <1>2, <1>3 DEF Off, Worker

(* Jobs that stay keep everything.                                           *)
LEMMA SameJobsKeep ==
    ASSUME Shaped, job' = job PROVE JobFits /\ JobsKeep /\ Opens
  <1>1. job \in [Runs -> [Blogs -> Job]]
    BY DEF Shaped, TypeOK
  <1> QED BY <1>1 DEF JobFits, JobsKeep, Plans, Progresses, Restores, Dones, Opens

(* Taking back the jobs of a run keeps all but the status.                   *)
LEMMA ReclaimKeeps ==
    ASSUME Shaped, NEW r \in Runs, job' = [job EXCEPT ![r] = Reclaimed(job[r])]
    PROVE  JobFits /\ JobsKeep /\ Opens
  <1> DEFINE js == Reclaimed(job[r])
  <1>1. job[r] \in [Blogs -> Job]
    BY DEF Shaped, TypeOK
  <1>2. /\ js \in [Blogs -> Job]
        /\ \A c \in Blogs : /\ js[c].plan = job[r][c].plan /\ js[c].progress = job[r][c].progress
                            /\ js[c].restore = job[r][c].restore
                            /\ js[c].status = IF job[r][c].status = "running" THEN "pending" ELSE job[r][c].status
    BY <1>1, ReclaimedJobs
  <1> HIDE DEF js
  <1>3. job' = [job EXCEPT ![r] = js]
    BY DEF js
  <1>4. JobFits /\ job'[r] = js /\ \A o \in Runs \ {r} : job'[o] = job[o]
    BY <1>2, <1>3, JobsPut
  <1> QED BY <1>2, <1>4 DEF JobsKeep, Plans, Progresses, Restores, Dones, Opens, Open

(* What a restore puts back.                                                 *)
LEMMA CopyIn ==
    ASSUME Shaped, NEW t \in restorers, copy[t.run][t.blog] # None
    PROVE  /\ t.run \in Runs /\ t.blog \in Blogs /\ copy[t.run][t.blog] \in Content
           /\ Half(t) \in Content /\ Half(t).step = copy[t.run][t.blog].step
  <1>1. t.run \in Runs /\ t.blog \in Blogs /\ copy \in [Runs -> [Blogs -> Content \cup {None}]]
    BY RestHas
  <1>2. copy[t.run][t.blog] \in Content
    BY <1>1
  <1> QED BY <1>1, <1>2 DEF Half, Content

(* The passes of a restore leave a blog half restored.                       *)
LEMMA PassesDoes ==
    ASSUME Shaped, NEW t \in restorers, copy[t.run][t.blog] # None, Passes(t)
    PROVE  /\ StoreFits /\ OtherBlogs(t.blog)
           /\ store'[t.blog] = store[t.blog] \/ store'[t.blog].step = copy[t.run][t.blog].step
           /\ undone' = undone \cup {t.blog}
  <1>1. StoreFits /\ OtherBlogs(t.blog) /\ store'[t.blog] = Half(t)
    BY CopyIn, StorePut DEF Passes
  <1> QED BY <1>1, CopyIn DEF Passes

(* The last pass of a restore puts the copy back, or is refused.             *)
LEMMA FinalizeDoes ==
    ASSUME Shaped, NEW t \in restorers, copy[t.run][t.blog] # None, Finalize(t)
    PROVE  /\ StoreFits /\ OtherBlogs(t.blog)
           /\ store'[t.blog] = store[t.blog] \/ store'[t.blog].step = copy[t.run][t.blog].step
           /\ undone' = undone \cup {t.blog}
  <1> DEFINE c == IF store[t.blog] = Half(t) THEN copy[t.run][t.blog] ELSE store[t.blog]
  <1>1. c \in Content
    BY CopyIn, RestHas
  <1>2. store' = [store EXCEPT ![t.blog] = c]
    BY DEF Finalize
  <1>3. StoreFits /\ OtherBlogs(t.blog) /\ store'[t.blog] = c
    <2> HIDE DEF c
    <2>1. t.blog \in Blogs
      BY CopyIn
    <2> QED BY <1>1, <1>2, <2>1, StorePut
  <1> QED BY <1>3 DEF Finalize

(* The restore of a job has ended.                                           *)
LEMMA MarkedKeeps ==
    ASSUME Shaped, NEW t \in restorers, NEW s \in Marks, job' = Marked(t, s)
    PROVE  /\ JobFits /\ Plans /\ Progresses /\ Dones /\ Opens
           /\ Marking(t.run, t.blog, s)
  <1>1. PICK r \in Runs, b \in Blogs : r = t.run /\ b = t.blog
    BY RestHas
  <1>2. RestorePut(r, b, s)
    BY <1>1 DEF Marked, RestorePut
  <1>3. /\ JobFits /\ job'[r][b].restore = s /\ Plans /\ Progresses /\ Dones /\ Opens
        /\ \A o \in Runs, c \in Blogs : o # r \/ c # b => job'[o][c].restore = job[o][c].restore
    BY <1>2, RestoreGets
  <1> QED BY <1>1, <1>3 DEF Marking

(* A new run freezes the snapshots of its blogs.                             *)
LEMMA CreateDoes ==
    ASSUME Shaped, NEW r \in Runs, Create(r)
    PROVE  /\ request = None /\ run[r].status = "none" /\ Others(r) = {} /\ Restoring = {}
           /\ OtherRuns(r) /\ run'[r].status = "queued"
           /\ \A o \in Runs \ {r} : job'[o] = job[o]
           /\ \A b \in Blogs : /\ job'[r][b].restore = "none" /\ job'[r][b].progress = Nothing
                               /\ job'[r][b].status # "done" /\ job'[r][b].plan \in {None, snapshot[b].content}
           /\ RunFits /\ JobFits /\ RestFits
           /\ UNCHANGED <<copy, snapshot, store, broker, worker, restorers, request>>
  <1> DEFINE js == [b \in Blogs |-> IF b \notin BlogsOf(r) THEN NoJob
                                   ELSE [NoJob EXCEPT !.status = "pending",
                                                      !.version = snapshot[b].version,
                                                      !.plan = snapshot[b].content]]
  <1>1. request = None /\ run[r].status = "none" /\ Others(r) = {} /\ Restoring
           = {} /\ job' = [job EXCEPT ![r] = js] /\ (\E stop \in StopModes[r] :
           run' = [run EXCEPT ![r].status = "queued", ![r].stop = stop]) /\
           UNCHANGED <<copy, snapshot, store, broker, worker, restorers,
           request, cancelling, importing>>
    BY DEF Create, Exclusive, database, wordpress, threads, requests
  <1>2. NoJob \in Job /\ NoJob.restore = "none" /\ NoJob.progress = Nothing /\ NoJob.status = "none" /\ NoJob.plan = None
    <2>1. Nothing \in Progress
      BY LastIn DEF Nothing, Progress
    <2>2. 1 \in 1..MaxAttempt /\ 0 \in 0..MaxVersion
      BY RunsAssumption
    <2> QED BY <2>1, <2>2 DEF NoJob, Job, Marks
  <1>3. ASSUME NEW b \in Blogs
        PROVE  /\ js[b] \in Job /\ js[b].restore = "none" /\ js[b].progress = Nothing
               /\ js[b].status # "done" /\ js[b].plan \in {None, snapshot[b].content}
    <2>1. snapshot[b].version \in 0..MaxVersion /\ snapshot[b].content \in Content \cup {None}
      BY RestHas
    <2> QED BY <1>2, <2>1 DEF Job
  <1>4. js \in [Blogs -> Job]
    BY <1>3
  <1> HIDE DEF js
  <1>5. JobFits /\ job'[r] = js /\ \A o \in Runs \ {r} : job'[o] = job[o]
    BY <1>1, <1>4, JobsPut
  <1>6. RunFits /\ OtherRuns(r) /\ run'[r].status = "queued"
    <2>1. PICK stop \in StopModes[r] : run' = [run EXCEPT ![r] = [run[r] EXCEPT !.status = "queued", !.stop = stop]]
      BY <1>1
    <2>2. stop \in BOOLEAN
      BY RunsAssumption
    <2>3. /\ [run[r] EXCEPT !.status = "queued", !.stop = stop] \in Run
          /\ [run[r] EXCEPT !.status = "queued", !.stop = stop].status = "queued"
      BY <2>2, RunHas DEF Run, Active
    <2> QED BY <2>1, <2>3, RunPut
  <1> QED BY <1>1, <1>3, <1>5, <1>6, RestHas DEF RestFits

(* A request takes the lock of the environment.                              *)
LEMMA AskStartDoes ==
    ASSUME Shaped, NEW r \in Runs, AskStart(r)
    PROVE  /\ request = None /\ Others(r) = {} /\ Restoring = {} /\ run[r].status # "none"
           /\ request' # None => request'.run = r /\ (request'.op = "start" => run[r].status = "queued")
           /\ RequestFits /\ RestFits
           /\ UNCHANGED <<run, job, copy, snapshot, store, broker, worker, restorers>>
  <1>1. request = None /\ Others(r) = {} /\ Restoring = {} /\ run[r].status #
           "none" /\ request' = [op |-> "start", run |-> r, blog |-> None,
           reclaim |-> run[r].status = "running"] /\ run[r].status = "queued"
           /\ UNCHANGED <<run, job, copy, snapshot, store, broker, worker,
           restorers, cancelling, importing>>
    BY DEF AskStart, MayStart, Ask, Exclusive, database, wordpress, threads,
       requests
  <1>2. (run[r].status = "running") \in BOOLEAN /\ None \in Blogs \cup {None}
    OBVIOUS
  <1>3. request' \in Requests
    BY <1>1, <1>2 DEF Requests
  <1> QED BY <1>1, <1>3, RestHas DEF RestFits, RequestFits

(* A request takes the lock of the environment.                              *)
LEMMA AskResumeDoes ==
    ASSUME Shaped, NEW r \in Runs, AskResume(r)
    PROVE  /\ request = None /\ Others(r) = {} /\ Restoring = {} /\ run[r].status # "none"
           /\ request' # None => request'.run = r /\ (request'.op = "start" => run[r].status = "queued")
           /\ RequestFits /\ RestFits
           /\ UNCHANGED <<run, job, copy, snapshot, store, broker, worker, restorers>>
  <1>1. request = None /\ Others(r) = {} /\ Restoring = {} /\ run[r].status #
           "none" /\ request' = [op |-> "resume", run |-> r, blog |-> None,
           reclaim |-> run[r].status = "running"] /\ UNCHANGED <<run, job,
           copy, snapshot, store, broker, worker, restorers, cancelling,
           importing>>
    BY DEF AskResume, MayResume, Ask, Exclusive, database, wordpress, threads,
       requests
  <1>2. (run[r].status = "running") \in BOOLEAN /\ None \in Blogs \cup {None}
    OBVIOUS
  <1>3. request' \in Requests
    BY <1>1, <1>2 DEF Requests
  <1> QED BY <1>1, <1>3, RestHas DEF RestFits, RequestFits

(* A request takes the lock of the environment.                              *)
LEMMA AskRetryDoes ==
    ASSUME Shaped, NEW r \in Runs, NEW b \in Blogs, AskRetry(r, b)
    PROVE  /\ request = None /\ Others(r) = {} /\ Restoring = {} /\ run[r].status # "none"
           /\ request' # None => request'.run = r /\ (request'.op = "start" => run[r].status = "queued")
           /\ RequestFits /\ RestFits
           /\ UNCHANGED <<run, job, copy, snapshot, store, broker, worker, restorers>>
  <1>1. request = None /\ Others(r) = {} /\ Restoring = {} /\ run[r].status #
           "none" /\ request' = [op |-> "retry", run |-> r, blog |-> b, reclaim
           |-> run[r].status = "running"] /\ UNCHANGED <<run, job, copy,
           snapshot, store, broker, worker, restorers, cancelling, importing>>
    BY DEF AskRetry, MayRetry, Ask, Exclusive, database, wordpress, threads,
       requests
  <1>2. (run[r].status = "running") \in BOOLEAN /\ b \in Blogs \cup {None}
    OBVIOUS
  <1>3. request' \in Requests
    BY <1>1, <1>2 DEF Requests
  <1> QED BY <1>1, <1>3, RestHas DEF RestFits, RequestFits

(* A request is refused.                                                     *)
LEMMA NotReadyDoes ==
    ASSUME Shaped, NotReady
    PROVE  /\ request' = None
           /\ RequestFits /\ RestFits
           /\ UNCHANGED <<run, job, copy, snapshot, store, broker, worker, restorers>>
  <1>1. request' = None /\ UNCHANGED <<run, job, copy, snapshot, store, broker,
           worker, restorers, cancelling, importing>>
    BY DEF NotReady, database, wordpress, threads, requests
  <1> QED BY <1>1, RestHas DEF RestFits, RequestFits

(* A run is started.                                                         *)
LEMMA StartDoes ==
    ASSUME Shaped, Start
    PROVE  /\ request # None /\ request' = None /\ request.op = "start"
           /\ SameRuns
           /\ Wakes(request.run)
           /\ RunFits /\ WorkerFits /\ RequestFits /\ RestFits
           /\ UNCHANGED <<job, copy, snapshot, store, broker, restorers>>
  <1>1. request # None /\ request' = None /\ request.op = "start" /\ run' =
           [run EXCEPT ![request.run].started = TRUE] /\ Spawn(request.run) /\
           UNCHANGED <<job, copy, snapshot, store, broker, restorers,
           cancelling, importing>>
    BY DEF Start, Asked, database, wordpress, threads, requests
  <1>2. request.run \in Runs /\ request.blog \in Blogs \cup {None}
    BY <1>1, RequestHas
  <1> DEFINE x == [run[request.run] EXCEPT !.started = TRUE]
  <1>3. x \in Run /\ x.status = run[request.run].status /\ x.stale = run[request.run].stale
    BY <1>2, RunHas DEF Run
  <1>4. run' = [run EXCEPT ![request.run] = x]
    BY <1>1
  <1> HIDE DEF x
  <1>5. RunFits /\ SameRuns
    BY <1>2, <1>3, <1>4, RunPut DEF OtherRuns, SameRuns
  <1>6. WorkerFits /\ Wakes(request.run)
    BY <1>1, <1>2, SpawnWakes
  <1> QED BY <1>1, <1>5, <1>6, RestHas DEF RestFits, RequestFits

(* A run is resumed.                                                         *)
LEMMA ResumeDoes ==
    ASSUME Shaped, Resume
    PROVE  /\ request # None /\ request' = None
           /\ OtherRuns(request.run) /\ run'[request.run].status = "queued"
           /\ Wakes(request.run)
           /\ JobsKeep /\ Opens
           /\ RunFits /\ JobFits /\ WorkerFits /\ RequestFits /\ RestFits
           /\ UNCHANGED <<copy, snapshot, store, broker, restorers>>
  <1>1. request # None /\ request' = None /\ run' = Woken(request.run) /\
           Spawn(request.run) /\ job' \in {job, [job EXCEPT ![request.run] =
           Reclaimed(job[request.run])]} /\ UNCHANGED <<copy, snapshot, store,
           broker, restorers, cancelling, importing>>
    BY DEF Resume, Asked, database, wordpress, threads, requests
  <1>2. request.run \in Runs /\ request.blog \in Blogs \cup {None}
    BY <1>1, RequestHas
  <1>3. RunFits /\ OtherRuns(request.run) /\ run'[request.run].status = "queued"
    BY <1>1, <1>2, WokenQueued
  <1>4. WorkerFits /\ Wakes(request.run)
    BY <1>1, <1>2, SpawnWakes
  <1>5. JobFits /\ JobsKeep /\ Opens
    BY <1>1, <1>2, ReclaimKeeps, SameJobsKeep
  <1> QED BY <1>1, <1>3, <1>4, <1>5, RestHas DEF RestFits, RequestFits

(* A failed job is tried again.                                              *)
LEMMA RetryDoes ==
    ASSUME Shaped, Retry
    PROVE  /\ request # None /\ request' = None
           /\ OtherRuns(request.run) /\ run'[request.run].status = "queued"
           /\ Wakes(request.run)
           /\ JobsKeep /\ \A o \in Runs \ {request.run} : job'[o] = job[o]
           /\ RunFits /\ JobFits /\ WorkerFits /\ RequestFits /\ RestFits
           /\ UNCHANGED <<copy, snapshot, store, broker, restorers>>
  <1> DEFINE r == request.run
             b == request.blog
             j == [job[r][b] EXCEPT !.status = "pending", !.attempt = @ + 1]
  <1>1. request # None /\ request' = None /\ run' = Woken(r) /\ Spawn(r) /\ b
           \in BlogsOf(r) /\ job[r][b].attempt < MaxAttempt /\ job' = [job
           EXCEPT ![r][b].status = "pending", ![r][b].attempt = @ + 1] /\
           UNCHANGED <<copy, snapshot, store, broker, restorers, cancelling,
           importing>>
    BY DEF Retry, Asked, HasJob, database, wordpress, threads, requests
  <1>2. r \in Runs /\ b \in Blogs
    BY <1>1, RequestHas, BlogsIn
  <1>3. RunFits /\ OtherRuns(r) /\ run'[r].status = "queued"
    BY <1>1, <1>2, WokenQueued
  <1>4. WorkerFits /\ Wakes(r)
    BY <1>1, <1>2, SpawnWakes
  <1>5. job[r][b] \in Job /\ job[r][b].attempt + 1 \in 1..MaxAttempt
    BY <1>1, <1>2, JobHas, RunsAssumption
  <1>6. /\ j \in Job /\ j.progress = job[r][b].progress /\ j.plan = job[r][b].plan /\ j.status = "pending"
        /\ j.restore = job[r][b].restore
    BY <1>5 DEF Job
  <1>7. job' = [job EXCEPT ![r][b] = j]
    BY <1>1, <1>2, <1>5, JobHas
  <1>0. \A o \in Runs \ {r} : job'[o] = job[o]
    BY <1>1, <1>2, JobHas
  <1> HIDE DEF r, b, j
  <1>8. JobFits /\ JobGets(r, b, j)
    BY <1>2, <1>6, <1>7, JobPut
  <1>9. JobsKeep /\ \A o \in Runs \ {r} : job'[o] = job[o]
    BY <1>0, <1>2, <1>6, <1>8 DEF JobGets, JobsKeep, Plans, Progresses, Restores, Dones
  <1> QED BY <1>1, <1>3, <1>4, <1>8, <1>9, RestHas DEF RestFits, RequestFits, r

(* A failed job is skipped, and the run goes on or is over.                  *)
LEMMA SkipDoes ==
    ASSUME Shaped, NEW r \in Runs, NEW b \in Blogs, Skip(r, b)
    PROVE  /\ request = None
           /\ JobsKeep /\ Opens
           /\ OtherRuns(r)
           /\ \/ Others(r) = {} /\ Restoring = {} /\ run'[r].status = "queued" /\ Wakes(r)
              \/ /\ run'[r].status \in Finished \cup {"failed"} /\ run'[r].stale = run[r].stale
                 /\ \A c \in BlogsOf(r) : job'[r][c].status \notin Open
                 /\ UNCHANGED worker
           /\ RunFits /\ JobFits /\ WorkerFits /\ RestFits
           /\ UNCHANGED <<copy, snapshot, store, broker, restorers, request>>
  <1> DEFINE js == [job[r] EXCEPT ![b].status = "skipped"]
  <1>1. request = None /\ b \in BlogsOf(r) /\ job' = [job EXCEPT ![r] = js] /\
           ((Others(r) = {} /\ Restoring = {} /\ run' = Woken(r) /\ Spawn(r))
           \/ (~ Pending(js, r) /\ run' = [run EXCEPT ![r].status = Outcome(js,
           r)] /\ worker' = worker)) /\ UNCHANGED <<copy, snapshot, store,
           broker, restorers, request, cancelling, importing>>
    BY DEF Skip, HasJob, Exclusive, database, wordpress, threads, requests
  <1>2. b \in Blogs /\ job[r] \in [Blogs -> Job] /\ job[r][b] \in Job
    BY <1>1, BlogsIn, JobHas
  <1>3. /\ js \in [Blogs -> Job] /\ js[b].plan = job[r][b].plan /\ js[b].progress = job[r][b].progress
        /\ js[b].restore = job[r][b].restore /\ js[b].status = "skipped"
        /\ \A c \in Blogs \ {b} : js[c] = job[r][c]
    <2>1. [job[r][b] EXCEPT !.status = "skipped"] \in Job
      BY <1>2 DEF Job
    <2>2. js = [job[r] EXCEPT ![b] = [job[r][b] EXCEPT !.status = "skipped"]]
      OBVIOUS
    <2>3. js[b] = [job[r][b] EXCEPT !.status = "skipped"] /\ \A c \in Blogs \ {b} : js[c] = job[r][c]
      BY <1>2, <2>2
    <2> HIDE DEF js
    <2> QED BY <1>2, <2>1, <2>2, <2>3 DEF Job
  <1> HIDE DEF js
  <1>4. JobFits /\ job'[r] = js /\ \A o \in Runs \ {r} : job'[o] = job[o]
    BY <1>1, <1>3, JobsPut
  <1>5. JobsKeep /\ Opens
    BY <1>2, <1>3, <1>4 DEF JobsKeep, Plans, Progresses, Restores, Dones, Opens, Open
  <1>6. CASE Others(r) = {} /\ Restoring = {} /\ run' = Woken(r) /\ Spawn(r)
    <2>1. RunFits /\ OtherRuns(r) /\ run'[r].status = "queued"
      BY <1>6, WokenQueued
    <2>2. WorkerFits /\ Wakes(r)
      BY <1>6, SpawnWakes
    <2> QED BY <1>1, <1>4, <1>5, <1>6, <2>1, <2>2, RestHas DEF RestFits
  <1>7. CASE ~ Pending(js, r) /\ run' = [run EXCEPT ![r].status = Outcome(js, r)] /\ worker' = worker
    <2>1. Outcome(js, r) \in {"failed"} \cup Finished
      BY OutcomeIn
    <2>2. RunFits /\ OtherRuns(r) /\ run'[r].status = Outcome(js, r) /\ run'[r].stale = run[r].stale
      BY <1>7, <2>1, RunStatus
    <2>3. \A c \in BlogsOf(r) : job'[r][c].status \notin Open
      BY <1>4, <1>7 DEF Pending
    <2>4. WorkerFits
      BY <1>7, WorkerHas DEF WorkerFits
    <2> QED BY <1>1, <1>4, <1>5, <1>7, <2>1, <2>2, <2>3, <2>4, RestHas DEF RestFits
  <1> QED BY <1>1, <1>6, <1>7

(* A pause is asked for.                                                     *)
LEMMA RequestPauseDoes ==
    ASSUME Shaped, NEW r \in Runs, RequestPause(r)
    PROVE  /\ SameRuns
           /\ RunFits /\ RestFits
           /\ UNCHANGED <<job, copy, snapshot, store, broker, worker, restorers, request>>
  <1>1. run' = [run EXCEPT ![r].cancel = TRUE] /\ UNCHANGED <<job, copy,
           snapshot, store, broker, worker, restorers, request, cancelling,
           importing>>
    BY DEF RequestPause, database, wordpress, threads, requests
  <1>2. [run[r] EXCEPT !.cancel = TRUE] \in Run
    BY RunHas DEF Run
  <1>3. run' = [run EXCEPT ![r] = [run[r] EXCEPT !.cancel = TRUE]]
    BY <1>1
  <1>4. RunFits /\ OtherRuns(r) /\ run'[r] = [run[r] EXCEPT !.cancel = TRUE]
    BY <1>2, <1>3, RunPut
  <1>5. SameRuns
    BY <1>4, RunHas DEF SameRuns, OtherRuns, Run
  <1> QED BY <1>1, <1>4, <1>5, RestHas DEF RestFits

(* A cancel reads the status.                                                *)
LEMMA ReadCancelDoes ==
    ASSUME Shaped, NEW r \in Runs, ReadCancel(r)
    PROVE  /\ RestFits
           /\ UNCHANGED <<run, job, copy, snapshot, store, broker, worker, restorers, request>>
  <1>1. cancelling' = r /\ UNCHANGED <<run, job, copy, snapshot, store, broker,
           worker, restorers, request, importing>>
    BY DEF ReadCancel, database, wordpress, threads, requests
  <1> QED BY <1>1, RestHas DEF RestFits

(* A run is cancelled.                                                       *)
LEMMA CancelDoes ==
    ASSUME Shaped, NEW r \in Runs, Cancel(r)
    PROVE  /\ OtherRuns(r) /\ run'[r].status = "cancelled"
           /\ JobsKeep /\ Opens
           /\ RunFits /\ JobFits /\ RestFits
           /\ UNCHANGED <<copy, snapshot, store, broker, worker, restorers, request>>
  <1> DEFINE js == [b \in Blogs |-> IF job[r][b].status = "pending"
                                   THEN [job[r][b] EXCEPT !.status = "cancelled"] ELSE job[r][b]]
  <1>1. cancelling' = None /\ run' = [run EXCEPT ![r].status = "cancelled"] /\
           job' = [job EXCEPT ![r] = js] /\ UNCHANGED <<copy, snapshot, store,
           broker, worker, restorers, request, importing>>
    BY DEF Cancel, database, wordpress, threads, requests
  <1>2. ASSUME NEW b \in Blogs
        PROVE  /\ js[b] \in Job /\ js[b].plan = job[r][b].plan /\ js[b].progress = job[r][b].progress
               /\ js[b].restore = job[r][b].restore
               /\ js[b].status = job[r][b].status \/ js[b].status = "cancelled"
    BY JobHas DEF Job
  <1>3. js \in [Blogs -> Job]
    BY <1>2
  <1> HIDE DEF js
  <1>4. JobFits /\ job'[r] = js /\ \A o \in Runs \ {r} : job'[o] = job[o]
    BY <1>1, <1>3, JobsPut
  <1>5. JobsKeep /\ Opens
    BY <1>2, <1>4 DEF JobsKeep, Plans, Progresses, Restores, Dones, Opens, Open
  <1>6. RunFits /\ OtherRuns(r) /\ run'[r].status = "cancelled"
    BY <1>1, RunStatus
  <1> QED BY <1>1, <1>4, <1>5, <1>6, RestHas DEF RestFits

(* An import passes its check.                                               *)
LEMMA CheckImportDoes ==
    ASSUME Shaped, NEW b \in Blogs, CheckImport(b)
    PROVE  /\ RestFits
           /\ UNCHANGED <<run, job, copy, snapshot, store, broker, worker, restorers, request>>
  <1>1. importing' = importing \cup {b} /\ UNCHANGED <<run, job, copy,
           snapshot, store, broker, worker, restorers, request, cancelling>>
    BY DEF CheckImport, database, wordpress, threads, requests
  <1> QED BY <1>1, RestHas DEF RestFits

(* A blog is imported.                                                       *)
LEMMA ImportDoes ==
    ASSUME Shaped, NEW b \in Blogs, Import(b)
    PROVE  /\ Imports(b, store[b])
           /\ SnapshotFits /\ RestFits
           /\ UNCHANGED <<run, job, copy, store, broker, worker, restorers, request>>
  <1>1. snapshot[b].version < MaxVersion /\ snapshot' = Imported(b, store[b])
           /\ importing' = importing \ {b} /\ UNCHANGED <<run, job, copy,
           store, broker, worker, restorers, request, cancelling>>
    BY DEF Import, database, wordpress, threads, requests
  <1>2. store[b] \in Content
    BY RestHas
  <1>3. SnapshotFits /\ Imports(b, store[b])
    BY <1>1, <1>2, ImportedImports
  <1> QED BY <1>1, <1>3, RestHas DEF RestFits

(* Others change a blog.                                                     *)
LEMMA EditDoes ==
    ASSUME Shaped, NEW b \in Blogs, Edit(b)
    PROVE  /\ OtherBlogs(b) /\ store'[b].step = store[b].step
           /\ StoreFits /\ RestFits
           /\ UNCHANGED <<run, job, copy, snapshot, broker, worker, restorers, request>>
  <1>1. store' = [store EXCEPT ![b].edits = @ + 1] /\ UNCHANGED <<run, job,
           copy, snapshot, broker, worker, restorers, request, cancelling,
           importing>>
    BY DEF Edit, database, wordpress, threads, requests
  <1>2. store[b] \in Content
    BY RestHas
  <1>3. [store[b] EXCEPT !.edits = @ + 1] \in Content
    BY <1>2 DEF Content
  <1>4. store' = [store EXCEPT ![b] = [store[b] EXCEPT !.edits = @ + 1]]
    BY <1>1
  <1>5. StoreFits /\ OtherBlogs(b) /\ store'[b] = [store[b] EXCEPT !.edits = @ + 1]
    BY <1>3, <1>4, StorePut
  <1>6. store'[b].step = store[b].step
    BY <1>2, <1>5 DEF Content
  <1> QED BY <1>1, <1>5, <1>6, RestHas DEF RestFits

(* A phase lands.                                                            *)
LEMMA PhaseLandsDoes ==
    ASSUME Shaped, NEW r \in Runs, NEW b \in Blogs, NEW n \in 1..MaxAttempt,
       NEW k \in Phases, broker[<<r, b, n, k>>] = "running", PhaseLands(<<r, b,
       n, k>>)
    PROVE  /\ Lands(r, b, k)
           /\ Settles(r, b, n, k, "done")
           /\ StoreFits /\ BrokerFits /\ RestFits
           /\ UNCHANGED <<run, job, copy, snapshot, worker, restorers, request>>
  <1> DEFINE key == <<r, b, n, k>>
  <1>0. key \in Keys /\ key[1] = r /\ key[2] = b /\ key[4] = k
    BY DEF Keys
  <1>1. Land(r, b, k) /\ broker' = [broker EXCEPT ![key] = "done"] /\ UNCHANGED
           <<run, job, copy, snapshot, worker, restorers, request, cancelling,
           importing>>
    BY <1>0 DEF PhaseLands, Settle, database, wordpress, threads, requests
  <1>2. BrokerFits /\ Settles(r, b, n, k, "done")
    BY <1>0, <1>1, RestHas DEF Settles, BrokerFits
  <1>3. StoreFits /\ Lands(r, b, k)
    BY <1>1, LandLands
  <1> QED BY <1>1, <1>2, <1>3, RestHas DEF RestFits

(* A phase is refused.                                                       *)
LEMMA PhaseRefusedDoes ==
    ASSUME Shaped, NEW r \in Runs, NEW b \in Blogs, NEW n \in 1..MaxAttempt,
       NEW k \in Phases, broker[<<r, b, n, k>>] = "running", PhaseRefused(<<r,
       b, n, k>>)
    PROVE  /\ Settles(r, b, n, k, "refused")
           /\ BrokerFits /\ RestFits
           /\ UNCHANGED <<run, job, copy, snapshot, store, worker, restorers, request>>
  <1> DEFINE key == <<r, b, n, k>>
  <1>0. key \in Keys /\ key[1] = r /\ key[2] = b /\ key[4] = k
    BY DEF Keys
  <1>1. broker' = [broker EXCEPT ![key] = "refused"] /\ UNCHANGED <<run, job,
           copy, snapshot, store, worker, restorers, request, cancelling,
           importing>>
    BY <1>0 DEF PhaseRefused, Settle, database, wordpress, threads, requests
  <1>2. BrokerFits /\ Settles(r, b, n, k, "refused")
    BY <1>0, <1>1, RestHas DEF Settles, BrokerFits
  <1> QED BY <1>1, <1>2, RestHas DEF RestFits

(* The worker of a phase dies, before it lands or after.                     *)
LEMMA PhaseDiesDoes ==
    ASSUME Shaped, NEW r \in Runs, NEW b \in Blogs, NEW n \in 1..MaxAttempt,
       NEW k \in Phases, broker[<<r, b, n, k>>] = "running", PhaseDies(<<r, b,
       n, k>>)
    PROVE  /\ Lands(r, b, k) \/ store' = store
           /\ Settles(r, b, n, k, "dead")
           /\ StoreFits /\ BrokerFits /\ RestFits
           /\ UNCHANGED <<run, job, copy, snapshot, worker, restorers, request>>
  <1> DEFINE key == <<r, b, n, k>>
  <1>0. key \in Keys /\ key[1] = r /\ key[2] = b /\ key[4] = k
    BY DEF Keys
  <1>1. (Land(r, b, k) \/ store' = store) /\ broker' = [broker EXCEPT ![key] =
           "dead"] /\ UNCHANGED <<run, job, copy, snapshot, worker, restorers,
           request, cancelling, importing>>
    BY <1>0 DEF PhaseDies, Settle, database, wordpress, threads, requests
  <1>2. BrokerFits /\ Settles(r, b, n, k, "dead")
    BY <1>0, <1>1, RestHas DEF Settles, BrokerFits
  <1>3. StoreFits /\ (Lands(r, b, k) \/ store' = store)
    BY <1>1, LandLands, RestHas DEF StoreFits
  <1> QED BY <1>1, <1>2, <1>3, RestHas DEF RestFits

(* The worker claims a job, or leaves a run that pauses or is over.          *)
LEMMA ClaimDoes ==
    ASSUME Shaped, NEW r \in Runs, Claim(r)
    PROVE  /\ worker[r].pc = "claim"
           /\ JobsKeep /\ Opens /\ OtherRuns(r)
           /\ \/ UNCHANGED <<run, job>> /\ Leaves(r, "leave")
              \/ run[r].status \in {"queued", "running"} /\ run'[r].status = "paused" /\ Leaves(r, "leave")
              \/ /\ run'[r].status \in Finished \cup {"failed"} /\ Leaves(r, "leave")
                 /\ \A c \in BlogsOf(r) : job'[r][c].status \notin Open
              \/ /\ run[r].status \in {"queued", "running"} /\ run'[r].status = "running" /\ ~ run'[r].stale
                 /\ Leaves(r, "fence") /\ worker'[r].blog \in BlogsOf(r) /\ worker'[r].live = None
                 /\ worker'[r].progress = job[r][worker'[r].blog].progress
                 /\ worker'[r].mark = job[r][worker'[r].blog].restore
           /\ RunFits /\ JobFits /\ WorkerFits /\ RestFits
           /\ UNCHANGED <<copy, snapshot, store, broker, restorers, request>>
  <1> DEFINE js == IF run[r].stale THEN Reclaimed(job[r]) ELSE job[r]
             b == Turn(r, js)
             x == [run[r] EXCEPT !.status = "running", !.started = TRUE, !.stale = FALSE]
             ks == [js EXCEPT ![b].status = "running"]
             w == [Off EXCEPT !.pc = "fence", !.blog = b, !.progress = js[b].progress,
                           !.mark = js[b].restore]
  <1>1. worker[r].pc = "claim" /\ UNCHANGED <<copy, snapshot, store, broker, restorers, request, cancelling, importing>>
    BY DEF Claim, Doing, database, wordpress, threads, requests
  <1>2. \/ Goto(r, "leave") /\ UNCHANGED <<run, job>>
        \/ /\ run[r].status \in {"queued", "running"} /\ run' = [run EXCEPT ![r].status = "paused", ![r].cancel = FALSE]
           /\ job' = [job EXCEPT ![r] = js] /\ Goto(r, "leave")
        \/ /\ \A c \in BlogsOf(r) : js[c].status \notin Open
           /\ run' = [run EXCEPT ![r].status = Outcome(js, r)]
           /\ job' = [job EXCEPT ![r] = js] /\ Goto(r, "leave")
        \/ /\ run[r].status \in {"queued", "running"} /\ \E c \in BlogsOf(r) : js[c].status = "pending"
           /\ run' = [run EXCEPT ![r].status = "running", ![r].started = TRUE, ![r].stale = FALSE]
           /\ job' = [job EXCEPT ![r] = ks] /\ worker' = [worker EXCEPT ![r] = w]
    BY Zenon DEF Claim, MayClaim, Open
  <1>3. /\ js \in [Blogs -> Job]
        /\ \A c \in Blogs : /\ js[c].plan = job[r][c].plan /\ js[c].progress = job[r][c].progress
                            /\ js[c].restore = job[r][c].restore
                            /\ js[c].status = "done" => job[r][c].status = "done"
                            /\ js[c].status \in Open => job[r][c].status \in Open
    <2>1. job[r] \in [Blogs -> Job]
      BY DEF Shaped, TypeOK
    <2> QED BY <2>1, ReclaimedJobs DEF Open
  <1> HIDE DEF js
  <1>4. ASSUME NEW ls \in [Blogs -> Job], job' = [job EXCEPT ![r] = ls],
               \A c \in Blogs : /\ ls[c].plan = js[c].plan /\ ls[c].progress = js[c].progress
                                /\ ls[c].restore = js[c].restore
                                /\ ls[c].status = "done" => js[c].status = "done"
                                /\ ls[c].status \in Open => js[c].status \in Open
        PROVE  JobFits /\ JobsKeep /\ Opens /\ job'[r] = ls
    <2>1. JobFits /\ job'[r] = ls /\ \A o \in Runs \ {r} : job'[o] = job[o]
      BY <1>4, JobsPut
    <2> QED BY <1>3, <1>4, <2>1 DEF JobsKeep, Plans, Progresses, Restores, Dones, Opens
  <1>5. CASE Goto(r, "leave") /\ UNCHANGED <<run, job>>
    <2>1. WorkerFits /\ Leaves(r, "leave")
      BY <1>5, GotoTurns DEF Places
    <2>2. RunFits /\ OtherRuns(r) /\ JobFits /\ JobsKeep /\ Opens
      BY <1>5, RunHas, SameJobsKeep DEF RunFits, OtherRuns
    <2> QED BY <1>1, <1>5, <2>1, <2>2, RestHas DEF RestFits
  <1>6. CASE /\ run[r].status \in {"queued", "running"} /\ run' = [run EXCEPT ![r].status = "paused", ![r].cancel = FALSE]
             /\ job' = [job EXCEPT ![r] = js] /\ Goto(r, "leave")
    <2>1. WorkerFits /\ Leaves(r, "leave")
      BY <1>6, GotoTurns DEF Places
    <2>2. JobFits /\ JobsKeep /\ Opens
      BY <1>3, <1>4, <1>6
    <2>3. /\ [run[r] EXCEPT !.status = "paused", !.cancel = FALSE] \in Run
          /\ [run[r] EXCEPT !.status = "paused", !.cancel = FALSE].status = "paused"
      BY RunHas DEF Run, Active
    <2>4. run' = [run EXCEPT ![r] = [run[r] EXCEPT !.status = "paused", !.cancel = FALSE]]
      BY <1>6
    <2>5. RunFits /\ OtherRuns(r) /\ run'[r].status = "paused"
      BY <2>3, <2>4, RunPut
    <2> QED BY <1>1, <1>6, <2>1, <2>2, <2>5, RestHas DEF RestFits
  <1>7. CASE /\ \A c \in BlogsOf(r) : js[c].status \notin Open
             /\ run' = [run EXCEPT ![r].status = Outcome(js, r)]
             /\ job' = [job EXCEPT ![r] = js] /\ Goto(r, "leave")
    <2>1. WorkerFits /\ Leaves(r, "leave")
      BY <1>7, GotoTurns DEF Places
    <2>2. JobFits /\ JobsKeep /\ Opens /\ job'[r] = js
      BY <1>3, <1>4, <1>7
    <2>3. Outcome(js, r) \in {"failed"} \cup Finished
      BY OutcomeIn
    <2>4. RunFits /\ OtherRuns(r) /\ run'[r].status = Outcome(js, r)
      BY <1>7, <2>3, RunStatus
    <2> QED BY <1>1, <1>7, <2>1, <2>2, <2>3, <2>4, RestHas DEF RestFits
  <1>8. CASE /\ run[r].status \in {"queued", "running"} /\ \E c \in BlogsOf(r) : js[c].status = "pending"
             /\ run' = [run EXCEPT ![r].status = "running", ![r].started = TRUE, ![r].stale = FALSE]
             /\ job' = [job EXCEPT ![r] = ks] /\ worker' = [worker EXCEPT ![r] = w]
    <2>1. b \in BlogsOf(r) /\ b \in Blogs /\ js[b].status = "pending" /\ js[b] \in Job
      BY <1>3, <1>8, TurnIn, BlogsIn
    <2> HIDE DEF b
    <2>2. x \in Run /\ x.status = "running" /\ ~ x.stale
      BY RunHas DEF Run, Active
    <2>3. run' = [run EXCEPT ![r] = x]
      BY <1>8
    <2> HIDE DEF x
    <2>4. RunFits /\ OtherRuns(r) /\ run'[r].status = "running" /\ ~ run'[r].stale
      BY <2>2, <2>3, RunPut
    <2>5. /\ ks \in [Blogs -> Job]
          /\ \A c \in Blogs : /\ ks[c].plan = js[c].plan /\ ks[c].progress = js[c].progress
                              /\ ks[c].restore = js[c].restore
                              /\ ks[c].status = "done" => js[c].status = "done"
                              /\ ks[c].status \in Open => js[c].status \in Open
      <3> DEFINE k == [js[b] EXCEPT !.status = "running"]
      <3>1. /\ k \in Job /\ k.plan = js[b].plan /\ k.progress = js[b].progress
            /\ k.restore = js[b].restore /\ k.status = "running"
        BY <2>1 DEF Job
      <3>2. ks = [js EXCEPT ![b] = k]
        OBVIOUS
      <3> HIDE DEF k, ks
      <3>3. ks \in [Blogs -> Job] /\ ks[b] = k /\ \A c \in Blogs \ {b} : ks[c] = js[c]
        BY <1>3, <2>1, <3>1, <3>2
      <3> QED BY <2>1, <3>1, <3>3 DEF Open
    <2> HIDE DEF ks
    <2>6. JobFits /\ JobsKeep /\ Opens
      BY <1>4, <1>8, <2>5
    <2>7. /\ js[b].progress = job[r][b].progress /\ js[b].progress \in Progress
          /\ js[b].restore = job[r][b].restore /\ js[b].restore \in Marks
      BY <1>3, <2>1, JobHas
    <2>8. w \in Worker /\ w.pc = "fence" /\ w.blog = b /\ w.live = None /\ w.progress = js[b].progress
          /\ w.mark = js[b].restore
      <3>1. Off \in Worker /\ Off.live = None /\ "fence" \in Places /\ b \in Blogs \cup {None}
        BY <2>1, OffIn DEF Places
      <3> QED BY <2>7, <3>1 DEF Worker
    <2> HIDE DEF w
    <2>9. WorkerFits /\ Elsewhere(r) /\ worker'[r] = w
      BY <1>8, <2>8, WorkerPut
    <2> QED BY <1>1, <1>8, <2>1, <2>4, <2>6, <2>7, <2>8, <2>9, RestHas DEF RestFits, Leaves
  <1> QED BY <1>2, <1>5, <1>6, <1>7, <1>8

(* The version fence, for a job that has landed nothing.                     *)
LEMMA VersionFenceDoes ==
    ASSUME Shaped, NEW r \in Runs, VersionFence(r)
    PROVE  /\ worker[r].pc = "fence"
           /\ \/ Known(r).refreshed /\ Turns(r, "finish")
              \/ ~ Known(r).refreshed /\ Known(r).at > 0 /\ Known(r).at < Last /\ Turns(r, "phase")
              \/ ~ Known(r).refreshed /\ Known(r).at > 0 /\ Known(r).at = Last /\ Turns(r, "verify")
              \/ Known(r).at = 0 /\ Turns(r, "live")
              \/ Turns(r, "fail")
           /\ WorkerFits /\ RestFits
           /\ UNCHANGED <<run, job, copy, snapshot, store, broker, restorers, request>>
  <1>1. worker[r].pc = "fence" /\ UNCHANGED <<run, job, copy, snapshot, store,
           broker, restorers, request, cancelling, importing>>
    BY DEF VersionFence, Doing, database, wordpress, threads, requests
  <1>2. /\ Known(r).at \in 0..Last
        /\ \/ Known(r).refreshed /\ Goto(r, "finish")
           \/ ~ Known(r).refreshed /\ Known(r).at > 0 /\ Known(r).at < Last /\ Goto(r, "phase")
           \/ ~ Known(r).refreshed /\ Known(r).at > 0 /\ Known(r).at = Last /\ Goto(r, "verify")
           \/ Known(r).at = 0 /\ Goto(r, "live")
           \/ Goto(r, "fail")
    <2>1. Known(r).at \in 0..Last
      BY WorkerHas DEF Known
    <2> QED BY <2>1, LastIn DEF VersionFence
  <1>3. /\ WorkerFits
        /\ \/ Known(r).refreshed /\ Turns(r, "finish")
           \/ ~ Known(r).refreshed /\ Known(r).at > 0 /\ Known(r).at < Last /\ Turns(r, "phase")
           \/ ~ Known(r).refreshed /\ Known(r).at > 0 /\ Known(r).at = Last /\ Turns(r, "verify")
           \/ Known(r).at = 0 /\ Turns(r, "live")
           \/ Turns(r, "fail")
    BY <1>2, GotoTurns DEF Places
  <1> QED BY <1>1, <1>3, RestHas DEF RestFits

(* The live export must be what the plan was built on.                       *)
LEMMA FetchLiveDoes ==
    ASSUME Shaped, NEW r \in Runs, FetchLive(r)
    PROVE  /\ worker[r].pc = "live"
           /\ \/ /\ store[worker[r].blog] = Mine(r).plan /\ Stays(r) /\ worker'[r].live = store[worker[r].blog]
                 /\ worker'[r].pc = (IF Known(r).taken THEN "phase" ELSE "copy")
              \/ Reported(r)
           /\ WorkerFits /\ RestFits
           /\ UNCHANGED <<run, job, copy, snapshot, store, broker, restorers, request>>
  <1> DEFINE content == store[worker[r].blog]
             w == [worker[r] EXCEPT !.live = content, !.pc = AfterLive(r)]
  <1>1. worker[r].pc = "live" /\ UNCHANGED <<run, job, copy, snapshot, store,
           broker, restorers, request, cancelling, importing>>
    BY DEF FetchLive, Doing, database, wordpress, threads, requests
  <1>2. content \in Content
    BY <1>1, WorkerHas, RestHas DEF InBlog
  <1>3. (content = Mine(r).plan /\ worker' = [worker EXCEPT ![r] = w]) \/ Reports(r)
    BY DEF FetchLive, Unchanged
  <1>4. CASE Reports(r)
    <2>1. WorkerFits /\ Reported(r)
      BY <1>4, ReportsSaves
    <2> QED BY <1>1, <2>1, RestHas DEF RestFits
  <1>5. CASE content = Mine(r).plan /\ worker' = [worker EXCEPT ![r] = w]
    <2>1. worker[r] \in Worker /\ AfterLive(r) \in Places /\ AfterLive(r) = IF Known(r).taken THEN "phase" ELSE "copy"
      BY WorkerHas DEF AfterLive, Places
    <2>2. w \in Worker
      BY <1>2, <2>1 DEF Worker
    <2>3. WorkerFits /\ Elsewhere(r) /\ worker'[r] = w
      BY <1>5, <2>2, WorkerPut
    <2>4. /\ w.live = content /\ w.pc = IF Known(r).taken THEN "phase" ELSE "copy"
          /\ w.blog = worker[r].blog /\ w.progress = worker[r].progress /\ w.mark = worker[r].mark
      BY <2>1 DEF Worker
    <2> HIDE DEF w
    <2> QED BY <1>1, <1>5, <2>3, <2>4, RestHas DEF RestFits, Stays
  <1> QED BY <1>3, <1>4, <1>5

(* The live state is kept.                                                   *)
LEMMA TakeCopyDoes ==
    ASSUME Shaped, NEW r \in Runs, TakeCopy(r)
    PROVE  /\ worker[r].pc = "copy"
           /\ copy'[r][worker[r].blog] = worker[r].live
           /\ \A o \in Runs, c \in Blogs : o # r \/ c # worker[r].blog => copy'[o][c] = copy[o][c]
           /\ Saves(r, Known(r).at, TRUE, Known(r).refreshed, "phase")
           /\ CopyFits /\ WorkerFits /\ RestFits
           /\ UNCHANGED <<run, job, snapshot, store, broker, restorers, request>>
  <1> DEFINE p == [Known(r) EXCEPT !.taken = TRUE]
  <1>1. worker[r].pc = "copy" /\ copy' = [copy EXCEPT ![r][worker[r].blog] =
           worker[r].live] /\ Save(r, p, "phase") /\ UNCHANGED <<run, job,
           snapshot, store, broker, restorers, request, cancelling, importing>>
    BY DEF TakeCopy, Doing, database, wordpress, threads, requests
  <1>2. worker[r].blog \in Blogs /\ worker[r].live \in Content \cup {None}
    BY <1>1, WorkerHas DEF InBlog
  <1>3. p \in Progress /\ p.at = Known(r).at /\ p.taken = TRUE /\ p.refreshed = Known(r).refreshed
    BY WorkerHas DEF Progress, Known
  <1> HIDE DEF p
  <1>4. WorkerFits /\ Saves(r, p.at, p.taken, p.refreshed, "phase")
    BY <1>1, <1>3, SaveSaves DEF Places
  <1>5. copy \in [Runs -> [Blogs -> Content \cup {None}]]
    BY RestHas
  <1>6. /\ CopyFits /\ copy'[r][worker[r].blog] = worker[r].live
        /\ \A o \in Runs, c \in Blogs : o # r \/ c # worker[r].blog => copy'[o][c] = copy[o][c]
    BY <1>1, <1>2, <1>5 DEF CopyFits
  <1> QED BY <1>1, <1>3, <1>4, <1>6, RestHas DEF RestFits

(* Progress is saved in the row of the job.                                  *)
LEMMA SaveProgressDoes ==
    ASSUME Shaped, NEW r \in Runs, SaveProgress(r)
    PROVE  /\ worker[r].pc = "save"
           /\ Beats(r)
           /\ job'[r][worker[r].blog].progress = Known(r)
           /\ \A o \in Runs, c \in Blogs : o # r \/ c # worker[r].blog => job'[o][c].progress = job[o][c].progress
           /\ Marking(r, worker[r].blog, worker[r].mark)
           /\ Plans /\ Dones /\ Opens
           /\ Turns(r, worker[r].then)
           /\ RunFits /\ JobFits /\ WorkerFits /\ RestFits
           /\ UNCHANGED <<copy, snapshot, store, broker, restorers, request>>
  <1> DEFINE b == worker[r].blog
             j == [job[r][b] EXCEPT !.progress = Known(r), !.restore = worker[r].mark]
             w == [worker[r] EXCEPT !.pc = worker[r].then, !.then = "off"]
  <1>1. worker[r].pc = "save" /\ run' = Beat(r) /\ job' = [job EXCEPT ![r][b] =
           j] /\ worker' = [worker EXCEPT ![r] = w] /\ UNCHANGED <<copy,
           snapshot, store, broker, restorers, request, cancelling, importing>>
    BY DEF SaveProgress, Doing, database, wordpress, threads, requests
  <1>2. b \in Blogs /\ Known(r) \in Progress /\ worker[r].mark \in Marks
    BY <1>1, WorkerHas DEF InBlog, Known
  <1>3. /\ j \in Job /\ j.progress = Known(r) /\ j.plan = job[r][b].plan /\ j.status = job[r][b].status
        /\ j.restore = worker[r].mark
    <2>1. job[r][b] \in Job
      BY <1>2, JobHas
    <2> QED BY <1>2, <2>1 DEF Job
  <1>4. JobFits /\ JobGets(r, b, j)
    BY <1>1, <1>2, <1>3, JobPut
  <1>5. /\ w \in Worker /\ w.pc = worker[r].then /\ w.blog = b /\ w.progress = worker[r].progress
        /\ w.live = worker[r].live /\ w.mark = worker[r].mark
    <2>1. worker[r] \in Worker /\ worker[r].then \in Places /\ "off" \in Places
      BY WorkerHas DEF Places
    <2> QED BY <2>1 DEF Worker
  <1>6. WorkerFits /\ Elsewhere(r) /\ worker'[r] = w
    BY <1>1, <1>5, WorkerPut
  <1>7. RunFits /\ Beats(r)
    BY <1>1, BeatBeats
  <1> HIDE DEF b, j, w
  <1>8. /\ job'[r][b].progress = Known(r) /\ Plans /\ Marking(r, b, worker[r].mark) /\ Dones /\ Opens
        /\ \A o \in Runs, c \in Blogs : o # r \/ c # b => job'[o][c].progress = job[o][c].progress
    BY <1>2, <1>3, <1>4 DEF JobGets, Plans, Marking, Dones, Opens
  <1>9. Turns(r, worker[r].then)
    BY <1>5, <1>6 DEF Turns, Stays, b
  <1> QED BY <1>1, <1>4, <1>6, <1>7, <1>8, <1>9, RestHas DEF RestFits, b

(* A look-up finds the phase.                                                *)
LEMMA ProbeFindsDoes ==
    ASSUME Shaped, NEW r \in Runs, ProbeFinds(r)
    PROVE  /\ worker[r].pc = "phase"
           /\ Advances(r) \/ Waits(r) \/ Turns(r, "fail") \/ Reported(r)
           /\ WorkerFits /\ RestFits
           /\ UNCHANGED <<run, job, copy, snapshot, store, broker, restorers, request>>
  <1>1. worker[r].pc = "phase" /\ \E n \in Candidates(r) : Heed(r, n,
           KeyState(r, n)) /\ UNCHANGED <<run, job, copy, snapshot, store,
           broker, restorers, request, cancelling, importing>>
    BY DEF ProbeFinds, Doing, database, wordpress, threads, requests
  <1>2. PICK n \in Candidates(r) : Heed(r, n, KeyState(r, n))
    BY <1>1
  <1>3. Mine(r).attempt \in 1..MaxAttempt
    BY <1>1, MineHas DEF InBlog
  <1>4. n \in 1..MaxAttempt
    BY <1>2, <1>3, RunsAssumption DEF Candidates
  <1>5. WorkerFits /\ (Advances(r) \/ Waits(r) \/ Turns(r, "fail") \/ Reported(r))
    BY <1>1, <1>2, <1>4, HeedHeeds
  <1> QED BY <1>1, <1>5, RestHas DEF RestFits

(* A look-up finds no such key.                                              *)
LEMMA ProbeMissesDoes ==
    ASSUME Shaped, NEW r \in Runs, ProbeMisses(r)
    PROVE  /\ worker[r].pc = "phase"
           /\ Turns(r, "post")
           /\ WorkerFits /\ RestFits
           /\ UNCHANGED <<run, job, copy, snapshot, store, broker, restorers, request>>
  <1>1. Goto(r, "post") /\ worker[r].pc = "phase" /\ UNCHANGED <<run, job,
           copy, snapshot, store, broker, restorers, request, cancelling,
           importing>>
    BY DEF ProbeMisses, Doing, database, wordpress, threads, requests
  <1>2. WorkerFits /\ Turns(r, "post")
    BY <1>1, GotoTurns DEF Places
  <1> QED BY <1>1, <1>2, RestHas DEF RestFits

(* A durable job is started.                                                 *)
LEMMA PostDoes ==
    ASSUME Shaped, NEW r \in Runs, Post(r)
    PROVE  /\ worker[r].pc = "post"
           /\ Waits(r)
           /\ Posts(r, Mine(r).attempt)
           /\ WorkerFits /\ BrokerFits /\ RestFits
           /\ UNCHANGED <<run, job, copy, snapshot, store, restorers, request>>
  <1>1. Starts(r, Mine(r).attempt) /\ Await(r, Mine(r).attempt) /\ UNCHANGED
           <<run, job, copy, snapshot, store, restorers, request, cancelling,
           importing>>
    BY DEF Post, database, wordpress, threads, requests
  <1>2. worker[r].pc = "post" /\ Mine(r).attempt \in 1..MaxAttempt
    BY <1>1, MineHas DEF Starts, Doing, InBlog
  <1>3. BrokerFits /\ Posts(r, Mine(r).attempt)
    BY <1>1, <1>2, StartsPosts
  <1>4. WorkerFits /\ Waits(r)
    BY <1>1, <1>2, AwaitWaits
  <1> QED BY <1>1, <1>2, <1>3, <1>4, RestHas DEF RestFits

(* The stored job answers the POST.                                          *)
LEMMA PostAnsweredDoes ==
    ASSUME Shaped, NEW r \in Runs, PostAnswered(r)
    PROVE  /\ worker[r].pc = "post"
           /\ Advances(r) \/ Waits(r) \/ Turns(r, "fail") \/ Reported(r)
           /\ WorkerFits /\ RestFits
           /\ UNCHANGED <<run, job, copy, snapshot, store, broker, restorers, request>>
  <1>1. worker[r].pc = "post" /\ Heed(r, Mine(r).attempt, KeyState(r,
           Mine(r).attempt)) /\ UNCHANGED <<run, job, copy, snapshot, store,
           broker, restorers, request, cancelling, importing>>
    BY DEF PostAnswered, Doing, database, wordpress, threads, requests
  <1>2. Mine(r).attempt \in 1..MaxAttempt
    BY <1>1, MineHas DEF InBlog
  <1>3. WorkerFits /\ (Advances(r) \/ Waits(r) \/ Turns(r, "fail") \/ Reported(r))
    BY <1>1, <1>2, HeedHeeds
  <1> QED BY <1>1, <1>3, RestHas DEF RestFits

(* The POST is refused.                                                      *)
LEMMA PostRefusedDoes ==
    ASSUME Shaped, NEW r \in Runs, PostRefused(r)
    PROVE  /\ worker[r].pc = "post"
           /\ Turns(r, "fail")
           /\ WorkerFits /\ RestFits
           /\ UNCHANGED <<run, job, copy, snapshot, store, broker, restorers, request>>
  <1>1. Goto(r, "fail") /\ worker[r].pc = "post" /\ UNCHANGED <<run, job, copy,
           snapshot, store, broker, restorers, request, cancelling, importing>>
    BY DEF PostRefused, Doing, database, wordpress, threads, requests
  <1>2. WorkerFits /\ Turns(r, "fail")
    BY <1>1, GotoTurns DEF Places
  <1> QED BY <1>1, <1>2, RestHas DEF RestFits

(* The job that was polled is settled.                                       *)
LEMMA PollDoes ==
    ASSUME Shaped, NEW r \in Runs, Poll(r)
    PROVE  /\ worker[r].pc = "wait"
           /\ Advances(r) \/ Turns(r, "fail") \/ Reported(r)
           /\ WorkerFits /\ RestFits
           /\ UNCHANGED <<run, job, copy, snapshot, store, broker, restorers, request>>
  <1>1. worker[r].pc = "wait" /\ ((KeyState(r, worker[r].key) = "done" /\
           Advance(r)) \/ Goto(r, "fail") \/ Reports(r)) /\ UNCHANGED <<run, job, copy,
           snapshot, store, broker, restorers, request, cancelling, importing>>
    BY DEF Poll, Refused, Doing, SettledWell, database, wordpress, threads, requests
  <1>2. worker[r].key \in 1..MaxAttempt
    BY <1>1 DEF Shaped, Placed
  <1>3. CASE KeyState(r, worker[r].key) = "done" /\ Advance(r)
    <2>1. WorkerFits /\ Saves(r, NextPhase(r), Known(r).taken, Known(r).refreshed,
                               IF NextPhase(r) < Last THEN "phase" ELSE "verify")
      BY <1>1, <1>3, AdvanceSaves
    <2>2. WorkerFits /\ Advances(r)
      BY <1>2, <1>3, <2>1 DEF Advances
    <2> QED BY <1>1, <2>2, RestHas DEF RestFits
  <1>4. CASE Goto(r, "fail") \/ Reports(r)
    <2>1. WorkerFits /\ (Turns(r, "fail") \/ Reported(r))
      BY <1>4, GotoTurns, ReportsSaves DEF Places
    <2> QED BY <1>1, <2>1, RestHas DEF RestFits
  <1> QED BY <1>1, <1>3, <1>4

(* The wait ends.                                                            *)
LEMMA GiveUpDoes ==
    ASSUME Shaped, NEW r \in Runs, GiveUp(r)
    PROVE  /\ worker[r].pc = "wait"
           /\ Turns(r, "fail")
           /\ WorkerFits /\ RestFits
           /\ UNCHANGED <<run, job, copy, snapshot, store, broker, restorers, request>>
  <1>1. Goto(r, "fail") /\ worker[r].pc = "wait" /\ UNCHANGED <<run, job, copy,
           snapshot, store, broker, restorers, request, cancelling, importing>>
    BY DEF GiveUp, WaitsTooLong, Doing, database, wordpress, threads, requests
  <1>2. WorkerFits /\ Turns(r, "fail")
    BY <1>1, GotoTurns DEF Places
  <1> QED BY <1>1, <1>2, RestHas DEF RestFits

(* A fresh export is compared.                                               *)
LEMMA VerifyDoes ==
    ASSUME Shaped, NEW r \in Runs, Verify(r)
    PROVE  /\ worker[r].pc = "verify"
           /\ \/ Stays(r) /\ worker'[r].pc = "import" /\ worker'[r].live = store[worker[r].blog]
              \/ Reported(r)
           /\ WorkerFits /\ RestFits
           /\ UNCHANGED <<run, job, copy, snapshot, store, broker, restorers, request>>
  <1> DEFINE w == [worker[r] EXCEPT !.pc = "import", !.live = store[worker[r].blog]]
  <1>1. worker[r].pc = "verify" /\ (worker' = [worker EXCEPT ![r] = w] \/
           Reports(r)) /\ UNCHANGED <<run, job, copy, snapshot, store,
           broker, restorers, request, cancelling, importing>>
    BY DEF Verify, Doing, database, wordpress, threads, requests
  <1>2. CASE Reports(r)
    <2>1. WorkerFits /\ Reported(r)
      BY <1>2, ReportsSaves
    <2> QED BY <1>1, <2>1, RestHas DEF RestFits
  <1>3. CASE worker' = [worker EXCEPT ![r] = w]
    <2>1. store[worker[r].blog] \in Content
      BY <1>1, WorkerHas, RestHas DEF InBlog
    <2>2. worker[r] \in Worker /\ "import" \in Places
      BY WorkerHas DEF Places
    <2>3. /\ w \in Worker /\ w.pc = "import" /\ w.live = store[worker[r].blog]
          /\ w.blog = worker[r].blog /\ w.progress = worker[r].progress /\ w.mark = worker[r].mark
      BY <2>1, <2>2 DEF Worker
    <2> HIDE DEF w
    <2>4. WorkerFits /\ Elsewhere(r) /\ worker'[r] = w
      BY <1>3, <2>3, WorkerPut
    <2> QED BY <1>1, <2>3, <2>4, RestHas DEF RestFits, Stays
  <1> QED BY <1>1, <1>2, <1>3

(* The export is imported.                                                   *)
LEMMA RefreshDoes ==
    ASSUME Shaped, NEW r \in Runs, Refresh(r)
    PROVE  /\ worker[r].pc = "import"
           /\ Imports(worker[r].blog, worker[r].live)
           /\ Saves(r, Known(r).at, Known(r).taken, TRUE, "finish")
           /\ SnapshotFits /\ WorkerFits /\ RestFits
           /\ UNCHANGED <<run, job, copy, store, broker, restorers, request>>
  <1> DEFINE p == [Known(r) EXCEPT !.refreshed = TRUE, !.verified = TRUE]
  <1>1. worker[r].pc = "import" /\ snapshot[worker[r].blog].version <
           MaxVersion /\ snapshot' = Imported(worker[r].blog, worker[r].live)
           /\ Save(r, p, "finish") /\ UNCHANGED <<run, job, copy, store,
           broker, restorers, request, cancelling, importing>>
    BY DEF Refresh, Doing, database, wordpress, threads, requests
  <1>2. p \in Progress /\ p.at = Known(r).at /\ p.taken = Known(r).taken /\ p.refreshed = TRUE
    BY WorkerHas DEF Progress, Known
  <1> HIDE DEF p
  <1>3. WorkerFits /\ Saves(r, p.at, p.taken, p.refreshed, "finish")
    BY <1>1, <1>2, SaveSaves DEF Places
  <1>4. worker[r].blog \in Blogs /\ worker[r].live \in Content
    BY <1>1, WorkerHas DEF InBlog, Shaped, Placed
  <1>5. SnapshotFits /\ Imports(worker[r].blog, worker[r].live)
    BY <1>1, <1>4, ImportedImports
  <1> QED BY <1>1, <1>2, <1>3, <1>5, RestHas DEF RestFits

(* The import fails.                                                         *)
LEMMA RefreshFailsDoes ==
    ASSUME Shaped, NEW r \in Runs, RefreshFails(r)
    PROVE  /\ worker[r].pc = "import"
           /\ Elsewhere(r) /\ worker'[r].blog = worker[r].blog /\ worker'[r].mark = worker[r].mark
           /\ worker'[r].pc = "finish" /\ worker'[r].live = None
           /\ worker'[r].progress.at = Known(r).at /\ worker'[r].progress.taken = Known(r).taken
           /\ worker'[r].progress.refreshed = Known(r).refreshed
           /\ WorkerFits /\ RestFits
           /\ UNCHANGED <<run, job, copy, snapshot, store, broker, restorers, request>>
  <1> DEFINE p == [worker[r].progress EXCEPT !.verified = TRUE]
             w == [worker[r] EXCEPT !.pc = "finish", !.live = None, !.progress = p]
  <1>1. worker[r].pc = "import" /\ worker' = [worker EXCEPT ![r].pc = "finish",
           ![r].live = None, ![r].progress.verified = TRUE] /\ UNCHANGED <<run,
           job, copy, snapshot, store, broker, restorers, request, cancelling,
           importing>>
    BY DEF RefreshFails, Doing, database, wordpress, threads, requests
  <1>2. /\ p \in Progress /\ p.at = worker[r].progress.at /\ p.taken = worker[r].progress.taken
        /\ p.refreshed = worker[r].progress.refreshed
    BY WorkerHas DEF Progress
  <1>3. /\ w \in Worker /\ w.pc = "finish" /\ w.live = None /\ w.blog = worker[r].blog
        /\ w.progress = p /\ w.mark = worker[r].mark
    <2>1. worker[r] \in Worker /\ "finish" \in Places /\ None \in Content \cup {None}
      BY WorkerHas DEF Places
    <2> HIDE DEF p
    <2> QED BY <1>2, <2>1 DEF Worker
  <1>4. worker' = [worker EXCEPT ![r] = w]
    BY <1>1, WorkerHas
  <1> HIDE DEF p, w
  <1>5. WorkerFits /\ Elsewhere(r) /\ worker'[r] = w
    BY <1>3, <1>4, WorkerPut
  <1> QED BY <1>1, <1>2, <1>3, <1>5, RestHas DEF RestFits, Known

(* A job is done.                                                            *)
LEMMA FinishDoneDoes ==
    ASSUME Shaped, NEW r \in Runs, FinishDone(r)
    PROVE  /\ worker[r].pc = "finish"
           /\ Beats(r)
           /\ Plans /\ Progresses /\ Restores /\ Opens
           /\ \A o \in Runs, c \in Blogs : o # r \/ c # worker[r].blog => job'[o][c].status = job[o][c].status
           /\ \E pc \in {"stop", "claim"} : Leaves(r, pc)
           /\ RunFits /\ JobFits /\ WorkerFits /\ RestFits
           /\ UNCHANGED <<copy, snapshot, store, broker, restorers, request>>
  <1> DEFINE b == worker[r].blog
             j == [job[r][b] EXCEPT !.status = "done", !.verified = Known(r).verified, !.restored = FALSE]
             pc == IF "done" = "failed" /\ run[r].stop THEN "stop" ELSE "claim"
  <1>1. worker[r].pc = "finish" /\ run' = Beat(r) /\ job' = [job EXCEPT
           ![r][b].status = "done", ![r][b].verified = Known(r).verified,
           ![r][b].restored = FALSE] /\ worker' = [worker EXCEPT ![r] = [Off
           EXCEPT !.pc = pc]] /\ UNCHANGED <<copy, snapshot, store, broker,
           restorers, request, cancelling, importing>>
    BY DEF FinishDone, Doing, Finish, database, wordpress, threads, requests
  <1>2. b \in Blogs /\ Known(r).verified \in BOOLEAN
    BY <1>1, WorkerHas DEF InBlog, Known
  <1>3. /\ j \in Job /\ j.progress = job[r][b].progress /\ j.plan = job[r][b].plan /\ j.status = "done"
        /\ j.restore = job[r][b].restore
    <2>1. job[r][b] \in Job
      BY <1>2, JobHas
    <2> QED BY <1>2, <2>1 DEF Job
  <1>4. job' = [job EXCEPT ![r][b] = j]
    BY <1>1, <1>2, JobHas
  <1>5. JobFits /\ JobGets(r, b, j)
    BY <1>2, <1>3, <1>4, JobPut
  <1>6. pc \in Places /\ pc \in {"stop", "claim"}
    BY DEF Places
  <1> HIDE DEF b, j, pc
  <1>7. /\ Plans /\ Progresses /\ Restores /\ Opens
        /\ \A o \in Runs, c \in Blogs : o # r \/ c # b => job'[o][c].status = job[o][c].status
    BY <1>2, <1>3, <1>5 DEF JobGets, JobsKeep, Plans, Progresses, Restores, Dones, Opens, Open
  <1>8. WorkerFits /\ Leaves(r, pc)
    BY <1>1, <1>6, PutLeaves
  <1>9. RunFits /\ Beats(r)
    BY <1>1, BeatBeats
  <1> QED BY <1>1, <1>5, <1>6, <1>7, <1>8, <1>9, RestHas DEF RestFits, b

(* A job has failed.                                                         *)
LEMMA FinishFailedDoes ==
    ASSUME Shaped, NEW r \in Runs, FinishFailed(r)
    PROVE  /\ worker[r].pc = "fail"
           /\ Beats(r)
           /\ JobsKeep /\ Opens
           /\ \E pc \in {"stop", "claim"} : Leaves(r, pc)
           /\ RunFits /\ JobFits /\ WorkerFits /\ RestFits
           /\ UNCHANGED <<copy, snapshot, store, broker, restorers, request>>
  <1> DEFINE b == worker[r].blog
             j == [job[r][b] EXCEPT !.status = "failed", !.verified = FALSE, !.restored = FALSE]
             pc == IF "failed" = "failed" /\ run[r].stop THEN "stop" ELSE "claim"
  <1>1. worker[r].pc = "fail" /\ run' = Beat(r) /\ job' = [job EXCEPT
           ![r][b].status = "failed", ![r][b].verified = FALSE,
           ![r][b].restored = FALSE] /\ worker' = [worker EXCEPT ![r] = [Off
           EXCEPT !.pc = pc]] /\ UNCHANGED <<copy, snapshot, store, broker,
           restorers, request, cancelling, importing>>
    BY DEF FinishFailed, Doing, Finish, database, wordpress, threads, requests
  <1>2. b \in Blogs /\ Known(r).verified \in BOOLEAN
    BY <1>1, WorkerHas DEF InBlog, Known
  <1>3. /\ j \in Job /\ j.progress = job[r][b].progress /\ j.plan = job[r][b].plan /\ j.status = "failed"
        /\ j.restore = job[r][b].restore
    <2>1. job[r][b] \in Job
      BY <1>2, JobHas
    <2> QED BY <1>2, <2>1 DEF Job
  <1>4. job' = [job EXCEPT ![r][b] = j]
    BY <1>1, <1>2, JobHas
  <1>5. JobFits /\ JobGets(r, b, j)
    BY <1>2, <1>3, <1>4, JobPut
  <1>6. pc \in Places /\ pc \in {"stop", "claim"}
    BY DEF Places
  <1> HIDE DEF b, j, pc
  <1>7. /\ JobsKeep /\ Opens
    BY <1>2, <1>3, <1>5 DEF JobGets, JobsKeep, Plans, Progresses, Restores, Dones, Opens, Open
  <1>8. WorkerFits /\ Leaves(r, pc)
    BY <1>1, <1>6, PutLeaves
  <1>9. RunFits /\ Beats(r)
    BY <1>1, BeatBeats
  <1> QED BY <1>1, <1>5, <1>6, <1>7, <1>8, <1>9, RestHas DEF RestFits, b

(* The first failure ends the run.                                           *)
LEMMA StopRunDoes ==
    ASSUME Shaped, NEW r \in Runs, StopRun(r)
    PROVE  /\ worker[r].pc = "stop"
           /\ OtherRuns(r) /\ run'[r].status = "failed"
           /\ Leaves(r, "leave")
           /\ RunFits /\ WorkerFits /\ RestFits
           /\ UNCHANGED <<job, copy, snapshot, store, broker, restorers, request>>
  <1>1. worker[r].pc = "stop" /\ Goto(r, "leave") /\ run' = [run EXCEPT
           ![r].status = "failed"] /\ UNCHANGED <<job, copy, snapshot, store,
           broker, restorers, request, cancelling, importing>>
    BY DEF StopRun, Doing, database, wordpress, threads, requests
  <1>2. WorkerFits /\ Leaves(r, "leave")
    BY <1>1, GotoTurns DEF Places
  <1>3. RunFits /\ OtherRuns(r) /\ run'[r].status = "failed"
    BY <1>1, RunStatus
  <1> QED BY <1>1, <1>2, <1>3, RestHas DEF RestFits

(* The thread ends.                                                          *)
LEMMA LeaveDoes ==
    ASSUME Shaped, NEW r \in Runs, Leave(r)
    PROVE  /\ Leaves(r, "off")
           /\ WorkerFits /\ RestFits
           /\ UNCHANGED <<run, job, copy, snapshot, store, broker, restorers, request>>
  <1>1. worker' = [worker EXCEPT ![r] = Off] /\ UNCHANGED <<run, job, copy,
           snapshot, store, broker, restorers, request, cancelling, importing>>
    BY DEF Leave, database, wordpress, threads, requests
  <1>2. Off = [Off EXCEPT !.pc = "off"]
    BY DEF Off
  <1>3. WorkerFits /\ Leaves(r, "off")
    BY <1>1, <1>2, PutLeaves DEF Places
  <1> QED BY <1>1, <1>3, RestHas DEF RestFits

(* The live export cannot be had.                                            *)
LEMMA ExportFailsDoes ==
    ASSUME Shaped, NEW r \in Runs, ExportFails(r)
    PROVE  /\ worker[r].pc = "live"
           /\ Turns(r, "fail")
           /\ WorkerFits /\ RestFits
           /\ UNCHANGED <<run, job, copy, snapshot, store, broker, restorers, request>>
  <1>1. Goto(r, "fail") /\ worker[r].pc = "live" /\ UNCHANGED <<run, job, copy,
           snapshot, store, broker, restorers, request, cancelling, importing>>
    BY DEF ExportFails, Doing, database, wordpress, threads, requests
  <1>2. WorkerFits /\ Turns(r, "fail")
    BY <1>1, GotoTurns DEF Places
  <1> QED BY <1>1, <1>2, RestHas DEF RestFits

(* The look-up is not answered.                                              *)
LEMMA ProbeUnheardDoes ==
    ASSUME Shaped, NEW r \in Runs, ProbeUnheard(r)
    PROVE  /\ worker[r].pc = "phase"
           /\ Turns(r, "post")
           /\ WorkerFits /\ RestFits
           /\ UNCHANGED <<run, job, copy, snapshot, store, broker, restorers, request>>
  <1>1. Goto(r, "post") /\ worker[r].pc = "phase" /\ UNCHANGED <<run, job,
           copy, snapshot, store, broker, restorers, request, cancelling,
           importing>>
    BY DEF ProbeUnheard, Doing, database, wordpress, threads, requests
  <1>2. WorkerFits /\ Turns(r, "post")
    BY <1>1, GotoTurns DEF Places
  <1> QED BY <1>1, <1>2, RestHas DEF RestFits

(* A job is started and the answer lost.                                     *)
LEMMA PostUnheardDoes ==
    ASSUME Shaped, NEW r \in Runs, PostUnheard(r)
    PROVE  /\ worker[r].pc = "post"
           /\ Turns(r, "fail")
           /\ Posts(r, Mine(r).attempt)
           /\ WorkerFits /\ BrokerFits /\ RestFits
           /\ UNCHANGED <<run, job, copy, snapshot, store, restorers, request>>
  <1>1. Starts(r, Mine(r).attempt) /\ Goto(r, "fail") /\ UNCHANGED <<run, job,
           copy, snapshot, store, restorers, request, cancelling, importing>>
    BY DEF PostUnheard, database, wordpress, threads, requests
  <1>2. worker[r].pc = "post" /\ Mine(r).attempt \in 1..MaxAttempt
    BY <1>1, MineHas DEF Starts, Doing, InBlog
  <1>3. BrokerFits /\ Posts(r, Mine(r).attempt)
    BY <1>1, <1>2, StartsPosts
  <1>4. WorkerFits /\ Turns(r, "fail")
    BY <1>1, <1>2, GotoTurns DEF Places
  <1> QED BY <1>1, <1>2, <1>3, <1>4, RestHas DEF RestFits

(* The POST fails.                                                           *)
LEMMA PostFailsDoes ==
    ASSUME Shaped, NEW r \in Runs, PostFails(r)
    PROVE  /\ worker[r].pc = "post"
           /\ Turns(r, "fail")
           /\ WorkerFits /\ RestFits
           /\ UNCHANGED <<run, job, copy, snapshot, store, broker, restorers, request>>
  <1>1. Goto(r, "fail") /\ worker[r].pc = "post" /\ UNCHANGED <<run, job, copy,
           snapshot, store, broker, restorers, request, cancelling, importing>>
    BY DEF PostFails, Doing, database, wordpress, threads, requests
  <1>2. WorkerFits /\ Turns(r, "fail")
    BY <1>1, GotoTurns DEF Places
  <1> QED BY <1>1, <1>2, RestHas DEF RestFits

(* No fresh export can be had.                                               *)
LEMMA CannotVerifyDoes ==
    ASSUME Shaped, NEW r \in Runs, CannotVerify(r)
    PROVE  /\ worker[r].pc = "verify"
           /\ Saves(r, Known(r).at, Known(r).taken, Known(r).refreshed, "finish")
           /\ WorkerFits /\ RestFits
           /\ UNCHANGED <<run, job, copy, snapshot, store, broker, restorers, request>>
  <1> DEFINE p == [Known(r) EXCEPT !.verified = FALSE]
  <1>1. worker[r].pc = "verify" /\ Save(r, p, "finish") /\ UNCHANGED <<run,
           job, copy, snapshot, store, broker, restorers, request, cancelling,
           importing>>
    BY DEF CannotVerify, Doing, database, wordpress, threads, requests
  <1>2. p \in Progress /\ p.at = Known(r).at /\ p.taken = Known(r).taken /\ p.refreshed = Known(r).refreshed
    BY WorkerHas DEF Progress, Known
  <1> HIDE DEF p
  <1>3. WorkerFits /\ Saves(r, p.at, p.taken, p.refreshed, "finish")
    BY <1>1, <1>2, SaveSaves DEF Places
  <1> QED BY <1>1, <1>2, <1>3, RestHas DEF RestFits

(* A thread dies.                                                            *)
LEMMA DieDoes ==
    ASSUME Shaped, NEW r \in Runs, Die(r)
    PROVE  /\ Leaves(r, "off")
           /\ WorkerFits /\ RestFits
           /\ UNCHANGED <<run, job, copy, snapshot, store, broker, restorers, request>>
  <1>1. worker' = [worker EXCEPT ![r] = Off] /\ UNCHANGED <<run, job, copy,
           snapshot, store, broker, restorers, request, cancelling, importing>>
    BY DEF Die, database, wordpress, threads, requests
  <1>2. Off = [Off EXCEPT !.pc = "off"]
    BY DEF Off
  <1>3. WorkerFits /\ Leaves(r, "off")
    BY <1>1, <1>2, PutLeaves DEF Places
  <1> QED BY <1>1, <1>3, RestHas DEF RestFits

(* A run without a thread is taken for abandoned.                            *)
LEMMA GoStaleDoes ==
    ASSUME Shaped, NEW r \in Runs, GoStale(r)
    PROVE  /\ worker[r].pc = "off" /\ request = None /\ run[r].status # "none"
           /\ OtherRuns(r) /\ run'[r].status = run[r].status /\ run'[r].stale
           /\ RunFits /\ RestFits
           /\ UNCHANGED <<job, copy, snapshot, store, broker, worker, restorers, request>>
  <1> DEFINE x == [run[r] EXCEPT !.stale = TRUE]
  <1>1. worker[r].pc = "off" /\ request = None /\ run[r].status # "none" /\
           run' = [run EXCEPT ![r] = x] /\ UNCHANGED <<job, copy, snapshot,
           store, broker, worker, restorers, request, cancelling, importing>>
    BY DEF GoStale, Doing, database, wordpress, threads, requests
  <1>2. x \in Run /\ x.status = run[r].status /\ x.stale
    BY RunHas DEF Run
  <1> HIDE DEF x
  <1>3. RunFits /\ OtherRuns(r) /\ run'[r] = x
    BY <1>1, <1>2, RunPut
  <1> QED BY <1>1, <1>2, <1>3, RestHas DEF RestFits

(* A restore begins.                                                         *)
LEMMA RestoreBlogDoes ==
    ASSUME Shaped, NEW r \in Runs, NEW b \in Blogs, RestoreBlog(r, b)
    PROVE  /\ request = None /\ copy[r][b] # None
           /\ \A o \in Runs : run[o].status \in Active => run[o].status = "running" /\ run[o].stale
           /\ Plans /\ Progresses /\ Dones /\ Opens
           /\ Restoring = {} /\ Marking(r, b, "running")
           /\ Joins(r, b)
           /\ beside \subseteq beside'
           /\ <<r, b>> \notin beside' => worker[r].blog # b /\ \A t \in restorers : t.run = r => t.blog # b
           /\ JobFits /\ RestorersFits /\ RestFits
           /\ UNCHANGED <<run, copy, snapshot, store, broker, worker, request>>
  <1>1. request = None /\ copy[r][b] # None /\ (\A o \in Runs : run[o].status
           \in Active => run[o].status = "running" /\ run[o].stale) /\ job' =
           [job EXCEPT ![r][b].restore = "running"] /\ Restoring = {} /\ FreeIds # {} /\ restorers' = restorers
           \cup {Thread(r, b, CHOOSE id \in FreeIds : TRUE)}
           /\ beside' = (IF Writers(r, b) THEN beside \cup {<<r, b>>} ELSE beside) /\ UNCHANGED <<run, copy, snapshot,
           store, broker, worker, request, cancelling, importing>>
    BY DEF RestoreBlog, database, wordpress, threads, requests
  <1>2. /\ JobFits /\ job'[r][b].restore = "running" /\ Plans /\ Progresses /\ Dones /\ Opens
        /\ \A o \in Runs, c \in Blogs : o # r \/ c # b => job'[o][c].restore = job[o][c].restore
    BY <1>1, RestoreGets DEF RestorePut, Marks
  <1>3. PICK t : t = Thread(r, b, CHOOSE id \in FreeIds : TRUE)
    OBVIOUS
  <1>4. t \in RestoreThread /\ t.run = r /\ t.blog = b
    <2>1. (CHOOSE id \in FreeIds : TRUE) \in RestoreIds
      BY <1>1 DEF FreeIds
    <2> QED BY <1>3, <2>1 DEF Thread, RestoreThread
  <1>5. RestorersFits /\ restorers' = restorers \cup {t}
    BY <1>1, <1>3, <1>4, RestHas DEF RestorersFits
  <1>6. /\ beside \subseteq beside'
        /\ <<r, b>> \notin beside' => worker[r].blog # b /\ \A u \in restorers : u.run = r => u.blog # b
    BY <1>1 DEF Writers, RestoresOf
  <1>7. Marking(r, b, "running")
    BY <1>2 DEF Marking
  <1>8. Joins(r, b)
    BY <1>4, <1>5 DEF Joins
  <1> QED BY <1>1, <1>2, <1>8, <1>5, <1>6, <1>7, RestHas DEF RestFits

(* The passes of a restore.                                                  *)
LEMMA RestorePassesDoes ==
    ASSUME Shaped, NEW t \in restorers, RestorePasses(t), copy[t.run][t.blog] #
       None
    PROVE  /\ OtherBlogs(t.blog)
           /\ store'[t.blog] = store[t.blog] \/ store'[t.blog].step = copy[t.run][t.blog].step
           /\ undone' = undone \cup {t.blog}
           /\ t.pc \in Rewriting /\ Marking(t.run, t.blog, "running") /\ Goes(t, "finalize")
           /\ Plans /\ Progresses /\ Dones /\ Opens
           /\ Threads
           /\ JobFits /\ StoreFits /\ RestorersFits /\ RestFits
           /\ UNCHANGED <<run, copy, snapshot, broker, worker, request>>
  <1>1. Passes(t) /\ Goes(t, "finalize") /\ job' = Marked(t, "running") /\ t.pc \in Rewriting /\
           UNCHANGED <<run, copy, snapshot, broker, worker, request,
           cancelling, importing>>
    BY DEF RestorePasses, Rewriting, database, wordpress, threads, requests
  <1>2. /\ StoreFits /\ OtherBlogs(t.blog)
        /\ store'[t.blog] = store[t.blog] \/ store'[t.blog].step = copy[t.run][t.blog].step
        /\ undone' = undone \cup {t.blog}
    BY <1>1, PassesDoes
  <1>3. RestorersFits /\ Threads
    BY <1>1, GoesThreads
  <1>4. JobFits /\ Plans /\ Progresses /\ Dones /\ Opens /\ Marking(t.run, t.blog, "running")
    BY <1>1, MarkedKeeps DEF Marks
  <1> QED BY <1>1, <1>2, <1>3, <1>4, RestHas DEF RestFits

(* The last pass of a restore.                                               *)
LEMMA RestoreFinalizeDoes ==
    ASSUME Shaped, NEW t \in restorers, RestoreFinalize(t), copy[t.run][t.blog]
       # None
    PROVE  /\ OtherBlogs(t.blog)
           /\ store'[t.blog] = store[t.blog] \/ store'[t.blog].step = copy[t.run][t.blog].step
           /\ undone' = undone \cup {t.blog}
           /\ t.pc \in Rewriting /\ Marking(t.run, t.blog, "running") /\ Goes(t, "verify")
           /\ Plans /\ Progresses /\ Dones /\ Opens
           /\ Threads
           /\ JobFits /\ StoreFits /\ RestorersFits /\ RestFits
           /\ UNCHANGED <<run, copy, snapshot, broker, worker, request>>
  <1>1. Finalize(t) /\ Goes(t, "verify") /\ job' = Marked(t, "running") /\ t.pc \in Rewriting /\ UNCHANGED <<run, copy,
           snapshot, broker, worker, request, cancelling, importing>>
    BY DEF RestoreFinalize, Rewriting, database, wordpress, threads, requests
  <1>2. /\ StoreFits /\ OtherBlogs(t.blog)
        /\ store'[t.blog] = store[t.blog] \/ store'[t.blog].step = copy[t.run][t.blog].step
        /\ undone' = undone \cup {t.blog}
    BY <1>1, FinalizeDoes
  <1>3. RestorersFits /\ Threads
    BY <1>1, GoesThreads
  <1>4. JobFits /\ Plans /\ Progresses /\ Dones /\ Opens /\ Marking(t.run, t.blog, "running")
    BY <1>1, MarkedKeeps DEF Marks
  <1> QED BY <1>1, <1>2, <1>3, <1>4, RestHas DEF RestFits

(* A restore is verified.                                                    *)
LEMMA RestoreVerifyDoes ==
    ASSUME Shaped, NEW t \in restorers, RestoreVerify(t)
    PROVE  /\ Plans /\ Progresses /\ Dones /\ Opens
           /\ Marking(t.run, t.blog, "done") /\ Goes(t, "flag")
           /\ Threads
           /\ JobFits /\ RestorersFits /\ RestFits
           /\ UNCHANGED <<run, copy, snapshot, store, broker, worker, request>>
  <1>1. job' = Marked(t, "done") /\ Goes(t, "flag") /\ t.pc = "verify" /\
           UNCHANGED <<run, copy, snapshot, store, broker, worker, request,
           cancelling, importing>>
    BY DEF RestoreVerify, database, wordpress, threads, requests
  <1>2. JobFits /\ Plans /\ Progresses /\ Dones /\ Opens /\ Marking(t.run, t.blog, "done")
    BY <1>1, MarkedKeeps DEF Marks
  <1>3. RestorersFits /\ Threads
    BY <1>1, GoesThreads
  <1> QED BY <1>1, <1>2, <1>3, RestHas DEF RestFits

(* The job of a run is marked restored.                                      *)
LEMMA RestoreFlagDoes ==
    ASSUME Shaped, NEW t \in restorers, RestoreFlag(t)
    PROVE  /\ JobsKeep /\ Opens
           /\ Threads /\ Goes(t, "import")
           /\ JobFits /\ RestorersFits /\ RestFits
           /\ UNCHANGED <<run, copy, snapshot, store, broker, worker, request>>
  <1> DEFINE j == [job[t.run][t.blog] EXCEPT !.restored = TRUE]
  <1>1. job' = [job EXCEPT ![t.run][t.blog] = j] /\ Goes(t, "import") /\
           UNCHANGED <<run, copy, snapshot, store, broker, worker, request,
           cancelling, importing>>
    BY DEF RestoreFlag, database, wordpress, threads, requests
  <1>2. t.run \in Runs /\ t.blog \in Blogs
    BY RestHas
  <1>3. /\ j \in Job /\ j.plan = job[t.run][t.blog].plan /\ j.progress = job[t.run][t.blog].progress
        /\ j.status = job[t.run][t.blog].status /\ j.restore = job[t.run][t.blog].restore
    <2>1. job[t.run][t.blog] \in Job
      BY <1>2, JobHas
    <2> QED BY <2>1 DEF Job
  <1> HIDE DEF j
  <1>4. JobFits /\ JobGets(t.run, t.blog, j)
    BY <1>1, <1>2, <1>3, JobPut
  <1>5. JobsKeep /\ Opens
    BY <1>2, <1>3, <1>4 DEF JobGets, JobsKeep, Plans, Progresses, Restores, Dones, Opens
  <1>6. RestorersFits /\ Threads
    BY <1>1, GoesThreads
  <1> QED BY <1>1, <1>4, <1>5, <1>6, RestHas DEF RestFits

(* What was restored is imported, or not.                                    *)
LEMMA RestoreImportDoes ==
    ASSUME Shaped, NEW t \in restorers, RestoreImport(t), copy[t.run][t.blog] # None
    PROVE  /\ Plans /\ Progresses /\ Dones /\ Opens
           /\ Marking(t.run, t.blog, "done") /\ Ends(t)
           /\ Threads
           /\ Imports(t.blog, copy[t.run][t.blog]) \/ snapshot' = snapshot
           /\ JobFits /\ RestorersFits /\ SnapshotFits /\ RestFits
           /\ UNCHANGED <<run, copy, store, broker, worker, request>>
  <1>1. job' = Marked(t, "done") /\ Ends(t) /\ ((snapshot[t.blog].version <
           MaxVersion /\ snapshot' = Imported(t.blog, copy[t.run][t.blog])) \/
           snapshot' = snapshot) /\ UNCHANGED <<run, copy, store, broker,
           worker, request, cancelling, importing>>
    BY DEF RestoreImport, database, wordpress, threads, requests
  <1>2. JobFits /\ Plans /\ Progresses /\ Dones /\ Opens /\ Marking(t.run, t.blog, "done")
    BY <1>1, MarkedKeeps DEF Marks
  <1>3. RestorersFits /\ Threads
    BY <1>1, EndsThreads
  <1>4. t.blog \in Blogs /\ copy[t.run][t.blog] \in Content
    BY CopyIn
  <1>5. SnapshotFits /\ (Imports(t.blog, copy[t.run][t.blog]) \/ snapshot' = snapshot)
    BY <1>1, <1>4, ImportedImports, RestHas DEF SnapshotFits
  <1> QED BY <1>1, <1>2, <1>3, <1>5, RestHas DEF RestFits

(* A restore fails.                                                          *)
LEMMA RestoreFailsDoes ==
    ASSUME Shaped, NEW t \in restorers, RestoreFails(t), copy[t.run][t.blog] # None
    PROVE  /\ Plans /\ Progresses /\ Dones /\ Opens
           /\ Marking(t.run, t.blog, "failed") /\ Ends(t)
           /\ Threads
           /\ OtherBlogs(t.blog)
           /\ store'[t.blog] = store[t.blog] \/ store'[t.blog].step = copy[t.run][t.blog].step
           /\ store'[t.blog] = store[t.blog] \/ t.blog \in undone'
           /\ JobFits /\ RestorersFits /\ StoreFits /\ RestFits
           /\ UNCHANGED <<run, copy, snapshot, broker, worker, request>>
  <1>1. job' = Marked(t, "failed") /\ Ends(t) /\ (store' = store \/ Passes(t)
           \/ Finalize(t)) /\ UNCHANGED <<run, copy, snapshot, broker, worker,
           request, cancelling, importing>>
    BY DEF RestoreFails, database, wordpress, threads, requests
  <1>2. JobFits /\ Plans /\ Progresses /\ Dones /\ Opens /\ Marking(t.run, t.blog, "failed")
    BY <1>1, MarkedKeeps DEF Marks
  <1>3. RestorersFits /\ Threads
    BY <1>1, EndsThreads
  <1>4. /\ StoreFits /\ OtherBlogs(t.blog)
        /\ store'[t.blog] = store[t.blog] \/ store'[t.blog].step = copy[t.run][t.blog].step
        /\ store'[t.blog] = store[t.blog] \/ t.blog \in undone'
    <2>1. CASE store' = store
      BY <2>1, RestHas DEF StoreFits, OtherBlogs
    <2> QED BY <1>1, <2>1, PassesDoes, FinalizeDoes
  <1> QED BY <1>1, <1>2, <1>3, <1>4, RestHas DEF RestFits

(* A restore thread dies.                                                    *)
LEMMA RestoreDiesDoes ==
    ASSUME Shaped, NEW t \in restorers, RestoreDies(t)
    PROVE  /\ Threads /\ Ends(t)
           /\ RestorersFits /\ RestFits
           /\ UNCHANGED <<run, job, copy, snapshot, store, broker, worker, request>>
  <1>1. Ends(t) /\ UNCHANGED <<run, job, copy, snapshot, store, broker, worker,
           request, cancelling, importing>>
    BY DEF RestoreDies, database, wordpress, threads, requests
  <1>2. RestorersFits /\ Threads /\ Ends(t)
    BY <1>1, EndsThreads
  <1> QED BY <1>1, <1>2, RestHas DEF RestFits

(* A restore without a thread is taken for abandoned.                        *)
LEMMA RestoreGoesStaleDoes ==
    ASSUME Shaped, NEW r \in Runs, NEW b \in Blogs, RestoreGoesStale(r, b)
    PROVE  /\ Plans /\ Progresses /\ Dones /\ Opens
           /\ Marking(r, b, "stale")
           /\ \A t \in restorers : t.run = r => t.blog # b
           /\ JobFits /\ RestFits
           /\ UNCHANGED <<run, copy, snapshot, store, broker, worker, restorers, request>>
  <1>1. job' = [job EXCEPT ![r][b].restore = "stale"] /\ job[r][b].restore =
           "running" /\ (\A t \in restorers : <<t.run, t.blog>> # <<r, b>>)
           /\ UNCHANGED <<run, copy, snapshot, store, broker, worker,
           restorers, request, cancelling, importing>>
    BY DEF RestoreGoesStale, database, wordpress, threads, requests
  <1>2. /\ JobFits /\ job'[r][b].restore = "stale" /\ Plans /\ Progresses /\ Dones /\ Opens
        /\ \A o \in Runs, c \in Blogs : o # r \/ c # b => job'[o][c].restore = job[o][c].restore
    BY <1>1, RestoreGets DEF RestorePut, Marks
  <1>3. Marking(r, b, "stale")
    BY <1>2 DEF Marking
  <1> QED BY <1>1, <1>2, <1>3, RestHas DEF RestFits, JobsKeep

(* The process dies and starts again.                                        *)
LEMMA RestartDoes ==
    ASSUME Shaped, Restart
    PROVE  /\ request' = None /\ restorers' = {}
           /\ \A o \in Runs : \/ run'[o].status = run[o].status /\ run[o].status # "running" /\ run'[o].stale = run[o].stale
                              \/ run[o].status = "running" /\ run'[o].status = "queued"
           /\ Plans /\ Progresses /\ Dones /\ Opens
           /\ \A o \in Runs, c \in Blogs : job'[o][c].restore # "running"
           /\ \A o \in Runs : \/ worker'[o].pc = "off"
                              \/ worker'[o].pc = "claim" /\ run'[o].status = "queued"
           /\ RunFits /\ JobFits /\ WorkerFits /\ RestorersFits /\ RequestFits /\ RestFits
           /\ UNCHANGED <<copy, snapshot, store, broker>>
  <1> DEFINE j(o, b) == IF o \in Recovered THEN Reclaimed(job[o])[b] ELSE job[o][b]
             k(o, b) == IF j(o, b).restore \in {"running", "stale"}
                        THEN [j(o, b) EXCEPT !.restore = "failed"] ELSE j(o, b)
             x(o) == IF run[o].status = "running"
                     THEN [run[o] EXCEPT !.status = "queued", !.stale = FALSE] ELSE run[o]
             w(o) == IF o \in Recovered THEN [Off EXCEPT !.pc = "claim"] ELSE Off
  <1>1. /\ run' = [o \in Runs |-> x(o)] /\ job' = [o \in Runs |-> [b \in Blogs |-> k(o, b)]]
        /\ worker' = [o \in Runs |-> w(o)] /\ restorers' = {} /\ request' = None
        /\ cancelling' = None /\ importing' = {} /\ UNCHANGED <<copy, snapshot, store, broker>>
    BY DEF Restart, wordpress
  <1>2. ASSUME NEW o \in Runs
        PROVE  /\ x(o) \in Run
               /\ \/ x(o).status = run[o].status /\ run[o].status # "running" /\ x(o).stale = run[o].stale
                  \/ run[o].status = "running" /\ x(o).status = "queued"
    BY RunHas DEF Run, Active
  <1>3. ASSUME NEW o \in Runs, NEW b \in Blogs
        PROVE  /\ k(o, b) \in Job /\ k(o, b).plan = job[o][b].plan /\ k(o, b).progress = job[o][b].progress
               /\ k(o, b).restore # "running"
               /\ k(o, b).status = "done" => job[o][b].status = "done"
               /\ k(o, b).status \in Open => job[o][b].status \in Open
    <2>1. job[o] \in [Blogs -> Job]
      BY DEF Shaped, TypeOK
    <2>2. /\ j(o, b) \in Job /\ j(o, b).plan = job[o][b].plan /\ j(o, b).progress = job[o][b].progress
          /\ j(o, b).restore = job[o][b].restore
          /\ j(o, b).status = "done" => job[o][b].status = "done"
          /\ j(o, b).status \in Open => job[o][b].status \in Open
      BY <2>1, ReclaimedJobs DEF Open
    <2> HIDE DEF j
    <2> QED BY <2>2 DEF Job, Marks
  <1>4. ASSUME NEW o \in Runs
        PROVE  /\ w(o) \in Worker /\ w(o).pc \in {"off", "claim"}
               /\ w(o).pc = "claim" => run[o].status \in {"running", "queued"}
    <2>1. Off \in Worker /\ Off.pc = "off" /\ [Off EXCEPT !.pc = "claim"] \in Worker
          /\ [Off EXCEPT !.pc = "claim"].pc = "claim"
      BY OffIn
    <2> QED BY <2>1 DEF Recovered
  <1> HIDE DEF j, k, x, w
  <1>5. /\ RunFits
        /\ \A o \in Runs : \/ run'[o].status = run[o].status /\ run[o].status # "running" /\ run'[o].stale = run[o].stale
                           \/ run[o].status = "running" /\ run'[o].status = "queued"
    BY <1>1, <1>2 DEF RunFits
  <1>6. JobFits /\ Plans /\ Progresses /\ Dones /\ Opens /\ \A o \in Runs, c \in Blogs : job'[o][c].restore # "running"
    BY <1>1, <1>3 DEF JobFits, JobsKeep, Plans, Progresses, Restores, Dones, Opens
  <1>7. /\ WorkerFits
        /\ \A o \in Runs : worker'[o].pc = "off" \/ (worker'[o].pc = "claim" /\ run[o].status \in {"running", "queued"})
    BY <1>1, <1>4 DEF WorkerFits
  <1>8. \A o \in Runs : worker'[o].pc = "claim" => run'[o].status = "queued"
    BY <1>5, <1>7
  <1> QED BY <1>1, <1>5, <1>6, <1>7, <1>8, RestHas DEF RestFits, RequestFits,
     RestorersFits

-----------------------------------------------------------------------------
(* The steps one by one: a key is a run, a blog, an attempt and a phase.     *)
Did ==
    \/ NotReady \/ Start \/ Resume \/ Retry \/ Restart
    \/ \E r \in Runs : 
          Create(r) \/ AskStart(r) \/ AskResume(r) \/ RequestPause(r) \/
          ReadCancel(r) \/ Cancel(r) \/ Claim(r) \/ VersionFence(r) \/
          FetchLive(r) \/ TakeCopy(r) \/ SaveProgress(r) \/ ProbeFinds(r) \/
          ProbeMisses(r) \/ Post(r) \/ PostAnswered(r) \/ PostRefused(r) \/
          Poll(r) \/ GiveUp(r) \/ Verify(r) \/ Refresh(r) \/ RefreshFails(r) \/
          FinishDone(r) \/ FinishFailed(r) \/ StopRun(r) \/ Leave(r) \/
          ExportFails(r) \/ ProbeUnheard(r) \/ PostUnheard(r) \/ PostFails(r) \/
          CannotVerify(r) \/ Die(r) \/ GoStale(r)
    \/ \E r \in Runs, b \in Blogs : 
          AskRetry(r, b) \/ Skip(r, b) \/ RestoreBlog(r, b) \/
          RestoreGoesStale(r, b)
    \/ \E b \in Blogs : 
          CheckImport(b) \/ Import(b) \/ Edit(b)
    \/ \E r \in Runs, b \in Blogs, n \in 1..MaxAttempt, k \in Phases : 
          /\ broker[<<r, b, n, k>>] = "running"
          /\ PhaseLands(<<r, b, n, k>>) \/ PhaseRefused(<<r, b, n, k>>) \/ PhaseDies(<<r, b, n, k>>)
    \/ \E t \in restorers : 
          RestorePasses(t) \/ RestoreFinalize(t) \/ RestoreVerify(t) \/
          RestoreFlag(t) \/ RestoreImport(t) \/ RestoreFails(t) \/
          RestoreDies(t)
    \/ UNCHANGED vars

(* Every step is one of them.                                                *)
LEMMA StepDid ==
    ASSUME [Next]_vars PROVE Did
  <1>1. ASSUME NEW key \in Running
        PROVE  \E r \in Runs, b \in Blogs, n \in 1..MaxAttempt, k \in Phases :
                  key = <<r, b, n, k>> /\ broker[<<r, b, n, k>>] = "running"
    BY DEF Running, Keys
  <1>2. CASE \E r \in Runs : WorkerStep(r)
    BY <1>2 DEF WorkerStep, Step, Did
  <1>3. CASE Follows
    <2>1. CASE \E key \in Running : PhaseLands(key) \/ PhaseRefused(key)
      <3>1. PICK key \in Running : PhaseLands(key) \/ PhaseRefused(key)
        BY <2>1
      <3>2. PICK r \in Runs, b \in Blogs, n \in 1..MaxAttempt, k \in Phases :
               key = <<r, b, n, k>> /\ broker[<<r, b, n, k>>] = "running"
        BY <1>1
      <3>3. PhaseLands(<<r, b, n, k>>) \/ PhaseRefused(<<r, b, n, k>>)
        BY <3>1, <3>2
      <3> QED BY <3>2, <3>3 DEF Did
    <2>2. CASE \E t \in restorers : RestoreStep(t)
      BY <2>2 DEF RestoreStep, Did
    <2>3. CASE Ensues
      BY <2>1, <2>3 DEF Ensues, Did
    <2> QED BY <1>3, <2>2, <2>3 DEF Follows
  <1>4. CASE Moves
    <2>1. CASE \E key \in Running : PhaseDies(key)
      <3>1. PICK key \in Running : PhaseDies(key)
        BY <2>1
      <3>2. PICK r \in Runs, b \in Blogs, n \in 1..MaxAttempt, k \in Phases :
               key = <<r, b, n, k>> /\ broker[<<r, b, n, k>>] = "running"
        BY <1>1
      <3>3. PhaseDies(<<r, b, n, k>>)
        BY <3>1, <3>2
      <3> QED BY <3>2, <3>3 DEF Did
    <2>2. CASE \E r \in Runs : WorkerFails(r)
      BY <2>2 DEF WorkerFails, Did
    <2>3. CASE Acts
      BY <2>1, <2>2, <2>3 DEF Acts, Did
    <2>4. CASE Restart \/ (\E r \in Runs, b \in Blogs : RestoreBlog(r, b)) \/ (\E t \in restorers : RestoreFails(t))
      BY <2>4 DEF Did
    <2> QED BY <1>4, <2>3, <2>4 DEF Moves
  <1> QED BY <1>2, <1>3, <1>4 DEF Next, Did

(* What is remembered of restores: none of it goes, but for those let in     *)
(* beside another writer when the process starts again.                      *)
Remembers == (beside \subseteq beside' \/ Restart) /\ undone \subseteq undone'
LEMMA StepRemembers ==
    ASSUME Shaped, [Next]_vars PROVE Remembers /\ HistoryFits
  <1>1. beside \subseteq Runs \X Blogs /\ undone \subseteq Blogs
    BY RestHas
  <1>2. CASE UNCHANGED history
    BY <1>1, <1>2 DEF history, Remembers, HistoryFits
  <1>3. CASE Restart
    BY <1>1, <1>3 DEF Restart, Remembers, HistoryFits
  <1>4. ASSUME NEW r \in Runs, NEW b \in Blogs, RestoreBlog(r, b) PROVE Remembers /\ HistoryFits
    BY <1>1, <1>4 DEF RestoreBlog, Remembers, HistoryFits
  <1>5. ASSUME NEW t \in restorers, RestorePasses(t) \/ RestoreFinalize(t) \/ RestoreFails(t)
        PROVE  Remembers /\ HistoryFits
    <2>1. t.blog \in Blogs
      BY RestHas
    <2>2. beside' = beside /\ (undone' = undone \/ undone' = undone \cup {t.blog})
      BY <1>5 DEF RestorePasses, RestoreFinalize, RestoreFails, Passes, Finalize
    <2> QED BY <1>1, <2>1, <2>2 DEF Remembers, HistoryFits
  <1>6. CASE \E r \in Runs : WorkerStep(r)
    BY <1>2, <1>6 DEF WorkerStep
  <1>7. CASE Follows
    BY <1>2, <1>5, <1>7 DEF Follows, RestoreStep
  <1>8. CASE Moves
    BY <1>2, <1>3, <1>4, <1>5, <1>8 DEF Moves
  <1>9. CASE UNCHANGED vars
    BY <1>2, <1>9 DEF vars
  <1> QED BY <1>6, <1>7, <1>8, <1>9 DEF Next

(* What does not change keeps its type.                                      *)
LEMMA StillFits ==
    ASSUME Shaped
    PROVE  /\ run' = run => RunFits
           /\ job' = job => JobFits
           /\ copy' = copy => CopyFits
           /\ snapshot' = snapshot => SnapshotFits
           /\ store' = store => StoreFits
           /\ broker' = broker => BrokerFits
           /\ worker' = worker => WorkerFits
           /\ restorers' = restorers => RestorersFits
           /\ request' = request => RequestFits
           /\ UNCHANGED <<cancelling, importing>> => RestFits
  <1>1. run \in [Runs -> Run] /\ job \in [Runs -> [Blogs -> Job]] /\ worker \in [Runs -> Worker]
    BY DEF Shaped, TypeOK
  <1> QED BY <1>1, RestHas DEF RunFits, JobFits, CopyFits, SnapshotFits, StoreFits, BrokerFits,
          WorkerFits, RestorersFits, RequestFits, RestFits

(* Every step keeps the types.                                               *)
LEMMA FitStep ==
    ASSUME Shaped, Threaded, Did PROVE AllFit
  <1>1. ASSUME NotReady PROVE AllFit
    BY <1>1, NotReadyDoes, StillFits DEF AllFit, Threaded
  <1>2. ASSUME Start PROVE AllFit
    BY <1>2, StartDoes, StillFits DEF Wakes, Elsewhere, SameRuns, AllFit,
       Threaded
  <1>3. ASSUME Resume PROVE AllFit
    BY <1>3, ResumeDoes, StillFits DEF Wakes, Elsewhere, OtherRuns, Opens,
       JobsKeep, Plans, Progresses, Restores, Dones, AllFit, Threaded
  <1>4. ASSUME Retry PROVE AllFit
    BY <1>4, RetryDoes, StillFits DEF Wakes, Elsewhere, OtherRuns, JobsKeep,
       Plans, Progresses, Restores, Dones, AllFit, Threaded
  <1>5. ASSUME Restart PROVE AllFit
    BY <1>5, RestartDoes, StillFits DEF Opens, JobsKeep, Plans, Progresses,
       Restores, Dones, AllFit, Threaded
  <1>6. ASSUME NEW r \in Runs, Create(r) PROVE AllFit
    BY <1>6, CreateDoes, StillFits DEF OtherRuns, AllFit, Threaded
  <1>7. ASSUME NEW r \in Runs, AskStart(r) PROVE AllFit
    BY <1>7, AskStartDoes, StillFits DEF AllFit, Threaded
  <1>8. ASSUME NEW r \in Runs, AskResume(r) PROVE AllFit
    BY <1>8, AskResumeDoes, StillFits DEF AllFit, Threaded
  <1>9. ASSUME NEW r \in Runs, RequestPause(r) PROVE AllFit
    BY <1>9, RequestPauseDoes, StillFits DEF SameRuns, AllFit, Threaded
  <1>10. ASSUME NEW r \in Runs, ReadCancel(r) PROVE AllFit
    BY <1>10, ReadCancelDoes, StillFits DEF AllFit, Threaded
  <1>11. ASSUME NEW r \in Runs, Cancel(r) PROVE AllFit
    BY <1>11, CancelDoes, StillFits DEF OtherRuns, Opens, JobsKeep, Plans,
       Progresses, Restores, Dones, AllFit, Threaded
  <1>12. ASSUME NEW r \in Runs, Claim(r) PROVE AllFit
    BY <1>12, ClaimDoes, StillFits DEF Leaves, Elsewhere, OtherRuns, Opens,
       JobsKeep, Plans, Progresses, Restores, Dones, AllFit, Threaded
  <1>13. ASSUME NEW r \in Runs, VersionFence(r) PROVE AllFit
    BY <1>13, VersionFenceDoes, StillFits DEF Turns, Stays, Elsewhere, AllFit,
       Threaded
  <1>14. ASSUME NEW r \in Runs, FetchLive(r) PROVE AllFit
    BY <1>14, FetchLiveDoes, StillFits DEF Stays, Elsewhere, Turns, AllFit,
       Threaded
  <1>15. ASSUME NEW r \in Runs, TakeCopy(r) PROVE AllFit
    BY <1>15, TakeCopyDoes, StillFits DEF Saves, Elsewhere, AllFit, Threaded
  <1>16. ASSUME NEW r \in Runs, SaveProgress(r) PROVE AllFit
    BY <1>16, SaveProgressDoes, StillFits DEF Turns, Stays, Elsewhere, Beats,
       OtherRuns, Plans, Restores, Dones, Opens, AllFit, Threaded
  <1>17. ASSUME NEW r \in Runs, ProbeFinds(r) PROVE AllFit
    BY <1>17, ProbeFindsDoes, StillFits DEF Turns, Stays, Elsewhere, Waits,
       Advances, Saves, AllFit, Threaded
  <1>18. ASSUME NEW r \in Runs, ProbeMisses(r) PROVE AllFit
    BY <1>18, ProbeMissesDoes, StillFits DEF Turns, Stays, Elsewhere, AllFit,
       Threaded
  <1>19. ASSUME NEW r \in Runs, Post(r) PROVE AllFit
    BY <1>19, PostDoes, StillFits DEF Waits, Stays, Elsewhere, Posts, AllFit,
       Threaded
  <1>20. ASSUME NEW r \in Runs, PostAnswered(r) PROVE AllFit
    BY <1>20, PostAnsweredDoes, StillFits DEF Turns, Stays, Elsewhere, Waits,
       Advances, Saves, AllFit, Threaded
  <1>21. ASSUME NEW r \in Runs, PostRefused(r) PROVE AllFit
    BY <1>21, PostRefusedDoes, StillFits DEF Turns, Stays, Elsewhere, AllFit,
       Threaded
  <1>22. ASSUME NEW r \in Runs, Poll(r) PROVE AllFit
    BY <1>22, PollDoes, StillFits DEF Turns, Stays, Elsewhere, Advances, Saves,
       AllFit, Threaded
  <1>23. ASSUME NEW r \in Runs, GiveUp(r) PROVE AllFit
    BY <1>23, GiveUpDoes, StillFits DEF Turns, Stays, Elsewhere, AllFit,
       Threaded
  <1>24. ASSUME NEW r \in Runs, Verify(r) PROVE AllFit
    BY <1>24, VerifyDoes, StillFits DEF Stays, Elsewhere, Turns, AllFit,
       Threaded
  <1>25. ASSUME NEW r \in Runs, Refresh(r) PROVE AllFit
    BY <1>25, RefreshDoes, StillFits DEF Saves, Elsewhere, Imports, AllFit,
       Threaded
  <1>26. ASSUME NEW r \in Runs, RefreshFails(r) PROVE AllFit
    BY <1>26, RefreshFailsDoes, StillFits DEF Elsewhere, AllFit, Threaded
  <1>27. ASSUME NEW r \in Runs, FinishDone(r) PROVE AllFit
    BY <1>27, FinishDoneDoes, StillFits DEF Leaves, Elsewhere, Beats,
       OtherRuns, Plans, Progresses, Restores, Opens, AllFit, Threaded
  <1>28. ASSUME NEW r \in Runs, FinishFailed(r) PROVE AllFit
    BY <1>28, FinishFailedDoes, StillFits DEF Leaves, Elsewhere, Beats,
       OtherRuns, Opens, JobsKeep, Plans, Progresses, Restores, Dones, AllFit,
       Threaded
  <1>29. ASSUME NEW r \in Runs, StopRun(r) PROVE AllFit
    BY <1>29, StopRunDoes, StillFits DEF Leaves, Elsewhere, OtherRuns, AllFit,
       Threaded
  <1>30. ASSUME NEW r \in Runs, Leave(r) PROVE AllFit
    BY <1>30, LeaveDoes, StillFits DEF Leaves, Elsewhere, AllFit, Threaded
  <1>31. ASSUME NEW r \in Runs, ExportFails(r) PROVE AllFit
    BY <1>31, ExportFailsDoes, StillFits DEF Turns, Stays, Elsewhere, AllFit,
       Threaded
  <1>32. ASSUME NEW r \in Runs, ProbeUnheard(r) PROVE AllFit
    BY <1>32, ProbeUnheardDoes, StillFits DEF Turns, Stays, Elsewhere, AllFit,
       Threaded
  <1>33. ASSUME NEW r \in Runs, PostUnheard(r) PROVE AllFit
    BY <1>33, PostUnheardDoes, StillFits DEF Turns, Stays, Elsewhere, Posts,
       AllFit, Threaded
  <1>34. ASSUME NEW r \in Runs, PostFails(r) PROVE AllFit
    BY <1>34, PostFailsDoes, StillFits DEF Turns, Stays, Elsewhere, AllFit,
       Threaded
  <1>35. ASSUME NEW r \in Runs, CannotVerify(r) PROVE AllFit
    BY <1>35, CannotVerifyDoes, StillFits DEF Saves, Elsewhere, AllFit,
       Threaded
  <1>36. ASSUME NEW r \in Runs, Die(r) PROVE AllFit
    BY <1>36, DieDoes, StillFits DEF Leaves, Elsewhere, AllFit, Threaded
  <1>37. ASSUME NEW r \in Runs, GoStale(r) PROVE AllFit
    BY <1>37, GoStaleDoes, StillFits DEF OtherRuns, AllFit, Threaded
  <1>38. ASSUME NEW r \in Runs, NEW b \in Blogs, AskRetry(r, b) PROVE AllFit
    BY <1>38, AskRetryDoes, StillFits DEF AllFit, Threaded
  <1>39. ASSUME NEW r \in Runs, NEW b \in Blogs, Skip(r, b) PROVE AllFit
    BY <1>39, SkipDoes, StillFits DEF Wakes, Elsewhere, OtherRuns, Opens,
       JobsKeep, Plans, Progresses, Restores, Dones, AllFit, Threaded
  <1>40. ASSUME NEW r \in Runs, NEW b \in Blogs, RestoreBlog(r, b) PROVE AllFit
    BY <1>40, RestoreBlogDoes, StillFits DEF Plans, Progresses, Dones, Opens,
       AllFit, Threaded
  <1>41. ASSUME NEW r \in Runs, NEW b \in Blogs, RestoreGoesStale(r, b) PROVE
     AllFit
    BY <1>41, RestoreGoesStaleDoes, StillFits DEF Opens, JobsKeep, Plans,
       Progresses, Restores, Dones, AllFit, Threaded
  <1>42. ASSUME NEW b \in Blogs, CheckImport(b) PROVE AllFit
    BY <1>42, CheckImportDoes, StillFits DEF AllFit, Threaded
  <1>43. ASSUME NEW b \in Blogs, Import(b) PROVE AllFit
    BY <1>43, ImportDoes, StillFits DEF Imports, AllFit, Threaded
  <1>44. ASSUME NEW b \in Blogs, Edit(b) PROVE AllFit
    BY <1>44, EditDoes, StillFits DEF OtherBlogs, AllFit, Threaded
  <1>45. ASSUME NEW r \in Runs, NEW b \in Blogs, NEW n \in 1..MaxAttempt, NEW k
     \in Phases, broker[<<r, b, n, k>>] = "running", PhaseLands(<<r, b, n, k>>)
     PROVE AllFit
    BY <1>45, PhaseLandsDoes, StillFits DEF Lands, OtherBlogs, Settles, AllFit,
       Threaded
  <1>46. ASSUME NEW r \in Runs, NEW b \in Blogs, NEW n \in 1..MaxAttempt, NEW k
     \in Phases, broker[<<r, b, n, k>>] = "running", PhaseRefused(<<r, b, n,
     k>>) PROVE AllFit
    BY <1>46, PhaseRefusedDoes, StillFits DEF Settles, AllFit, Threaded
  <1>47. ASSUME NEW r \in Runs, NEW b \in Blogs, NEW n \in 1..MaxAttempt, NEW k
     \in Phases, broker[<<r, b, n, k>>] = "running", PhaseDies(<<r, b, n, k>>)
     PROVE AllFit
    BY <1>47, PhaseDiesDoes, StillFits DEF Lands, OtherBlogs, Settles, AllFit,
       Threaded
  <1>48. ASSUME NEW t \in restorers, RestorePasses(t) PROVE AllFit
    BY <1>48, RestorePassesDoes, StillFits DEF OtherBlogs, Threads, AllFit,
       Threaded
  <1>49. ASSUME NEW t \in restorers, RestoreFinalize(t) PROVE AllFit
    BY <1>49, RestoreFinalizeDoes, StillFits DEF OtherBlogs, Threads, AllFit,
       Threaded
  <1>50. ASSUME NEW t \in restorers, RestoreVerify(t) PROVE AllFit
    BY <1>50, RestoreVerifyDoes, StillFits DEF Opens, JobsKeep, Plans,
       Progresses, Restores, Dones, Threads, AllFit, Threaded
  <1>51. ASSUME NEW t \in restorers, RestoreFlag(t) PROVE AllFit
    BY <1>51, RestoreFlagDoes, StillFits DEF Opens, JobsKeep, Plans,
       Progresses, Restores, Dones, Threads, AllFit, Threaded
  <1>52. ASSUME NEW t \in restorers, RestoreImport(t) PROVE AllFit
    BY <1>52, RestoreImportDoes, StillFits DEF Opens, JobsKeep, Plans,
       Progresses, Restores, Dones, Imports, Threads, AllFit, Threaded
  <1>53. ASSUME NEW t \in restorers, RestoreFails(t) PROVE AllFit
    BY <1>53, RestoreFailsDoes, StillFits DEF Opens, JobsKeep, Plans,
       Progresses, Restores, Dones, OtherBlogs, Threads, AllFit, Threaded
  <1>54. ASSUME NEW t \in restorers, RestoreDies(t) PROVE AllFit
    BY <1>54, RestoreDiesDoes, StillFits DEF Threads, AllFit, Threaded
  <1>55. CASE UNCHANGED vars
    BY <1>55, StillFits DEF vars, database, wordpress, threads, requests,
       AllFit, Threaded
  <1> QED BY <1>1, <1>2, <1>3, <1>4, <1>5, <1>6, <1>7, <1>8, <1>9, <1>10,
     <1>11, <1>12, <1>13, <1>14, <1>15, <1>16, <1>17, <1>18, <1>19, <1>20,
     <1>21, <1>22, <1>23, <1>24, <1>25, <1>26, <1>27, <1>28, <1>29, <1>30,
     <1>31, <1>32, <1>33, <1>34, <1>35, <1>36, <1>37, <1>38, <1>39, <1>40,
     <1>41, <1>42, <1>43, <1>44, <1>45, <1>46, <1>47, <1>48, <1>49, <1>50,
     <1>51, <1>52, <1>53, <1>54, <1>55 DEF Did

(* What the worker in a blog may rely on.                                    *)
LEMMA KnownSound ==
    ASSUME Shaped, AllLanded, NEW r \in Runs, worker[r].pc \in InBlog
    PROVE  Sound(r, worker[r].blog, worker[r].progress)
  BY WorkerHas DEF AllLanded, Landed

(* A worker that stays, with its plan, stays placed.                         *)
LEMMA PlacedStays ==
    ASSUME Shaped, NEW q \in Runs, worker'[q] = worker[q], job'[q] = job[q] \/ Plans
    PROVE  Placed(q)'
  BY WorkerHas DEF Shaped, Placed, Plans, InBlog

(* A worker that posts, or fails, is placed.                                 *)
LEMMA PlacedTurns ==
    ASSUME Shaped, NEW q \in Runs, NEW pc \in {"post", "fail"}, worker[q].pc \in InBlog,
           pc = "post" => worker[q].pc = "phase", Turns(q, pc)
    PROVE  Placed(q)'
  BY WorkerHas DEF Shaped, Placed, InBlog, Turns, Stays

(* A worker that has seen a phase done is placed.                            *)
LEMMA PlacedAdvances ==
    ASSUME Shaped, NEW q \in Runs, worker[q].pc \in {"phase", "post", "wait"}, Advances(q)
    PROVE  Placed(q)'
  <1>1. /\ worker[q].blog \in BlogsOf(q) /\ worker[q].progress.at < Last /\ worker[q].progress.taken
        /\ worker[q].progress.at \in 0..Last
    BY WorkerHas DEF Shaped, Placed, InBlog
  <1>2. worker[q].progress.at + 1 \in 0..Last
    BY <1>1, LastIn
  <1>3. CASE worker[q].progress.at + 1 < Last
    BY <1>1, <1>2, <1>3 DEF Placed, InBlog, Advances, Saves, NextPhase, Known
  <1>4. CASE worker[q].progress.at + 1 = Last
    BY <1>1, <1>2, <1>4, LastIn DEF Placed, InBlog, Advances, Saves, NextPhase, Known
  <1> QED BY <1>1, <1>2, <1>3, <1>4, LastIn

(* A worker that waits for a phase is placed.                                *)
LEMMA PlacedWaits ==
    ASSUME Shaped, NEW q \in Runs, worker[q].pc \in {"phase", "post", "wait"}, Waits(q)
    PROVE  Placed(q)'
  BY WorkerHas DEF Shaped, Placed, InBlog, Waits, Stays

(* A worker that saves a report of failure is placed.                        *)
LEMMA PlacedReported ==
    ASSUME Shaped, NEW q \in Runs, worker[q].pc \in InBlog, Reported(q)
    PROVE  Placed(q)'
  BY WorkerHas DEF Placed, InBlog, Reported, Saves

(* Every step leaves the worker of a run where its progress allows.          *)
LEMMA PlacedStep ==
    ASSUME Shaped, Threaded, AllFresh, AllLanded, NEW q \in Runs, Did PROVE Placed(q)'
  <1>1. ASSUME NotReady PROVE Placed(q)'
    BY <1>1, NotReadyDoes, WorkerHas, LastIn DEF Threaded, Shaped, Placed,
       InBlog, Known, NextPhase
  <1>2. ASSUME Start PROVE Placed(q)'
    BY <1>2, StartDoes, WorkerHas, LastIn, RequestHas DEF Wakes, Elsewhere,
       SameRuns, Threaded, Shaped, Placed, InBlog, Known, NextPhase
  <1>3. ASSUME Resume PROVE Placed(q)'
    BY <1>3, ResumeDoes, WorkerHas, LastIn, RequestHas DEF Wakes, Elsewhere,
       OtherRuns, Opens, JobsKeep, Plans, Progresses, Restores, Dones,
       Threaded, Shaped, Placed, InBlog, Known, NextPhase
  <1>4. ASSUME Retry PROVE Placed(q)'
    <2>1. Plans /\ (worker'[q] = worker[q] \/ worker'[q].pc = "claim")
      BY <1>4, RetryDoes, RequestHas DEF Wakes, Elsewhere, JobsKeep
    <2>2. CASE worker'[q].pc = "claim"
      BY <2>2 DEF Placed, InBlog
    <2> QED BY <2>1, <2>2, PlacedStays
  <1>5. ASSUME Restart PROVE Placed(q)'
    BY <1>5, RestartDoes, WorkerHas, LastIn DEF Opens, JobsKeep, Plans,
       Progresses, Restores, Dones, Threaded, Shaped, Placed, InBlog, Known,
       NextPhase
  <1>6. ASSUME NEW r \in Runs, Create(r) PROVE Placed(q)'
    BY <1>6, CreateDoes, WorkerHas, LastIn DEF OtherRuns, Threaded, Shaped,
       Placed, InBlog, Known, NextPhase, AllFresh, Fresh
  <1>7. ASSUME NEW r \in Runs, AskStart(r) PROVE Placed(q)'
    BY <1>7, AskStartDoes, WorkerHas, LastIn DEF Threaded, Shaped, Placed,
       InBlog, Known, NextPhase
  <1>8. ASSUME NEW r \in Runs, AskResume(r) PROVE Placed(q)'
    BY <1>8, AskResumeDoes, WorkerHas, LastIn DEF Threaded, Shaped, Placed,
       InBlog, Known, NextPhase
  <1>9. ASSUME NEW r \in Runs, RequestPause(r) PROVE Placed(q)'
    BY <1>9, RequestPauseDoes, WorkerHas, LastIn DEF SameRuns, Threaded,
       Shaped, Placed, InBlog, Known, NextPhase
  <1>10. ASSUME NEW r \in Runs, ReadCancel(r) PROVE Placed(q)'
    BY <1>10, ReadCancelDoes, WorkerHas, LastIn DEF Threaded, Shaped, Placed,
       InBlog, Known, NextPhase
  <1>11. ASSUME NEW r \in Runs, Cancel(r) PROVE Placed(q)'
    BY <1>11, CancelDoes, WorkerHas, LastIn DEF OtherRuns, Opens, JobsKeep,
       Plans, Progresses, Restores, Dones, Threaded, Shaped, Placed, InBlog,
       Known, NextPhase
  <1>12. ASSUME NEW r \in Runs, Claim(r) PROVE Placed(q)'
    BY <1>12, ClaimDoes, WorkerHas, LastIn DEF Leaves, Elsewhere, OtherRuns,
       Opens, JobsKeep, Plans, Progresses, Restores, Dones, Threaded, Shaped,
       Placed, InBlog, Known, NextPhase
  <1>13. ASSUME NEW r \in Runs, VersionFence(r) PROVE Placed(q)'
    BY <1>13, VersionFenceDoes, WorkerHas, LastIn, KnownSound DEF Turns, Stays,
       Elsewhere, Threaded, Shaped, Placed, InBlog, Known, NextPhase, Sound
  <1>14. ASSUME NEW r \in Runs, FetchLive(r) PROVE Placed(q)'
    <2>1. CASE q # r
      <3>1. worker'[q] = worker[q] /\ job' = job
        BY <1>14, <2>1, FetchLiveDoes DEF Elsewhere, Turns, Stays, Saves, Waits, Advances, Reported
      <3> QED BY <3>1, PlacedStays
    <2>2. CASE q = r
      <3>1. CASE Reported(r)
        BY <1>14, <2>2, <3>1, FetchLiveDoes, PlacedReported DEF InBlog
      <3>2. CASE /\ store[worker[r].blog] = Mine(r).plan /\ Stays(r) /\ worker'[r].live = store[worker[r].blog]
                 /\ worker'[r].pc = (IF Known(r).taken THEN "phase" ELSE "copy")
        <4>1. /\ worker[q].blog \in BlogsOf(q) /\ worker[q].blog \in Blogs /\ worker[q].progress.at = 0
              /\ store[worker[q].blog] # None /\ worker[q].progress.taken \in BOOLEAN /\ job' = job
              /\ Mine(q).plan = job[q][worker[q].blog].plan
          BY <1>14, <2>2, FetchLiveDoes, WorkerHas, RestHas, NoneAssumption DEF Shaped, Placed, InBlog, Mine
        <4> QED BY <2>2, <3>2, <4>1, LastIn DEF Placed, InBlog, Stays, Known
      <3> QED BY <1>14, <3>1, <3>2, FetchLiveDoes
    <2> QED BY <2>1, <2>2
  <1>15. ASSUME NEW r \in Runs, TakeCopy(r) PROVE Placed(q)'
    <2>1. CASE q # r
      <3>1. worker'[q] = worker[q] /\ job' = job
        <4>1. Elsewhere(r) /\ job' = job
          BY <1>15, TakeCopyDoes DEF Saves
        <4> QED BY <2>1, <4>1 DEF Elsewhere
      <3> QED BY <3>1, PlacedStays
    <2>2. CASE q = r
      <3>1. worker[q].blog \in BlogsOf(q) /\ worker[q].progress.at = 0
        BY <1>15, <2>2, TakeCopyDoes DEF Shaped, Placed, InBlog
      <3>2. Saves(q, 0, TRUE, Known(q).refreshed, "phase")
        BY <1>15, <2>2, <3>1, TakeCopyDoes DEF Known
      <3> QED BY <3>1, <3>2, LastIn DEF Placed, InBlog, Saves
    <2> QED BY <2>1, <2>2
  <1>16. ASSUME NEW r \in Runs, SaveProgress(r) PROVE Placed(q)'
    BY <1>16, SaveProgressDoes, WorkerHas, LastIn DEF Turns, Stays, Elsewhere,
       Beats, OtherRuns, Plans, Restores, Dones, Opens, Threaded, Shaped,
       Placed, InBlog, Known, NextPhase
  <1>17. ASSUME NEW r \in Runs, ProbeFinds(r) PROVE Placed(q)'
    <2>1. CASE q # r
      <3>1. worker'[q] = worker[q] /\ job' = job
        BY <1>17, <2>1, ProbeFindsDoes DEF Elsewhere, Turns, Stays, Saves, Waits, Advances, Reported
      <3> QED BY <3>1, PlacedStays
    <2>2. CASE q = r
      <3>1. worker[q].pc \in {"phase", "post", "wait"} /\ (Advances(q) \/ Waits(q) \/ Turns(q, "fail") \/ Reported(q))
        BY <1>17, <2>2, ProbeFindsDoes
      <3> QED BY <3>1, PlacedAdvances, PlacedWaits, PlacedTurns, PlacedReported DEF InBlog
    <2> QED BY <2>1, <2>2
  <1>18. ASSUME NEW r \in Runs, ProbeMisses(r) PROVE Placed(q)'
    BY <1>18, ProbeMissesDoes, WorkerHas, LastIn DEF Turns, Stays, Elsewhere,
       Threaded, Shaped, Placed, InBlog, Known, NextPhase
  <1>19. ASSUME NEW r \in Runs, Post(r) PROVE Placed(q)'
    BY <1>19, PostDoes, WorkerHas, LastIn DEF Waits, Stays, Elsewhere, Posts,
       Threaded, Shaped, Placed, InBlog, Known, NextPhase
  <1>20. ASSUME NEW r \in Runs, PostAnswered(r) PROVE Placed(q)'
    <2>1. CASE q # r
      <3>1. worker'[q] = worker[q] /\ job' = job
        BY <1>20, <2>1, PostAnsweredDoes DEF Elsewhere, Turns, Stays, Saves, Waits, Advances, Reported
      <3> QED BY <3>1, PlacedStays
    <2>2. CASE q = r
      <3>1. worker[q].pc \in {"phase", "post", "wait"} /\ (Advances(q) \/ Waits(q) \/ Turns(q, "fail") \/ Reported(q))
        BY <1>20, <2>2, PostAnsweredDoes
      <3> QED BY <3>1, PlacedAdvances, PlacedWaits, PlacedTurns, PlacedReported DEF InBlog
    <2> QED BY <2>1, <2>2
  <1>21. ASSUME NEW r \in Runs, PostRefused(r) PROVE Placed(q)'
    BY <1>21, PostRefusedDoes, WorkerHas, LastIn DEF Turns, Stays, Elsewhere,
       Threaded, Shaped, Placed, InBlog, Known, NextPhase
  <1>22. ASSUME NEW r \in Runs, Poll(r) PROVE Placed(q)'
    <2>1. CASE q # r
      <3>1. worker'[q] = worker[q] /\ job' = job
        BY <1>22, <2>1, PollDoes DEF Elsewhere, Turns, Stays, Saves, Waits, Advances, Reported
      <3> QED BY <3>1, PlacedStays
    <2>2. CASE q = r
      <3>1. worker[q].pc \in {"phase", "post", "wait"} /\ (Advances(q) \/ Waits(q) \/ Turns(q, "fail") \/ Reported(q))
        BY <1>22, <2>2, PollDoes
      <3> QED BY <3>1, PlacedAdvances, PlacedWaits, PlacedTurns, PlacedReported DEF InBlog
    <2> QED BY <2>1, <2>2
  <1>23. ASSUME NEW r \in Runs, GiveUp(r) PROVE Placed(q)'
    BY <1>23, GiveUpDoes, WorkerHas, LastIn DEF Turns, Stays, Elsewhere,
       Threaded, Shaped, Placed, InBlog, Known, NextPhase
  <1>24. ASSUME NEW r \in Runs, Verify(r) PROVE Placed(q)'
    <2>1. CASE q # r
      <3>1. worker'[q] = worker[q] /\ job' = job
        BY <1>24, <2>1, VerifyDoes DEF Elsewhere, Turns, Stays, Saves, Waits, Advances, Reported
      <3> QED BY <3>1, PlacedStays
    <2>2. CASE q = r
      <3>1. CASE Reported(r)
        BY <1>24, <2>2, <3>1, VerifyDoes, PlacedReported DEF InBlog
      <3>2. CASE Stays(r) /\ worker'[r].pc = "import" /\ worker'[r].live = store[worker[r].blog]
        <4>1. /\ worker[q].blog \in BlogsOf(q) /\ worker[q].progress.at = Last /\ store[worker[q].blog] # None
          BY <1>24, <2>2, VerifyDoes, WorkerHas, RestHas, NoneAssumption DEF Shaped, Placed, InBlog
        <4> QED BY <2>2, <3>2, <4>1 DEF Placed, InBlog, Stays
      <3> QED BY <1>24, <3>1, <3>2, VerifyDoes
    <2> QED BY <2>1, <2>2
  <1>25. ASSUME NEW r \in Runs, Refresh(r) PROVE Placed(q)'
    <2>1. CASE q # r
      <3>1. worker'[q] = worker[q] /\ job' = job
        BY <1>25, <2>1, RefreshDoes DEF Elsewhere, Turns, Stays, Saves, Waits, Advances, Reported
      <3> QED BY <3>1, PlacedStays
    <2>2. CASE q = r
      <3>1. worker[q].blog \in BlogsOf(q) /\ worker[q].progress.at = Last
        BY <1>25, <2>2, RefreshDoes DEF Shaped, Placed, InBlog
      <3> QED BY <1>25, <2>2, <3>1, RefreshDoes DEF Placed, InBlog, Saves, Known
    <2> QED BY <2>1, <2>2
  <1>26. ASSUME NEW r \in Runs, RefreshFails(r) PROVE Placed(q)'
    BY <1>26, RefreshFailsDoes, WorkerHas, LastIn DEF Elsewhere, Threaded,
       Shaped, Placed, InBlog, Known, NextPhase
  <1>27. ASSUME NEW r \in Runs, FinishDone(r) PROVE Placed(q)'
    BY <1>27, FinishDoneDoes, WorkerHas, LastIn DEF Leaves, Elsewhere, Beats,
       OtherRuns, Plans, Progresses, Restores, Opens, Threaded, Shaped, Placed,
       InBlog, Known, NextPhase
  <1>28. ASSUME NEW r \in Runs, FinishFailed(r) PROVE Placed(q)'
    BY <1>28, FinishFailedDoes, WorkerHas, LastIn DEF Leaves, Elsewhere, Beats,
       OtherRuns, Opens, JobsKeep, Plans, Progresses, Restores, Dones,
       Threaded, Shaped, Placed, InBlog, Known, NextPhase
  <1>29. ASSUME NEW r \in Runs, StopRun(r) PROVE Placed(q)'
    BY <1>29, StopRunDoes, WorkerHas, LastIn DEF Leaves, Elsewhere, OtherRuns,
       Threaded, Shaped, Placed, InBlog, Known, NextPhase
  <1>30. ASSUME NEW r \in Runs, Leave(r) PROVE Placed(q)'
    BY <1>30, LeaveDoes, WorkerHas, LastIn DEF Leaves, Elsewhere, Threaded,
       Shaped, Placed, InBlog, Known, NextPhase
  <1>31. ASSUME NEW r \in Runs, ExportFails(r) PROVE Placed(q)'
    BY <1>31, ExportFailsDoes, WorkerHas, LastIn DEF Turns, Stays, Elsewhere,
       Threaded, Shaped, Placed, InBlog, Known, NextPhase
  <1>32. ASSUME NEW r \in Runs, ProbeUnheard(r) PROVE Placed(q)'
    BY <1>32, ProbeUnheardDoes, WorkerHas, LastIn DEF Turns, Stays, Elsewhere,
       Threaded, Shaped, Placed, InBlog, Known, NextPhase
  <1>33. ASSUME NEW r \in Runs, PostUnheard(r) PROVE Placed(q)'
    BY <1>33, PostUnheardDoes, WorkerHas, LastIn DEF Turns, Stays, Elsewhere,
       Posts, Threaded, Shaped, Placed, InBlog, Known, NextPhase
  <1>34. ASSUME NEW r \in Runs, PostFails(r) PROVE Placed(q)'
    BY <1>34, PostFailsDoes, WorkerHas, LastIn DEF Turns, Stays, Elsewhere,
       Threaded, Shaped, Placed, InBlog, Known, NextPhase
  <1>35. ASSUME NEW r \in Runs, CannotVerify(r) PROVE Placed(q)'
    BY <1>35, CannotVerifyDoes, WorkerHas, LastIn DEF Saves, Elsewhere,
       Threaded, Shaped, Placed, InBlog, Known, NextPhase
  <1>36. ASSUME NEW r \in Runs, Die(r) PROVE Placed(q)'
    BY <1>36, DieDoes, WorkerHas, LastIn DEF Leaves, Elsewhere, Threaded,
       Shaped, Placed, InBlog, Known, NextPhase
  <1>37. ASSUME NEW r \in Runs, GoStale(r) PROVE Placed(q)'
    BY <1>37, GoStaleDoes, WorkerHas, LastIn DEF OtherRuns, Threaded, Shaped,
       Placed, InBlog, Known, NextPhase
  <1>38. ASSUME NEW r \in Runs, NEW b \in Blogs, AskRetry(r, b) PROVE
     Placed(q)'
    BY <1>38, AskRetryDoes, WorkerHas, LastIn DEF Threaded, Shaped, Placed,
       InBlog, Known, NextPhase
  <1>39. ASSUME NEW r \in Runs, NEW b \in Blogs, Skip(r, b) PROVE Placed(q)'
    BY <1>39, SkipDoes, WorkerHas, LastIn DEF Wakes, Elsewhere, OtherRuns,
       Opens, JobsKeep, Plans, Progresses, Restores, Dones, Threaded, Shaped,
       Placed, InBlog, Known, NextPhase
  <1>40. ASSUME NEW r \in Runs, NEW b \in Blogs, RestoreBlog(r, b) PROVE
     Placed(q)'
    <2>1. worker' = worker /\ (job' = job \/ Plans)
      BY <1>40, RestoreBlogDoes
    <2> QED BY <2>1, PlacedStays
  <1>41. ASSUME NEW r \in Runs, NEW b \in Blogs, RestoreGoesStale(r, b) PROVE
     Placed(q)'
    <2>1. worker' = worker /\ (job' = job \/ Plans)
      BY <1>41, RestoreGoesStaleDoes
    <2> QED BY <2>1, PlacedStays
  <1>42. ASSUME NEW b \in Blogs, CheckImport(b) PROVE Placed(q)'
    BY <1>42, CheckImportDoes, WorkerHas, LastIn DEF Threaded, Shaped, Placed,
       InBlog, Known, NextPhase
  <1>43. ASSUME NEW b \in Blogs, Import(b) PROVE Placed(q)'
    BY <1>43, ImportDoes, WorkerHas, LastIn DEF Imports, Threaded, Shaped,
       Placed, InBlog, Known, NextPhase
  <1>44. ASSUME NEW b \in Blogs, Edit(b) PROVE Placed(q)'
    BY <1>44, EditDoes, WorkerHas, LastIn DEF OtherBlogs, Threaded, Shaped,
       Placed, InBlog, Known, NextPhase
  <1>45. ASSUME NEW r \in Runs, NEW b \in Blogs, NEW n \in 1..MaxAttempt, NEW k
     \in Phases, broker[<<r, b, n, k>>] = "running", PhaseLands(<<r, b, n, k>>)
     PROVE Placed(q)'
    <2>1. worker' = worker /\ (job' = job \/ Plans)
      BY <1>45, PhaseLandsDoes
    <2> QED BY <2>1, PlacedStays
  <1>46. ASSUME NEW r \in Runs, NEW b \in Blogs, NEW n \in 1..MaxAttempt, NEW k
     \in Phases, broker[<<r, b, n, k>>] = "running", PhaseRefused(<<r, b, n,
     k>>) PROVE Placed(q)'
    <2>1. worker' = worker /\ (job' = job \/ Plans)
      BY <1>46, PhaseRefusedDoes
    <2> QED BY <2>1, PlacedStays
  <1>47. ASSUME NEW r \in Runs, NEW b \in Blogs, NEW n \in 1..MaxAttempt, NEW k
     \in Phases, broker[<<r, b, n, k>>] = "running", PhaseDies(<<r, b, n, k>>)
     PROVE Placed(q)'
    <2>1. worker' = worker /\ (job' = job \/ Plans)
      BY <1>47, PhaseDiesDoes
    <2> QED BY <2>1, PlacedStays
  <1>48. ASSUME NEW t \in restorers, RestorePasses(t) PROVE Placed(q)'
    <2>1. worker' = worker /\ (job' = job \/ Plans)
      BY <1>48, RestorePassesDoes DEF Threaded
    <2> QED BY <2>1, PlacedStays
  <1>49. ASSUME NEW t \in restorers, RestoreFinalize(t) PROVE Placed(q)'
    <2>1. worker' = worker /\ (job' = job \/ Plans)
      BY <1>49, RestoreFinalizeDoes DEF Threaded
    <2> QED BY <2>1, PlacedStays
  <1>50. ASSUME NEW t \in restorers, RestoreVerify(t) PROVE Placed(q)'
    <2>1. worker' = worker /\ (job' = job \/ Plans)
      BY <1>50, RestoreVerifyDoes
    <2> QED BY <2>1, PlacedStays
  <1>51. ASSUME NEW t \in restorers, RestoreFlag(t) PROVE Placed(q)'
    <2>1. worker' = worker /\ (job' = job \/ Plans)
      BY <1>51, RestoreFlagDoes DEF JobsKeep
    <2> QED BY <2>1, PlacedStays
  <1>52. ASSUME NEW t \in restorers, RestoreImport(t) PROVE Placed(q)'
    <2>1. worker' = worker /\ (job' = job \/ Plans)
      BY <1>52, RestoreImportDoes DEF Threaded
    <2> QED BY <2>1, PlacedStays
  <1>53. ASSUME NEW t \in restorers, RestoreFails(t) PROVE Placed(q)'
    <2>1. worker' = worker /\ (job' = job \/ Plans)
      BY <1>53, RestoreFailsDoes DEF Threaded
    <2> QED BY <2>1, PlacedStays
  <1>54. ASSUME NEW t \in restorers, RestoreDies(t) PROVE Placed(q)'
    <2>1. worker' = worker /\ (job' = job \/ Plans)
      BY <1>54, RestoreDiesDoes
    <2> QED BY <2>1, PlacedStays
  <1>55. CASE UNCHANGED vars
    BY <1>55, WorkerHas, LastIn DEF vars, database, wordpress, threads,
       requests, Threaded, Shaped, Placed, InBlog, Known, NextPhase
  <1> QED BY <1>1, <1>2, <1>3, <1>4, <1>5, <1>6, <1>7, <1>8, <1>9, <1>10,
     <1>11, <1>12, <1>13, <1>14, <1>15, <1>16, <1>17, <1>18, <1>19, <1>20,
     <1>21, <1>22, <1>23, <1>24, <1>25, <1>26, <1>27, <1>28, <1>29, <1>30,
     <1>31, <1>32, <1>33, <1>34, <1>35, <1>36, <1>37, <1>38, <1>39, <1>40,
     <1>41, <1>42, <1>43, <1>44, <1>45, <1>46, <1>47, <1>48, <1>49, <1>50,
     <1>51, <1>52, <1>53, <1>54, <1>55 DEF Did

(* When the check of restores finds none, no restore is under way.           *)
LEMMA CalmIs == Restoring = {} => Calm
  <1>1. ASSUME NEW r \in Runs, NEW b \in Blogs, job[r][b].restore = "running"
        PROVE  <<r, b>> \in Restoring
    BY <1>1 DEF Restoring
  <1> QED BY <1>1 DEF Calm

(* No mark of a restore, but for those let in beside another writer, becomes *)
(* running but where a restore begins: the worker that saves its copy, and a *)
(* restore that saves again, write no other than the one that is there.      *)
CalmStays == Calm => Calm'
LEMMA CalmStep ==
    ASSUME Shaped, Threaded, Remarks, Remembers, Did
    PROVE  CalmStays \/ \E r \in Runs, b \in Blogs : RestoreBlog(r, b)
  <1>0. ASSUME Unmarks \/ Restores \/ job' = job, beside \subseteq beside' PROVE CalmStays
    BY <1>0 DEF CalmStays, Calm, Unmarks, Restores
  <1>1. ASSUME ~ Restart PROVE beside \subseteq beside'
    BY <1>1 DEF Remembers
  <1>2. CASE Restart
    BY <1>2, RestartDoes DEF CalmStays, Calm
  <1>3. CASE ~ Restart /\ (NotReady \/ Start \/ Resume \/ Retry)
    <2>1. Restores \/ job' = job
      BY <1>3, NotReadyDoes, StartDoes, ResumeDoes, RetryDoes DEF JobsKeep
    <2> QED BY <1>0, <1>1, <1>3, <2>1
  <1>4. ASSUME ~ Restart, NEW r \in Runs,
               \/ AskStart(r) \/ AskResume(r) \/ RequestPause(r) \/ ReadCancel(r) \/ VersionFence(r) \/ FetchLive(r) \/ TakeCopy(r) \/ ProbeFinds(r) \/ ProbeMisses(r)
               \/ Post(r) \/ PostAnswered(r) \/ PostRefused(r) \/ Poll(r) \/ GiveUp(r) \/ Verify(r) \/ Refresh(r) \/ RefreshFails(r) \/ StopRun(r)
               \/ Leave(r) \/ ExportFails(r) \/ ProbeUnheard(r) \/ PostUnheard(r) \/ PostFails(r) \/ CannotVerify(r) \/ Die(r) \/ GoStale(r)
        PROVE  CalmStays
    <2>1. job' = job
      BY <1>4, AskStartDoes, AskResumeDoes, RequestPauseDoes, ReadCancelDoes, VersionFenceDoes, FetchLiveDoes, TakeCopyDoes, ProbeFindsDoes, ProbeMissesDoes, PostDoes, PostAnsweredDoes, PostRefusedDoes, PollDoes, GiveUpDoes, VerifyDoes, RefreshDoes, RefreshFailsDoes, StopRunDoes, LeaveDoes, ExportFailsDoes, ProbeUnheardDoes, PostUnheardDoes, PostFailsDoes, CannotVerifyDoes, DieDoes, GoStaleDoes
    <2> QED BY <1>0, <1>1, <1>4, <2>1
  <1>5. ASSUME ~ Restart, NEW r \in Runs, Cancel(r) \/ Claim(r) \/ FinishDone(r) \/ FinishFailed(r)
        PROVE  CalmStays
    <2>1. Restores
      BY <1>5, CancelDoes, ClaimDoes, FinishDoneDoes, FinishFailedDoes DEF JobsKeep
    <2> QED BY <1>0, <1>1, <1>5, <2>1
  <1>6. ASSUME ~ Restart, NEW r \in Runs, Create(r) PROVE CalmStays
    <2>1. /\ \A o \in Runs \ {r} : job'[o] = job[o]
          /\ \A b \in Blogs : job'[r][b].restore = "none"
      BY <1>6, CreateDoes
    <2>2. Unmarks
      BY <2>1 DEF Unmarks
    <2> QED BY <1>0, <1>1, <1>6, <2>2
  <1>7. ASSUME ~ Restart, NEW r \in Runs, SaveProgress(r) PROVE CalmStays
    <2>1. /\ worker[r].pc \in InBlog /\ worker[r].blog \in Blogs
          /\ Marking(r, worker[r].blog, worker[r].mark)
      BY <1>7, SaveProgressDoes, WorkerHas DEF InBlog
    <2>2. <<r, worker[r].blog>> \notin beside => worker[r].mark # "running"
      BY <2>1 DEF Remarks, Recalls
    <2> QED BY <1>1, <1>7, <2>1, <2>2 DEF CalmStays, Calm, Marking
  <1>8. ASSUME ~ Restart, NEW r \in Runs, NEW b \in Blogs, AskRetry(r, b) \/ Skip(r, b) PROVE CalmStays
    <2>1. Restores \/ job' = job
      BY <1>8, AskRetryDoes, SkipDoes DEF JobsKeep
    <2> QED BY <1>0, <1>1, <1>8, <2>1
  <1>9. ASSUME ~ Restart, NEW r \in Runs, NEW b \in Blogs, RestoreGoesStale(r, b) PROVE CalmStays
    <2>1. Unmarks
      BY <1>9, RestoreGoesStaleDoes DEF Unmarks, Marking
    <2> QED BY <1>0, <1>1, <1>9, <2>1
  <1>10. ASSUME ~ Restart, NEW b \in Blogs, CheckImport(b) \/ Import(b) \/ Edit(b) PROVE CalmStays
    <2>1. job' = job
      BY <1>10, CheckImportDoes, ImportDoes, EditDoes
    <2> QED BY <1>0, <1>1, <1>10, <2>1
  <1>11. ASSUME ~ Restart, NEW r \in Runs, NEW b \in Blogs, NEW n \in 1..MaxAttempt, NEW k \in Phases,
               broker[<<r, b, n, k>>] = "running",
               PhaseLands(<<r, b, n, k>>) \/ PhaseRefused(<<r, b, n, k>>) \/ PhaseDies(<<r, b, n, k>>)
        PROVE  CalmStays
    <2>1. job' = job
      BY <1>11, PhaseLandsDoes, PhaseRefusedDoes, PhaseDiesDoes
    <2> QED BY <1>0, <1>1, <1>11, <2>1
  <1>12. ASSUME ~ Restart, NEW t \in restorers, RestorePasses(t) \/ RestoreFinalize(t) PROVE CalmStays
    <2>1. t.pc \in Rewriting /\ Marking(t.run, t.blog, "running") /\ t.run \in Runs /\ t.blog \in Blogs
      BY <1>12, RestorePassesDoes, RestoreFinalizeDoes, RestHas DEF Threaded
    <2>2. <<t.run, t.blog>> \notin beside => job[t.run][t.blog].restore = "running"
      BY <2>1 DEF Remarks, Writes
    <2> QED BY <1>1, <1>12, <2>1, <2>2 DEF CalmStays, Calm, Marking
  <1>13. ASSUME ~ Restart, NEW t \in restorers,
               RestoreVerify(t) \/ RestoreImport(t) \/ RestoreFails(t)
        PROVE  CalmStays
    <2>1. \E s \in {"done", "failed"} : Marking(t.run, t.blog, s)
      BY <1>13, RestoreVerifyDoes, RestoreImportDoes, RestoreFailsDoes DEF Threaded
    <2>2. Unmarks
      BY <2>1 DEF Unmarks, Marking
    <2> QED BY <1>0, <1>1, <1>13, <2>2
  <1>14. ASSUME ~ Restart, NEW t \in restorers, RestoreFlag(t) \/ RestoreDies(t) PROVE CalmStays
    <2>1. Restores \/ job' = job
      BY <1>14, RestoreFlagDoes, RestoreDiesDoes DEF JobsKeep
    <2> QED BY <1>0, <1>1, <1>14, <2>1
  <1>15. CASE UNCHANGED vars
    BY <1>15 DEF vars, database, history, CalmStays, Calm
  <1> QED BY <1>2, <1>3, <1>4, <1>5, <1>6, <1>7, <1>8, <1>9, <1>10, <1>11, <1>12, <1>13, <1>14,
     <1>15 DEF Did
(* No other run is active exactly when the admission check finds none.       *)
LEMMA AloneIs == ASSUME NEW r PROVE Others(r) = {} <=> Alone(r)
  BY DEF Others, Alone

(* A run that was not created has no thread, no copy and no restore.         *)
LEMMA FreshStep ==
    ASSUME Shaped, Locked, Threaded, AllFresh, NEW q \in Runs, Did PROVE Fresh(q)'
  <1>1. ASSUME NotReady PROVE Fresh(q)'
    BY <1>1, NotReadyDoes, RequestHas DEF Locked, Threaded, AllFresh, Fresh
  <1>2. ASSUME Start PROVE Fresh(q)'
    BY <1>2, StartDoes, RequestHas DEF Wakes, Elsewhere, SameRuns, Locked,
       Threaded, AllFresh, Fresh
  <1>3. ASSUME Resume PROVE Fresh(q)'
    BY <1>3, ResumeDoes, RequestHas DEF Wakes, Elsewhere, OtherRuns, Opens,
       JobsKeep, Plans, Progresses, Restores, Dones, Locked, Threaded,
       AllFresh, Fresh
  <1>4. ASSUME Retry PROVE Fresh(q)'
    BY <1>4, RetryDoes, RequestHas DEF Wakes, Elsewhere, OtherRuns, JobsKeep,
       Plans, Progresses, Restores, Dones, Locked, Threaded, AllFresh, Fresh
  <1>5. ASSUME Restart PROVE Fresh(q)'
    BY <1>5, RestartDoes, RequestHas DEF Opens, JobsKeep, Plans, Progresses,
       Restores, Dones, Locked, Threaded, AllFresh, Fresh
  <1>6. ASSUME NEW r \in Runs, Create(r) PROVE Fresh(q)'
    BY <1>6, CreateDoes, RequestHas DEF OtherRuns, Locked, Threaded, AllFresh,
       Fresh
  <1>7. ASSUME NEW r \in Runs, AskStart(r) PROVE Fresh(q)'
    BY <1>7, AskStartDoes, RequestHas DEF Locked, Threaded, AllFresh, Fresh
  <1>8. ASSUME NEW r \in Runs, AskResume(r) PROVE Fresh(q)'
    BY <1>8, AskResumeDoes, RequestHas DEF Locked, Threaded, AllFresh, Fresh
  <1>9. ASSUME NEW r \in Runs, RequestPause(r) PROVE Fresh(q)'
    BY <1>9, RequestPauseDoes, RequestHas DEF SameRuns, Locked, Threaded,
       AllFresh, Fresh
  <1>10. ASSUME NEW r \in Runs, ReadCancel(r) PROVE Fresh(q)'
    BY <1>10, ReadCancelDoes, RequestHas DEF Locked, Threaded, AllFresh, Fresh
  <1>11. ASSUME NEW r \in Runs, Cancel(r) PROVE Fresh(q)'
    BY <1>11, CancelDoes, RequestHas DEF OtherRuns, Opens, JobsKeep, Plans,
       Progresses, Restores, Dones, Locked, Threaded, AllFresh, Fresh
  <1>12. ASSUME NEW r \in Runs, Claim(r) PROVE Fresh(q)'
    <2>1. run[r].status # "none"
      BY <1>12, ClaimDoes DEF AllFresh, Fresh
    <2>2. CASE q # r
      <3>1. run'[q] = run[q] /\ worker'[q] = worker[q] /\ copy' = copy /\ Restores
        BY <1>12, <2>2, ClaimDoes DEF Leaves, Elsewhere, OtherRuns, JobsKeep
      <3> QED BY <3>1 DEF AllFresh, Fresh, Restores
    <2>3. CASE q = r
      <3>1. run'[r].status # "none"
        BY <1>12, <2>1, ClaimDoes DEF Finished
      <3> QED BY <2>3, <3>1 DEF Fresh
    <2> QED BY <2>2, <2>3
  <1>13. ASSUME NEW r \in Runs, VersionFence(r) PROVE Fresh(q)'
    BY <1>13, VersionFenceDoes, RequestHas DEF Turns, Stays, Elsewhere, Locked,
       Threaded, AllFresh, Fresh
  <1>14. ASSUME NEW r \in Runs, FetchLive(r) PROVE Fresh(q)'
    BY <1>14, FetchLiveDoes, RequestHas DEF Stays, Elsewhere, Turns, Locked,
       Threaded, AllFresh, Fresh, Reported, Saves
  <1>15. ASSUME NEW r \in Runs, TakeCopy(r) PROVE Fresh(q)'
    <2>1. run[r].status # "none" /\ run' = run /\ job' = job
      BY <1>15, TakeCopyDoes DEF AllFresh, Fresh
    <2>2. q # r => worker'[q] = worker[q] /\ \A b \in Blogs : copy'[q][b] = copy[q][b]
      <3>1. Elsewhere(r)
        BY <1>15, TakeCopyDoes DEF Saves
      <3>2. q # r => \A b \in Blogs : copy'[q][b] = copy[q][b]
        BY <1>15, TakeCopyDoes
      <3> QED BY <3>1, <3>2 DEF Elsewhere
    <2> QED BY <2>1, <2>2 DEF AllFresh, Fresh
  <1>16. ASSUME NEW r \in Runs, SaveProgress(r) PROVE Fresh(q)'
    BY <1>16, SaveProgressDoes, RequestHas DEF Turns, Stays, Elsewhere, Beats,
       OtherRuns, Plans, Restores, Dones, Opens, Locked, Threaded, AllFresh,
       Fresh
  <1>17. ASSUME NEW r \in Runs, ProbeFinds(r) PROVE Fresh(q)'
    BY <1>17, ProbeFindsDoes, RequestHas DEF Turns, Stays, Elsewhere, Waits,
       Advances, Saves, Locked, Threaded, AllFresh, Fresh, Reported
  <1>18. ASSUME NEW r \in Runs, ProbeMisses(r) PROVE Fresh(q)'
    BY <1>18, ProbeMissesDoes, RequestHas DEF Turns, Stays, Elsewhere, Locked,
       Threaded, AllFresh, Fresh
  <1>19. ASSUME NEW r \in Runs, Post(r) PROVE Fresh(q)'
    BY <1>19, PostDoes, RequestHas DEF Waits, Stays, Elsewhere, Posts, Locked,
       Threaded, AllFresh, Fresh
  <1>20. ASSUME NEW r \in Runs, PostAnswered(r) PROVE Fresh(q)'
    BY <1>20, PostAnsweredDoes, RequestHas DEF Turns, Stays, Elsewhere, Waits,
       Advances, Saves, Locked, Threaded, AllFresh, Fresh, Reported
  <1>21. ASSUME NEW r \in Runs, PostRefused(r) PROVE Fresh(q)'
    BY <1>21, PostRefusedDoes, RequestHas DEF Turns, Stays, Elsewhere, Locked,
       Threaded, AllFresh, Fresh
  <1>22. ASSUME NEW r \in Runs, Poll(r) PROVE Fresh(q)'
    BY <1>22, PollDoes, RequestHas DEF Turns, Stays, Elsewhere, Advances,
       Saves, Locked, Threaded, AllFresh, Fresh, Reported
  <1>23. ASSUME NEW r \in Runs, GiveUp(r) PROVE Fresh(q)'
    BY <1>23, GiveUpDoes, RequestHas DEF Turns, Stays, Elsewhere, Locked,
       Threaded, AllFresh, Fresh
  <1>24. ASSUME NEW r \in Runs, Verify(r) PROVE Fresh(q)'
    BY <1>24, VerifyDoes, RequestHas DEF Stays, Elsewhere, Turns, Locked,
       Threaded, AllFresh, Fresh, Reported, Saves
  <1>25. ASSUME NEW r \in Runs, Refresh(r) PROVE Fresh(q)'
    <2>1. run[r].status # "none" /\ run' = run /\ job' = job /\ copy' = copy
      BY <1>25, RefreshDoes DEF AllFresh, Fresh
    <2>2. q # r => worker'[q] = worker[q]
      BY <1>25, RefreshDoes DEF Saves, Elsewhere
    <2> QED BY <2>1, <2>2 DEF AllFresh, Fresh
  <1>26. ASSUME NEW r \in Runs, RefreshFails(r) PROVE Fresh(q)'
    BY <1>26, RefreshFailsDoes, RequestHas DEF Elsewhere, Locked, Threaded,
       AllFresh, Fresh
  <1>27. ASSUME NEW r \in Runs, FinishDone(r) PROVE Fresh(q)'
    BY <1>27, FinishDoneDoes, RequestHas DEF Leaves, Elsewhere, Beats,
       OtherRuns, Plans, Progresses, Restores, Opens, Locked, Threaded,
       AllFresh, Fresh
  <1>28. ASSUME NEW r \in Runs, FinishFailed(r) PROVE Fresh(q)'
    BY <1>28, FinishFailedDoes, RequestHas DEF Leaves, Elsewhere, Beats,
       OtherRuns, Opens, JobsKeep, Plans, Progresses, Restores, Dones, Locked,
       Threaded, AllFresh, Fresh
  <1>29. ASSUME NEW r \in Runs, StopRun(r) PROVE Fresh(q)'
    BY <1>29, StopRunDoes, RequestHas DEF Leaves, Elsewhere, OtherRuns, Locked,
       Threaded, AllFresh, Fresh
  <1>30. ASSUME NEW r \in Runs, Leave(r) PROVE Fresh(q)'
    BY <1>30, LeaveDoes, RequestHas DEF Leaves, Elsewhere, Locked, Threaded,
       AllFresh, Fresh
  <1>31. ASSUME NEW r \in Runs, ExportFails(r) PROVE Fresh(q)'
    BY <1>31, ExportFailsDoes, RequestHas DEF Turns, Stays, Elsewhere, Locked,
       Threaded, AllFresh, Fresh
  <1>32. ASSUME NEW r \in Runs, ProbeUnheard(r) PROVE Fresh(q)'
    BY <1>32, ProbeUnheardDoes, RequestHas DEF Turns, Stays, Elsewhere, Locked,
       Threaded, AllFresh, Fresh
  <1>33. ASSUME NEW r \in Runs, PostUnheard(r) PROVE Fresh(q)'
    BY <1>33, PostUnheardDoes, RequestHas DEF Turns, Stays, Elsewhere, Posts,
       Locked, Threaded, AllFresh, Fresh
  <1>34. ASSUME NEW r \in Runs, PostFails(r) PROVE Fresh(q)'
    BY <1>34, PostFailsDoes, RequestHas DEF Turns, Stays, Elsewhere, Locked,
       Threaded, AllFresh, Fresh
  <1>35. ASSUME NEW r \in Runs, CannotVerify(r) PROVE Fresh(q)'
    BY <1>35, CannotVerifyDoes, RequestHas DEF Saves, Elsewhere, Locked,
       Threaded, AllFresh, Fresh
  <1>36. ASSUME NEW r \in Runs, Die(r) PROVE Fresh(q)'
    BY <1>36, DieDoes, RequestHas DEF Leaves, Elsewhere, Locked, Threaded,
       AllFresh, Fresh
  <1>37. ASSUME NEW r \in Runs, GoStale(r) PROVE Fresh(q)'
    BY <1>37, GoStaleDoes, RequestHas DEF OtherRuns, Locked, Threaded,
       AllFresh, Fresh
  <1>38. ASSUME NEW r \in Runs, NEW b \in Blogs, AskRetry(r, b) PROVE Fresh(q)'
    BY <1>38, AskRetryDoes, RequestHas DEF Locked, Threaded, AllFresh, Fresh
  <1>39. ASSUME NEW r \in Runs, NEW b \in Blogs, Skip(r, b) PROVE Fresh(q)'
    <2>1. CASE q # r
      <3>1. run'[q] = run[q] /\ worker'[q] = worker[q] /\ copy' = copy /\ Restores
        BY <1>39, <2>1, SkipDoes DEF Wakes, Elsewhere, OtherRuns, JobsKeep
      <3> QED BY <3>1 DEF AllFresh, Fresh, Restores
    <2>2. CASE q = r
      <3>1. run'[r].status # "none"
        BY <1>39, SkipDoes DEF Finished
      <3> QED BY <2>2, <3>1 DEF Fresh
    <2> QED BY <2>1, <2>2
  <1>40. ASSUME NEW r \in Runs, NEW b \in Blogs, RestoreBlog(r, b) PROVE
     Fresh(q)'
    <2>1. run' = run /\ worker' = worker /\ copy' = copy
      BY <1>40, RestoreBlogDoes
    <2> QED BY <2>1 DEF AllFresh, Fresh
  <1>41. ASSUME NEW r \in Runs, NEW b \in Blogs, RestoreGoesStale(r, b) PROVE
     Fresh(q)'
    BY <1>41, RestoreGoesStaleDoes, RequestHas DEF Opens, JobsKeep, Plans,
       Progresses, Restores, Dones, Locked, Threaded, AllFresh, Fresh
  <1>42. ASSUME NEW b \in Blogs, CheckImport(b) PROVE Fresh(q)'
    BY <1>42, CheckImportDoes, RequestHas DEF Locked, Threaded, AllFresh, Fresh
  <1>43. ASSUME NEW b \in Blogs, Import(b) PROVE Fresh(q)'
    BY <1>43, ImportDoes, RequestHas DEF Imports, Locked, Threaded, AllFresh,
       Fresh
  <1>44. ASSUME NEW b \in Blogs, Edit(b) PROVE Fresh(q)'
    BY <1>44, EditDoes, RequestHas DEF OtherBlogs, Locked, Threaded, AllFresh,
       Fresh
  <1>45. ASSUME NEW r \in Runs, NEW b \in Blogs, NEW n \in 1..MaxAttempt, NEW k
     \in Phases, broker[<<r, b, n, k>>] = "running", PhaseLands(<<r, b, n, k>>)
     PROVE Fresh(q)'
    BY <1>45, PhaseLandsDoes, RequestHas DEF Lands, OtherBlogs, Settles,
       Locked, Threaded, AllFresh, Fresh
  <1>46. ASSUME NEW r \in Runs, NEW b \in Blogs, NEW n \in 1..MaxAttempt, NEW k
     \in Phases, broker[<<r, b, n, k>>] = "running", PhaseRefused(<<r, b, n,
     k>>) PROVE Fresh(q)'
    BY <1>46, PhaseRefusedDoes, RequestHas DEF Settles, Locked, Threaded,
       AllFresh, Fresh
  <1>47. ASSUME NEW r \in Runs, NEW b \in Blogs, NEW n \in 1..MaxAttempt, NEW k
     \in Phases, broker[<<r, b, n, k>>] = "running", PhaseDies(<<r, b, n, k>>)
     PROVE Fresh(q)'
    BY <1>47, PhaseDiesDoes, RequestHas DEF Lands, OtherBlogs, Settles, Locked,
       Threaded, AllFresh, Fresh
  <1>48. ASSUME NEW t \in restorers, RestorePasses(t) PROVE Fresh(q)'
    BY <1>48, RestorePassesDoes, RequestHas DEF OtherBlogs, Threads, Locked,
       Threaded, AllFresh, Fresh
  <1>49. ASSUME NEW t \in restorers, RestoreFinalize(t) PROVE Fresh(q)'
    BY <1>49, RestoreFinalizeDoes, RequestHas DEF OtherBlogs, Threads, Locked,
       Threaded, AllFresh, Fresh
  <1>50. ASSUME NEW t \in restorers, RestoreVerify(t) PROVE Fresh(q)'
    BY <1>50, RestoreVerifyDoes, RequestHas DEF Opens, JobsKeep, Plans,
       Progresses, Restores, Dones, Threads, Locked, Threaded, AllFresh, Fresh
  <1>51. ASSUME NEW t \in restorers, RestoreFlag(t) PROVE Fresh(q)'
    BY <1>51, RestoreFlagDoes, RequestHas DEF Opens, JobsKeep, Plans,
       Progresses, Restores, Dones, Threads, Locked, Threaded, AllFresh, Fresh
  <1>52. ASSUME NEW t \in restorers, RestoreImport(t) PROVE Fresh(q)'
    BY <1>52, RestoreImportDoes, RequestHas DEF Opens, JobsKeep, Plans,
       Progresses, Restores, Dones, Imports, Threads, Locked, Threaded,
       AllFresh, Fresh
  <1>53. ASSUME NEW t \in restorers, RestoreFails(t) PROVE Fresh(q)'
    BY <1>53, RestoreFailsDoes, RequestHas DEF Opens, JobsKeep, Plans,
       Progresses, Restores, Dones, OtherBlogs, Threads, Locked, Threaded,
       AllFresh, Fresh
  <1>54. ASSUME NEW t \in restorers, RestoreDies(t) PROVE Fresh(q)'
    BY <1>54, RestoreDiesDoes, RequestHas DEF Threads, Locked, Threaded,
       AllFresh, Fresh
  <1>55. CASE UNCHANGED vars
    BY <1>55, RequestHas DEF vars, database, wordpress, threads, requests,
       Locked, Threaded, AllFresh, Fresh
  <1> QED BY <1>1, <1>2, <1>3, <1>4, <1>5, <1>6, <1>7, <1>8, <1>9, <1>10,
     <1>11, <1>12, <1>13, <1>14, <1>15, <1>16, <1>17, <1>18, <1>19, <1>20,
     <1>21, <1>22, <1>23, <1>24, <1>25, <1>26, <1>27, <1>28, <1>29, <1>30,
     <1>31, <1>32, <1>33, <1>34, <1>35, <1>36, <1>37, <1>38, <1>39, <1>40,
     <1>41, <1>42, <1>43, <1>44, <1>45, <1>46, <1>47, <1>48, <1>49, <1>50,
     <1>51, <1>52, <1>53, <1>54, <1>55 DEF Did

(* One run is active at a time.                                              *)
LEMMA OneActiveStep ==
    ASSUME Shaped, OneActive, Locked, Threaded, Did PROVE OneActive'
  <1>1. ASSUME NotReady PROVE OneActive'
    BY <1>1, NotReadyDoes, RequestHas, CalmIs, AloneIs DEF Locked, OneActive,
       Threaded, Alone, Active, Finished
  <1>2. ASSUME Start PROVE OneActive'
    BY <1>2, StartDoes, RequestHas, CalmIs, AloneIs DEF Wakes, Elsewhere,
       SameRuns, Locked, OneActive, Threaded, Alone, Active, Finished
  <1>3. ASSUME Resume PROVE OneActive'
    BY <1>3, ResumeDoes, RequestHas, CalmIs, AloneIs DEF Wakes, Elsewhere,
       OtherRuns, Opens, JobsKeep, Plans, Progresses, Restores, Dones, Locked,
       OneActive, Threaded, Alone, Active, Finished
  <1>4. ASSUME Retry PROVE OneActive'
    BY <1>4, RetryDoes, RequestHas, CalmIs, AloneIs DEF Wakes, Elsewhere,
       OtherRuns, JobsKeep, Plans, Progresses, Restores, Dones, Locked,
       OneActive, Threaded, Alone, Active, Finished
  <1>5. ASSUME Restart PROVE OneActive'
    BY <1>5, RestartDoes, RequestHas, CalmIs, AloneIs DEF Opens, JobsKeep,
       Plans, Progresses, Restores, Dones, Locked, OneActive, Threaded, Alone,
       Active, Finished
  <1>6. ASSUME NEW r \in Runs, Create(r) PROVE OneActive'
    BY <1>6, CreateDoes, RequestHas, CalmIs, AloneIs DEF OtherRuns, Locked,
       OneActive, Threaded, Alone, Active, Finished
  <1>7. ASSUME NEW r \in Runs, AskStart(r) PROVE OneActive'
    BY <1>7, AskStartDoes, RequestHas, CalmIs, AloneIs DEF Locked, OneActive,
       Threaded, Alone, Active, Finished
  <1>8. ASSUME NEW r \in Runs, AskResume(r) PROVE OneActive'
    BY <1>8, AskResumeDoes, RequestHas, CalmIs, AloneIs DEF Locked, OneActive,
       Threaded, Alone, Active, Finished
  <1>9. ASSUME NEW r \in Runs, RequestPause(r) PROVE OneActive'
    BY <1>9, RequestPauseDoes, RequestHas, CalmIs, AloneIs DEF SameRuns,
       Locked, OneActive, Threaded, Alone, Active, Finished
  <1>10. ASSUME NEW r \in Runs, ReadCancel(r) PROVE OneActive'
    BY <1>10, ReadCancelDoes, RequestHas, CalmIs, AloneIs DEF Locked,
       OneActive, Threaded, Alone, Active, Finished
  <1>11. ASSUME NEW r \in Runs, Cancel(r) PROVE OneActive'
    BY <1>11, CancelDoes, RequestHas, CalmIs, AloneIs DEF OtherRuns, Opens,
       JobsKeep, Plans, Progresses, Restores, Dones, Locked, OneActive,
       Threaded, Alone, Active, Finished
  <1>12. ASSUME NEW r \in Runs, Claim(r) PROVE OneActive'
    BY <1>12, ClaimDoes, RequestHas, CalmIs, AloneIs DEF Leaves, Elsewhere,
       OtherRuns, Opens, JobsKeep, Plans, Progresses, Restores, Dones, Locked,
       OneActive, Threaded, Alone, Active, Finished
  <1>13. ASSUME NEW r \in Runs, VersionFence(r) PROVE OneActive'
    BY <1>13, VersionFenceDoes, RequestHas, CalmIs, AloneIs DEF Turns, Stays,
       Elsewhere, Locked, OneActive, Threaded, Alone, Active, Finished
  <1>14. ASSUME NEW r \in Runs, FetchLive(r) PROVE OneActive'
    BY <1>14, FetchLiveDoes, RequestHas, CalmIs, AloneIs DEF Stays, Elsewhere,
       Turns, Locked, OneActive, Threaded, Alone, Active, Finished, Reported, Saves
  <1>15. ASSUME NEW r \in Runs, TakeCopy(r) PROVE OneActive'
    BY <1>15, TakeCopyDoes, RequestHas, CalmIs, AloneIs DEF Saves, Elsewhere,
       Locked, OneActive, Threaded, Alone, Active, Finished
  <1>16. ASSUME NEW r \in Runs, SaveProgress(r) PROVE OneActive'
    BY <1>16, SaveProgressDoes, RequestHas, CalmIs, AloneIs DEF Turns, Stays,
       Elsewhere, Beats, OtherRuns, Plans, Restores, Dones, Opens, Locked,
       OneActive, Threaded, Alone, Active, Finished
  <1>17. ASSUME NEW r \in Runs, ProbeFinds(r) PROVE OneActive'
    BY <1>17, ProbeFindsDoes, RequestHas, CalmIs, AloneIs DEF Turns, Stays,
       Elsewhere, Waits, Advances, Saves, Locked, OneActive, Threaded, Alone,
       Active, Finished, Reported
  <1>18. ASSUME NEW r \in Runs, ProbeMisses(r) PROVE OneActive'
    BY <1>18, ProbeMissesDoes, RequestHas, CalmIs, AloneIs DEF Turns, Stays,
       Elsewhere, Locked, OneActive, Threaded, Alone, Active, Finished
  <1>19. ASSUME NEW r \in Runs, Post(r) PROVE OneActive'
    BY <1>19, PostDoes, RequestHas, CalmIs, AloneIs DEF Waits, Stays,
       Elsewhere, Posts, Locked, OneActive, Threaded, Alone, Active, Finished
  <1>20. ASSUME NEW r \in Runs, PostAnswered(r) PROVE OneActive'
    BY <1>20, PostAnsweredDoes, RequestHas, CalmIs, AloneIs DEF Turns, Stays,
       Elsewhere, Waits, Advances, Saves, Locked, OneActive, Threaded, Alone,
       Active, Finished, Reported
  <1>21. ASSUME NEW r \in Runs, PostRefused(r) PROVE OneActive'
    BY <1>21, PostRefusedDoes, RequestHas, CalmIs, AloneIs DEF Turns, Stays,
       Elsewhere, Locked, OneActive, Threaded, Alone, Active, Finished
  <1>22. ASSUME NEW r \in Runs, Poll(r) PROVE OneActive'
    BY <1>22, PollDoes, RequestHas, CalmIs, AloneIs DEF Turns, Stays,
       Elsewhere, Advances, Saves, Locked, OneActive, Threaded, Alone, Active,
       Finished, Reported
  <1>23. ASSUME NEW r \in Runs, GiveUp(r) PROVE OneActive'
    BY <1>23, GiveUpDoes, RequestHas, CalmIs, AloneIs DEF Turns, Stays,
       Elsewhere, Locked, OneActive, Threaded, Alone, Active, Finished
  <1>24. ASSUME NEW r \in Runs, Verify(r) PROVE OneActive'
    BY <1>24, VerifyDoes, RequestHas, CalmIs, AloneIs DEF Stays, Elsewhere,
       Turns, Locked, OneActive, Threaded, Alone, Active, Finished, Reported, Saves
  <1>25. ASSUME NEW r \in Runs, Refresh(r) PROVE OneActive'
    BY <1>25, RefreshDoes, RequestHas, CalmIs, AloneIs DEF Saves, Elsewhere,
       Imports, Locked, OneActive, Threaded, Alone, Active, Finished
  <1>26. ASSUME NEW r \in Runs, RefreshFails(r) PROVE OneActive'
    BY <1>26, RefreshFailsDoes, RequestHas, CalmIs, AloneIs DEF Elsewhere,
       Locked, OneActive, Threaded, Alone, Active, Finished
  <1>27. ASSUME NEW r \in Runs, FinishDone(r) PROVE OneActive'
    BY <1>27, FinishDoneDoes, RequestHas, CalmIs, AloneIs DEF Leaves,
       Elsewhere, Beats, OtherRuns, Plans, Progresses, Restores, Opens, Locked,
       OneActive, Threaded, Alone, Active, Finished
  <1>28. ASSUME NEW r \in Runs, FinishFailed(r) PROVE OneActive'
    BY <1>28, FinishFailedDoes, RequestHas, CalmIs, AloneIs DEF Leaves,
       Elsewhere, Beats, OtherRuns, Opens, JobsKeep, Plans, Progresses,
       Restores, Dones, Locked, OneActive, Threaded, Alone, Active, Finished
  <1>29. ASSUME NEW r \in Runs, StopRun(r) PROVE OneActive'
    BY <1>29, StopRunDoes, RequestHas, CalmIs, AloneIs DEF Leaves, Elsewhere,
       OtherRuns, Locked, OneActive, Threaded, Alone, Active, Finished
  <1>30. ASSUME NEW r \in Runs, Leave(r) PROVE OneActive'
    BY <1>30, LeaveDoes, RequestHas, CalmIs, AloneIs DEF Leaves, Elsewhere,
       Locked, OneActive, Threaded, Alone, Active, Finished
  <1>31. ASSUME NEW r \in Runs, ExportFails(r) PROVE OneActive'
    BY <1>31, ExportFailsDoes, RequestHas, CalmIs, AloneIs DEF Turns, Stays,
       Elsewhere, Locked, OneActive, Threaded, Alone, Active, Finished
  <1>32. ASSUME NEW r \in Runs, ProbeUnheard(r) PROVE OneActive'
    BY <1>32, ProbeUnheardDoes, RequestHas, CalmIs, AloneIs DEF Turns, Stays,
       Elsewhere, Locked, OneActive, Threaded, Alone, Active, Finished
  <1>33. ASSUME NEW r \in Runs, PostUnheard(r) PROVE OneActive'
    BY <1>33, PostUnheardDoes, RequestHas, CalmIs, AloneIs DEF Turns, Stays,
       Elsewhere, Posts, Locked, OneActive, Threaded, Alone, Active, Finished
  <1>34. ASSUME NEW r \in Runs, PostFails(r) PROVE OneActive'
    BY <1>34, PostFailsDoes, RequestHas, CalmIs, AloneIs DEF Turns, Stays,
       Elsewhere, Locked, OneActive, Threaded, Alone, Active, Finished
  <1>35. ASSUME NEW r \in Runs, CannotVerify(r) PROVE OneActive'
    BY <1>35, CannotVerifyDoes, RequestHas, CalmIs, AloneIs DEF Saves,
       Elsewhere, Locked, OneActive, Threaded, Alone, Active, Finished
  <1>36. ASSUME NEW r \in Runs, Die(r) PROVE OneActive'
    BY <1>36, DieDoes, RequestHas, CalmIs, AloneIs DEF Leaves, Elsewhere,
       Locked, OneActive, Threaded, Alone, Active, Finished
  <1>37. ASSUME NEW r \in Runs, GoStale(r) PROVE OneActive'
    BY <1>37, GoStaleDoes, RequestHas, CalmIs, AloneIs DEF OtherRuns, Locked,
       OneActive, Threaded, Alone, Active, Finished
  <1>38. ASSUME NEW r \in Runs, NEW b \in Blogs, AskRetry(r, b) PROVE
     OneActive'
    BY <1>38, AskRetryDoes, RequestHas, CalmIs, AloneIs DEF Locked, OneActive,
       Threaded, Alone, Active, Finished
  <1>39. ASSUME NEW r \in Runs, NEW b \in Blogs, Skip(r, b) PROVE OneActive'
    <2>1. CASE Others(r) = {} /\ Restoring = {} /\ run'[r].status = "queued" /\ Wakes(r)
      BY <1>39, <2>1, SkipDoes, AloneIs DEF OtherRuns, OneActive, Alone
    <2>2. CASE run'[r].status \in Finished \cup {"failed"}
      BY <1>39, <2>2, SkipDoes DEF OtherRuns, OneActive, Active, Finished
    <2> QED BY <1>39, <2>1, <2>2, SkipDoes
  <1>40. ASSUME NEW r \in Runs, NEW b \in Blogs, RestoreBlog(r, b) PROVE
     OneActive'
    BY <1>40, RestoreBlogDoes, RequestHas, CalmIs, AloneIs DEF Plans,
       Progresses, Dones, Opens, Locked, OneActive, Threaded, Alone, Active,
       Finished
  <1>41. ASSUME NEW r \in Runs, NEW b \in Blogs, RestoreGoesStale(r, b) PROVE
     OneActive'
    BY <1>41, RestoreGoesStaleDoes, RequestHas, CalmIs, AloneIs DEF Opens,
       JobsKeep, Plans, Progresses, Restores, Dones, Locked, OneActive,
       Threaded, Alone, Active, Finished
  <1>42. ASSUME NEW b \in Blogs, CheckImport(b) PROVE OneActive'
    BY <1>42, CheckImportDoes, RequestHas, CalmIs, AloneIs DEF Locked,
       OneActive, Threaded, Alone, Active, Finished
  <1>43. ASSUME NEW b \in Blogs, Import(b) PROVE OneActive'
    BY <1>43, ImportDoes, RequestHas, CalmIs, AloneIs DEF Imports, Locked,
       OneActive, Threaded, Alone, Active, Finished
  <1>44. ASSUME NEW b \in Blogs, Edit(b) PROVE OneActive'
    BY <1>44, EditDoes, RequestHas, CalmIs, AloneIs DEF OtherBlogs, Locked,
       OneActive, Threaded, Alone, Active, Finished
  <1>45. ASSUME NEW r \in Runs, NEW b \in Blogs, NEW n \in 1..MaxAttempt, NEW k
     \in Phases, broker[<<r, b, n, k>>] = "running", PhaseLands(<<r, b, n, k>>)
     PROVE OneActive'
    BY <1>45, PhaseLandsDoes, RequestHas, CalmIs, AloneIs DEF Lands,
       OtherBlogs, Settles, Locked, OneActive, Threaded, Alone, Active,
       Finished
  <1>46. ASSUME NEW r \in Runs, NEW b \in Blogs, NEW n \in 1..MaxAttempt, NEW k
     \in Phases, broker[<<r, b, n, k>>] = "running", PhaseRefused(<<r, b, n,
     k>>) PROVE OneActive'
    BY <1>46, PhaseRefusedDoes, RequestHas, CalmIs, AloneIs DEF Settles,
       Locked, OneActive, Threaded, Alone, Active, Finished
  <1>47. ASSUME NEW r \in Runs, NEW b \in Blogs, NEW n \in 1..MaxAttempt, NEW k
     \in Phases, broker[<<r, b, n, k>>] = "running", PhaseDies(<<r, b, n, k>>)
     PROVE OneActive'
    BY <1>47, PhaseDiesDoes, RequestHas, CalmIs, AloneIs DEF Lands, OtherBlogs,
       Settles, Locked, OneActive, Threaded, Alone, Active, Finished
  <1>48. ASSUME NEW t \in restorers, RestorePasses(t) PROVE OneActive'
    BY <1>48, RestorePassesDoes, RequestHas, CalmIs, AloneIs DEF OtherBlogs,
       Threads, Locked, OneActive, Threaded, Alone, Active, Finished
  <1>49. ASSUME NEW t \in restorers, RestoreFinalize(t) PROVE OneActive'
    BY <1>49, RestoreFinalizeDoes, RequestHas, CalmIs, AloneIs DEF OtherBlogs,
       Threads, Locked, OneActive, Threaded, Alone, Active, Finished
  <1>50. ASSUME NEW t \in restorers, RestoreVerify(t) PROVE OneActive'
    BY <1>50, RestoreVerifyDoes, RequestHas, CalmIs, AloneIs DEF Opens,
       JobsKeep, Plans, Progresses, Restores, Dones, Threads, Locked,
       OneActive, Threaded, Alone, Active, Finished
  <1>51. ASSUME NEW t \in restorers, RestoreFlag(t) PROVE OneActive'
    BY <1>51, RestoreFlagDoes, RequestHas, CalmIs, AloneIs DEF Opens, JobsKeep,
       Plans, Progresses, Restores, Dones, Threads, Locked, OneActive,
       Threaded, Alone, Active, Finished
  <1>52. ASSUME NEW t \in restorers, RestoreImport(t) PROVE OneActive'
    BY <1>52, RestoreImportDoes, RequestHas, CalmIs, AloneIs DEF Opens,
       JobsKeep, Plans, Progresses, Restores, Dones, Imports, Threads, Locked,
       OneActive, Threaded, Alone, Active, Finished
  <1>53. ASSUME NEW t \in restorers, RestoreFails(t) PROVE OneActive'
    BY <1>53, RestoreFailsDoes, RequestHas, CalmIs, AloneIs DEF Opens,
       JobsKeep, Plans, Progresses, Restores, Dones, OtherBlogs, Threads,
       Locked, OneActive, Threaded, Alone, Active, Finished
  <1>54. ASSUME NEW t \in restorers, RestoreDies(t) PROVE OneActive'
    BY <1>54, RestoreDiesDoes, RequestHas, CalmIs, AloneIs DEF Threads, Locked,
       OneActive, Threaded, Alone, Active, Finished
  <1>55. CASE UNCHANGED vars
    BY <1>55, RequestHas, CalmIs, AloneIs DEF vars, database, wordpress,
       threads, requests, Locked, OneActive, Threaded, Alone, Active, Finished
  <1> QED BY <1>1, <1>2, <1>3, <1>4, <1>5, <1>6, <1>7, <1>8, <1>9, <1>10,
     <1>11, <1>12, <1>13, <1>14, <1>15, <1>16, <1>17, <1>18, <1>19, <1>20,
     <1>21, <1>22, <1>23, <1>24, <1>25, <1>26, <1>27, <1>28, <1>29, <1>30,
     <1>31, <1>32, <1>33, <1>34, <1>35, <1>36, <1>37, <1>38, <1>39, <1>40,
     <1>41, <1>42, <1>43, <1>44, <1>45, <1>46, <1>47, <1>48, <1>49, <1>50,
     <1>51, <1>52, <1>53, <1>54, <1>55 DEF Did

(* A run that is active during a restore has been abandoned.                 *)
LEMMA AsideStep ==
    ASSUME Shaped, Admitted, Threaded, Did, CalmStays PROVE Aside'
  <1>1. ASSUME NotReady PROVE Aside'
    BY <1>1, NotReadyDoes, RequestHas, CalmIs DEF Admitted, Aside, Beating,
       Locked, Threaded, Active, Finished, Doing, CalmStays
  <1>2. ASSUME Start PROVE Aside'
    BY <1>2, StartDoes, RequestHas, CalmIs DEF Wakes, Elsewhere, SameRuns,
       Admitted, Aside, Beating, Locked, Threaded, Active, Finished,
       Doing, CalmStays
  <1>3. ASSUME Resume PROVE Aside'
    BY <1>3, ResumeDoes, RequestHas, CalmIs DEF Wakes, Elsewhere, OtherRuns,
       Opens, JobsKeep, Plans, Progresses, Restores, Dones, Admitted, Aside,
       Beating, Locked, Threaded, Active, Finished, Doing, CalmStays
  <1>4. ASSUME Retry PROVE Aside'
    BY <1>4, RetryDoes, RequestHas, CalmIs DEF Wakes, Elsewhere, OtherRuns,
       JobsKeep, Plans, Progresses, Restores, Dones, Admitted, Aside, Beating,
       Locked, Threaded, Active, Finished, Doing, CalmStays
  <1>5. ASSUME Restart PROVE Aside'
    <2>1. Calm'
      BY <1>5, RestartDoes DEF Calm
    <2> QED BY <2>1 DEF Aside
  <1>6. ASSUME NEW r \in Runs, Create(r) PROVE Aside'
    BY <1>6, CreateDoes, RequestHas, CalmIs DEF OtherRuns, Admitted, Aside,
       Beating, Locked, Threaded, Active, Finished, Doing, CalmStays
  <1>7. ASSUME NEW r \in Runs, AskStart(r) PROVE Aside'
    BY <1>7, AskStartDoes, RequestHas, CalmIs DEF Admitted, Aside, Beating,
       Locked, Threaded, Active, Finished, Doing, CalmStays
  <1>8. ASSUME NEW r \in Runs, AskResume(r) PROVE Aside'
    BY <1>8, AskResumeDoes, RequestHas, CalmIs DEF Admitted, Aside, Beating,
       Locked, Threaded, Active, Finished, Doing, CalmStays
  <1>9. ASSUME NEW r \in Runs, RequestPause(r) PROVE Aside'
    BY <1>9, RequestPauseDoes, RequestHas, CalmIs DEF SameRuns, Admitted,
       Aside, Beating, Locked, Threaded, Active, Finished, Doing, CalmStays
  <1>10. ASSUME NEW r \in Runs, ReadCancel(r) PROVE Aside'
    BY <1>10, ReadCancelDoes, RequestHas, CalmIs DEF Admitted, Aside, Beating,
       Locked, Threaded, Active, Finished, Doing, CalmStays
  <1>11. ASSUME NEW r \in Runs, Cancel(r) PROVE Aside'
    BY <1>11, CancelDoes, RequestHas, CalmIs DEF OtherRuns, Opens, JobsKeep,
       Plans, Progresses, Restores, Dones, Admitted, Aside, Beating, Locked,
       Threaded, Active, Finished, Doing, CalmStays
  <1>12. ASSUME NEW r \in Runs, Claim(r) PROVE Aside'
    BY <1>12, ClaimDoes, RequestHas, CalmIs DEF Leaves, Elsewhere, OtherRuns,
       Opens, JobsKeep, Plans, Progresses, Restores, Dones, Admitted, Aside,
       Beating, Locked, Threaded, Active, Finished, Doing, CalmStays
  <1>13. ASSUME NEW r \in Runs, VersionFence(r) PROVE Aside'
    BY <1>13, VersionFenceDoes, RequestHas, CalmIs DEF Turns, Stays, Elsewhere,
       Admitted, Aside, Beating, Locked, Threaded, Active, Finished,
       Doing, CalmStays
  <1>14. ASSUME NEW r \in Runs, FetchLive(r) PROVE Aside'
    BY <1>14, FetchLiveDoes, RequestHas, CalmIs DEF Stays, Elsewhere, Turns,
       Admitted, Aside, Beating, Locked, Threaded, Active, Finished,
       Doing, CalmStays, Reported, Saves
  <1>15. ASSUME NEW r \in Runs, TakeCopy(r) PROVE Aside'
    <2>1. run' = run /\ job' = job /\ request' = request
      BY <1>15, TakeCopyDoes
    <2>2. \A o \in Runs : worker[o].pc = "off" => worker'[o].pc = "off"
      BY <1>15, TakeCopyDoes DEF Saves, Elsewhere, CalmStays
    <2> QED BY <2>1, <2>2, RequestHas DEF Admitted, Aside, Doing, CalmStays
  <1>16. ASSUME NEW r \in Runs, SaveProgress(r) PROVE Aside'
    BY <1>16, SaveProgressDoes, RequestHas, CalmIs DEF Turns, Stays, Elsewhere,
       Beats, OtherRuns, Plans, Restores, Dones, Opens, Admitted, Aside,
       Beating, Locked, Threaded, Active, Finished, Doing, CalmStays
  <1>17. ASSUME NEW r \in Runs, ProbeFinds(r) PROVE Aside'
    BY <1>17, ProbeFindsDoes, RequestHas, CalmIs DEF Turns, Stays, Elsewhere,
       Waits, Advances, Saves, Admitted, Aside, Beating, Locked, Threaded,
       Active, Finished, Doing, CalmStays, Reported
  <1>18. ASSUME NEW r \in Runs, ProbeMisses(r) PROVE Aside'
    BY <1>18, ProbeMissesDoes, RequestHas, CalmIs DEF Turns, Stays, Elsewhere,
       Admitted, Aside, Beating, Locked, Threaded, Active, Finished,
       Doing, CalmStays
  <1>19. ASSUME NEW r \in Runs, Post(r) PROVE Aside'
    BY <1>19, PostDoes, RequestHas, CalmIs DEF Waits, Stays, Elsewhere, Posts,
       Admitted, Aside, Beating, Locked, Threaded, Active, Finished,
       Doing, CalmStays
  <1>20. ASSUME NEW r \in Runs, PostAnswered(r) PROVE Aside'
    BY <1>20, PostAnsweredDoes, RequestHas, CalmIs DEF Turns, Stays, Elsewhere,
       Waits, Advances, Saves, Admitted, Aside, Beating, Locked, Threaded,
       Active, Finished, Doing, CalmStays, Reported
  <1>21. ASSUME NEW r \in Runs, PostRefused(r) PROVE Aside'
    BY <1>21, PostRefusedDoes, RequestHas, CalmIs DEF Turns, Stays, Elsewhere,
       Admitted, Aside, Beating, Locked, Threaded, Active, Finished,
       Doing, CalmStays
  <1>22. ASSUME NEW r \in Runs, Poll(r) PROVE Aside'
    BY <1>22, PollDoes, RequestHas, CalmIs DEF Turns, Stays, Elsewhere,
       Advances, Saves, Admitted, Aside, Beating, Locked, Threaded, Active, Finished, Doing, CalmStays, Reported
  <1>23. ASSUME NEW r \in Runs, GiveUp(r) PROVE Aside'
    BY <1>23, GiveUpDoes, RequestHas, CalmIs DEF Turns, Stays, Elsewhere,
       Admitted, Aside, Beating, Locked, Threaded, Active, Finished,
       Doing, CalmStays
  <1>24. ASSUME NEW r \in Runs, Verify(r) PROVE Aside'
    BY <1>24, VerifyDoes, RequestHas, CalmIs DEF Stays, Elsewhere, Turns,
       Admitted, Aside, Beating, Locked, Threaded, Active, Finished,
       Doing, CalmStays, Reported, Saves
  <1>25. ASSUME NEW r \in Runs, Refresh(r) PROVE Aside'
    <2>1. run' = run /\ job' = job /\ request' = request
      BY <1>25, RefreshDoes
    <2>2. \A o \in Runs : worker[o].pc = "off" => worker'[o].pc = "off"
      BY <1>25, RefreshDoes DEF Saves, Elsewhere, CalmStays
    <2> QED BY <2>1, <2>2, RequestHas DEF Admitted, Aside, Doing, CalmStays
  <1>26. ASSUME NEW r \in Runs, RefreshFails(r) PROVE Aside'
    BY <1>26, RefreshFailsDoes, RequestHas, CalmIs DEF Elsewhere, Admitted,
       Aside, Beating, Locked, Threaded, Active, Finished, Doing, CalmStays
  <1>27. ASSUME NEW r \in Runs, FinishDone(r) PROVE Aside'
    BY <1>27, FinishDoneDoes, RequestHas, CalmIs DEF Leaves, Elsewhere, Beats,
       OtherRuns, Plans, Progresses, Restores, Opens, Admitted, Aside, Beating,
       Locked, Threaded, Active, Finished, Doing, CalmStays
  <1>28. ASSUME NEW r \in Runs, FinishFailed(r) PROVE Aside'
    BY <1>28, FinishFailedDoes, RequestHas, CalmIs DEF Leaves, Elsewhere,
       Beats, OtherRuns, Opens, JobsKeep, Plans, Progresses, Restores, Dones,
       Admitted, Aside, Beating, Locked, Threaded, Active, Finished,
       Doing, CalmStays
  <1>29. ASSUME NEW r \in Runs, StopRun(r) PROVE Aside'
    BY <1>29, StopRunDoes, RequestHas, CalmIs DEF Leaves, Elsewhere, OtherRuns,
       Admitted, Aside, Beating, Locked, Threaded, Active, Finished,
       Doing, CalmStays
  <1>30. ASSUME NEW r \in Runs, Leave(r) PROVE Aside'
    BY <1>30, LeaveDoes, RequestHas, CalmIs DEF Leaves, Elsewhere, Admitted,
       Aside, Beating, Locked, Threaded, Active, Finished, Doing, CalmStays
  <1>31. ASSUME NEW r \in Runs, ExportFails(r) PROVE Aside'
    BY <1>31, ExportFailsDoes, RequestHas, CalmIs DEF Turns, Stays, Elsewhere,
       Admitted, Aside, Beating, Locked, Threaded, Active, Finished,
       Doing, CalmStays
  <1>32. ASSUME NEW r \in Runs, ProbeUnheard(r) PROVE Aside'
    BY <1>32, ProbeUnheardDoes, RequestHas, CalmIs DEF Turns, Stays, Elsewhere,
       Admitted, Aside, Beating, Locked, Threaded, Active, Finished,
       Doing, CalmStays
  <1>33. ASSUME NEW r \in Runs, PostUnheard(r) PROVE Aside'
    BY <1>33, PostUnheardDoes, RequestHas, CalmIs DEF Turns, Stays, Elsewhere,
       Posts, Admitted, Aside, Beating, Locked, Threaded, Active,
       Finished, Doing, CalmStays
  <1>34. ASSUME NEW r \in Runs, PostFails(r) PROVE Aside'
    BY <1>34, PostFailsDoes, RequestHas, CalmIs DEF Turns, Stays, Elsewhere,
       Admitted, Aside, Beating, Locked, Threaded, Active, Finished,
       Doing, CalmStays
  <1>35. ASSUME NEW r \in Runs, CannotVerify(r) PROVE Aside'
    BY <1>35, CannotVerifyDoes, RequestHas, CalmIs DEF Saves, Elsewhere,
       Admitted, Aside, Beating, Locked, Threaded, Active, Finished,
       Doing, CalmStays
  <1>36. ASSUME NEW r \in Runs, Die(r) PROVE Aside'
    BY <1>36, DieDoes, RequestHas, CalmIs DEF Leaves, Elsewhere, Admitted,
       Aside, Beating, Locked, Threaded, Active, Finished, Doing, CalmStays
  <1>37. ASSUME NEW r \in Runs, GoStale(r) PROVE Aside'
    BY <1>37, GoStaleDoes, RequestHas, CalmIs DEF OtherRuns, Admitted, Aside,
       Beating, Locked, Threaded, Active, Finished, Doing, CalmStays
  <1>38. ASSUME NEW r \in Runs, NEW b \in Blogs, AskRetry(r, b) PROVE Aside'
    BY <1>38, AskRetryDoes, RequestHas, CalmIs DEF Admitted, Aside, Beating,
       Locked, Threaded, Active, Finished, Doing, CalmStays
  <1>39. ASSUME NEW r \in Runs, NEW b \in Blogs, Skip(r, b) PROVE Aside'
    BY <1>39, SkipDoes, RequestHas, CalmIs DEF Wakes, Elsewhere, OtherRuns,
       Opens, JobsKeep, Plans, Progresses, Restores, Dones, Admitted, Aside,
       Beating, Locked, Threaded, Active, Finished, Doing, CalmStays
  <1>40. ASSUME NEW r \in Runs, NEW b \in Blogs, RestoreBlog(r, b) PROVE Aside'
    BY <1>40, RestoreBlogDoes, RequestHas, CalmIs DEF Plans, Progresses, Dones,
       Opens, Admitted, Aside, Beating, Locked, Threaded, Active,
       Finished, Doing, CalmStays
  <1>41. ASSUME NEW r \in Runs, NEW b \in Blogs, RestoreGoesStale(r, b) PROVE
     Aside'
    BY <1>41, RestoreGoesStaleDoes, RequestHas, CalmIs DEF Opens, JobsKeep,
       Plans, Progresses, Restores, Dones, Admitted, Aside, Beating, Locked,
       Threaded, Active, Finished, Doing, CalmStays
  <1>42. ASSUME NEW b \in Blogs, CheckImport(b) PROVE Aside'
    BY <1>42, CheckImportDoes, RequestHas, CalmIs DEF Admitted, Aside, Beating,
       Locked, Threaded, Active, Finished, Doing, CalmStays
  <1>43. ASSUME NEW b \in Blogs, Import(b) PROVE Aside'
    BY <1>43, ImportDoes, RequestHas, CalmIs DEF Imports, Admitted, Aside,
       Beating, Locked, Threaded, Active, Finished, Doing, CalmStays
  <1>44. ASSUME NEW b \in Blogs, Edit(b) PROVE Aside'
    BY <1>44, EditDoes, RequestHas, CalmIs DEF OtherBlogs, Admitted, Aside,
       Beating, Locked, Threaded, Active, Finished, Doing, CalmStays
  <1>45. ASSUME NEW r \in Runs, NEW b \in Blogs, NEW n \in 1..MaxAttempt, NEW k
     \in Phases, broker[<<r, b, n, k>>] = "running", PhaseLands(<<r, b, n, k>>)
     PROVE Aside'
    BY <1>45, PhaseLandsDoes, RequestHas, CalmIs DEF Lands, OtherBlogs,
       Settles, Admitted, Aside, Beating, Locked, Threaded, Active,
       Finished, Doing, CalmStays
  <1>46. ASSUME NEW r \in Runs, NEW b \in Blogs, NEW n \in 1..MaxAttempt, NEW k
     \in Phases, broker[<<r, b, n, k>>] = "running", PhaseRefused(<<r, b, n,
     k>>) PROVE Aside'
    BY <1>46, PhaseRefusedDoes, RequestHas, CalmIs DEF Settles, Admitted,
       Aside, Beating, Locked, Threaded, Active, Finished, Doing, CalmStays
  <1>47. ASSUME NEW r \in Runs, NEW b \in Blogs, NEW n \in 1..MaxAttempt, NEW k
     \in Phases, broker[<<r, b, n, k>>] = "running", PhaseDies(<<r, b, n, k>>)
     PROVE Aside'
    BY <1>47, PhaseDiesDoes, RequestHas, CalmIs DEF Lands, OtherBlogs, Settles,
       Admitted, Aside, Beating, Locked, Threaded, Active, Finished,
       Doing, CalmStays
  <1>48. ASSUME NEW t \in restorers, RestorePasses(t) PROVE Aside'
    BY <1>48, RestorePassesDoes, RequestHas, CalmIs DEF OtherBlogs, Threads,
       Admitted, Aside, Beating, Locked, Threaded, Active, Finished,
       Doing, CalmStays
  <1>49. ASSUME NEW t \in restorers, RestoreFinalize(t) PROVE Aside'
    BY <1>49, RestoreFinalizeDoes, RequestHas, CalmIs DEF OtherBlogs, Threads,
       Admitted, Aside, Beating, Locked, Threaded, Active, Finished,
       Doing, CalmStays
  <1>50. ASSUME NEW t \in restorers, RestoreVerify(t) PROVE Aside'
    BY <1>50, RestoreVerifyDoes, RequestHas, CalmIs DEF Opens, JobsKeep, Plans,
       Progresses, Restores, Dones, Threads, Admitted, Aside, Beating, Locked,
       Threaded, Active, Finished, Doing, CalmStays
  <1>51. ASSUME NEW t \in restorers, RestoreFlag(t) PROVE Aside'
    BY <1>51, RestoreFlagDoes, RequestHas, CalmIs DEF Opens, JobsKeep, Plans,
       Progresses, Restores, Dones, Threads, Admitted, Aside, Beating, Locked,
       Threaded, Active, Finished, Doing, CalmStays
  <1>52. ASSUME NEW t \in restorers, RestoreImport(t) PROVE Aside'
    BY <1>52, RestoreImportDoes, RequestHas, CalmIs DEF Opens, JobsKeep, Plans,
       Progresses, Restores, Dones, Imports, Threads, Admitted, Aside, Beating,
       Locked, Threaded, Active, Finished, Doing, CalmStays
  <1>53. ASSUME NEW t \in restorers, RestoreFails(t) PROVE Aside'
    BY <1>53, RestoreFailsDoes, RequestHas, CalmIs DEF Opens, JobsKeep, Plans,
       Progresses, Restores, Dones, OtherBlogs, Threads, Admitted, Aside,
       Beating, Locked, Threaded, Active, Finished, Doing, CalmStays
  <1>54. ASSUME NEW t \in restorers, RestoreDies(t) PROVE Aside'
    BY <1>54, RestoreDiesDoes, RequestHas, CalmIs DEF Threads, Admitted, Aside,
       Beating, Locked, Threaded, Active, Finished, Doing, CalmStays
  <1>55. CASE UNCHANGED vars
    BY <1>55, RequestHas, CalmIs DEF vars, database, wordpress, threads,
       requests, Admitted, Aside, Beating, Locked, Threaded, Active,
       Finished, Doing, CalmStays
  <1> QED BY <1>1, <1>2, <1>3, <1>4, <1>5, <1>6, <1>7, <1>8, <1>9, <1>10,
     <1>11, <1>12, <1>13, <1>14, <1>15, <1>16, <1>17, <1>18, <1>19, <1>20,
     <1>21, <1>22, <1>23, <1>24, <1>25, <1>26, <1>27, <1>28, <1>29, <1>30,
     <1>31, <1>32, <1>33, <1>34, <1>35, <1>36, <1>37, <1>38, <1>39, <1>40,
     <1>41, <1>42, <1>43, <1>44, <1>45, <1>46, <1>47, <1>48, <1>49, <1>50,
     <1>51, <1>52, <1>53, <1>54, <1>55 DEF Did

(* A run with a thread beats.                                                *)
LEMMA BeatingStep ==
    ASSUME Shaped, Beating, Locked, Threaded, Did PROVE Beating'
  <1>1. ASSUME NotReady PROVE Beating'
    BY <1>1, NotReadyDoes, RequestHas DEF Beating, Locked, Threaded, Finished
  <1>2. ASSUME Start PROVE Beating'
    BY <1>2, StartDoes, RequestHas DEF Wakes, Elsewhere, SameRuns, Beating,
       Locked, Threaded, Finished
  <1>3. ASSUME Resume PROVE Beating'
    BY <1>3, ResumeDoes, RequestHas DEF Wakes, Elsewhere, OtherRuns, Opens,
       JobsKeep, Plans, Progresses, Restores, Dones, Beating, Locked, Threaded,
       Finished
  <1>4. ASSUME Retry PROVE Beating'
    BY <1>4, RetryDoes, RequestHas DEF Wakes, Elsewhere, OtherRuns, JobsKeep,
       Plans, Progresses, Restores, Dones, Beating, Locked, Threaded, Finished
  <1>5. ASSUME Restart PROVE Beating'
    BY <1>5, RestartDoes, RequestHas DEF Opens, JobsKeep, Plans, Progresses,
       Restores, Dones, Beating, Locked, Threaded, Finished
  <1>6. ASSUME NEW r \in Runs, Create(r) PROVE Beating'
    BY <1>6, CreateDoes, RequestHas DEF OtherRuns, Beating, Locked, Threaded,
       Finished
  <1>7. ASSUME NEW r \in Runs, AskStart(r) PROVE Beating'
    BY <1>7, AskStartDoes, RequestHas DEF Beating, Locked, Threaded, Finished
  <1>8. ASSUME NEW r \in Runs, AskResume(r) PROVE Beating'
    BY <1>8, AskResumeDoes, RequestHas DEF Beating, Locked, Threaded, Finished
  <1>9. ASSUME NEW r \in Runs, RequestPause(r) PROVE Beating'
    BY <1>9, RequestPauseDoes, RequestHas DEF SameRuns, Beating, Locked,
       Threaded, Finished
  <1>10. ASSUME NEW r \in Runs, ReadCancel(r) PROVE Beating'
    BY <1>10, ReadCancelDoes, RequestHas DEF Beating, Locked, Threaded,
       Finished
  <1>11. ASSUME NEW r \in Runs, Cancel(r) PROVE Beating'
    BY <1>11, CancelDoes, RequestHas DEF OtherRuns, Opens, JobsKeep, Plans,
       Progresses, Restores, Dones, Beating, Locked, Threaded, Finished
  <1>12. ASSUME NEW r \in Runs, Claim(r) PROVE Beating'
    BY <1>12, ClaimDoes, RequestHas DEF Leaves, Elsewhere, OtherRuns, Opens,
       JobsKeep, Plans, Progresses, Restores, Dones, Beating, Locked, Threaded,
       Finished
  <1>13. ASSUME NEW r \in Runs, VersionFence(r) PROVE Beating'
    BY <1>13, VersionFenceDoes, RequestHas DEF Turns, Stays, Elsewhere,
       Beating, Locked, Threaded, Finished
  <1>14. ASSUME NEW r \in Runs, FetchLive(r) PROVE Beating'
    BY <1>14, FetchLiveDoes, RequestHas DEF Stays, Elsewhere, Turns, Beating,
       Locked, Threaded, Finished, Reported, Saves
  <1>15. ASSUME NEW r \in Runs, TakeCopy(r) PROVE Beating'
    <2>1. run' = run /\ job' = job /\ request' = request
      BY <1>15, TakeCopyDoes
    <2>2. \A o \in Runs : worker[o].pc = "off" => worker'[o].pc = "off"
      BY <1>15, TakeCopyDoes DEF Saves, Elsewhere
    <2> QED BY <2>1, <2>2, RequestHas DEF Beating
  <1>16. ASSUME NEW r \in Runs, SaveProgress(r) PROVE Beating'
    BY <1>16, SaveProgressDoes, RequestHas DEF Turns, Stays, Elsewhere, Beats,
       OtherRuns, Plans, Restores, Dones, Opens, Beating, Locked, Threaded,
       Finished
  <1>17. ASSUME NEW r \in Runs, ProbeFinds(r) PROVE Beating'
    BY <1>17, ProbeFindsDoes, RequestHas DEF Turns, Stays, Elsewhere, Waits,
       Advances, Saves, Beating, Locked, Threaded, Finished, Reported
  <1>18. ASSUME NEW r \in Runs, ProbeMisses(r) PROVE Beating'
    BY <1>18, ProbeMissesDoes, RequestHas DEF Turns, Stays, Elsewhere, Beating,
       Locked, Threaded, Finished
  <1>19. ASSUME NEW r \in Runs, Post(r) PROVE Beating'
    BY <1>19, PostDoes, RequestHas DEF Waits, Stays, Elsewhere, Posts, Beating,
       Locked, Threaded, Finished
  <1>20. ASSUME NEW r \in Runs, PostAnswered(r) PROVE Beating'
    BY <1>20, PostAnsweredDoes, RequestHas DEF Turns, Stays, Elsewhere, Waits,
       Advances, Saves, Beating, Locked, Threaded, Finished, Reported
  <1>21. ASSUME NEW r \in Runs, PostRefused(r) PROVE Beating'
    BY <1>21, PostRefusedDoes, RequestHas DEF Turns, Stays, Elsewhere, Beating,
       Locked, Threaded, Finished
  <1>22. ASSUME NEW r \in Runs, Poll(r) PROVE Beating'
    BY <1>22, PollDoes, RequestHas DEF Turns, Stays, Elsewhere, Advances,
       Saves, Beating, Locked, Threaded, Finished, Reported
  <1>23. ASSUME NEW r \in Runs, GiveUp(r) PROVE Beating'
    BY <1>23, GiveUpDoes, RequestHas DEF Turns, Stays, Elsewhere, Beating,
       Locked, Threaded, Finished
  <1>24. ASSUME NEW r \in Runs, Verify(r) PROVE Beating'
    BY <1>24, VerifyDoes, RequestHas DEF Stays, Elsewhere, Turns, Beating,
       Locked, Threaded, Finished, Reported, Saves
  <1>25. ASSUME NEW r \in Runs, Refresh(r) PROVE Beating'
    <2>1. run' = run /\ job' = job /\ request' = request
      BY <1>25, RefreshDoes
    <2>2. \A o \in Runs : worker[o].pc = "off" => worker'[o].pc = "off"
      BY <1>25, RefreshDoes DEF Saves, Elsewhere
    <2> QED BY <2>1, <2>2, RequestHas DEF Beating
  <1>26. ASSUME NEW r \in Runs, RefreshFails(r) PROVE Beating'
    BY <1>26, RefreshFailsDoes, RequestHas DEF Elsewhere, Beating, Locked,
       Threaded, Finished
  <1>27. ASSUME NEW r \in Runs, FinishDone(r) PROVE Beating'
    BY <1>27, FinishDoneDoes, RequestHas DEF Leaves, Elsewhere, Beats,
       OtherRuns, Plans, Progresses, Restores, Opens, Beating, Locked,
       Threaded, Finished
  <1>28. ASSUME NEW r \in Runs, FinishFailed(r) PROVE Beating'
    BY <1>28, FinishFailedDoes, RequestHas DEF Leaves, Elsewhere, Beats,
       OtherRuns, Opens, JobsKeep, Plans, Progresses, Restores, Dones, Beating,
       Locked, Threaded, Finished
  <1>29. ASSUME NEW r \in Runs, StopRun(r) PROVE Beating'
    BY <1>29, StopRunDoes, RequestHas DEF Leaves, Elsewhere, OtherRuns,
       Beating, Locked, Threaded, Finished
  <1>30. ASSUME NEW r \in Runs, Leave(r) PROVE Beating'
    BY <1>30, LeaveDoes, RequestHas DEF Leaves, Elsewhere, Beating, Locked,
       Threaded, Finished
  <1>31. ASSUME NEW r \in Runs, ExportFails(r) PROVE Beating'
    BY <1>31, ExportFailsDoes, RequestHas DEF Turns, Stays, Elsewhere, Beating,
       Locked, Threaded, Finished
  <1>32. ASSUME NEW r \in Runs, ProbeUnheard(r) PROVE Beating'
    BY <1>32, ProbeUnheardDoes, RequestHas DEF Turns, Stays, Elsewhere,
       Beating, Locked, Threaded, Finished
  <1>33. ASSUME NEW r \in Runs, PostUnheard(r) PROVE Beating'
    BY <1>33, PostUnheardDoes, RequestHas DEF Turns, Stays, Elsewhere, Posts,
       Beating, Locked, Threaded, Finished
  <1>34. ASSUME NEW r \in Runs, PostFails(r) PROVE Beating'
    BY <1>34, PostFailsDoes, RequestHas DEF Turns, Stays, Elsewhere, Beating,
       Locked, Threaded, Finished
  <1>35. ASSUME NEW r \in Runs, CannotVerify(r) PROVE Beating'
    BY <1>35, CannotVerifyDoes, RequestHas DEF Saves, Elsewhere, Beating,
       Locked, Threaded, Finished
  <1>36. ASSUME NEW r \in Runs, Die(r) PROVE Beating'
    BY <1>36, DieDoes, RequestHas DEF Leaves, Elsewhere, Beating, Locked,
       Threaded, Finished
  <1>37. ASSUME NEW r \in Runs, GoStale(r) PROVE Beating'
    BY <1>37, GoStaleDoes, RequestHas DEF OtherRuns, Beating, Locked, Threaded,
       Finished
  <1>38. ASSUME NEW r \in Runs, NEW b \in Blogs, AskRetry(r, b) PROVE Beating'
    BY <1>38, AskRetryDoes, RequestHas DEF Beating, Locked, Threaded, Finished
  <1>39. ASSUME NEW r \in Runs, NEW b \in Blogs, Skip(r, b) PROVE Beating'
    BY <1>39, SkipDoes, RequestHas DEF Wakes, Elsewhere, OtherRuns, Opens,
       JobsKeep, Plans, Progresses, Restores, Dones, Beating, Locked, Threaded,
       Finished
  <1>40. ASSUME NEW r \in Runs, NEW b \in Blogs, RestoreBlog(r, b) PROVE
     Beating'
    BY <1>40, RestoreBlogDoes, RequestHas DEF Plans, Progresses, Dones, Opens,
       Beating, Locked, Threaded, Finished
  <1>41. ASSUME NEW r \in Runs, NEW b \in Blogs, RestoreGoesStale(r, b) PROVE
     Beating'
    BY <1>41, RestoreGoesStaleDoes, RequestHas DEF Opens, JobsKeep, Plans,
       Progresses, Restores, Dones, Beating, Locked, Threaded, Finished
  <1>42. ASSUME NEW b \in Blogs, CheckImport(b) PROVE Beating'
    BY <1>42, CheckImportDoes, RequestHas DEF Beating, Locked, Threaded,
       Finished
  <1>43. ASSUME NEW b \in Blogs, Import(b) PROVE Beating'
    BY <1>43, ImportDoes, RequestHas DEF Imports, Beating, Locked, Threaded,
       Finished
  <1>44. ASSUME NEW b \in Blogs, Edit(b) PROVE Beating'
    BY <1>44, EditDoes, RequestHas DEF OtherBlogs, Beating, Locked, Threaded,
       Finished
  <1>45. ASSUME NEW r \in Runs, NEW b \in Blogs, NEW n \in 1..MaxAttempt, NEW k
     \in Phases, broker[<<r, b, n, k>>] = "running", PhaseLands(<<r, b, n, k>>)
     PROVE Beating'
    BY <1>45, PhaseLandsDoes, RequestHas DEF Lands, OtherBlogs, Settles,
       Beating, Locked, Threaded, Finished
  <1>46. ASSUME NEW r \in Runs, NEW b \in Blogs, NEW n \in 1..MaxAttempt, NEW k
     \in Phases, broker[<<r, b, n, k>>] = "running", PhaseRefused(<<r, b, n,
     k>>) PROVE Beating'
    BY <1>46, PhaseRefusedDoes, RequestHas DEF Settles, Beating, Locked,
       Threaded, Finished
  <1>47. ASSUME NEW r \in Runs, NEW b \in Blogs, NEW n \in 1..MaxAttempt, NEW k
     \in Phases, broker[<<r, b, n, k>>] = "running", PhaseDies(<<r, b, n, k>>)
     PROVE Beating'
    BY <1>47, PhaseDiesDoes, RequestHas DEF Lands, OtherBlogs, Settles,
       Beating, Locked, Threaded, Finished
  <1>48. ASSUME NEW t \in restorers, RestorePasses(t) PROVE Beating'
    BY <1>48, RestorePassesDoes, RequestHas DEF OtherBlogs, Threads, Beating,
       Locked, Threaded, Finished
  <1>49. ASSUME NEW t \in restorers, RestoreFinalize(t) PROVE Beating'
    BY <1>49, RestoreFinalizeDoes, RequestHas DEF OtherBlogs, Threads, Beating,
       Locked, Threaded, Finished
  <1>50. ASSUME NEW t \in restorers, RestoreVerify(t) PROVE Beating'
    BY <1>50, RestoreVerifyDoes, RequestHas DEF Opens, JobsKeep, Plans,
       Progresses, Restores, Dones, Threads, Beating, Locked, Threaded,
       Finished
  <1>51. ASSUME NEW t \in restorers, RestoreFlag(t) PROVE Beating'
    BY <1>51, RestoreFlagDoes, RequestHas DEF Opens, JobsKeep, Plans,
       Progresses, Restores, Dones, Threads, Beating, Locked, Threaded,
       Finished
  <1>52. ASSUME NEW t \in restorers, RestoreImport(t) PROVE Beating'
    BY <1>52, RestoreImportDoes, RequestHas DEF Opens, JobsKeep, Plans,
       Progresses, Restores, Dones, Imports, Threads, Beating, Locked,
       Threaded, Finished
  <1>53. ASSUME NEW t \in restorers, RestoreFails(t) PROVE Beating'
    BY <1>53, RestoreFailsDoes, RequestHas DEF Opens, JobsKeep, Plans,
       Progresses, Restores, Dones, OtherBlogs, Threads, Beating, Locked,
       Threaded, Finished
  <1>54. ASSUME NEW t \in restorers, RestoreDies(t) PROVE Beating'
    BY <1>54, RestoreDiesDoes, RequestHas DEF Threads, Beating, Locked,
       Threaded, Finished
  <1>55. CASE UNCHANGED vars
    BY <1>55, RequestHas DEF vars, database, wordpress, threads, requests,
       Beating, Locked, Threaded, Finished
  <1> QED BY <1>1, <1>2, <1>3, <1>4, <1>5, <1>6, <1>7, <1>8, <1>9, <1>10,
     <1>11, <1>12, <1>13, <1>14, <1>15, <1>16, <1>17, <1>18, <1>19, <1>20,
     <1>21, <1>22, <1>23, <1>24, <1>25, <1>26, <1>27, <1>28, <1>29, <1>30,
     <1>31, <1>32, <1>33, <1>34, <1>35, <1>36, <1>37, <1>38, <1>39, <1>40,
     <1>41, <1>42, <1>43, <1>44, <1>45, <1>46, <1>47, <1>48, <1>49, <1>50,
     <1>51, <1>52, <1>53, <1>54, <1>55 DEF Did

(* The request that holds the lock finds what it has checked.                *)
LEMMA LockedStep ==
    ASSUME Shaped, Admitted, Threaded, Did, CalmStays PROVE Locked'
  <1>1. ASSUME NotReady PROVE Locked'
    BY <1>1, NotReadyDoes, RequestHas, CalmIs, AloneIs DEF Admitted, Locked,
       OneActive, Threaded, Alone, Active, Finished, CalmStays
  <1>2. ASSUME Start PROVE Locked'
    BY <1>2, StartDoes, RequestHas, CalmIs, AloneIs DEF Wakes, Elsewhere,
       SameRuns, Admitted, Locked, OneActive, Threaded, Alone, Active,
       Finished, CalmStays
  <1>3. ASSUME Resume PROVE Locked'
    BY <1>3, ResumeDoes, RequestHas, CalmIs, AloneIs DEF Wakes, Elsewhere,
       OtherRuns, Opens, JobsKeep, Plans, Progresses, Restores, Dones,
       Admitted, Locked, OneActive, Threaded, Alone, Active, Finished, CalmStays
  <1>4. ASSUME Retry PROVE Locked'
    BY <1>4, RetryDoes, RequestHas, CalmIs, AloneIs DEF Wakes, Elsewhere,
       OtherRuns, JobsKeep, Plans, Progresses, Restores, Dones, Admitted,
       Locked, OneActive, Threaded, Alone, Active, Finished, CalmStays
  <1>5. ASSUME Restart PROVE Locked'
    BY <1>5, RestartDoes, RequestHas, CalmIs, AloneIs DEF Opens, JobsKeep,
       Plans, Progresses, Restores, Dones, Admitted, Locked, OneActive,
       Threaded, Alone, Active, Finished, CalmStays
  <1>6. ASSUME NEW r \in Runs, Create(r) PROVE Locked'
    BY <1>6, CreateDoes, RequestHas, CalmIs, AloneIs DEF OtherRuns, Admitted,
       Locked, OneActive, Threaded, Alone, Active, Finished, CalmStays
  <1>7. ASSUME NEW r \in Runs, AskStart(r) PROVE Locked'
    BY <1>7, AskStartDoes, RequestHas, CalmIs, AloneIs DEF Admitted, Locked,
       OneActive, Threaded, Alone, Active, Finished, CalmStays
  <1>8. ASSUME NEW r \in Runs, AskResume(r) PROVE Locked'
    BY <1>8, AskResumeDoes, RequestHas, CalmIs, AloneIs DEF Admitted, Locked,
       OneActive, Threaded, Alone, Active, Finished, CalmStays
  <1>9. ASSUME NEW r \in Runs, RequestPause(r) PROVE Locked'
    BY <1>9, RequestPauseDoes, RequestHas, CalmIs, AloneIs DEF SameRuns,
       Admitted, Locked, OneActive, Threaded, Alone, Active, Finished, CalmStays
  <1>10. ASSUME NEW r \in Runs, ReadCancel(r) PROVE Locked'
    BY <1>10, ReadCancelDoes, RequestHas, CalmIs, AloneIs DEF Admitted, Locked,
       OneActive, Threaded, Alone, Active, Finished, CalmStays
  <1>11. ASSUME NEW r \in Runs, Cancel(r) PROVE Locked'
    BY <1>11, CancelDoes, RequestHas, CalmIs, AloneIs DEF OtherRuns, Opens,
       JobsKeep, Plans, Progresses, Restores, Dones, Admitted, Locked,
       OneActive, Threaded, Alone, Active, Finished, CalmStays
  <1>12. ASSUME NEW r \in Runs, Claim(r) PROVE Locked'
    BY <1>12, ClaimDoes, RequestHas, CalmIs, AloneIs DEF Leaves, Elsewhere,
       OtherRuns, Opens, JobsKeep, Plans, Progresses, Restores, Dones,
       Admitted, Locked, OneActive, Threaded, Alone, Active, Finished, CalmStays
  <1>13. ASSUME NEW r \in Runs, VersionFence(r) PROVE Locked'
    BY <1>13, VersionFenceDoes, RequestHas, CalmIs, AloneIs DEF Turns, Stays,
       Elsewhere, Admitted, Locked, OneActive, Threaded, Alone, Active,
       Finished, CalmStays
  <1>14. ASSUME NEW r \in Runs, FetchLive(r) PROVE Locked'
    BY <1>14, FetchLiveDoes, RequestHas, CalmIs, AloneIs DEF Stays, Elsewhere,
       Turns, Admitted, Locked, OneActive, Threaded, Alone, Active,
       Finished, CalmStays, Reported, Saves
  <1>15. ASSUME NEW r \in Runs, TakeCopy(r) PROVE Locked'
    <2>1. run' = run /\ job' = job /\ request' = request
      BY <1>15, TakeCopyDoes
    <2> QED BY <2>1, RequestHas DEF Admitted, Locked, Alone, CalmStays
  <1>16. ASSUME NEW r \in Runs, SaveProgress(r) PROVE Locked'
    BY <1>16, SaveProgressDoes, RequestHas, CalmIs, AloneIs DEF Turns, Stays,
       Elsewhere, Beats, OtherRuns, Plans, Restores, Dones, Opens, Admitted,
       Locked, OneActive, Threaded, Alone, Active, Finished, CalmStays
  <1>17. ASSUME NEW r \in Runs, ProbeFinds(r) PROVE Locked'
    BY <1>17, ProbeFindsDoes, RequestHas, CalmIs, AloneIs DEF Turns, Stays,
       Elsewhere, Waits, Advances, Saves, Admitted, Locked, OneActive,
       Threaded, Alone, Active, Finished, CalmStays, Reported
  <1>18. ASSUME NEW r \in Runs, ProbeMisses(r) PROVE Locked'
    BY <1>18, ProbeMissesDoes, RequestHas, CalmIs, AloneIs DEF Turns, Stays,
       Elsewhere, Admitted, Locked, OneActive, Threaded, Alone, Active,
       Finished, CalmStays
  <1>19. ASSUME NEW r \in Runs, Post(r) PROVE Locked'
    BY <1>19, PostDoes, RequestHas, CalmIs, AloneIs DEF Waits, Stays,
       Elsewhere, Posts, Admitted, Locked, OneActive, Threaded, Alone, Active, Finished, CalmStays
  <1>20. ASSUME NEW r \in Runs, PostAnswered(r) PROVE Locked'
    BY <1>20, PostAnsweredDoes, RequestHas, CalmIs, AloneIs DEF Turns, Stays,
       Elsewhere, Waits, Advances, Saves, Admitted, Locked, OneActive,
       Threaded, Alone, Active, Finished, CalmStays, Reported
  <1>21. ASSUME NEW r \in Runs, PostRefused(r) PROVE Locked'
    BY <1>21, PostRefusedDoes, RequestHas, CalmIs, AloneIs DEF Turns, Stays,
       Elsewhere, Admitted, Locked, OneActive, Threaded, Alone, Active,
       Finished, CalmStays
  <1>22. ASSUME NEW r \in Runs, Poll(r) PROVE Locked'
    BY <1>22, PollDoes, RequestHas, CalmIs, AloneIs DEF Turns, Stays,
       Elsewhere, Advances, Saves, Admitted, Locked, OneActive, Threaded,
       Alone, Active, Finished, CalmStays, Reported
  <1>23. ASSUME NEW r \in Runs, GiveUp(r) PROVE Locked'
    BY <1>23, GiveUpDoes, RequestHas, CalmIs, AloneIs DEF Turns, Stays,
       Elsewhere, Admitted, Locked, OneActive, Threaded, Alone, Active,
       Finished, CalmStays
  <1>24. ASSUME NEW r \in Runs, Verify(r) PROVE Locked'
    BY <1>24, VerifyDoes, RequestHas, CalmIs, AloneIs DEF Stays, Elsewhere,
       Turns, Admitted, Locked, OneActive, Threaded, Alone, Active,
       Finished, CalmStays, Reported, Saves
  <1>25. ASSUME NEW r \in Runs, Refresh(r) PROVE Locked'
    <2>1. run' = run /\ job' = job /\ request' = request
      BY <1>25, RefreshDoes
    <2> QED BY <2>1, RequestHas DEF Admitted, Locked, Alone, CalmStays
  <1>26. ASSUME NEW r \in Runs, RefreshFails(r) PROVE Locked'
    BY <1>26, RefreshFailsDoes, RequestHas, CalmIs, AloneIs DEF Elsewhere,
       Admitted, Locked, OneActive, Threaded, Alone, Active, Finished, CalmStays
  <1>27. ASSUME NEW r \in Runs, FinishDone(r) PROVE Locked'
    BY <1>27, FinishDoneDoes, RequestHas, CalmIs, AloneIs DEF Leaves,
       Elsewhere, Beats, OtherRuns, Plans, Progresses, Restores, Opens,
       Admitted, Locked, OneActive, Threaded, Alone, Active, Finished, CalmStays
  <1>28. ASSUME NEW r \in Runs, FinishFailed(r) PROVE Locked'
    BY <1>28, FinishFailedDoes, RequestHas, CalmIs, AloneIs DEF Leaves,
       Elsewhere, Beats, OtherRuns, Opens, JobsKeep, Plans, Progresses,
       Restores, Dones, Admitted, Locked, OneActive, Threaded, Alone, Active, Finished, CalmStays
  <1>29. ASSUME NEW r \in Runs, StopRun(r) PROVE Locked'
    BY <1>29, StopRunDoes, RequestHas, CalmIs, AloneIs DEF Leaves, Elsewhere,
       OtherRuns, Admitted, Locked, OneActive, Threaded, Alone, Active,
       Finished, CalmStays
  <1>30. ASSUME NEW r \in Runs, Leave(r) PROVE Locked'
    BY <1>30, LeaveDoes, RequestHas, CalmIs, AloneIs DEF Leaves, Elsewhere,
       Admitted, Locked, OneActive, Threaded, Alone, Active, Finished, CalmStays
  <1>31. ASSUME NEW r \in Runs, ExportFails(r) PROVE Locked'
    BY <1>31, ExportFailsDoes, RequestHas, CalmIs, AloneIs DEF Turns, Stays,
       Elsewhere, Admitted, Locked, OneActive, Threaded, Alone, Active,
       Finished, CalmStays
  <1>32. ASSUME NEW r \in Runs, ProbeUnheard(r) PROVE Locked'
    BY <1>32, ProbeUnheardDoes, RequestHas, CalmIs, AloneIs DEF Turns, Stays,
       Elsewhere, Admitted, Locked, OneActive, Threaded, Alone, Active,
       Finished, CalmStays
  <1>33. ASSUME NEW r \in Runs, PostUnheard(r) PROVE Locked'
    BY <1>33, PostUnheardDoes, RequestHas, CalmIs, AloneIs DEF Turns, Stays,
       Elsewhere, Posts, Admitted, Locked, OneActive, Threaded, Alone, Active, Finished, CalmStays
  <1>34. ASSUME NEW r \in Runs, PostFails(r) PROVE Locked'
    BY <1>34, PostFailsDoes, RequestHas, CalmIs, AloneIs DEF Turns, Stays,
       Elsewhere, Admitted, Locked, OneActive, Threaded, Alone, Active,
       Finished, CalmStays
  <1>35. ASSUME NEW r \in Runs, CannotVerify(r) PROVE Locked'
    BY <1>35, CannotVerifyDoes, RequestHas, CalmIs, AloneIs DEF Saves,
       Elsewhere, Admitted, Locked, OneActive, Threaded, Alone, Active,
       Finished, CalmStays
  <1>36. ASSUME NEW r \in Runs, Die(r) PROVE Locked'
    BY <1>36, DieDoes, RequestHas, CalmIs, AloneIs DEF Leaves, Elsewhere,
       Admitted, Locked, OneActive, Threaded, Alone, Active, Finished, CalmStays
  <1>37. ASSUME NEW r \in Runs, GoStale(r) PROVE Locked'
    BY <1>37, GoStaleDoes, RequestHas, CalmIs, AloneIs DEF OtherRuns, Admitted,
       Locked, OneActive, Threaded, Alone, Active, Finished, CalmStays
  <1>38. ASSUME NEW r \in Runs, NEW b \in Blogs, AskRetry(r, b) PROVE Locked'
    <2>1. /\ request = None /\ Calm /\ Alone(r) /\ run[r].status # "none" /\ run' = run /\ job' = job
          /\ request' # None => request'.run = r /\ (request'.op = "start" => run[r].status = "queued")
      BY <1>38, AskRetryDoes, CalmIs, AloneIs
    <2> QED BY <2>1 DEF Locked, Alone, CalmStays
  <1>39. ASSUME NEW r \in Runs, NEW b \in Blogs, Skip(r, b) PROVE Locked'
    BY <1>39, SkipDoes, RequestHas, CalmIs, AloneIs DEF Wakes, Elsewhere,
       OtherRuns, Opens, JobsKeep, Plans, Progresses, Restores, Dones,
       Admitted, Locked, OneActive, Threaded, Alone, Active, Finished, CalmStays
  <1>40. ASSUME NEW r \in Runs, NEW b \in Blogs, RestoreBlog(r, b) PROVE
     Locked'
    BY <1>40, RestoreBlogDoes, RequestHas, CalmIs, AloneIs DEF Plans,
       Progresses, Dones, Opens, Admitted, Locked, OneActive, Threaded, Alone,
       Active, Finished, CalmStays
  <1>41. ASSUME NEW r \in Runs, NEW b \in Blogs, RestoreGoesStale(r, b) PROVE
     Locked'
    BY <1>41, RestoreGoesStaleDoes, RequestHas, CalmIs, AloneIs DEF Opens,
       JobsKeep, Plans, Progresses, Restores, Dones, Admitted, Locked,
       OneActive, Threaded, Alone, Active, Finished, CalmStays
  <1>42. ASSUME NEW b \in Blogs, CheckImport(b) PROVE Locked'
    BY <1>42, CheckImportDoes, RequestHas, CalmIs, AloneIs DEF Admitted,
       Locked, OneActive, Threaded, Alone, Active, Finished, CalmStays
  <1>43. ASSUME NEW b \in Blogs, Import(b) PROVE Locked'
    BY <1>43, ImportDoes, RequestHas, CalmIs, AloneIs DEF Imports, Admitted,
       Locked, OneActive, Threaded, Alone, Active, Finished, CalmStays
  <1>44. ASSUME NEW b \in Blogs, Edit(b) PROVE Locked'
    BY <1>44, EditDoes, RequestHas, CalmIs, AloneIs DEF OtherBlogs, Admitted,
       Locked, OneActive, Threaded, Alone, Active, Finished, CalmStays
  <1>45. ASSUME NEW r \in Runs, NEW b \in Blogs, NEW n \in 1..MaxAttempt, NEW k
     \in Phases, broker[<<r, b, n, k>>] = "running", PhaseLands(<<r, b, n, k>>)
     PROVE Locked'
    BY <1>45, PhaseLandsDoes, RequestHas, CalmIs, AloneIs DEF Lands,
       OtherBlogs, Settles, Admitted, Locked, OneActive, Threaded, Alone, Active, Finished, CalmStays
  <1>46. ASSUME NEW r \in Runs, NEW b \in Blogs, NEW n \in 1..MaxAttempt, NEW k
     \in Phases, broker[<<r, b, n, k>>] = "running", PhaseRefused(<<r, b, n,
     k>>) PROVE Locked'
    BY <1>46, PhaseRefusedDoes, RequestHas, CalmIs, AloneIs DEF Settles,
       Admitted, Locked, OneActive, Threaded, Alone, Active, Finished, CalmStays
  <1>47. ASSUME NEW r \in Runs, NEW b \in Blogs, NEW n \in 1..MaxAttempt, NEW k
     \in Phases, broker[<<r, b, n, k>>] = "running", PhaseDies(<<r, b, n, k>>)
     PROVE Locked'
    BY <1>47, PhaseDiesDoes, RequestHas, CalmIs, AloneIs DEF Lands, OtherBlogs,
       Settles, Admitted, Locked, OneActive, Threaded, Alone, Active,
       Finished, CalmStays
  <1>48. ASSUME NEW t \in restorers, RestorePasses(t) PROVE Locked'
    BY <1>48, RestorePassesDoes, RequestHas, CalmIs, AloneIs DEF OtherBlogs,
       Threads, Admitted, Locked, OneActive, Threaded, Alone, Active,
       Finished, CalmStays
  <1>49. ASSUME NEW t \in restorers, RestoreFinalize(t) PROVE Locked'
    BY <1>49, RestoreFinalizeDoes, RequestHas, CalmIs, AloneIs DEF OtherBlogs,
       Threads, Admitted, Locked, OneActive, Threaded, Alone, Active,
       Finished, CalmStays
  <1>50. ASSUME NEW t \in restorers, RestoreVerify(t) PROVE Locked'
    BY <1>50, RestoreVerifyDoes, RequestHas, CalmIs, AloneIs DEF Opens,
       JobsKeep, Plans, Progresses, Restores, Dones, Threads, Admitted, Locked,
       OneActive, Threaded, Alone, Active, Finished, CalmStays
  <1>51. ASSUME NEW t \in restorers, RestoreFlag(t) PROVE Locked'
    BY <1>51, RestoreFlagDoes, RequestHas, CalmIs, AloneIs DEF Opens, JobsKeep,
       Plans, Progresses, Restores, Dones, Threads, Admitted, Locked,
       OneActive, Threaded, Alone, Active, Finished, CalmStays
  <1>52. ASSUME NEW t \in restorers, RestoreImport(t) PROVE Locked'
    BY <1>52, RestoreImportDoes, RequestHas, CalmIs, AloneIs DEF Opens,
       JobsKeep, Plans, Progresses, Restores, Dones, Imports, Threads,
       Admitted, Locked, OneActive, Threaded, Alone, Active, Finished, CalmStays
  <1>53. ASSUME NEW t \in restorers, RestoreFails(t) PROVE Locked'
    BY <1>53, RestoreFailsDoes, RequestHas, CalmIs, AloneIs DEF Opens,
       JobsKeep, Plans, Progresses, Restores, Dones, OtherBlogs, Threads,
       Admitted, Locked, OneActive, Threaded, Alone, Active, Finished, CalmStays
  <1>54. ASSUME NEW t \in restorers, RestoreDies(t) PROVE Locked'
    BY <1>54, RestoreDiesDoes, RequestHas, CalmIs, AloneIs DEF Threads,
       Admitted, Locked, OneActive, Threaded, Alone, Active, Finished, CalmStays
  <1>55. CASE UNCHANGED vars
    BY <1>55, RequestHas, CalmIs, AloneIs DEF vars, database, wordpress,
       threads, requests, Admitted, Locked, OneActive, Threaded, Alone, Active, Finished, CalmStays
  <1> QED BY <1>1, <1>2, <1>3, <1>4, <1>5, <1>6, <1>7, <1>8, <1>9, <1>10,
     <1>11, <1>12, <1>13, <1>14, <1>15, <1>16, <1>17, <1>18, <1>19, <1>20,
     <1>21, <1>22, <1>23, <1>24, <1>25, <1>26, <1>27, <1>28, <1>29, <1>30,
     <1>31, <1>32, <1>33, <1>34, <1>35, <1>36, <1>37, <1>38, <1>39, <1>40,
     <1>41, <1>42, <1>43, <1>44, <1>45, <1>46, <1>47, <1>48, <1>49, <1>50,
     <1>51, <1>52, <1>53, <1>54, <1>55 DEF Did

(* A run that is over has no open job.                                       *)
LEMMA OverStep ==
    ASSUME Shaped, Over, Threaded, Did PROVE Over'
  <1>1. ASSUME NotReady PROVE Over'
    BY <1>1, NotReadyDoes, RequestHas, BlogsIn DEF Over, Threaded, Finished,
       Open
  <1>2. ASSUME Start PROVE Over'
    BY <1>2, StartDoes, RequestHas, BlogsIn DEF Wakes, Elsewhere, SameRuns,
       Over, Threaded, Finished, Open
  <1>3. ASSUME Resume PROVE Over'
    BY <1>3, ResumeDoes, RequestHas, BlogsIn DEF Wakes, Elsewhere, OtherRuns,
       Opens, JobsKeep, Plans, Progresses, Restores, Dones, Over, Threaded,
       Finished, Open
  <1>4. ASSUME Retry PROVE Over'
    BY <1>4, RetryDoes, RequestHas, BlogsIn DEF Wakes, Elsewhere, OtherRuns,
       JobsKeep, Plans, Progresses, Restores, Dones, Over, Threaded, Finished,
       Open
  <1>5. ASSUME Restart PROVE Over'
    BY <1>5, RestartDoes, RequestHas, BlogsIn DEF Opens, JobsKeep, Plans,
       Progresses, Restores, Dones, Over, Threaded, Finished, Open
  <1>6. ASSUME NEW r \in Runs, Create(r) PROVE Over'
    BY <1>6, CreateDoes, RequestHas, BlogsIn DEF OtherRuns, Over, Threaded,
       Finished, Open
  <1>7. ASSUME NEW r \in Runs, AskStart(r) PROVE Over'
    BY <1>7, AskStartDoes, RequestHas, BlogsIn DEF Over, Threaded, Finished,
       Open
  <1>8. ASSUME NEW r \in Runs, AskResume(r) PROVE Over'
    BY <1>8, AskResumeDoes, RequestHas, BlogsIn DEF Over, Threaded, Finished,
       Open
  <1>9. ASSUME NEW r \in Runs, RequestPause(r) PROVE Over'
    BY <1>9, RequestPauseDoes, RequestHas, BlogsIn DEF SameRuns, Over,
       Threaded, Finished, Open
  <1>10. ASSUME NEW r \in Runs, ReadCancel(r) PROVE Over'
    BY <1>10, ReadCancelDoes, RequestHas, BlogsIn DEF Over, Threaded, Finished,
       Open
  <1>11. ASSUME NEW r \in Runs, Cancel(r) PROVE Over'
    BY <1>11, CancelDoes, RequestHas, BlogsIn DEF OtherRuns, Opens, JobsKeep,
       Plans, Progresses, Restores, Dones, Over, Threaded, Finished, Open
  <1>12. ASSUME NEW r \in Runs, Claim(r) PROVE Over'
    BY <1>12, ClaimDoes, RequestHas, BlogsIn DEF Leaves, Elsewhere, OtherRuns,
       Opens, JobsKeep, Plans, Progresses, Restores, Dones, Over, Threaded,
       Finished, Open
  <1>13. ASSUME NEW r \in Runs, VersionFence(r) PROVE Over'
    BY <1>13, VersionFenceDoes, RequestHas, BlogsIn DEF Turns, Stays,
       Elsewhere, Over, Threaded, Finished, Open
  <1>14. ASSUME NEW r \in Runs, FetchLive(r) PROVE Over'
    BY <1>14, FetchLiveDoes, RequestHas, BlogsIn DEF Stays, Elsewhere, Turns,
       Over, Threaded, Finished, Open, Reported, Saves
  <1>15. ASSUME NEW r \in Runs, TakeCopy(r) PROVE Over'
    BY <1>15, TakeCopyDoes, RequestHas, BlogsIn DEF Saves, Elsewhere, Over,
       Threaded, Finished, Open
  <1>16. ASSUME NEW r \in Runs, SaveProgress(r) PROVE Over'
    BY <1>16, SaveProgressDoes, RequestHas, BlogsIn DEF Turns, Stays,
       Elsewhere, Beats, OtherRuns, Plans, Restores, Dones, Opens, Over,
       Threaded, Finished, Open
  <1>17. ASSUME NEW r \in Runs, ProbeFinds(r) PROVE Over'
    BY <1>17, ProbeFindsDoes, RequestHas, BlogsIn DEF Turns, Stays, Elsewhere,
       Waits, Advances, Saves, Over, Threaded, Finished, Open, Reported
  <1>18. ASSUME NEW r \in Runs, ProbeMisses(r) PROVE Over'
    BY <1>18, ProbeMissesDoes, RequestHas, BlogsIn DEF Turns, Stays, Elsewhere,
       Over, Threaded, Finished, Open
  <1>19. ASSUME NEW r \in Runs, Post(r) PROVE Over'
    BY <1>19, PostDoes, RequestHas, BlogsIn DEF Waits, Stays, Elsewhere, Posts,
       Over, Threaded, Finished, Open
  <1>20. ASSUME NEW r \in Runs, PostAnswered(r) PROVE Over'
    BY <1>20, PostAnsweredDoes, RequestHas, BlogsIn DEF Turns, Stays,
       Elsewhere, Waits, Advances, Saves, Over, Threaded, Finished, Open, Reported
  <1>21. ASSUME NEW r \in Runs, PostRefused(r) PROVE Over'
    BY <1>21, PostRefusedDoes, RequestHas, BlogsIn DEF Turns, Stays, Elsewhere,
       Over, Threaded, Finished, Open
  <1>22. ASSUME NEW r \in Runs, Poll(r) PROVE Over'
    BY <1>22, PollDoes, RequestHas, BlogsIn DEF Turns, Stays, Elsewhere,
       Advances, Saves, Over, Threaded, Finished, Open, Reported
  <1>23. ASSUME NEW r \in Runs, GiveUp(r) PROVE Over'
    BY <1>23, GiveUpDoes, RequestHas, BlogsIn DEF Turns, Stays, Elsewhere,
       Over, Threaded, Finished, Open
  <1>24. ASSUME NEW r \in Runs, Verify(r) PROVE Over'
    BY <1>24, VerifyDoes, RequestHas, BlogsIn DEF Stays, Elsewhere, Turns,
       Over, Threaded, Finished, Open, Reported, Saves
  <1>25. ASSUME NEW r \in Runs, Refresh(r) PROVE Over'
    BY <1>25, RefreshDoes, RequestHas, BlogsIn DEF Saves, Elsewhere, Imports,
       Over, Threaded, Finished, Open
  <1>26. ASSUME NEW r \in Runs, RefreshFails(r) PROVE Over'
    BY <1>26, RefreshFailsDoes, RequestHas, BlogsIn DEF Elsewhere, Over,
       Threaded, Finished, Open
  <1>27. ASSUME NEW r \in Runs, FinishDone(r) PROVE Over'
    BY <1>27, FinishDoneDoes, RequestHas, BlogsIn DEF Leaves, Elsewhere, Beats,
       OtherRuns, Plans, Progresses, Restores, Opens, Over, Threaded, Finished,
       Open
  <1>28. ASSUME NEW r \in Runs, FinishFailed(r) PROVE Over'
    BY <1>28, FinishFailedDoes, RequestHas, BlogsIn DEF Leaves, Elsewhere,
       Beats, OtherRuns, Opens, JobsKeep, Plans, Progresses, Restores, Dones,
       Over, Threaded, Finished, Open
  <1>29. ASSUME NEW r \in Runs, StopRun(r) PROVE Over'
    BY <1>29, StopRunDoes, RequestHas, BlogsIn DEF Leaves, Elsewhere,
       OtherRuns, Over, Threaded, Finished, Open
  <1>30. ASSUME NEW r \in Runs, Leave(r) PROVE Over'
    BY <1>30, LeaveDoes, RequestHas, BlogsIn DEF Leaves, Elsewhere, Over,
       Threaded, Finished, Open
  <1>31. ASSUME NEW r \in Runs, ExportFails(r) PROVE Over'
    BY <1>31, ExportFailsDoes, RequestHas, BlogsIn DEF Turns, Stays, Elsewhere,
       Over, Threaded, Finished, Open
  <1>32. ASSUME NEW r \in Runs, ProbeUnheard(r) PROVE Over'
    BY <1>32, ProbeUnheardDoes, RequestHas, BlogsIn DEF Turns, Stays,
       Elsewhere, Over, Threaded, Finished, Open
  <1>33. ASSUME NEW r \in Runs, PostUnheard(r) PROVE Over'
    BY <1>33, PostUnheardDoes, RequestHas, BlogsIn DEF Turns, Stays, Elsewhere,
       Posts, Over, Threaded, Finished, Open
  <1>34. ASSUME NEW r \in Runs, PostFails(r) PROVE Over'
    BY <1>34, PostFailsDoes, RequestHas, BlogsIn DEF Turns, Stays, Elsewhere,
       Over, Threaded, Finished, Open
  <1>35. ASSUME NEW r \in Runs, CannotVerify(r) PROVE Over'
    BY <1>35, CannotVerifyDoes, RequestHas, BlogsIn DEF Saves, Elsewhere, Over,
       Threaded, Finished, Open
  <1>36. ASSUME NEW r \in Runs, Die(r) PROVE Over'
    BY <1>36, DieDoes, RequestHas, BlogsIn DEF Leaves, Elsewhere, Over,
       Threaded, Finished, Open
  <1>37. ASSUME NEW r \in Runs, GoStale(r) PROVE Over'
    BY <1>37, GoStaleDoes, RequestHas, BlogsIn DEF OtherRuns, Over, Threaded,
       Finished, Open
  <1>38. ASSUME NEW r \in Runs, NEW b \in Blogs, AskRetry(r, b) PROVE Over'
    BY <1>38, AskRetryDoes, RequestHas, BlogsIn DEF Over, Threaded, Finished,
       Open
  <1>39. ASSUME NEW r \in Runs, NEW b \in Blogs, Skip(r, b) PROVE Over'
    BY <1>39, SkipDoes, RequestHas, BlogsIn DEF Wakes, Elsewhere, OtherRuns,
       Opens, JobsKeep, Plans, Progresses, Restores, Dones, Over, Threaded,
       Finished, Open
  <1>40. ASSUME NEW r \in Runs, NEW b \in Blogs, RestoreBlog(r, b) PROVE Over'
    BY <1>40, RestoreBlogDoes, RequestHas, BlogsIn DEF Plans, Progresses,
       Dones, Opens, Over, Threaded, Finished, Open
  <1>41. ASSUME NEW r \in Runs, NEW b \in Blogs, RestoreGoesStale(r, b) PROVE
     Over'
    BY <1>41, RestoreGoesStaleDoes, RequestHas, BlogsIn DEF Opens, JobsKeep,
       Plans, Progresses, Restores, Dones, Over, Threaded, Finished, Open
  <1>42. ASSUME NEW b \in Blogs, CheckImport(b) PROVE Over'
    BY <1>42, CheckImportDoes, RequestHas, BlogsIn DEF Over, Threaded,
       Finished, Open
  <1>43. ASSUME NEW b \in Blogs, Import(b) PROVE Over'
    BY <1>43, ImportDoes, RequestHas, BlogsIn DEF Imports, Over, Threaded,
       Finished, Open
  <1>44. ASSUME NEW b \in Blogs, Edit(b) PROVE Over'
    BY <1>44, EditDoes, RequestHas, BlogsIn DEF OtherBlogs, Over, Threaded,
       Finished, Open
  <1>45. ASSUME NEW r \in Runs, NEW b \in Blogs, NEW n \in 1..MaxAttempt, NEW k
     \in Phases, broker[<<r, b, n, k>>] = "running", PhaseLands(<<r, b, n, k>>)
     PROVE Over'
    BY <1>45, PhaseLandsDoes, RequestHas, BlogsIn DEF Lands, OtherBlogs,
       Settles, Over, Threaded, Finished, Open
  <1>46. ASSUME NEW r \in Runs, NEW b \in Blogs, NEW n \in 1..MaxAttempt, NEW k
     \in Phases, broker[<<r, b, n, k>>] = "running", PhaseRefused(<<r, b, n,
     k>>) PROVE Over'
    BY <1>46, PhaseRefusedDoes, RequestHas, BlogsIn DEF Settles, Over,
       Threaded, Finished, Open
  <1>47. ASSUME NEW r \in Runs, NEW b \in Blogs, NEW n \in 1..MaxAttempt, NEW k
     \in Phases, broker[<<r, b, n, k>>] = "running", PhaseDies(<<r, b, n, k>>)
     PROVE Over'
    BY <1>47, PhaseDiesDoes, RequestHas, BlogsIn DEF Lands, OtherBlogs,
       Settles, Over, Threaded, Finished, Open
  <1>48. ASSUME NEW t \in restorers, RestorePasses(t) PROVE Over'
    BY <1>48, RestorePassesDoes, RequestHas, BlogsIn DEF Opens, OtherBlogs, Threads,
       Over, Threaded, Finished, Open
  <1>49. ASSUME NEW t \in restorers, RestoreFinalize(t) PROVE Over'
    BY <1>49, RestoreFinalizeDoes, RequestHas, BlogsIn DEF Opens, OtherBlogs, Threads,
       Over, Threaded, Finished, Open
  <1>50. ASSUME NEW t \in restorers, RestoreVerify(t) PROVE Over'
    BY <1>50, RestoreVerifyDoes, RequestHas, BlogsIn DEF Opens, JobsKeep,
       Plans, Progresses, Restores, Dones, Threads, Over, Threaded, Finished,
       Open
  <1>51. ASSUME NEW t \in restorers, RestoreFlag(t) PROVE Over'
    BY <1>51, RestoreFlagDoes, RequestHas, BlogsIn DEF Opens, JobsKeep, Plans,
       Progresses, Restores, Dones, Threads, Over, Threaded, Finished, Open
  <1>52. ASSUME NEW t \in restorers, RestoreImport(t) PROVE Over'
    BY <1>52, RestoreImportDoes, RequestHas, BlogsIn DEF Opens, JobsKeep,
       Plans, Progresses, Restores, Dones, Imports, Threads, Over, Threaded,
       Finished, Open
  <1>53. ASSUME NEW t \in restorers, RestoreFails(t) PROVE Over'
    BY <1>53, RestoreFailsDoes, RequestHas, BlogsIn DEF Opens, JobsKeep, Plans,
       Progresses, Restores, Dones, OtherBlogs, Threads, Over, Threaded,
       Finished, Open
  <1>54. ASSUME NEW t \in restorers, RestoreDies(t) PROVE Over'
    BY <1>54, RestoreDiesDoes, RequestHas, BlogsIn DEF Threads, Over, Threaded,
       Finished, Open
  <1>55. CASE UNCHANGED vars
    BY <1>55, RequestHas, BlogsIn DEF vars, database, wordpress, threads,
       requests, Over, Threaded, Finished, Open
  <1> QED BY <1>1, <1>2, <1>3, <1>4, <1>5, <1>6, <1>7, <1>8, <1>9, <1>10,
     <1>11, <1>12, <1>13, <1>14, <1>15, <1>16, <1>17, <1>18, <1>19, <1>20,
     <1>21, <1>22, <1>23, <1>24, <1>25, <1>26, <1>27, <1>28, <1>29, <1>30,
     <1>31, <1>32, <1>33, <1>34, <1>35, <1>36, <1>37, <1>38, <1>39, <1>40,
     <1>41, <1>42, <1>43, <1>44, <1>45, <1>46, <1>47, <1>48, <1>49, <1>50,
     <1>51, <1>52, <1>53, <1>54, <1>55 DEF Did

-----------------------------------------------------------------------------
(* Most steps leave alone what is kept, what has landed and what progress    *)
(* says.                                                                     *)
Keeps(o) ==
    /\ worker[o].pc \in InBlog /\ worker'[o].blog = worker[o].blog
    /\ worker'[o].live \in {None, worker[o].live}
    /\ worker'[o].progress.at = worker[o].progress.at
    /\ worker'[o].progress.taken = worker[o].progress.taken
    /\ worker'[o].progress.refreshed = worker[o].progress.refreshed
StepsKeep == \A o \in Runs, c \in Blogs : store'[c].step[o] = store[c].step[o]
KeysKeep == \A key \in Keys : /\ broker'[key] = "done" => broker[key] = "done"
                              /\ broker'[key] # "none" => broker[key] # "none"
WorkersKeep == \A o \in Runs : worker'[o].pc \in InBlog => Keeps(o)
Quiet ==
    /\ copy' = copy /\ snapshot' = snapshot /\ StepsKeep /\ KeysKeep
    /\ Plans /\ Progresses /\ Dones /\ WorkersKeep
    /\ Threaded'

(* The others.                                                                *)
Loud ==
    \/ \E r \in Runs : 
          Create(r) \/ Claim(r) \/ FetchLive(r) \/ TakeCopy(r) \/
          SaveProgress(r) \/ ProbeFinds(r) \/ Post(r) \/ PostAnswered(r) \/
          Poll(r) \/ Verify(r) \/ Refresh(r) \/ FinishDone(r) \/ PostUnheard(r)
    \/ \E b \in Blogs : 
          Import(b)
    \/ \E r \in Runs, b \in Blogs, n \in 1..MaxAttempt, k \in Phases : 
          /\ broker[<<r, b, n, k>>] = "running"
          /\ PhaseLands(<<r, b, n, k>>) \/ PhaseDies(<<r, b, n, k>>)
    \/ \E t \in restorers : 
          RestorePasses(t) \/ RestoreFinalize(t) \/ RestoreImport(t) \/
          RestoreFails(t)

(* What leaves a worker, or its progress, alone.                             *)
LEMMA WorkersStay ==
    /\ worker' = worker => WorkersKeep
    /\ \A r \in Runs : Wakes(r) => WorkersKeep
    /\ \A r \in Runs, pc \in Places \ InBlog : Leaves(r, pc) => WorkersKeep
    /\ \A r \in Runs, pc \in Places : worker[r].pc \in InBlog /\ Turns(r, pc) => WorkersKeep
  <1>1. worker' = worker => WorkersKeep
    BY DEF WorkersKeep, Keeps
  <1>2. ASSUME NEW r \in Runs, Wakes(r) PROVE WorkersKeep
    BY <1>2 DEF WorkersKeep, Keeps, Wakes, Elsewhere, InBlog
  <1>3. ASSUME NEW r \in Runs, NEW pc \in Places \ InBlog, Leaves(r, pc) PROVE WorkersKeep
    BY <1>3 DEF WorkersKeep, Keeps, Leaves, Elsewhere
  <1>4. ASSUME NEW r \in Runs, NEW pc \in Places, worker[r].pc \in InBlog, Turns(r, pc) PROVE WorkersKeep
    BY <1>4 DEF WorkersKeep, Keeps, Turns, Stays, Elsewhere
  <1> QED BY <1>1, <1>2, <1>3, <1>4

(* What makes a step quiet.                                                  *)
LEMMA QuietFrom ==
    ASSUME Threaded, copy' = copy, snapshot' = snapshot, store' = store \/ StepsKeep,
           broker' = broker \/ KeysKeep, job' = job \/ (Plans /\ Progresses /\ Dones),
           restorers' = restorers \/ Threads, Shaped, WorkersKeep
    PROVE  Quiet
  <1>1. StepsKeep /\ KeysKeep
    BY DEF StepsKeep, KeysKeep
  <1>2. Plans /\ Progresses /\ Dones
    BY DEF Plans, Progresses, Dones
  <1>3. ASSUME NEW t \in restorers' PROVE copy'[t.run][t.blog] # None
    <2>1. PICK u \in restorers : t.run = u.run /\ t.blog = u.blog
      BY DEF Threads
    <2> QED BY <2>1 DEF Threaded
  <1>4. Threaded'
    BY <1>3 DEF Threaded
  <1> QED BY <1>1, <1>2, <1>4 DEF Quiet

(* A step is quiet, or one of those.                                         *)
LEMMA QuietOrLoud ==
    ASSUME Shaped, Threaded, Did PROVE Quiet \/ Loud
  <1>1. ASSUME NotReady PROVE Quiet \/ Loud
    <2>1. WorkersKeep
      BY <1>1, NotReadyDoes, WorkersStay
    <2> QED BY <1>1, <2>1, NotReadyDoes, QuietFrom DEF JobsKeep
  <1>2. ASSUME Start PROVE Quiet \/ Loud
    <2>1. WorkersKeep
      BY <1>2, StartDoes, WorkersStay, RequestHas DEF InBlog, Places
    <2> QED BY <1>2, <2>1, StartDoes, QuietFrom DEF JobsKeep
  <1>3. ASSUME Resume PROVE Quiet \/ Loud
    <2>1. WorkersKeep
      BY <1>3, ResumeDoes, WorkersStay, RequestHas DEF InBlog, Places
    <2> QED BY <1>3, <2>1, ResumeDoes, QuietFrom DEF JobsKeep
  <1>4. ASSUME Retry PROVE Quiet \/ Loud
    <2>1. WorkersKeep
      BY <1>4, RetryDoes, WorkersStay, RequestHas DEF InBlog, Places
    <2> QED BY <1>4, <2>1, RetryDoes, QuietFrom DEF JobsKeep
  <1>5. ASSUME Restart PROVE Quiet \/ Loud
    <2>1. WorkersKeep
      BY <1>5, RestartDoes DEF WorkersKeep, InBlog
    <2>2. Threads
      BY <1>5, RestartDoes DEF Threads
    <2> QED BY <1>5, <2>1, <2>2, RestartDoes, QuietFrom DEF JobsKeep
  <1>6. ASSUME NEW r \in Runs, Create(r) PROVE Quiet \/ Loud
    BY <1>6 DEF Loud
  <1>7. ASSUME NEW r \in Runs, AskStart(r) PROVE Quiet \/ Loud
    <2>1. WorkersKeep
      BY <1>7, AskStartDoes, WorkersStay
    <2> QED BY <1>7, <2>1, AskStartDoes, QuietFrom DEF JobsKeep
  <1>8. ASSUME NEW r \in Runs, AskResume(r) PROVE Quiet \/ Loud
    <2>1. WorkersKeep
      BY <1>8, AskResumeDoes, WorkersStay
    <2> QED BY <1>8, <2>1, AskResumeDoes, QuietFrom DEF JobsKeep
  <1>9. ASSUME NEW r \in Runs, RequestPause(r) PROVE Quiet \/ Loud
    <2>1. WorkersKeep
      BY <1>9, RequestPauseDoes, WorkersStay
    <2> QED BY <1>9, <2>1, RequestPauseDoes, QuietFrom DEF JobsKeep
  <1>10. ASSUME NEW r \in Runs, ReadCancel(r) PROVE Quiet \/ Loud
    <2>1. WorkersKeep
      BY <1>10, ReadCancelDoes, WorkersStay
    <2> QED BY <1>10, <2>1, ReadCancelDoes, QuietFrom DEF JobsKeep
  <1>11. ASSUME NEW r \in Runs, Cancel(r) PROVE Quiet \/ Loud
    <2>1. WorkersKeep
      BY <1>11, CancelDoes, WorkersStay
    <2> QED BY <1>11, <2>1, CancelDoes, QuietFrom DEF JobsKeep
  <1>12. ASSUME NEW r \in Runs, Claim(r) PROVE Quiet \/ Loud
    BY <1>12 DEF Loud
  <1>13. ASSUME NEW r \in Runs, VersionFence(r) PROVE Quiet \/ Loud
    <2>1. WorkersKeep
      BY <1>13, VersionFenceDoes, WorkersStay DEF InBlog, Places
    <2> QED BY <1>13, <2>1, VersionFenceDoes, QuietFrom DEF JobsKeep
  <1>14. ASSUME NEW r \in Runs, FetchLive(r) PROVE Quiet \/ Loud
    BY <1>14 DEF Loud
  <1>15. ASSUME NEW r \in Runs, TakeCopy(r) PROVE Quiet \/ Loud
    BY <1>15 DEF Loud
  <1>16. ASSUME NEW r \in Runs, SaveProgress(r) PROVE Quiet \/ Loud
    BY <1>16 DEF Loud
  <1>17. ASSUME NEW r \in Runs, ProbeFinds(r) PROVE Quiet \/ Loud
    BY <1>17 DEF Loud
  <1>18. ASSUME NEW r \in Runs, ProbeMisses(r) PROVE Quiet \/ Loud
    <2>1. WorkersKeep
      BY <1>18, ProbeMissesDoes, WorkersStay DEF InBlog, Places
    <2> QED BY <1>18, <2>1, ProbeMissesDoes, QuietFrom DEF JobsKeep
  <1>19. ASSUME NEW r \in Runs, Post(r) PROVE Quiet \/ Loud
    BY <1>19 DEF Loud
  <1>20. ASSUME NEW r \in Runs, PostAnswered(r) PROVE Quiet \/ Loud
    BY <1>20 DEF Loud
  <1>21. ASSUME NEW r \in Runs, PostRefused(r) PROVE Quiet \/ Loud
    <2>1. WorkersKeep
      BY <1>21, PostRefusedDoes, WorkersStay DEF InBlog, Places
    <2> QED BY <1>21, <2>1, PostRefusedDoes, QuietFrom DEF JobsKeep
  <1>22. ASSUME NEW r \in Runs, Poll(r) PROVE Quiet \/ Loud
    BY <1>22 DEF Loud
  <1>23. ASSUME NEW r \in Runs, GiveUp(r) PROVE Quiet \/ Loud
    <2>1. WorkersKeep
      BY <1>23, GiveUpDoes, WorkersStay DEF InBlog, Places
    <2> QED BY <1>23, <2>1, GiveUpDoes, QuietFrom DEF JobsKeep
  <1>24. ASSUME NEW r \in Runs, Verify(r) PROVE Quiet \/ Loud
    BY <1>24 DEF Loud
  <1>25. ASSUME NEW r \in Runs, Refresh(r) PROVE Quiet \/ Loud
    BY <1>25 DEF Loud
  <1>26. ASSUME NEW r \in Runs, RefreshFails(r) PROVE Quiet \/ Loud
    <2>1. WorkersKeep
      BY <1>26, RefreshFailsDoes DEF WorkersKeep, Keeps, Elsewhere, InBlog, Known
    <2> QED BY <1>26, <2>1, RefreshFailsDoes, QuietFrom DEF JobsKeep
  <1>27. ASSUME NEW r \in Runs, FinishDone(r) PROVE Quiet \/ Loud
    BY <1>27 DEF Loud
  <1>28. ASSUME NEW r \in Runs, FinishFailed(r) PROVE Quiet \/ Loud
    <2>1. WorkersKeep
      BY <1>28, FinishFailedDoes, WorkersStay DEF InBlog, Places
    <2> QED BY <1>28, <2>1, FinishFailedDoes, QuietFrom DEF JobsKeep
  <1>29. ASSUME NEW r \in Runs, StopRun(r) PROVE Quiet \/ Loud
    <2>1. WorkersKeep
      BY <1>29, StopRunDoes, WorkersStay DEF InBlog, Places
    <2> QED BY <1>29, <2>1, StopRunDoes, QuietFrom DEF JobsKeep
  <1>30. ASSUME NEW r \in Runs, Leave(r) PROVE Quiet \/ Loud
    <2>1. WorkersKeep
      BY <1>30, LeaveDoes, WorkersStay DEF InBlog, Places
    <2> QED BY <1>30, <2>1, LeaveDoes, QuietFrom DEF JobsKeep
  <1>31. ASSUME NEW r \in Runs, ExportFails(r) PROVE Quiet \/ Loud
    <2>1. WorkersKeep
      BY <1>31, ExportFailsDoes, WorkersStay DEF InBlog, Places
    <2> QED BY <1>31, <2>1, ExportFailsDoes, QuietFrom DEF JobsKeep
  <1>32. ASSUME NEW r \in Runs, ProbeUnheard(r) PROVE Quiet \/ Loud
    <2>1. WorkersKeep
      BY <1>32, ProbeUnheardDoes, WorkersStay DEF InBlog, Places
    <2> QED BY <1>32, <2>1, ProbeUnheardDoes, QuietFrom DEF JobsKeep
  <1>33. ASSUME NEW r \in Runs, PostUnheard(r) PROVE Quiet \/ Loud
    BY <1>33 DEF Loud
  <1>34. ASSUME NEW r \in Runs, PostFails(r) PROVE Quiet \/ Loud
    <2>1. WorkersKeep
      BY <1>34, PostFailsDoes, WorkersStay DEF InBlog, Places
    <2> QED BY <1>34, <2>1, PostFailsDoes, QuietFrom DEF JobsKeep
  <1>35. ASSUME NEW r \in Runs, CannotVerify(r) PROVE Quiet \/ Loud
    <2>1. WorkersKeep
      BY <1>35, CannotVerifyDoes DEF WorkersKeep, Keeps, Elsewhere, InBlog,
         Known, Saves
    <2> QED BY <1>35, <2>1, CannotVerifyDoes, QuietFrom DEF JobsKeep
  <1>36. ASSUME NEW r \in Runs, Die(r) PROVE Quiet \/ Loud
    <2>1. WorkersKeep
      BY <1>36, DieDoes, WorkersStay DEF InBlog, Places
    <2> QED BY <1>36, <2>1, DieDoes, QuietFrom DEF JobsKeep
  <1>37. ASSUME NEW r \in Runs, GoStale(r) PROVE Quiet \/ Loud
    <2>1. WorkersKeep
      BY <1>37, GoStaleDoes, WorkersStay
    <2> QED BY <1>37, <2>1, GoStaleDoes, QuietFrom DEF JobsKeep
  <1>38. ASSUME NEW r \in Runs, NEW b \in Blogs, AskRetry(r, b) PROVE Quiet \/
     Loud
    <2>1. WorkersKeep
      BY <1>38, AskRetryDoes, WorkersStay
    <2> QED BY <1>38, <2>1, AskRetryDoes, QuietFrom DEF JobsKeep
  <1>39. ASSUME NEW r \in Runs, NEW b \in Blogs, Skip(r, b) PROVE Quiet \/ Loud
    <2>1. WorkersKeep
      BY <1>39, SkipDoes, WorkersStay DEF InBlog, Places
    <2> QED BY <1>39, <2>1, SkipDoes, QuietFrom DEF JobsKeep
  <1>40. ASSUME NEW r \in Runs, NEW b \in Blogs, RestoreBlog(r, b) PROVE Quiet
     \/ Loud
    <2>1. WorkersKeep /\ StepsKeep /\ KeysKeep
      BY <1>40, RestoreBlogDoes, WorkersStay DEF StepsKeep, KeysKeep
    <2>2. ASSUME NEW u \in restorers' PROVE copy'[u.run][u.blog] # None
      <3>1. PICK t \in RestoreThread : t.run = r /\ t.blog = b /\ restorers' = restorers \cup {t}
        <4>1. Joins(r, b)
          BY <1>40, RestoreBlogDoes
        <4> QED BY <4>1, Zenon DEF Joins
      <3>2. copy' = copy /\ copy[r][b] # None
        BY <1>40, RestoreBlogDoes
      <3>3. u = t \/ u \in restorers
        BY <3>1
      <3> QED BY <3>1, <3>2, <3>3 DEF Threaded
    <2> QED BY <1>40, <2>1, <2>2, RestoreBlogDoes DEF Quiet, Threaded
  <1>41. ASSUME NEW r \in Runs, NEW b \in Blogs, RestoreGoesStale(r, b) PROVE
     Quiet \/ Loud
    <2>1. WorkersKeep
      BY <1>41, RestoreGoesStaleDoes, WorkersStay
    <2> QED BY <1>41, <2>1, RestoreGoesStaleDoes, QuietFrom DEF JobsKeep
  <1>42. ASSUME NEW b \in Blogs, CheckImport(b) PROVE Quiet \/ Loud
    <2>1. WorkersKeep
      BY <1>42, CheckImportDoes, WorkersStay
    <2> QED BY <1>42, <2>1, CheckImportDoes, QuietFrom DEF JobsKeep
  <1>43. ASSUME NEW b \in Blogs, Import(b) PROVE Quiet \/ Loud
    BY <1>43 DEF Loud
  <1>44. ASSUME NEW b \in Blogs, Edit(b) PROVE Quiet \/ Loud
    <2>1. WorkersKeep
      BY <1>44, EditDoes, WorkersStay
    <2>2. StepsKeep
      BY <1>44, EditDoes DEF StepsKeep, OtherBlogs
    <2> QED BY <1>44, <2>1, <2>2, EditDoes, QuietFrom DEF JobsKeep
  <1>45. ASSUME NEW r \in Runs, NEW b \in Blogs, NEW n \in 1..MaxAttempt, NEW k
     \in Phases, broker[<<r, b, n, k>>] = "running", PhaseLands(<<r, b, n, k>>)
     PROVE Quiet \/ Loud
    BY <1>45 DEF Loud
  <1>46. ASSUME NEW r \in Runs, NEW b \in Blogs, NEW n \in 1..MaxAttempt, NEW k
     \in Phases, broker[<<r, b, n, k>>] = "running", PhaseRefused(<<r, b, n,
     k>>) PROVE Quiet \/ Loud
    <2>1. WorkersKeep
      BY <1>46, PhaseRefusedDoes, WorkersStay
    <2>2. KeysKeep
      BY <1>46, PhaseRefusedDoes DEF KeysKeep, Settles
    <2> QED BY <1>46, <2>1, <2>2, PhaseRefusedDoes, QuietFrom DEF JobsKeep
  <1>47. ASSUME NEW r \in Runs, NEW b \in Blogs, NEW n \in 1..MaxAttempt, NEW k
     \in Phases, broker[<<r, b, n, k>>] = "running", PhaseDies(<<r, b, n, k>>)
     PROVE Quiet \/ Loud
    BY <1>47 DEF Loud
  <1>48. ASSUME NEW t \in restorers, RestorePasses(t) PROVE Quiet \/ Loud
    BY <1>48 DEF Loud
  <1>49. ASSUME NEW t \in restorers, RestoreFinalize(t) PROVE Quiet \/ Loud
    BY <1>49 DEF Loud
  <1>50. ASSUME NEW t \in restorers, RestoreVerify(t) PROVE Quiet \/ Loud
    <2>1. WorkersKeep
      BY <1>50, RestoreVerifyDoes, WorkersStay DEF Threaded
    <2> QED BY <1>50, <2>1, RestoreVerifyDoes, QuietFrom DEF JobsKeep, Threaded
  <1>51. ASSUME NEW t \in restorers, RestoreFlag(t) PROVE Quiet \/ Loud
    <2>1. WorkersKeep
      BY <1>51, RestoreFlagDoes, WorkersStay
    <2> QED BY <1>51, <2>1, RestoreFlagDoes, QuietFrom DEF JobsKeep
  <1>52. ASSUME NEW t \in restorers, RestoreImport(t) PROVE Quiet \/ Loud
    BY <1>52 DEF Loud
  <1>53. ASSUME NEW t \in restorers, RestoreFails(t) PROVE Quiet \/ Loud
    BY <1>53 DEF Loud
  <1>54. ASSUME NEW t \in restorers, RestoreDies(t) PROVE Quiet \/ Loud
    <2>1. WorkersKeep
      BY <1>54, RestoreDiesDoes, WorkersStay
    <2> QED BY <1>54, <2>1, RestoreDiesDoes, QuietFrom DEF JobsKeep
  <1>55. CASE UNCHANGED vars
    <2>1. WorkersKeep
      BY <1>55, WorkersStay DEF vars, threads
    <2> QED BY <1>55, <2>1, QuietFrom DEF JobsKeep, vars, database, wordpress, threads, requests
  <1> QED BY <1>1, <1>2, <1>3, <1>4, <1>5, <1>6, <1>7, <1>8, <1>9, <1>10,
     <1>11, <1>12, <1>13, <1>14, <1>15, <1>16, <1>17, <1>18, <1>19, <1>20,
     <1>21, <1>22, <1>23, <1>24, <1>25, <1>26, <1>27, <1>28, <1>29, <1>30,
     <1>31, <1>32, <1>33, <1>34, <1>35, <1>36, <1>37, <1>38, <1>39, <1>40,
     <1>41, <1>42, <1>43, <1>44, <1>45, <1>46, <1>47, <1>48, <1>49, <1>50,
     <1>51, <1>52, <1>53, <1>54, <1>55 DEF Did

(* A copy is never thrown away, and without a restore no phase is undone.    *)
Grows(r, b) ==
    /\ copy[r][b] # None => copy'[r][b] # None
    /\ b \notin undone' => b \notin undone /\ store'[b].step[r] >= store[b].step[r]

(* The phases that landed are counted.                                       *)
LEMMA StepIn ==
    ASSUME Shaped, NEW r \in Runs, NEW b \in Blogs
    PROVE  store[b] \in Content /\ store[b] # None /\ store[b].step[r] \in 0..Last
  BY RestHas, NoneAssumption DEF Content

(* What is enough for that.                                                  *)
LEMMA GrowsFrom ==
    ASSUME Shaped, NEW q \in Runs, NEW d \in Blogs, Remembers,
           copy' = copy \/ (copy[q][d] # None => copy'[q][d] # None),
           store'[d] = store[d] \/ store'[d].step[q] >= store[d].step[q]
                \/ store'[d].step[q] = store[d].step[q]
    PROVE  Grows(q, d)
  BY StepIn, LastIn DEF Grows, Remembers

(* Every step does so.                                                       *)
LEMMA GrowsStep ==
    ASSUME Shaped, Threaded, Remembers, NEW q \in Runs, NEW d \in Blogs, Quiet
       \/ Loud PROVE Grows(q, d)
  <1>1. ASSUME NEW r \in Runs, Create(r) PROVE Grows(q, d)
    <2>1. copy' = copy /\ store' = store
      BY <1>1, CreateDoes
    <2> QED BY <2>1, GrowsFrom
  <1>2. ASSUME NEW r \in Runs, Claim(r) PROVE Grows(q, d)
    <2>1. copy' = copy /\ store' = store
      BY <1>2, ClaimDoes
    <2> QED BY <2>1, GrowsFrom
  <1>3. ASSUME NEW r \in Runs, FetchLive(r) PROVE Grows(q, d)
    <2>1. copy' = copy /\ store' = store
      BY <1>3, FetchLiveDoes
    <2> QED BY <2>1, GrowsFrom
  <1>4. ASSUME NEW r \in Runs, TakeCopy(r) PROVE Grows(q, d)
    <2>1. store' = store
      BY <1>4, TakeCopyDoes
    <2>2. copy[q][d] # None => copy'[q][d] # None
      <3>1. worker[r].live # None
        BY <1>4, TakeCopyDoes DEF Shaped, Placed
      <3> QED BY <1>4, <3>1, TakeCopyDoes
    <2> QED BY <2>1, <2>2, GrowsFrom
  <1>5. ASSUME NEW r \in Runs, SaveProgress(r) PROVE Grows(q, d)
    <2>1. copy' = copy /\ store' = store
      BY <1>5, SaveProgressDoes
    <2> QED BY <2>1, GrowsFrom
  <1>6. ASSUME NEW r \in Runs, ProbeFinds(r) PROVE Grows(q, d)
    <2>1. copy' = copy /\ store' = store
      BY <1>6, ProbeFindsDoes
    <2> QED BY <2>1, GrowsFrom
  <1>7. ASSUME NEW r \in Runs, Post(r) PROVE Grows(q, d)
    <2>1. copy' = copy /\ store' = store
      BY <1>7, PostDoes
    <2> QED BY <2>1, GrowsFrom
  <1>8. ASSUME NEW r \in Runs, PostAnswered(r) PROVE Grows(q, d)
    <2>1. copy' = copy /\ store' = store
      BY <1>8, PostAnsweredDoes
    <2> QED BY <2>1, GrowsFrom
  <1>9. ASSUME NEW r \in Runs, Poll(r) PROVE Grows(q, d)
    <2>1. copy' = copy /\ store' = store
      BY <1>9, PollDoes
    <2> QED BY <2>1, GrowsFrom
  <1>10. ASSUME NEW r \in Runs, Verify(r) PROVE Grows(q, d)
    <2>1. copy' = copy /\ store' = store
      BY <1>10, VerifyDoes
    <2> QED BY <2>1, GrowsFrom
  <1>11. ASSUME NEW r \in Runs, Refresh(r) PROVE Grows(q, d)
    <2>1. copy' = copy /\ store' = store
      BY <1>11, RefreshDoes
    <2> QED BY <2>1, GrowsFrom
  <1>12. ASSUME NEW r \in Runs, FinishDone(r) PROVE Grows(q, d)
    <2>1. copy' = copy /\ store' = store
      BY <1>12, FinishDoneDoes
    <2> QED BY <2>1, GrowsFrom
  <1>13. ASSUME NEW r \in Runs, PostUnheard(r) PROVE Grows(q, d)
    <2>1. copy' = copy /\ store' = store
      BY <1>13, PostUnheardDoes
    <2> QED BY <2>1, GrowsFrom
  <1>14. ASSUME NEW b \in Blogs, Import(b) PROVE Grows(q, d)
    <2>1. copy' = copy /\ store' = store
      BY <1>14, ImportDoes
    <2> QED BY <2>1, GrowsFrom
  <1>15. ASSUME NEW r \in Runs, NEW b \in Blogs, NEW n \in 1..MaxAttempt, NEW k
     \in Phases, broker[<<r, b, n, k>>] = "running", PhaseLands(<<r, b, n, k>>)
     PROVE Grows(q, d)
    <2>1. copy' = copy /\ (Lands(r, b, k) \/ store' = store)
      BY <1>15, PhaseLandsDoes
    <2>2. Lands(r, b, k) => store'[d].step[q] >= store[d].step[q]
      BY StepIn DEF Lands, OtherBlogs
    <2> QED BY <2>1, <2>2, GrowsFrom
  <1>16. ASSUME NEW r \in Runs, NEW b \in Blogs, NEW n \in 1..MaxAttempt, NEW k
     \in Phases, broker[<<r, b, n, k>>] = "running", PhaseDies(<<r, b, n, k>>)
     PROVE Grows(q, d)
    <2>1. copy' = copy /\ (Lands(r, b, k) \/ store' = store)
      BY <1>16, PhaseDiesDoes
    <2>2. Lands(r, b, k) => store'[d].step[q] >= store[d].step[q]
      BY StepIn DEF Lands, OtherBlogs
    <2> QED BY <2>1, <2>2, GrowsFrom
  <1>17. ASSUME NEW t \in restorers, RestorePasses(t) PROVE Grows(q, d)
    <2>1. copy' = copy /\ OtherBlogs(t.blog) /\ t.blog \in undone'
      BY <1>17, RestorePassesDoes, RestHas DEF Threaded
    <2>2. CASE t.blog = d
      BY <1>17, <2>1, <2>2, RestHas DEF Grows, Remembers
    <2>3. CASE t.blog # d
      BY <2>1, <2>3, GrowsFrom DEF OtherBlogs
    <2> QED BY <2>2, <2>3
  <1>18. ASSUME NEW t \in restorers, RestoreFinalize(t) PROVE Grows(q, d)
    <2>1. copy' = copy /\ OtherBlogs(t.blog) /\ t.blog \in undone'
      BY <1>18, RestoreFinalizeDoes, RestHas DEF Threaded
    <2>2. CASE t.blog = d
      BY <1>18, <2>1, <2>2, RestHas DEF Grows, Remembers
    <2>3. CASE t.blog # d
      BY <2>1, <2>3, GrowsFrom DEF OtherBlogs
    <2> QED BY <2>2, <2>3
  <1>19. ASSUME NEW t \in restorers, RestoreImport(t) PROVE Grows(q, d)
    <2>1. copy' = copy /\ store' = store
      BY <1>19, RestoreImportDoes DEF Threaded
    <2> QED BY <2>1, GrowsFrom
  <1>20. ASSUME NEW t \in restorers, RestoreFails(t) PROVE Grows(q, d)
    <2>1. /\ copy' = copy /\ OtherBlogs(t.blog)
          /\ store'[t.blog] = store[t.blog] \/ t.blog \in undone'
      BY <1>20, RestoreFailsDoes, RestHas DEF Threaded
    <2>2. CASE t.blog = d
      BY <2>1, <2>2, StepIn, LastIn DEF Grows, Remembers
    <2>3. CASE t.blog # d
      BY <2>1, <2>3, GrowsFrom DEF OtherBlogs
    <2> QED BY <2>2, <2>3
  <1>21. CASE Quiet
    <2> QED BY <1>21, GrowsFrom DEF Quiet, StepsKeep
  <1> QED BY <1>1, <1>2, <1>3, <1>4, <1>5, <1>6, <1>7, <1>8, <1>9, <1>10,
     <1>11, <1>12, <1>13, <1>14, <1>15, <1>16, <1>17, <1>18, <1>19, <1>20,
     <1>21 DEF Loud

-----------------------------------------------------------------------------
(* What is kept before a plan begins.                                        *)
Kept(q, d, c) == c # None /\ c.step[q] > 0 => copy'[q][d] # None
LivesKeep ==
    \A o \in Runs : worker'[o].pc \in InBlog /\ worker'[o].live # None =>
       worker[o].pc \in InBlog /\ worker'[o].blog = worker[o].blog /\ worker'[o].live = worker[o].live

(* What was pure stays so, a copy once taken being there for ever.           *)
LEMMA OldKept ==
    ASSUME Shaped, AllPure, NEW q \in Runs, NEW d \in Blogs, Grows(q, d)
    PROVE  /\ Kept(q, d, store[d]) /\ Kept(q, d, snapshot[d].content)
           /\ \A o \in Runs : /\ Kept(q, d, copy[o][d]) /\ Kept(q, d, job[o][d].plan)
                              /\ worker[o].pc \in InBlog /\ worker[o].blog = d => Kept(q, d, worker[o].live)
  BY DEF AllPure, PureAll, Pure, Kept, Grows

(* What is left alone, or comes from what was pure, is pure.                 *)
LEMMA PureFrom ==
    ASSUME Shaped, AllPure, NEW q \in Runs, NEW d \in Blogs, Grows(q, d),
           StepsKeep \/ store' = store \/ Kept(q, d, store'[d]),
           snapshot' = snapshot \/ Kept(q, d, snapshot'[d].content),
           copy' = copy \/ \A o \in Runs : Kept(q, d, copy'[o][d]),
           job' = job \/ Plans \/ \A o \in Runs : Kept(q, d, job'[o][d].plan),
           LivesKeep \/ \A o \in Runs : worker'[o].pc \in InBlog /\ worker'[o].blog = d =>
                                           Kept(q, d, worker'[o].live)
    PROVE  PureAll(q, d)'
  <1>1. Kept(q, d, store'[d])
    <2>1. Kept(q, d, store[d]) /\ store[d] # None
      BY OldKept, StepIn
    <2>2. CASE StepsKeep
      BY <2>1, <2>2 DEF Kept, StepsKeep
    <2> QED BY <2>1, <2>2
  <1>2. Kept(q, d, snapshot'[d].content)
    BY OldKept
  <1>3. \A o \in Runs : Kept(q, d, copy'[o][d])
    BY OldKept
  <1>4. \A o \in Runs : Kept(q, d, job'[o][d].plan)
    BY OldKept DEF Plans
  <1>5. \A o \in Runs : worker'[o].pc \in InBlog /\ worker'[o].blog = d => Kept(q, d, worker'[o].live)
    BY OldKept DEF LivesKeep, Kept
  <1> QED BY <1>1, <1>2, <1>3, <1>4, <1>5 DEF PureAll, Pure, Kept, InBlog

(* What leaves the export of a worker alone, or drops it.                    *)
LEMMA LivesStay ==
    /\ worker' = worker \/ WorkersKeep => LivesKeep
    /\ \A r \in Runs, at \in 0..Last, taken, refreshed \in BOOLEAN, then \in Places :
          Saves(r, at, taken, refreshed, then) => LivesKeep
    /\ \A r \in Runs, pc \in Places : /\ worker[r].pc \in InBlog /\ Turns(r, pc) => LivesKeep
                                      /\ Leaves(r, pc) /\ pc \notin InBlog => LivesKeep
    /\ \A r \in Runs : Waits(r) \/ Advances(r) \/ Reported(r) => LivesKeep
  <1>1. worker' = worker \/ WorkersKeep => LivesKeep
    BY DEF WorkersKeep, Keeps, LivesKeep
  <1>2. ASSUME NEW r \in Runs, NEW at \in 0..Last, NEW taken \in BOOLEAN, NEW refreshed \in BOOLEAN,
               NEW then \in Places, Saves(r, at, taken, refreshed, then)
        PROVE  LivesKeep
    BY <1>2 DEF Saves, Elsewhere, LivesKeep
  <1>3. ASSUME NEW r \in Runs, NEW pc \in Places, worker[r].pc \in InBlog /\ Turns(r, pc) PROVE LivesKeep
    BY <1>3 DEF Turns, Stays, Elsewhere, LivesKeep
  <1>4. ASSUME NEW r \in Runs, NEW pc \in Places \ InBlog, Leaves(r, pc) PROVE LivesKeep
    BY <1>4 DEF Leaves, Elsewhere, LivesKeep
  <1>5. ASSUME NEW r \in Runs, Waits(r) \/ Advances(r) \/ Reported(r) PROVE LivesKeep
    BY <1>5 DEF Waits, Stays, Advances, Reported, Saves, Elsewhere, LivesKeep
  <1> QED BY <1>1, <1>2, <1>3, <1>4, <1>5

(* No step lets a phase land, or be copied, before the blog was kept.        *)
LEMMA PureStep ==
    ASSUME Shaped, Threaded, AllPure, AllPoint, NEW q \in Runs, NEW d \in
       Blogs, Grows(q, d), Quiet \/ Loud PROVE PureAll(q, d)'
  <1>1. ASSUME NEW r \in Runs, Create(r) PROVE PureAll(q, d)'
    <2>1. \A o \in Runs : Kept(q, d, job'[o][d].plan)
      BY <1>1, CreateDoes, OldKept DEF Kept
    <2>2. LivesKeep
      BY <1>1, CreateDoes, LivesStay
    <2> QED BY <1>1, <2>1, <2>2, CreateDoes, PureFrom
  <1>2. ASSUME NEW r \in Runs, Claim(r) PROVE PureAll(q, d)'
    <2>1. LivesKeep
      BY <1>2, ClaimDoes, LivesStay DEF InBlog, Places, Leaves, Elsewhere,
         LivesKeep
    <2>2. Plans
      BY <1>2, ClaimDoes DEF JobsKeep, Plans
    <2> QED BY <1>2, <2>1, <2>2, ClaimDoes, PureFrom
  <1>3. ASSUME NEW r \in Runs, FetchLive(r) PROVE PureAll(q, d)'
    <2>1. worker'[r].pc \in InBlog => worker'[r].blog = worker[r].blog /\
       worker'[r].live \in {None, worker[r].live, store[worker[r].blog]} /\
       worker[r].pc \in InBlog
      BY <1>3, FetchLiveDoes DEF InBlog, Turns, Stays, Reported, Saves
    <2>2. \A o \in Runs \ {r} : worker'[o] = worker[o]
      BY <1>3, FetchLiveDoes DEF Turns, Stays, Elsewhere, Reported, Saves
    <2>3. \A o \in Runs : worker'[o].pc \in InBlog /\ worker'[o].blog = d =>
       Kept(q, d, worker'[o].live)
      BY <1>3, FetchLiveDoes, <2>1, <2>2, OldKept DEF Kept
    <2> QED BY <1>3, <2>1, <2>2, <2>3, FetchLiveDoes, PureFrom
  <1>4. ASSUME NEW r \in Runs, TakeCopy(r) PROVE PureAll(q, d)'
    <2>1. \A o \in Runs : Kept(q, d, copy'[o][d])
      <3>1. /\ worker[r].pc \in InBlog /\ copy'[r][worker[r].blog] = worker[r].live
            /\ \A o \in Runs, c \in Blogs : o # r \/ c # worker[r].blog => copy'[o][c] = copy[o][c]
        BY <1>4, TakeCopyDoes DEF InBlog
      <3> QED BY <3>1, OldKept
    <2>2. LivesKeep
      BY <1>4, TakeCopyDoes DEF Saves, Elsewhere, LivesKeep
    <2> QED BY <1>4, <2>1, <2>2, TakeCopyDoes, PureFrom
  <1>5. ASSUME NEW r \in Runs, SaveProgress(r) PROVE PureAll(q, d)'
    <2>1. LivesKeep
      BY <1>5, SaveProgressDoes DEF InBlog, Turns, Stays, Elsewhere, LivesKeep
    <2>2. Plans
      BY <1>5, SaveProgressDoes
    <2> QED BY <1>5, <2>1, <2>2, SaveProgressDoes, PureFrom
  <1>6. ASSUME NEW r \in Runs, ProbeFinds(r) PROVE PureAll(q, d)'
    <2>1. LivesKeep
      BY <1>6, ProbeFindsDoes, LivesStay DEF InBlog, Places
    <2> QED BY <1>6, <2>1, ProbeFindsDoes, PureFrom
  <1>7. ASSUME NEW r \in Runs, Post(r) PROVE PureAll(q, d)'
    <2>1. LivesKeep
      BY <1>7, PostDoes, LivesStay DEF InBlog, Places
    <2> QED BY <1>7, <2>1, PostDoes, PureFrom
  <1>8. ASSUME NEW r \in Runs, PostAnswered(r) PROVE PureAll(q, d)'
    <2>1. LivesKeep
      BY <1>8, PostAnsweredDoes, LivesStay DEF InBlog, Places
    <2> QED BY <1>8, <2>1, PostAnsweredDoes, PureFrom
  <1>9. ASSUME NEW r \in Runs, Poll(r) PROVE PureAll(q, d)'
    <2>1. LivesKeep
      BY <1>9, PollDoes, LivesStay DEF InBlog, Places
    <2> QED BY <1>9, <2>1, PollDoes, PureFrom
  <1>10. ASSUME NEW r \in Runs, Verify(r) PROVE PureAll(q, d)'
    <2>1. worker'[r].pc \in InBlog => worker'[r].blog = worker[r].blog /\
       worker'[r].live \in {None, worker[r].live, store[worker[r].blog]} /\
       worker[r].pc \in InBlog
      BY <1>10, VerifyDoes DEF InBlog, Turns, Stays, Reported, Saves
    <2>2. \A o \in Runs \ {r} : worker'[o] = worker[o]
      BY <1>10, VerifyDoes DEF Turns, Stays, Elsewhere, Reported, Saves
    <2>3. \A o \in Runs : worker'[o].pc \in InBlog /\ worker'[o].blog = d =>
       Kept(q, d, worker'[o].live)
      BY <1>10, VerifyDoes, <2>1, <2>2, OldKept DEF Kept
    <2> QED BY <1>10, <2>1, <2>2, <2>3, VerifyDoes, PureFrom
  <1>11. ASSUME NEW r \in Runs, Refresh(r) PROVE PureAll(q, d)'
    <2>1. LivesKeep
      BY <1>11, RefreshDoes DEF Saves, Elsewhere, LivesKeep
    <2>2. Kept(q, d, snapshot'[d].content)
      <3>1. worker[r].pc \in InBlog /\ Imports(worker[r].blog, worker[r].live)
        BY <1>11, RefreshDoes DEF InBlog
      <3> QED BY <3>1, OldKept DEF Imports
    <2> QED BY <1>11, <2>1, <2>2, RefreshDoes, PureFrom
  <1>12. ASSUME NEW r \in Runs, FinishDone(r) PROVE PureAll(q, d)'
    <2>1. LivesKeep
      BY <1>12, FinishDoneDoes, LivesStay DEF InBlog, Places
    <2>2. Plans
      BY <1>12, FinishDoneDoes
    <2> QED BY <1>12, <2>1, <2>2, FinishDoneDoes, PureFrom
  <1>13. ASSUME NEW r \in Runs, PostUnheard(r) PROVE PureAll(q, d)'
    <2>1. LivesKeep
      BY <1>13, PostUnheardDoes, LivesStay DEF InBlog, Places
    <2> QED BY <1>13, <2>1, PostUnheardDoes, PureFrom
  <1>14. ASSUME NEW b \in Blogs, Import(b) PROVE PureAll(q, d)'
    <2>1. LivesKeep
      BY <1>14, ImportDoes, LivesStay
    <2>2. Kept(q, d, snapshot'[d].content)
      BY <1>14, ImportDoes, OldKept DEF Imports
    <2> QED BY <1>14, <2>1, <2>2, ImportDoes, PureFrom
  <1>15. ASSUME NEW r \in Runs, NEW b \in Blogs, NEW n \in 1..MaxAttempt, NEW k
     \in Phases, broker[<<r, b, n, k>>] = "running", PhaseLands(<<r, b, n, k>>)
     PROVE PureAll(q, d)'
    <2>1. LivesKeep /\ job' = job /\ copy' = copy /\ (Lands(r, b, k) \/ store' = store)
      BY <1>15, PhaseLandsDoes, LivesStay
    <2>2. ASSUME Lands(r, b, k) PROVE Kept(q, d, store'[d])
      <3>1. CASE b = d /\ r = q
        <4>1. <<r, b, n, k>> \in Keys /\ broker[<<r, b, n, k>>] # "none"
          BY <1>15 DEF Keys
        <4> QED BY <2>1, <3>1, <4>1 DEF AllPoint, Point, Kept
      <3>2. CASE b = d /\ r # q
        BY <2>1, <2>2, <3>2, OldKept, StepIn DEF Lands, Kept
      <3>3. CASE b # d
        BY <2>1, <2>2, <3>3, OldKept DEF Lands, OtherBlogs
      <3> QED BY <3>1, <3>2, <3>3
    <2> QED BY <1>15, <2>1, <2>2, PhaseLandsDoes, PureFrom
  <1>16. ASSUME NEW r \in Runs, NEW b \in Blogs, NEW n \in 1..MaxAttempt, NEW k
     \in Phases, broker[<<r, b, n, k>>] = "running", PhaseDies(<<r, b, n, k>>)
     PROVE PureAll(q, d)'
    <2>1. LivesKeep /\ job' = job /\ copy' = copy /\ (Lands(r, b, k) \/ store' = store)
      BY <1>16, PhaseDiesDoes, LivesStay
    <2>2. ASSUME Lands(r, b, k) PROVE Kept(q, d, store'[d])
      <3>1. CASE b = d /\ r = q
        <4>1. <<r, b, n, k>> \in Keys /\ broker[<<r, b, n, k>>] # "none"
          BY <1>16 DEF Keys
        <4> QED BY <2>1, <3>1, <4>1 DEF AllPoint, Point, Kept
      <3>2. CASE b = d /\ r # q
        BY <2>1, <2>2, <3>2, OldKept, StepIn DEF Lands, Kept
      <3>3. CASE b # d
        BY <2>1, <2>2, <3>3, OldKept DEF Lands, OtherBlogs
      <3> QED BY <3>1, <3>2, <3>3
    <2> QED BY <1>16, <2>1, <2>2, PhaseDiesDoes, PureFrom
  <1>17. ASSUME NEW t \in restorers, RestorePasses(t) PROVE PureAll(q, d)'
    <2>1. /\ copy[t.run][t.blog] # None /\ t.run \in Runs /\ t.blog \in Blogs /\ OtherBlogs(t.blog)
          /\ store'[t.blog] = store[t.blog] \/ store'[t.blog].step = copy[t.run][t.blog].step
      BY <1>17, RestorePassesDoes, RestHas DEF Threaded
    <2>2. Kept(q, d, store'[d])
      <3>1. CASE t.blog = d
        BY <2>1, <3>1, OldKept, StepIn DEF Kept
      <3>2. CASE t.blog # d
        BY <2>1, <3>2, OldKept DEF OtherBlogs
      <3> QED BY <3>1, <3>2
    <2>3. LivesKeep /\ Plans
      BY <1>17, RestorePassesDoes, LivesStay DEF Threaded
    <2> QED BY <1>17, <2>2, <2>3, RestorePassesDoes, PureFrom DEF Threaded
  <1>18. ASSUME NEW t \in restorers, RestoreFinalize(t) PROVE PureAll(q, d)'
    <2>1. /\ copy[t.run][t.blog] # None /\ t.run \in Runs /\ t.blog \in Blogs /\ OtherBlogs(t.blog)
          /\ store'[t.blog] = store[t.blog] \/ store'[t.blog].step = copy[t.run][t.blog].step
      BY <1>18, RestoreFinalizeDoes, RestHas DEF Threaded
    <2>2. Kept(q, d, store'[d])
      <3>1. CASE t.blog = d
        BY <2>1, <3>1, OldKept, StepIn DEF Kept
      <3>2. CASE t.blog # d
        BY <2>1, <3>2, OldKept DEF OtherBlogs
      <3> QED BY <3>1, <3>2
    <2>3. LivesKeep /\ Plans
      BY <1>18, RestoreFinalizeDoes, LivesStay DEF Threaded
    <2> QED BY <1>18, <2>2, <2>3, RestoreFinalizeDoes, PureFrom DEF Threaded
  <1>19. ASSUME NEW t \in restorers, RestoreImport(t) PROVE PureAll(q, d)'
    <2>1. LivesKeep /\ Plans
      BY <1>19, RestoreImportDoes, LivesStay DEF Threaded
    <2>2. Kept(q, d, snapshot'[d].content) \/ snapshot' = snapshot
      BY <1>19, RestoreImportDoes, OldKept, RestHas DEF Threaded, Imports
    <2> QED BY <1>19, <2>1, <2>2, RestoreImportDoes, PureFrom DEF Threaded
  <1>20. ASSUME NEW t \in restorers, RestoreFails(t) PROVE PureAll(q, d)'
    <2>1. /\ copy[t.run][t.blog] # None /\ t.run \in Runs /\ t.blog \in Blogs /\ OtherBlogs(t.blog)
          /\ store'[t.blog] = store[t.blog] \/ store'[t.blog].step = copy[t.run][t.blog].step
      BY <1>20, RestoreFailsDoes, RestHas DEF Threaded
    <2>2. Kept(q, d, store'[d])
      <3>1. CASE t.blog = d
        BY <2>1, <3>1, OldKept, StepIn DEF Kept
      <3>2. CASE t.blog # d
        BY <2>1, <3>2, OldKept DEF OtherBlogs
      <3> QED BY <3>1, <3>2
    <2>3. LivesKeep /\ Plans
      BY <1>20, RestoreFailsDoes, LivesStay DEF Threaded
    <2> QED BY <1>20, <2>2, <2>3, RestoreFailsDoes, PureFrom DEF Threaded
  <1>21. CASE Quiet
    <2>1. LivesKeep
      BY <1>21, LivesStay DEF Quiet
    <2> QED BY <1>21, <2>1, PureFrom DEF Quiet
  <1> QED BY <1>1, <1>2, <1>3, <1>4, <1>5, <1>6, <1>7, <1>8, <1>9, <1>10,
     <1>11, <1>12, <1>13, <1>14, <1>15, <1>16, <1>17, <1>18, <1>19, <1>20,
     <1>21 DEF Loud

-----------------------------------------------------------------------------
(* The copy is the plan.                                                     *)
LEMMA PointFrom ==
    ASSUME Shaped, NEW q \in Runs, NEW d \in Blogs, Point(q, d), Grows(q, d), copy' = copy,
           job' = job \/ Plans,
           \A n \in 1..MaxAttempt, k \in Phases :
              broker'[<<q, d, n, k>>] # "none" => broker[<<q, d, n, k>>] # "none" \/ copy[q][d] # None
    PROVE  Point(q, d)'
  BY DEF Point, Plans

(* What leaves the keys of a job alone.                                      *)
LEMMA KeysStay ==
    ASSUME NEW q \in Runs, NEW d \in Blogs, broker' = broker \/ KeysKeep,
           NEW n \in 1..MaxAttempt, NEW k \in Phases
    PROVE  /\ broker'[<<q, d, n, k>>] # "none" => broker[<<q, d, n, k>>] # "none"
           /\ broker'[<<q, d, n, k>>] = "done" => broker[<<q, d, n, k>>] = "done"
  <1>1. <<q, d, n, k>> \in Keys
    BY DEF Keys
  <1> QED BY <1>1 DEF KeysKeep

(* Every step keeps the copy before the plan, and the keys after the copy.   *)
LEMMA PointStep ==
    ASSUME Shaped, Threaded, AllFresh, AllPure, AllPoint, AllLanded, NEW q \in
       Runs, NEW d \in Blogs, Grows(q, d), Quiet \/ Loud PROVE Point(q, d)'
  <1>1. ASSUME NEW r \in Runs, Create(r) PROVE Point(q, d)'
    <2>1. copy' = copy /\ broker' = broker /\ run[r].status = "none" /\ \A o \in Runs \ {r} : job'[o] = job[o]
      BY <1>1, CreateDoes
    <2>2. CASE q # r
      BY <2>1, <2>2 DEF AllPoint, Point
    <2>3. CASE q = r
      <3>1. copy[q][d] = None
        BY <2>1, <2>3 DEF AllFresh, Fresh
      <3>2. snapshot[d].content # None /\ snapshot[d].content.step[q] = 0
        <4>1. snapshot[d].content \in Content
          BY RestHas
        <4>2. snapshot[d].content # None /\ snapshot[d].content.step[q] \in 0..Last
          BY <4>1, NoneAssumption DEF Content
        <4>3. ~ (snapshot[d].content.step[q] > 0)
          BY <3>1, <4>2 DEF AllPure, PureAll, Pure
        <4> QED BY <4>2, <4>3, LastIn
      <3>3. job'[q][d].plan \in {None, snapshot[d].content}
        BY <1>1, <2>3, CreateDoes
      <3> QED BY <2>1, <3>1, <3>2, <3>3 DEF AllPoint, Point
    <2> QED BY <2>2, <2>3
  <1>2. ASSUME NEW r \in Runs, Claim(r) PROVE Point(q, d)'
    <2>1. copy' = copy /\ broker' = broker /\ (job' = job \/ Plans)
      BY <1>2, ClaimDoes DEF JobsKeep
    <2> QED BY <2>1, PointFrom, KeysStay DEF AllPoint
  <1>3. ASSUME NEW r \in Runs, FetchLive(r) PROVE Point(q, d)'
    <2>1. copy' = copy /\ broker' = broker /\ (job' = job \/ Plans)
      BY <1>3, FetchLiveDoes
    <2> QED BY <2>1, PointFrom, KeysStay DEF AllPoint
  <1>4. ASSUME NEW r \in Runs, TakeCopy(r) PROVE Point(q, d)'
    <2>1. /\ broker' = broker /\ job' = job
          /\ q # r \/ d # worker[r].blog => copy'[q][d] = copy[q][d]
      BY <1>4, TakeCopyDoes
    <2>2. copy'[r][worker[r].blog] = job[r][worker[r].blog].plan
      <3>1. worker[r].pc = "copy" /\ copy'[r][worker[r].blog] = worker[r].live
        BY <1>4, TakeCopyDoes
      <3> QED BY <3>1 DEF Shaped, Placed
    <2>3. q = r /\ d = worker[r].blog => copy'[q][d] # None
      <3>1. worker[r].pc = "copy" /\ copy'[r][worker[r].blog] = worker[r].live
        BY <1>4, TakeCopyDoes
      <3> QED BY <3>1 DEF Shaped, Placed
    <2> QED BY <2>1, <2>2, <2>3 DEF AllPoint, Point
  <1>5. ASSUME NEW r \in Runs, SaveProgress(r) PROVE Point(q, d)'
    <2>1. copy' = copy /\ broker' = broker /\ (job' = job \/ Plans)
      BY <1>5, SaveProgressDoes
    <2> QED BY <2>1, PointFrom, KeysStay DEF AllPoint
  <1>6. ASSUME NEW r \in Runs, ProbeFinds(r) PROVE Point(q, d)'
    <2>1. copy' = copy /\ broker' = broker /\ (job' = job \/ Plans)
      BY <1>6, ProbeFindsDoes
    <2> QED BY <2>1, PointFrom, KeysStay DEF AllPoint
  <1>7. ASSUME NEW r \in Runs, Post(r) PROVE Point(q, d)'
    <2>1. /\ copy' = copy /\ job' = job /\ Posts(r, Mine(r).attempt) /\ worker[r].pc = "post"
      BY <1>7, PostDoes
    <2>2. copy[r][worker[r].blog] # None
      <3>1. worker[r].pc \in InBlog /\ worker[r].progress.taken
        BY <2>1 DEF Shaped, Placed, InBlog
      <3> QED BY <3>1, KnownSound DEF Sound
    <2>3. ASSUME NEW m \in 1..MaxAttempt, NEW p \in Phases, broker'[<<q, d, m, p>>] # "none"
          PROVE  broker[<<q, d, m, p>>] # "none" \/ copy[q][d] # None
      <3>1. <<q, d, m, p>> \in Keys
        BY DEF Keys
      <3>2. CASE <<q, d, m, p>> # Key(r, Mine(r).attempt)
        BY <2>1, <2>3, <3>1, <3>2 DEF Posts
      <3>3. CASE <<q, d, m, p>> = Key(r, Mine(r).attempt)
        BY <2>2, <3>3 DEF Key
      <3> QED BY <3>2, <3>3
    <2> QED BY <2>1, <2>3, PointFrom DEF AllPoint
  <1>8. ASSUME NEW r \in Runs, PostAnswered(r) PROVE Point(q, d)'
    <2>1. copy' = copy /\ broker' = broker /\ (job' = job \/ Plans)
      BY <1>8, PostAnsweredDoes
    <2> QED BY <2>1, PointFrom, KeysStay DEF AllPoint
  <1>9. ASSUME NEW r \in Runs, Poll(r) PROVE Point(q, d)'
    <2>1. copy' = copy /\ broker' = broker /\ (job' = job \/ Plans)
      BY <1>9, PollDoes
    <2> QED BY <2>1, PointFrom, KeysStay DEF AllPoint
  <1>10. ASSUME NEW r \in Runs, Verify(r) PROVE Point(q, d)'
    <2>1. copy' = copy /\ broker' = broker /\ (job' = job \/ Plans)
      BY <1>10, VerifyDoes
    <2> QED BY <2>1, PointFrom, KeysStay DEF AllPoint
  <1>11. ASSUME NEW r \in Runs, Refresh(r) PROVE Point(q, d)'
    <2>1. copy' = copy /\ broker' = broker /\ (job' = job \/ Plans)
      BY <1>11, RefreshDoes
    <2> QED BY <2>1, PointFrom, KeysStay DEF AllPoint
  <1>12. ASSUME NEW r \in Runs, FinishDone(r) PROVE Point(q, d)'
    <2>1. copy' = copy /\ broker' = broker /\ (job' = job \/ Plans)
      BY <1>12, FinishDoneDoes
    <2> QED BY <2>1, PointFrom, KeysStay DEF AllPoint
  <1>13. ASSUME NEW r \in Runs, PostUnheard(r) PROVE Point(q, d)'
    <2>1. /\ copy' = copy /\ job' = job /\ Posts(r, Mine(r).attempt) /\ worker[r].pc = "post"
      BY <1>13, PostUnheardDoes
    <2>2. copy[r][worker[r].blog] # None
      <3>1. worker[r].pc \in InBlog /\ worker[r].progress.taken
        BY <2>1 DEF Shaped, Placed, InBlog
      <3> QED BY <3>1, KnownSound DEF Sound
    <2>3. ASSUME NEW m \in 1..MaxAttempt, NEW p \in Phases, broker'[<<q, d, m, p>>] # "none"
          PROVE  broker[<<q, d, m, p>>] # "none" \/ copy[q][d] # None
      <3>1. <<q, d, m, p>> \in Keys
        BY DEF Keys
      <3>2. CASE <<q, d, m, p>> # Key(r, Mine(r).attempt)
        BY <2>1, <2>3, <3>1, <3>2 DEF Posts
      <3>3. CASE <<q, d, m, p>> = Key(r, Mine(r).attempt)
        BY <2>2, <3>3 DEF Key
      <3> QED BY <3>2, <3>3
    <2> QED BY <2>1, <2>3, PointFrom DEF AllPoint
  <1>14. ASSUME NEW b \in Blogs, Import(b) PROVE Point(q, d)'
    <2>1. copy' = copy /\ broker' = broker /\ (job' = job \/ Plans)
      BY <1>14, ImportDoes
    <2> QED BY <2>1, PointFrom, KeysStay DEF AllPoint
  <1>15. ASSUME NEW r \in Runs, NEW b \in Blogs, NEW n \in 1..MaxAttempt, NEW k
     \in Phases, broker[<<r, b, n, k>>] = "running", PhaseLands(<<r, b, n, k>>)
     PROVE Point(q, d)'
    <2>1. copy' = copy /\ job' = job /\ Settles(r, b, n, k, "done")
      BY <1>15, PhaseLandsDoes
    <2>2. ASSUME NEW m \in 1..MaxAttempt, NEW p \in Phases, broker'[<<q, d, m, p>>] # "none"
          PROVE  broker[<<q, d, m, p>>] # "none"
      <3>1. <<q, d, m, p>> \in Keys
        BY DEF Keys
      <3> QED BY <2>1, <2>2, <3>1 DEF Settles
    <2> QED BY <2>1, <2>2, PointFrom DEF AllPoint
  <1>16. ASSUME NEW r \in Runs, NEW b \in Blogs, NEW n \in 1..MaxAttempt, NEW k
     \in Phases, broker[<<r, b, n, k>>] = "running", PhaseDies(<<r, b, n, k>>)
     PROVE Point(q, d)'
    <2>1. copy' = copy /\ job' = job /\ Settles(r, b, n, k, "dead")
      BY <1>16, PhaseDiesDoes
    <2>2. ASSUME NEW m \in 1..MaxAttempt, NEW p \in Phases, broker'[<<q, d, m, p>>] # "none"
          PROVE  broker[<<q, d, m, p>>] # "none"
      <3>1. <<q, d, m, p>> \in Keys
        BY DEF Keys
      <3> QED BY <2>1, <2>2, <3>1 DEF Settles
    <2> QED BY <2>1, <2>2, PointFrom DEF AllPoint
  <1>17. ASSUME NEW t \in restorers, RestorePasses(t) PROVE Point(q, d)'
    <2>1. copy' = copy /\ broker' = broker /\ (job' = job \/ Plans)
      BY <1>17, RestorePassesDoes DEF Threaded
    <2> QED BY <2>1, PointFrom, KeysStay DEF AllPoint
  <1>18. ASSUME NEW t \in restorers, RestoreFinalize(t) PROVE Point(q, d)'
    <2>1. copy' = copy /\ broker' = broker /\ (job' = job \/ Plans)
      BY <1>18, RestoreFinalizeDoes DEF Threaded
    <2> QED BY <2>1, PointFrom, KeysStay DEF AllPoint
  <1>19. ASSUME NEW t \in restorers, RestoreImport(t) PROVE Point(q, d)'
    <2>1. copy' = copy /\ broker' = broker /\ (job' = job \/ Plans)
      BY <1>19, RestoreImportDoes DEF Threaded
    <2> QED BY <2>1, PointFrom, KeysStay DEF AllPoint
  <1>20. ASSUME NEW t \in restorers, RestoreFails(t) PROVE Point(q, d)'
    <2>1. copy' = copy /\ broker' = broker /\ (job' = job \/ Plans)
      BY <1>20, RestoreFailsDoes DEF Threaded
    <2> QED BY <2>1, PointFrom, KeysStay DEF AllPoint
  <1>21. CASE Quiet
    <2> QED BY <1>21, PointFrom, KeysStay DEF AllPoint, Quiet
  <1> QED BY <1>1, <1>2, <1>3, <1>4, <1>5, <1>6, <1>7, <1>8, <1>9, <1>10,
     <1>11, <1>12, <1>13, <1>14, <1>15, <1>16, <1>17, <1>18, <1>19, <1>20,
     <1>21 DEF Loud

-----------------------------------------------------------------------------
(* What progress says.                                                       *)
StillSound(q, d, p) ==
    /\ p.refreshed => p.at = Last
    /\ p.at > 0 => p.taken
    /\ p.taken => copy'[q][d] # None
    /\ d \notin undone' => p.at <= store'[d].step[q]

(* What was sound stays so.                                                  *)
LEMMA SoundStays ==
    ASSUME Shaped, StoreFits, NEW q \in Runs, NEW d \in Blogs, Grows(q, d),
           NEW p, p.at \in 0..Last, Sound(q, d, p)
    PROVE  StillSound(q, d, p)
  <1>1. store'[d].step[q] \in 0..Last /\ store[d].step[q] \in 0..Last
    BY StepIn DEF StoreFits, Content
  <1> QED BY <1>1, LastIn DEF Grows, Sound, StillSound

(* A worker that says the same of a job has said so before.                  *)
LEMMA SaysTheSame ==
    ASSUME NEW q \in Runs, NEW d \in Blogs, NEW p, NEW u, StillSound(q, d, p),
           u.at = p.at, u.taken = p.taken, u.refreshed = p.refreshed
    PROVE  StillSound(q, d, u)
  BY DEF StillSound

(* What was said of a job, and by its worker.                                *)
LEMMA OldSound ==
    ASSUME Shaped, AllLanded, StoreFits, NEW q \in Runs, NEW d \in Blogs, Grows(q, d)
    PROVE  /\ StillSound(q, d, job[q][d].progress)
           /\ worker[q].pc \in InBlog /\ worker[q].blog = d => StillSound(q, d, worker[q].progress)
  <1>1. job[q][d].progress.at \in 0..Last /\ worker[q].progress.at \in 0..Last
    BY JobHas, WorkerHas
  <1> QED BY <1>1, SoundStays DEF AllLanded, Landed

(* What is enough for what progress says to hold after a step.               *)
KeySound(q, d) ==
    \A n \in 1..MaxAttempt, k \in Phases : broker'[<<q, d, n, k>>] = "done" =>
       \/ broker[<<q, d, n, k>>] = "done"
       \/ d \notin undone' => store'[d].step[q] >= k
WorkerSound(q, d) ==
    worker'[q].pc \in InBlog /\ worker'[q].blog = d => StillSound(q, d, worker'[q].progress)

(* What a step that lands nothing new must keep for Landed to be kept.       *)
LEMMA LandedFrom ==
    ASSUME Shaped, AllLanded, StoreFits, NEW q \in Runs, NEW d \in Blogs, Grows(q, d),
           Progresses \/ job' = job \/ StillSound(q, d, job'[q][d].progress),
           Dones \/ job' = job
              \/ (job'[q][d].status = "done" => job[q][d].status = "done")
              \/ (d \notin undone' => store'[d].step[q] = Last),
           broker' = broker \/ KeysKeep \/ KeySound(q, d),
           WorkersKeep \/ WorkerSound(q, d)
    PROVE  Landed(q, d)'
  <1>1. store'[d].step[q] \in 0..Last /\ store[d].step[q] \in 0..Last
    BY StepIn DEF StoreFits, Content
  <1>2. StillSound(q, d, job'[q][d].progress)
    BY OldSound DEF Progresses
  <1>3. ASSUME worker'[q].pc \in InBlog, worker'[q].blog = d PROVE StillSound(q, d, worker'[q].progress)
    <2>1. CASE WorkerSound(q, d)
      BY <1>3, <2>1 DEF WorkerSound
    <2>2. CASE WorkersKeep
      <3>1. Keeps(q)
        BY <1>3, <2>2 DEF WorkersKeep
      <3>2. StillSound(q, d, worker[q].progress)
        BY <1>3, <3>1, OldSound DEF Keeps
      <3> QED BY <3>1, <3>2 DEF Keeps, StillSound
    <2> QED BY <2>1, <2>2
  <1>4. ASSUME d \notin undone', NEW n \in 1..MaxAttempt, NEW k \in Phases, broker'[<<q, d, n, k>>] = "done"
        PROVE  store'[d].step[q] >= k
    <2>1. CASE broker[<<q, d, n, k>>] = "done"
      <3>1. store[d].step[q] >= k /\ store'[d].step[q] >= store[d].step[q]
        BY <1>4, <2>1 DEF AllLanded, Landed, Grows
      <3>2. k \in Nat
        BY LastIn
      <3> QED BY <1>1, <3>1, <3>2, LastIn
    <2>2. CASE KeySound(q, d)
      BY <1>4, <2>1, <2>2 DEF KeySound
    <2>3. CASE broker' = broker \/ KeysKeep
      BY <1>4, <2>1, <2>3, KeysStay
    <2> QED BY <2>2, <2>3
  <1>5. ASSUME d \notin undone', job'[q][d].status = "done" PROVE store'[d].step[q] = Last
    <2>1. CASE job[q][d].status = "done"
      <3>1. store[d].step[q] = Last /\ store'[d].step[q] >= store[d].step[q]
        BY <1>5, <2>1 DEF AllLanded, Landed, Grows
      <3> QED BY <1>1, <3>1, LastIn
    <2> QED BY <1>5, <2>1 DEF Dones
  <1> QED BY <1>2, <1>3, <1>4, <1>5 DEF Landed, Sound, StillSound, InBlog

(* The other workers of a step of one worker.                                *)
LEMMA OthersSound ==
    ASSUME Shaped, AllLanded, StoreFits, NEW q \in Runs, NEW d \in Blogs, Grows(q, d),
           NEW r \in Runs, Elsewhere(r), q # r
    PROVE  WorkerSound(q, d)
  BY OldSound DEF WorkerSound, Elsewhere

(* A worker goes on with what it says, or with a phase that is done.         *)
LEMMA TurnSound ==
    ASSUME Shaped, AllLanded, StoreFits, NEW q \in Runs, NEW d \in Blogs, Grows(q, d),
           NEW r \in Runs, worker[r].pc \in InBlog, Stays(r)
    PROVE  WorkerSound(q, d)
  <1>1. CASE q # r
    BY <1>1, OthersSound DEF Stays
  <1>2. CASE q = r
    BY <1>2, OldSound DEF WorkerSound, Stays
  <1> QED BY <1>1, <1>2

(* A worker that reports a failure says what it said.                        *)
LEMMA ReportSound ==
    ASSUME Shaped, AllLanded, StoreFits, NEW q \in Runs, NEW d \in Blogs, Grows(q, d),
           NEW r \in Runs, worker[r].pc \in InBlog, Reported(r)
    PROVE  WorkerSound(q, d)
  <1>1. CASE q # r
    BY <1>1, OthersSound DEF Reported, Saves
  <1>2. CASE q = r
    <2>1. /\ worker'[q].blog = worker[q].blog /\ worker'[q].progress.at = worker[q].progress.at
          /\ worker'[q].progress.taken = worker[q].progress.taken
          /\ worker'[q].progress.refreshed = worker[q].progress.refreshed
      BY <1>2 DEF Reported, Saves, Known
    <2>2. worker[q].blog = d => StillSound(q, d, worker[q].progress)
      BY <1>2, OldSound
    <2> QED BY <2>1, <2>2 DEF WorkerSound, StillSound
  <1> QED BY <1>1, <1>2

(* A phase whose key answers done has landed: the cursor may pass it.        *)
LEMMA AdvanceSound ==
    ASSUME Shaped, AllLanded, StoreFits, NEW q \in Runs, NEW d \in Blogs, Grows(q, d),
           NEW r \in Runs, worker[r].pc \in {"phase", "post", "wait"}, Advances(r)
    PROVE  WorkerSound(q, d)
  <1>1. CASE q # r
    BY <1>1, OthersSound DEF Advances, Saves
  <1>2. CASE q = r /\ worker[r].blog = d
    <2>1. /\ worker[q].progress.at < Last /\ worker[q].progress.taken /\ worker[q].progress.at \in 0..Last
          /\ worker[q].pc \in InBlog
      BY <1>2, WorkerHas DEF Shaped, Placed, InBlog
    <2>2. StillSound(q, d, worker[q].progress)
      BY <1>2, <2>1, OldSound
    <2>3. /\ worker'[q].progress.at = worker[q].progress.at + 1
          /\ worker'[q].progress.taken = worker[q].progress.taken
          /\ worker'[q].progress.refreshed = worker[q].progress.refreshed
      BY <1>2 DEF Advances, Saves, NextPhase, Known
    <2>4. PICK n \in 1..MaxAttempt : broker[<<q, d, n, worker[q].progress.at + 1>>] = "done"
      BY <1>2 DEF Advances, KeyState, Key, NextPhase, Known
    <2>5. worker[q].progress.at + 1 \in Phases
      BY <2>1, LastIn
    <2>6. d \notin undone' => worker[q].progress.at + 1 <= store'[d].step[q]
      <3>1. store'[d].step[q] \in 0..Last /\ store[d].step[q] \in 0..Last
        BY StepIn DEF StoreFits, Content
      <3>2. d \notin undone => store[d].step[q] >= worker[q].progress.at + 1
        BY <2>4, <2>5 DEF AllLanded, Landed
      <3>3. d \notin undone' => d \notin undone /\ store'[d].step[q] >= store[d].step[q]
        BY DEF Grows
      <3> QED BY <2>1, <3>1, <3>2, <3>3, LastIn
    <2>7. ~ worker[q].progress.refreshed
      BY <2>1, <2>2, LastIn DEF StillSound
    <2> QED BY <2>1, <2>2, <2>3, <2>6, <2>7 DEF WorkerSound, StillSound
  <1>3. CASE q = r /\ worker[r].blog # d
    BY <1>3 DEF WorkerSound, Advances, Saves
  <1> QED BY <1>1, <1>2, <1>3

(* Every step keeps what progress says true.                                 *)
LEMMA LandedStep ==
    ASSUME Shaped, Threaded, AllFresh, AllPoint, AllLanded, StoreFits, NEW q
       \in Runs, NEW d \in Blogs, Grows(q, d), Quiet \/ Loud PROVE Landed(q,
       d)'
  <1>1. ASSUME NEW r \in Runs, Create(r) PROVE Landed(q, d)'
    <2>1. broker' = broker /\ worker' = worker /\ \A o \in Runs \ {r} : job'[o] = job[o]
      BY <1>1, CreateDoes
    <2>2. q = r => job'[q][d].progress = Nothing /\ job'[q][d].status # "done"
      BY <1>1, CreateDoes
    <2>3. StillSound(q, d, Nothing)
      <3>1. store'[d].step[q] \in 0..Last
        BY DEF StoreFits, Content
      <3> QED BY <3>1, LastIn DEF StillSound, Nothing
    <2>4. StillSound(q, d, job'[q][d].progress)
      BY <2>1, <2>2, <2>3, OldSound
    <2> QED BY <2>1, <2>2, <2>4, WorkersStay, LandedFrom
  <1>2. ASSUME NEW r \in Runs, Claim(r) PROVE Landed(q, d)'
    <2>1. broker' = broker /\ Progresses /\ Dones /\ Elsewhere(r)
      BY <1>2, ClaimDoes DEF JobsKeep, Leaves
    <2>2. worker'[r].pc \in InBlog => worker'[r].progress = job[r][worker'[r].blog].progress
      BY <1>2, ClaimDoes DEF InBlog, Leaves
    <2>3. WorkerSound(q, d)
      <3>1. CASE q # r
        BY <2>1, <3>1, OthersSound
      <3>2. CASE q = r
        BY <2>2, <3>2, OldSound DEF WorkerSound
      <3> QED BY <3>1, <3>2
    <2> QED BY <2>1, <2>3, LandedFrom
  <1>3. ASSUME NEW r \in Runs, FetchLive(r) PROVE Landed(q, d)'
    <2>1. job' = job /\ broker' = broker /\ worker[r].pc \in InBlog /\ (Stays(r) \/ Reported(r))
      BY <1>3, FetchLiveDoes DEF Turns, InBlog
    <2> QED BY <2>1, TurnSound, ReportSound, LandedFrom
  <1>4. ASSUME NEW r \in Runs, TakeCopy(r) PROVE Landed(q, d)'
    <2>1. /\ broker' = broker /\ job' = job /\ Elsewhere(r) /\ worker'[r].blog = worker[r].blog
          /\ worker'[r].progress.at = worker[r].progress.at
          /\ worker'[r].progress.taken = TRUE
          /\ worker'[r].progress.refreshed = worker[r].progress.refreshed
      BY <1>4, TakeCopyDoes DEF Saves, Known
    <2>2. worker[r].pc \in InBlog /\ copy'[r][worker[r].blog] # None
      <3>1. worker[r].pc = "copy" /\ copy'[r][worker[r].blog] = worker[r].live
        BY <1>4, TakeCopyDoes
      <3> QED BY <3>1 DEF Shaped, Placed, InBlog
    <2>3. WorkerSound(q, d)
      <3>1. CASE q # r
        BY <2>1, <3>1, OthersSound
      <3>2. CASE q = r
        BY <2>1, <2>2, <3>2, OldSound DEF WorkerSound, StillSound
      <3> QED BY <3>1, <3>2
    <2> QED BY <2>1, <2>3, LandedFrom
  <1>5. ASSUME NEW r \in Runs, SaveProgress(r) PROVE Landed(q, d)'
    <2>1. /\ broker' = broker /\ Dones /\ Stays(r) /\ worker[r].pc \in InBlog
          /\ job'[r][worker[r].blog].progress = worker[r].progress
          /\ q # r \/ d # worker[r].blog => job'[q][d].progress = job[q][d].progress
      BY <1>5, SaveProgressDoes DEF Turns, InBlog, Known
    <2>2. StillSound(q, d, job'[q][d].progress)
      BY <2>1, OldSound
    <2> QED BY <2>1, <2>2, TurnSound, LandedFrom
  <1>6. ASSUME NEW r \in Runs, ProbeFinds(r) PROVE Landed(q, d)'
    <2>1. job' = job /\ broker' = broker /\ worker[r].pc \in {"phase", "post", "wait"}
      BY <1>6, ProbeFindsDoes
    <2>2. Advances(r) \/ Stays(r) \/ Reported(r)
      BY <1>6, ProbeFindsDoes DEF Waits, Turns
    <2> QED BY <2>1, <2>2, AdvanceSound, TurnSound, ReportSound, LandedFrom DEF InBlog
  <1>7. ASSUME NEW r \in Runs, Post(r) PROVE Landed(q, d)'
    <2>1. job' = job /\ Posts(r, Mine(r).attempt) /\ worker[r].pc \in InBlog /\ Stays(r)
      BY <1>7, PostDoes DEF Waits, InBlog
    <2>2. KeySound(q, d)
      <3>1. ASSUME NEW m \in 1..MaxAttempt, NEW p \in Phases, broker'[<<q, d, m, p>>] = "done"
            PROVE  broker[<<q, d, m, p>>] = "done"
        <4>1. <<q, d, m, p>> \in Keys
          BY DEF Keys
        <4> QED BY <2>1, <3>1, <4>1 DEF Posts
      <3> QED BY <3>1 DEF KeySound
    <2> QED BY <2>1, <2>2, TurnSound, LandedFrom
  <1>8. ASSUME NEW r \in Runs, PostAnswered(r) PROVE Landed(q, d)'
    <2>1. job' = job /\ broker' = broker /\ worker[r].pc \in {"phase", "post", "wait"}
      BY <1>8, PostAnsweredDoes
    <2>2. Advances(r) \/ Stays(r) \/ Reported(r)
      BY <1>8, PostAnsweredDoes DEF Waits, Turns
    <2> QED BY <2>1, <2>2, AdvanceSound, TurnSound, ReportSound, LandedFrom DEF InBlog
  <1>9. ASSUME NEW r \in Runs, Poll(r) PROVE Landed(q, d)'
    <2>1. job' = job /\ broker' = broker /\ worker[r].pc \in {"phase", "post", "wait"}
      BY <1>9, PollDoes
    <2>2. Advances(r) \/ Stays(r) \/ Reported(r)
      BY <1>9, PollDoes DEF Waits, Turns
    <2> QED BY <2>1, <2>2, AdvanceSound, TurnSound, ReportSound, LandedFrom DEF InBlog
  <1>10. ASSUME NEW r \in Runs, Verify(r) PROVE Landed(q, d)'
    <2>1. job' = job /\ broker' = broker /\ worker[r].pc \in InBlog /\ (Stays(r) \/ Reported(r))
      BY <1>10, VerifyDoes DEF Turns, InBlog
    <2> QED BY <2>1, TurnSound, ReportSound, LandedFrom
  <1>11. ASSUME NEW r \in Runs, Refresh(r) PROVE Landed(q, d)'
    <2>1. /\ broker' = broker /\ job' = job /\ Elsewhere(r) /\ worker'[r].blog = worker[r].blog
          /\ worker'[r].progress.at = worker[r].progress.at
          /\ worker'[r].progress.taken = worker[r].progress.taken
          /\ worker[r].pc = "import"
      BY <1>11, RefreshDoes DEF Saves, Known
    <2>2. worker[r].pc \in InBlog /\ worker[r].progress.at = Last
      BY <2>1 DEF Shaped, Placed, InBlog
    <2>3. WorkerSound(q, d)
      <3>1. CASE q # r
        BY <2>1, <3>1, OthersSound
      <3>2. CASE q = r
        BY <2>1, <2>2, <3>2, OldSound DEF WorkerSound, StillSound
      <3> QED BY <3>1, <3>2
    <2> QED BY <2>1, <2>3, LandedFrom
  <1>12. ASSUME NEW r \in Runs, FinishDone(r) PROVE Landed(q, d)'
    <2>1. /\ broker' = broker /\ Progresses /\ WorkersKeep /\ worker[r].pc = "finish"
          /\ q # r \/ d # worker[r].blog => job'[q][d].status = job[q][d].status
      BY <1>12, FinishDoneDoes, WorkersStay DEF InBlog, Places
    <2>2. q = r /\ d = worker[r].blog => (d \notin undone' => store'[d].step[q] = Last)
      <3>1. worker[r].pc \in InBlog /\ worker[r].progress.at = Last
        BY <2>1 DEF Shaped, Placed, InBlog
      <3>2. store'[d].step[q] \in 0..Last
        BY DEF StoreFits, Content
      <3> QED BY <3>1, <3>2, LastIn, OldSound DEF StillSound
    <2> QED BY <2>1, <2>2, LandedFrom
  <1>13. ASSUME NEW r \in Runs, PostUnheard(r) PROVE Landed(q, d)'
    <2>1. job' = job /\ Posts(r, Mine(r).attempt) /\ worker[r].pc \in InBlog /\ Stays(r)
      BY <1>13, PostUnheardDoes DEF Turns, InBlog
    <2>2. KeySound(q, d)
      <3>1. ASSUME NEW m \in 1..MaxAttempt, NEW p \in Phases, broker'[<<q, d, m, p>>] = "done"
            PROVE  broker[<<q, d, m, p>>] = "done"
        <4>1. <<q, d, m, p>> \in Keys
          BY DEF Keys
        <4> QED BY <2>1, <3>1, <4>1 DEF Posts
      <3> QED BY <3>1 DEF KeySound
    <2> QED BY <2>1, <2>2, TurnSound, LandedFrom
  <1>14. ASSUME NEW b \in Blogs, Import(b) PROVE Landed(q, d)'
    <2>1. broker' = broker /\ job' = job /\ WorkersKeep
      BY <1>14, ImportDoes, WorkersStay
    <2> QED BY <2>1, LandedFrom
  <1>15. ASSUME NEW r \in Runs, NEW b \in Blogs, NEW n \in 1..MaxAttempt, NEW k
     \in Phases, broker[<<r, b, n, k>>] = "running", PhaseLands(<<r, b, n, k>>)
     PROVE Landed(q, d)'
    <2>1. job' = job /\ WorkersKeep /\ Settles(r, b, n, k, "done") /\ Lands(r, b, k)
      BY <1>15, PhaseLandsDoes, WorkersStay
    <2>2. KeySound(q, d)
      <3>1. ASSUME NEW m \in 1..MaxAttempt, NEW p \in Phases, broker'[<<q, d, m, p>>] = "done",
                   broker[<<q, d, m, p>>] # "done"
            PROVE  store'[d].step[q] >= p
        <4>1. <<q, d, m, p>> \in Keys
          BY DEF Keys
        <4>2. <<q, d, m, p>> = <<r, b, n, k>>
          BY <2>1, <3>1, <4>1 DEF Settles
        <4> QED BY <2>1, <4>2 DEF Lands
      <3> QED BY <3>1 DEF KeySound
    <2> QED BY <2>1, <2>2, LandedFrom
  <1>16. ASSUME NEW r \in Runs, NEW b \in Blogs, NEW n \in 1..MaxAttempt, NEW k
     \in Phases, broker[<<r, b, n, k>>] = "running", PhaseDies(<<r, b, n, k>>)
     PROVE Landed(q, d)'
    <2>1. job' = job /\ WorkersKeep /\ Settles(r, b, n, k, "dead")
      BY <1>16, PhaseDiesDoes, WorkersStay
    <2>2. KeysKeep
      BY <2>1 DEF Settles, KeysKeep
    <2> QED BY <2>1, <2>2, LandedFrom
  <1>17. ASSUME NEW t \in restorers, RestorePasses(t) PROVE Landed(q, d)'
    <2>1. broker' = broker /\ WorkersKeep /\ Progresses /\ Dones
      BY <1>17, RestorePassesDoes, WorkersStay DEF Threaded
    <2> QED BY <2>1, LandedFrom
  <1>18. ASSUME NEW t \in restorers, RestoreFinalize(t) PROVE Landed(q, d)'
    <2>1. broker' = broker /\ WorkersKeep /\ Progresses /\ Dones
      BY <1>18, RestoreFinalizeDoes, WorkersStay DEF Threaded
    <2> QED BY <2>1, LandedFrom
  <1>19. ASSUME NEW t \in restorers, RestoreImport(t) PROVE Landed(q, d)'
    <2>1. broker' = broker /\ WorkersKeep /\ Progresses /\ Dones
      BY <1>19, RestoreImportDoes, WorkersStay DEF Threaded
    <2> QED BY <2>1, LandedFrom
  <1>20. ASSUME NEW t \in restorers, RestoreFails(t) PROVE Landed(q, d)'
    <2>1. broker' = broker /\ WorkersKeep /\ Progresses /\ Dones
      BY <1>20, RestoreFailsDoes, WorkersStay DEF Threaded
    <2> QED BY <2>1, LandedFrom
  <1>21. CASE Quiet
    <2> QED BY <1>21, LandedFrom DEF Quiet
  <1> QED BY <1>1, <1>2, <1>3, <1>4, <1>5, <1>6, <1>7, <1>8, <1>9, <1>10,
     <1>11, <1>12, <1>13, <1>14, <1>15, <1>16, <1>17, <1>18, <1>19, <1>20,
     <1>21 DEF Loud

(* What keeps the copies of the threads.                                     *)
LEMMA ThreadedFrom ==
    ASSUME Shaped, Threaded, restorers' = restorers \/ Threads, \A q \in Runs, d \in Blogs : Grows(q, d)
    PROVE  Threaded'
  <1>1. ASSUME NEW t \in restorers' PROVE copy'[t.run][t.blog] # None
    <2>1. PICK u \in restorers : t.run = u.run /\ t.blog = u.blog
      BY DEF Threads
    <2>2. u.run \in Runs /\ u.blog \in Blogs
      BY RestHas
    <2>3. copy'[u.run][u.blog] # None
      BY <2>2 DEF Threaded, Grows
    <2> QED BY <2>1, <2>3
  <1> QED BY <1>1 DEF Threaded

(* Every step keeps a copy under the thread of its restore.                  *)
LEMMA ThreadedStep ==
    ASSUME Shaped, Threaded, \A q \in Runs, d \in
       Blogs : Grows(q, d), Quiet \/ Loud PROVE Threaded'
  <1>1. ASSUME NEW r \in Runs, Create(r) PROVE Threaded'
    <2>1. restorers' = restorers
      BY <1>1, CreateDoes
    <2> QED BY <2>1, ThreadedFrom
  <1>2. ASSUME NEW r \in Runs, Claim(r) PROVE Threaded'
    <2>1. (restorers' = restorers \/ Threads)
      BY <1>2, ClaimDoes
    <2> QED BY <2>1, ThreadedFrom
  <1>3. ASSUME NEW r \in Runs, FetchLive(r) PROVE Threaded'
    <2>1. (restorers' = restorers \/ Threads)
      BY <1>3, FetchLiveDoes
    <2> QED BY <2>1, ThreadedFrom
  <1>4. ASSUME NEW r \in Runs, TakeCopy(r) PROVE Threaded'
    <2>1. (restorers' = restorers \/ Threads)
      BY <1>4, TakeCopyDoes
    <2> QED BY <2>1, ThreadedFrom
  <1>5. ASSUME NEW r \in Runs, SaveProgress(r) PROVE Threaded'
    <2>1. (restorers' = restorers \/ Threads)
      BY <1>5, SaveProgressDoes
    <2> QED BY <2>1, ThreadedFrom
  <1>6. ASSUME NEW r \in Runs, ProbeFinds(r) PROVE Threaded'
    <2>1. (restorers' = restorers \/ Threads)
      BY <1>6, ProbeFindsDoes
    <2> QED BY <2>1, ThreadedFrom
  <1>7. ASSUME NEW r \in Runs, Post(r) PROVE Threaded'
    <2>1. (restorers' = restorers \/ Threads)
      BY <1>7, PostDoes
    <2> QED BY <2>1, ThreadedFrom
  <1>8. ASSUME NEW r \in Runs, PostAnswered(r) PROVE Threaded'
    <2>1. (restorers' = restorers \/ Threads)
      BY <1>8, PostAnsweredDoes
    <2> QED BY <2>1, ThreadedFrom
  <1>9. ASSUME NEW r \in Runs, Poll(r) PROVE Threaded'
    <2>1. (restorers' = restorers \/ Threads)
      BY <1>9, PollDoes
    <2> QED BY <2>1, ThreadedFrom
  <1>10. ASSUME NEW r \in Runs, Verify(r) PROVE Threaded'
    <2>1. (restorers' = restorers \/ Threads)
      BY <1>10, VerifyDoes
    <2> QED BY <2>1, ThreadedFrom
  <1>11. ASSUME NEW r \in Runs, Refresh(r) PROVE Threaded'
    <2>1. (restorers' = restorers \/ Threads)
      BY <1>11, RefreshDoes
    <2> QED BY <2>1, ThreadedFrom
  <1>12. ASSUME NEW r \in Runs, FinishDone(r) PROVE Threaded'
    <2>1. (restorers' = restorers \/ Threads)
      BY <1>12, FinishDoneDoes
    <2> QED BY <2>1, ThreadedFrom
  <1>13. ASSUME NEW r \in Runs, PostUnheard(r) PROVE Threaded'
    <2>1. (restorers' = restorers \/ Threads)
      BY <1>13, PostUnheardDoes
    <2> QED BY <2>1, ThreadedFrom
  <1>14. ASSUME NEW b \in Blogs, Import(b) PROVE Threaded'
    <2>1. (restorers' = restorers \/ Threads)
      BY <1>14, ImportDoes
    <2> QED BY <2>1, ThreadedFrom
  <1>15. ASSUME NEW r \in Runs, NEW b \in Blogs, NEW n \in 1..MaxAttempt, NEW k
     \in Phases, broker[<<r, b, n, k>>] = "running", PhaseLands(<<r, b, n, k>>)
     PROVE Threaded'
    <2>1. (restorers' = restorers \/ Threads)
      BY <1>15, PhaseLandsDoes
    <2> QED BY <2>1, ThreadedFrom
  <1>16. ASSUME NEW r \in Runs, NEW b \in Blogs, NEW n \in 1..MaxAttempt, NEW k
     \in Phases, broker[<<r, b, n, k>>] = "running", PhaseDies(<<r, b, n, k>>)
     PROVE Threaded'
    <2>1. (restorers' = restorers \/ Threads)
      BY <1>16, PhaseDiesDoes
    <2> QED BY <2>1, ThreadedFrom
  <1>17. ASSUME NEW t \in restorers, RestorePasses(t) PROVE Threaded'
    <2>1. (restorers' = restorers \/ Threads)
      BY <1>17, RestorePassesDoes DEF Threaded
    <2> QED BY <2>1, ThreadedFrom
  <1>18. ASSUME NEW t \in restorers, RestoreFinalize(t) PROVE Threaded'
    <2>1. (restorers' = restorers \/ Threads)
      BY <1>18, RestoreFinalizeDoes DEF Threaded
    <2> QED BY <2>1, ThreadedFrom
  <1>19. ASSUME NEW t \in restorers, RestoreImport(t) PROVE Threaded'
    <2>1. (restorers' = restorers \/ Threads)
      BY <1>19, RestoreImportDoes DEF Threaded
    <2> QED BY <2>1, ThreadedFrom
  <1>20. ASSUME NEW t \in restorers, RestoreFails(t) PROVE Threaded'
    <2>1. (restorers' = restorers \/ Threads)
      BY <1>20, RestoreFailsDoes DEF Threaded
    <2> QED BY <2>1, ThreadedFrom
  <1>21. CASE Quiet
    BY <1>21 DEF Quiet
  <1> QED BY <1>1, <1>2, <1>3, <1>4, <1>5, <1>6, <1>7, <1>8, <1>9, <1>10,
     <1>11, <1>12, <1>13, <1>14, <1>15, <1>16, <1>17, <1>18, <1>19, <1>20,
     <1>21 DEF Loud

-----------------------------------------------------------------------------
(* The writers of a mark.                                                    *)
Stands(o) ==
    worker[o].pc \in InBlog /\ worker'[o].blog = worker[o].blog /\ worker'[o].mark = worker[o].mark
WorkersStand == \A o \in Runs : worker'[o].pc \in InBlog => Stands(o)
InJobOf(t) == worker[t.run].pc \in InBlog /\ worker[t.run].blog = t.blog
MarksStand ==
    \A t \in restorers : \/ job'[t.run][t.blog].restore = job[t.run][t.blog].restore
                         \/ InJobOf(t)

(* What leaves the workers where they are, or takes them out of a job.       *)
LEMMA StandsFrom ==
    /\ worker' = worker => WorkersStand
    /\ \A r \in Runs : Wakes(r) => WorkersStand
    /\ \A r \in Runs, pc \in Places \ InBlog : Leaves(r, pc) => WorkersStand
    /\ \A r \in Runs : Elsewhere(r) /\ Stands(r) => WorkersStand
  <1>1. worker' = worker => WorkersStand
    BY DEF WorkersStand, Stands
  <1>2. ASSUME NEW r \in Runs, Wakes(r) PROVE WorkersStand
    BY <1>2 DEF WorkersStand, Stands, Wakes, Elsewhere, InBlog
  <1>3. ASSUME NEW r \in Runs, NEW pc \in Places \ InBlog, Leaves(r, pc) PROVE WorkersStand
    BY <1>3 DEF WorkersStand, Stands, Leaves, Elsewhere
  <1>4. ASSUME NEW r \in Runs, Elsewhere(r), Stands(r) PROVE WorkersStand
    BY <1>4 DEF WorkersStand, Stands, Elsewhere
  <1> QED BY <1>1, <1>2, <1>3, <1>4

(* What leaves the marks alone.                                              *)
LEMMA MarksFrom == ASSUME Shaped PROVE job' = job \/ Restores => MarksStand
  BY RestHas DEF MarksStand, Restores

(* What is enough for a mark to keep its writers.                            *)
LEMMA RemarksFrom ==
    ASSUME Shaped, Remarks, beside \subseteq beside', restorers' = restorers, WorkersStand, MarksStand
    PROVE  Remarks'
  <1>1. ASSUME NEW t \in restorers PROVE Writes(t)'
    <2>1. t.run \in Runs /\ t.blog \in Blogs /\ Writes(t)
      BY RestHas DEF Remarks
    <2>2. <<t.run, t.blog>> \notin beside' => <<t.run, t.blog>> \notin beside
      OBVIOUS
    <2>3. worker'[t.run].pc \in InBlog /\ worker'[t.run].blog = t.blog => InJobOf(t)
      BY <2>1 DEF WorkersStand, Stands, InJobOf
    <2>4. job'[t.run][t.blog].restore = job[t.run][t.blog].restore \/ InJobOf(t)
      BY DEF MarksStand
    <2> QED BY <2>1, <2>2, <2>3, <2>4 DEF Writes, InJobOf, InBlog
  <1>2. ASSUME NEW r \in Runs PROVE Recalls(r)'
    BY DEF Remarks, Recalls, WorkersStand, Stands, InBlog
  <1> QED BY <1>1, <1>2 DEF Remarks

(* A thread that goes on, or ends, leaves the others to their jobs.          *)
LEMMA ThreadRemarks ==
    ASSUME Shaped, Remarks, beside \subseteq beside', worker' = worker, NEW t \in restorers, NEW pc,
           Ends(t) \/ (/\ Goes(t, pc)
                       /\ pc \in Rewriting => /\ t.pc \in Rewriting
                                              /\ job'[t.run][t.blog].restore = "running"),
           \A o \in Runs, c \in Blogs : o # t.run \/ c # t.blog => job'[o][c].restore = job[o][c].restore
    PROVE  Remarks'
  <1>1. /\ t.run \in Runs /\ t.blog \in Blogs /\ t \in RestoreThread
        /\ \A u \in restorers : u.run \in Runs /\ u.blog \in Blogs
    BY RestHas
  <1>2. PICK g : g = [t EXCEPT !.pc = pc]
    OBVIOUS
  <1>3. g.run = t.run /\ g.blog = t.blog /\ g.pc = pc
    BY <1>1, <1>2 DEF RestoreThread
  <1>4. restorers' \subseteq (restorers \ {t}) \cup {g}
    BY <1>2 DEF Ends, Goes
  <1>5. g \in restorers' /\ g # t /\ g \notin restorers =>
           (pc \in Rewriting => t.pc \in Rewriting /\ job'[t.run][t.blog].restore = "running")
    BY <1>2 DEF Ends, Goes
  <1>6. ASSUME NEW u \in restorers \ {t}, <<u.run, u.blog>> \notin beside
        PROVE  u.run # t.run \/ u.blog # t.blog
    BY <1>6 DEF Remarks, Writes
  <1>7. ASSUME NEW u \in restorers' PROVE Writes(u)'
    <2> SUFFICES ASSUME <<u.run, u.blog>> \notin beside'
                 PROVE  /\ \A v \in restorers' : v.run = u.run /\ v.blog = u.blog => v = u
                        /\ u.pc \in Rewriting => /\ job'[u.run][u.blog].restore = "running"
                                                 /\ ~ (worker[u.run].pc \in InBlog /\ worker[u.run].blog = u.blog)
      BY DEF Writes, InBlog
    <2>1. <<u.run, u.blog>> \notin beside
      OBVIOUS
    <2>2. CASE u \in restorers \ {t}
      <3>1. u.run # t.run \/ u.blog # t.blog
        BY <1>6, <2>1, <2>2
      <3>2. job'[u.run][u.blog].restore = job[u.run][u.blog].restore
        BY <1>1, <2>2, <3>1
      <3>3. ASSUME NEW v \in restorers', v.run = u.run, v.blog = u.blog PROVE v = u
        <4>1. v # g
          BY <1>3, <3>1, <3>3
        <4>2. v \in restorers
          BY <1>4, <4>1
        <4> QED BY <2>1, <2>2, <3>3, <4>2 DEF Remarks, Writes
      <3>4. Writes(u)
        BY <2>2 DEF Remarks
      <3> QED BY <2>1, <3>2, <3>3, <3>4 DEF Writes
    <2>3. CASE u \notin restorers \ {t}
      <3>1. u = g /\ g \in restorers'
        BY <1>4, <2>3
      <3>2. Writes(t) /\ <<t.run, t.blog>> \notin beside
        BY <1>3, <2>1, <3>1 DEF Remarks
      <3>3. ASSUME NEW v \in restorers', v.run = u.run, v.blog = u.blog PROVE v = u
        <4>1. v \in restorers => v = t
          BY <1>3, <3>1, <3>2, <3>3 DEF Writes
        <4> QED BY <1>4, <3>1, <4>1
      <3>4. u.pc \in Rewriting => t.pc \in Rewriting /\ job'[t.run][t.blog].restore = "running"
        <4>1. ~ Ends(t) \/ g \notin restorers \ {t}
          BY <2>3, <3>1
        <4>2. ~ Ends(t)
          BY <3>1, <4>1 DEF Ends
        <4> QED BY <1>3, <3>1, <4>2
      <3> QED BY <1>3, <3>1, <3>2, <3>3, <3>4 DEF Writes
    <2> QED BY <2>2, <2>3
  <1>8. ASSUME NEW r \in Runs PROVE Recalls(r)'
    BY DEF Remarks, Recalls, InBlog
  <1> QED BY <1>7, <1>8 DEF Remarks

(* A worker does not claim a job whose restore was let in alone.             *)
LEMMA ClaimRemarks ==
    ASSUME Shaped, Admitted, Remarks, beside \subseteq beside', NEW r \in Runs, Claim(r)
    PROVE  Remarks'
  <1>1. /\ worker[r].pc = "claim" /\ restorers' = restorers /\ MarksStand
        /\ \A o \in Runs, c \in Blogs : job'[o][c].restore = job[o][c].restore
    BY ClaimDoes, MarksFrom DEF JobsKeep, Restores
  <1>2. CASE Leaves(r, "leave")
    BY <1>1, <1>2, StandsFrom, RemarksFrom DEF InBlog, Places
  <1>3. CASE ~ Leaves(r, "leave")
    <2>1. /\ run[r].status \in Active /\ Elsewhere(r) /\ worker'[r].blog \in Blogs
          /\ worker'[r].mark = job[r][worker'[r].blog].restore
      BY <1>3, ClaimDoes, BlogsIn DEF Leaves, Active
    <2>2. Calm
      BY <1>1, <2>1 DEF Admitted, Aside, Doing
    <2>3. ASSUME NEW o \in Runs PROVE Recalls(o)'
      <3>1. CASE o # r
        BY <2>1, <3>1 DEF Elsewhere, Remarks, Recalls, InBlog
      <3>2. CASE o = r
        BY <2>1, <2>2, <3>2 DEF Calm, Recalls, InBlog
      <3> QED BY <3>1, <3>2
    <2>4. ASSUME NEW t \in restorers' PROVE Writes(t)'
      <3>1. t \in restorers /\ t.run \in Runs /\ t.blog \in Blogs /\ Writes(t)
        BY <1>1, RestHas DEF Remarks
      <3>2. <<t.run, t.blog>> \notin beside' => <<t.run, t.blog>> \notin beside
        OBVIOUS
      <3>3. <<t.run, t.blog>> \notin beside => t.pc \notin Rewriting
        BY <2>2, <3>1 DEF Calm, Writes
      <3> QED BY <1>1, <3>1, <3>2, <3>3 DEF Writes
    <2> QED BY <2>3, <2>4 DEF Remarks
  <1> QED BY <1>2, <1>3

(* A restore is let in alone, or remembered as beside another writer.        *)
LEMMA RestoreRemarks ==
    ASSUME Shaped, Remarks, NEW r \in Runs, NEW b \in Blogs, RestoreBlog(r, b)
    PROVE  Remarks'
  <1>1. /\ beside \subseteq beside' /\ Marking(r, b, "running") /\ worker' = worker
        /\ <<r, b>> \notin beside' => worker[r].blog # b /\ \A t \in restorers : t.run = r => t.blog # b
    BY RestoreBlogDoes
  <1>2. Joins(r, b)
    BY RestoreBlogDoes
  <1>3. PICK g \in RestoreThread : g.run = r /\ g.blog = b /\ restorers' = restorers \cup {g}
    BY <1>2, Zenon DEF Joins
  <1>4. ASSUME NEW t \in restorers' PROVE Writes(t)'
    <2> SUFFICES ASSUME <<t.run, t.blog>> \notin beside'
                 PROVE  /\ \A u \in restorers' : u.run = t.run /\ u.blog = t.blog => u = t
                        /\ t.pc \in Rewriting => /\ job'[t.run][t.blog].restore = "running"
                                                 /\ ~ (worker[t.run].pc \in InBlog /\ worker[t.run].blog = t.blog)
      BY <1>1 DEF Writes, InBlog
    <2>1. CASE t.run = r /\ t.blog = b
      <3>1. \A u \in restorers : u.run = r => u.blog # b
        BY <1>1, <2>1
      <3>2. \A u \in restorers' : u.run = r /\ u.blog = b => u = g
        BY <1>3, <3>1
      <3> QED BY <1>1, <2>1, <3>2 DEF Marking
    <2>2. CASE ~ (t.run = r /\ t.blog = b)
      <3>1. t \in restorers /\ t.run \in Runs /\ t.blog \in Blogs /\ <<t.run, t.blog>> \notin beside
        BY <1>1, <1>3, <2>2, RestHas
      <3>2. job'[t.run][t.blog].restore = job[t.run][t.blog].restore
        BY <1>1, <2>2, <3>1 DEF Marking
      <3>3. \A u \in restorers' : u.run = t.run /\ u.blog = t.blog => u \in restorers
        BY <1>3, <2>2
      <3> QED BY <3>1, <3>2, <3>3 DEF Remarks, Writes
    <2> QED BY <2>1, <2>2
  <1>5. ASSUME NEW o \in Runs PROVE Recalls(o)'
    BY <1>1 DEF Remarks, Recalls, InBlog
  <1> QED BY <1>4, <1>5 DEF Remarks

(* Every step keeps a mark with its writers.                                 *)
LEMMA RemarksStep ==
    ASSUME Shaped, Admitted, Threaded, AllFresh, Remarks, Remembers, Did PROVE Remarks'
  <1>0. CASE Restart
    <2>1. restorers' = {} /\ \A o \in Runs : worker'[o].pc \notin InBlog
      BY <1>0, RestartDoes DEF InBlog
    <2> QED BY <2>1 DEF Remarks, Recalls, InBlog
  <1> SUFFICES ASSUME beside \subseteq beside' PROVE Remarks'
    BY <1>0 DEF Remembers
  <1>1. ASSUME NotReady
        PROVE  Remarks'
    <2>1. WorkersStand
      BY <1>1, NotReadyDoes, StandsFrom DEF InBlog, Places
    <2>2. restorers' = restorers
      BY <1>1, NotReadyDoes
    <2>3. MarksStand
      BY <1>1, NotReadyDoes, MarksFrom
    <2> QED BY <2>1, <2>2, <2>3, RemarksFrom
  <1>2. ASSUME Start
        PROVE  Remarks'
    <2>1. WorkersStand
      BY <1>2, StartDoes, StandsFrom, RequestHas DEF InBlog, Places
    <2>2. restorers' = restorers
      BY <1>2, StartDoes
    <2>3. MarksStand
      BY <1>2, StartDoes, MarksFrom
    <2> QED BY <2>1, <2>2, <2>3, RemarksFrom
  <1>3. ASSUME Resume
        PROVE  Remarks'
    <2>1. WorkersStand
      BY <1>3, ResumeDoes, StandsFrom, RequestHas DEF InBlog, Places
    <2>2. restorers' = restorers
      BY <1>3, ResumeDoes
    <2>3. MarksStand
      BY <1>3, ResumeDoes, MarksFrom DEF JobsKeep
    <2> QED BY <2>1, <2>2, <2>3, RemarksFrom
  <1>4. ASSUME Retry
        PROVE  Remarks'
    <2>1. WorkersStand
      BY <1>4, RetryDoes, StandsFrom, RequestHas DEF InBlog, Places
    <2>2. restorers' = restorers
      BY <1>4, RetryDoes
    <2>3. MarksStand
      BY <1>4, RetryDoes, MarksFrom DEF JobsKeep
    <2> QED BY <2>1, <2>2, <2>3, RemarksFrom
  <1>5. ASSUME NEW r \in Runs, Create(r)
        PROVE  Remarks'
    <2>1. WorkersStand
      BY <1>5, CreateDoes, StandsFrom DEF InBlog, Places
    <2>2. restorers' = restorers
      BY <1>5, CreateDoes
    <2>3. MarksStand
      <3>1. ASSUME NEW t \in restorers PROVE job'[t.run][t.blog].restore = job[t.run][t.blog].restore
        <4>1. t.run \in Runs /\ t.blog \in Blogs /\ copy[t.run][t.blog] # None
          BY RestHas DEF Threaded
        <4>2. t.run # r
          BY <1>5, <4>1, CreateDoes DEF AllFresh, Fresh
        <4> QED BY <1>5, <4>1, <4>2, CreateDoes
      <3> QED BY <3>1 DEF MarksStand
    <2> QED BY <2>1, <2>2, <2>3, RemarksFrom
  <1>6. ASSUME NEW r \in Runs, AskStart(r)
        PROVE  Remarks'
    <2>1. WorkersStand
      BY <1>6, AskStartDoes, StandsFrom DEF InBlog, Places
    <2>2. restorers' = restorers
      BY <1>6, AskStartDoes
    <2>3. MarksStand
      BY <1>6, AskStartDoes, MarksFrom
    <2> QED BY <2>1, <2>2, <2>3, RemarksFrom
  <1>7. ASSUME NEW r \in Runs, AskResume(r)
        PROVE  Remarks'
    <2>1. WorkersStand
      BY <1>7, AskResumeDoes, StandsFrom DEF InBlog, Places
    <2>2. restorers' = restorers
      BY <1>7, AskResumeDoes
    <2>3. MarksStand
      BY <1>7, AskResumeDoes, MarksFrom
    <2> QED BY <2>1, <2>2, <2>3, RemarksFrom
  <1>8. ASSUME NEW r \in Runs, RequestPause(r)
        PROVE  Remarks'
    <2>1. WorkersStand
      BY <1>8, RequestPauseDoes, StandsFrom DEF InBlog, Places
    <2>2. restorers' = restorers
      BY <1>8, RequestPauseDoes
    <2>3. MarksStand
      BY <1>8, RequestPauseDoes, MarksFrom
    <2> QED BY <2>1, <2>2, <2>3, RemarksFrom
  <1>9. ASSUME NEW r \in Runs, ReadCancel(r)
        PROVE  Remarks'
    <2>1. WorkersStand
      BY <1>9, ReadCancelDoes, StandsFrom DEF InBlog, Places
    <2>2. restorers' = restorers
      BY <1>9, ReadCancelDoes
    <2>3. MarksStand
      BY <1>9, ReadCancelDoes, MarksFrom
    <2> QED BY <2>1, <2>2, <2>3, RemarksFrom
  <1>10. ASSUME NEW r \in Runs, Cancel(r)
        PROVE  Remarks'
    <2>1. WorkersStand
      BY <1>10, CancelDoes, StandsFrom DEF InBlog, Places
    <2>2. restorers' = restorers
      BY <1>10, CancelDoes
    <2>3. MarksStand
      BY <1>10, CancelDoes, MarksFrom DEF JobsKeep
    <2> QED BY <2>1, <2>2, <2>3, RemarksFrom
  <1>11. ASSUME NEW r \in Runs, Claim(r)
        PROVE  Remarks'
    BY <1>11, ClaimRemarks
  <1>12. ASSUME NEW r \in Runs, VersionFence(r)
        PROVE  Remarks'
    <2>1. WorkersStand
      BY <1>12, VersionFenceDoes, StandsFrom DEF InBlog, Places, Stands, Stays, Saves, Waits, Turns, Advances, Reported, Known
    <2>2. restorers' = restorers
      BY <1>12, VersionFenceDoes
    <2>3. MarksStand
      BY <1>12, VersionFenceDoes, MarksFrom
    <2> QED BY <2>1, <2>2, <2>3, RemarksFrom
  <1>13. ASSUME NEW r \in Runs, FetchLive(r)
        PROVE  Remarks'
    <2>1. WorkersStand
      BY <1>13, FetchLiveDoes, StandsFrom DEF InBlog, Places, Stands, Stays, Saves, Waits, Turns, Advances, Reported, Known
    <2>2. restorers' = restorers
      BY <1>13, FetchLiveDoes
    <2>3. MarksStand
      BY <1>13, FetchLiveDoes, MarksFrom
    <2> QED BY <2>1, <2>2, <2>3, RemarksFrom
  <1>14. ASSUME NEW r \in Runs, TakeCopy(r)
        PROVE  Remarks'
    <2>1. WorkersStand
      BY <1>14, TakeCopyDoes, StandsFrom DEF InBlog, Places, Stands, Stays, Saves, Waits, Turns, Advances, Reported, Known
    <2>2. restorers' = restorers
      BY <1>14, TakeCopyDoes
    <2>3. MarksStand
      BY <1>14, TakeCopyDoes, MarksFrom
    <2> QED BY <2>1, <2>2, <2>3, RemarksFrom
  <1>15. ASSUME NEW r \in Runs, SaveProgress(r)
        PROVE  Remarks'
    <2>1. WorkersStand
      BY <1>15, SaveProgressDoes, StandsFrom DEF InBlog, Places, Stands, Stays, Saves, Waits, Turns, Advances, Reported, Known
    <2>2. restorers' = restorers
      BY <1>15, SaveProgressDoes
    <2>3. MarksStand
      BY <1>15, SaveProgressDoes, RestHas DEF MarksStand, Marking, InJobOf, InBlog
    <2> QED BY <2>1, <2>2, <2>3, RemarksFrom
  <1>16. ASSUME NEW r \in Runs, ProbeFinds(r)
        PROVE  Remarks'
    <2>1. WorkersStand
      BY <1>16, ProbeFindsDoes, StandsFrom DEF InBlog, Places, Stands, Stays, Saves, Waits, Turns, Advances, Reported, Known
    <2>2. restorers' = restorers
      BY <1>16, ProbeFindsDoes
    <2>3. MarksStand
      BY <1>16, ProbeFindsDoes, MarksFrom
    <2> QED BY <2>1, <2>2, <2>3, RemarksFrom
  <1>17. ASSUME NEW r \in Runs, ProbeMisses(r)
        PROVE  Remarks'
    <2>1. WorkersStand
      BY <1>17, ProbeMissesDoes, StandsFrom DEF InBlog, Places, Stands, Stays, Saves, Waits, Turns, Advances, Reported, Known
    <2>2. restorers' = restorers
      BY <1>17, ProbeMissesDoes
    <2>3. MarksStand
      BY <1>17, ProbeMissesDoes, MarksFrom
    <2> QED BY <2>1, <2>2, <2>3, RemarksFrom
  <1>18. ASSUME NEW r \in Runs, Post(r)
        PROVE  Remarks'
    <2>1. WorkersStand
      BY <1>18, PostDoes, StandsFrom DEF InBlog, Places, Stands, Stays, Saves, Waits, Turns, Advances, Reported, Known
    <2>2. restorers' = restorers
      BY <1>18, PostDoes
    <2>3. MarksStand
      BY <1>18, PostDoes, MarksFrom
    <2> QED BY <2>1, <2>2, <2>3, RemarksFrom
  <1>19. ASSUME NEW r \in Runs, PostAnswered(r)
        PROVE  Remarks'
    <2>1. WorkersStand
      BY <1>19, PostAnsweredDoes, StandsFrom DEF InBlog, Places, Stands, Stays, Saves, Waits, Turns, Advances, Reported, Known
    <2>2. restorers' = restorers
      BY <1>19, PostAnsweredDoes
    <2>3. MarksStand
      BY <1>19, PostAnsweredDoes, MarksFrom
    <2> QED BY <2>1, <2>2, <2>3, RemarksFrom
  <1>20. ASSUME NEW r \in Runs, PostRefused(r)
        PROVE  Remarks'
    <2>1. WorkersStand
      BY <1>20, PostRefusedDoes, StandsFrom DEF InBlog, Places, Stands, Stays, Saves, Waits, Turns, Advances, Reported, Known
    <2>2. restorers' = restorers
      BY <1>20, PostRefusedDoes
    <2>3. MarksStand
      BY <1>20, PostRefusedDoes, MarksFrom
    <2> QED BY <2>1, <2>2, <2>3, RemarksFrom
  <1>21. ASSUME NEW r \in Runs, Poll(r)
        PROVE  Remarks'
    <2>1. WorkersStand
      BY <1>21, PollDoes, StandsFrom DEF InBlog, Places, Stands, Stays, Saves, Waits, Turns, Advances, Reported, Known
    <2>2. restorers' = restorers
      BY <1>21, PollDoes
    <2>3. MarksStand
      BY <1>21, PollDoes, MarksFrom
    <2> QED BY <2>1, <2>2, <2>3, RemarksFrom
  <1>22. ASSUME NEW r \in Runs, GiveUp(r)
        PROVE  Remarks'
    <2>1. WorkersStand
      BY <1>22, GiveUpDoes, StandsFrom DEF InBlog, Places, Stands, Stays, Saves, Waits, Turns, Advances, Reported, Known
    <2>2. restorers' = restorers
      BY <1>22, GiveUpDoes
    <2>3. MarksStand
      BY <1>22, GiveUpDoes, MarksFrom
    <2> QED BY <2>1, <2>2, <2>3, RemarksFrom
  <1>23. ASSUME NEW r \in Runs, Verify(r)
        PROVE  Remarks'
    <2>1. WorkersStand
      BY <1>23, VerifyDoes, StandsFrom DEF InBlog, Places, Stands, Stays, Saves, Waits, Turns, Advances, Reported, Known
    <2>2. restorers' = restorers
      BY <1>23, VerifyDoes
    <2>3. MarksStand
      BY <1>23, VerifyDoes, MarksFrom
    <2> QED BY <2>1, <2>2, <2>3, RemarksFrom
  <1>24. ASSUME NEW r \in Runs, Refresh(r)
        PROVE  Remarks'
    <2>1. WorkersStand
      BY <1>24, RefreshDoes, StandsFrom DEF InBlog, Places, Stands, Stays, Saves, Waits, Turns, Advances, Reported, Known
    <2>2. restorers' = restorers
      BY <1>24, RefreshDoes
    <2>3. MarksStand
      BY <1>24, RefreshDoes, MarksFrom
    <2> QED BY <2>1, <2>2, <2>3, RemarksFrom
  <1>25. ASSUME NEW r \in Runs, RefreshFails(r)
        PROVE  Remarks'
    <2>1. WorkersStand
      BY <1>25, RefreshFailsDoes, StandsFrom DEF InBlog, Places, Stands, Stays, Saves, Waits, Turns, Advances, Reported, Known
    <2>2. restorers' = restorers
      BY <1>25, RefreshFailsDoes
    <2>3. MarksStand
      BY <1>25, RefreshFailsDoes, MarksFrom
    <2> QED BY <2>1, <2>2, <2>3, RemarksFrom
  <1>26. ASSUME NEW r \in Runs, FinishDone(r)
        PROVE  Remarks'
    <2>1. WorkersStand
      BY <1>26, FinishDoneDoes, StandsFrom DEF InBlog, Places
    <2>2. restorers' = restorers
      BY <1>26, FinishDoneDoes
    <2>3. MarksStand
      BY <1>26, FinishDoneDoes, MarksFrom
    <2> QED BY <2>1, <2>2, <2>3, RemarksFrom
  <1>27. ASSUME NEW r \in Runs, FinishFailed(r)
        PROVE  Remarks'
    <2>1. WorkersStand
      BY <1>27, FinishFailedDoes, StandsFrom DEF InBlog, Places
    <2>2. restorers' = restorers
      BY <1>27, FinishFailedDoes
    <2>3. MarksStand
      BY <1>27, FinishFailedDoes, MarksFrom DEF JobsKeep
    <2> QED BY <2>1, <2>2, <2>3, RemarksFrom
  <1>28. ASSUME NEW r \in Runs, StopRun(r)
        PROVE  Remarks'
    <2>1. WorkersStand
      BY <1>28, StopRunDoes, StandsFrom DEF InBlog, Places
    <2>2. restorers' = restorers
      BY <1>28, StopRunDoes
    <2>3. MarksStand
      BY <1>28, StopRunDoes, MarksFrom
    <2> QED BY <2>1, <2>2, <2>3, RemarksFrom
  <1>29. ASSUME NEW r \in Runs, Leave(r)
        PROVE  Remarks'
    <2>1. WorkersStand
      BY <1>29, LeaveDoes, StandsFrom DEF InBlog, Places
    <2>2. restorers' = restorers
      BY <1>29, LeaveDoes
    <2>3. MarksStand
      BY <1>29, LeaveDoes, MarksFrom
    <2> QED BY <2>1, <2>2, <2>3, RemarksFrom
  <1>30. ASSUME NEW r \in Runs, ExportFails(r)
        PROVE  Remarks'
    <2>1. WorkersStand
      BY <1>30, ExportFailsDoes, StandsFrom DEF InBlog, Places, Stands, Stays, Saves, Waits, Turns, Advances, Reported, Known
    <2>2. restorers' = restorers
      BY <1>30, ExportFailsDoes
    <2>3. MarksStand
      BY <1>30, ExportFailsDoes, MarksFrom
    <2> QED BY <2>1, <2>2, <2>3, RemarksFrom
  <1>31. ASSUME NEW r \in Runs, ProbeUnheard(r)
        PROVE  Remarks'
    <2>1. WorkersStand
      BY <1>31, ProbeUnheardDoes, StandsFrom DEF InBlog, Places, Stands, Stays, Saves, Waits, Turns, Advances, Reported, Known
    <2>2. restorers' = restorers
      BY <1>31, ProbeUnheardDoes
    <2>3. MarksStand
      BY <1>31, ProbeUnheardDoes, MarksFrom
    <2> QED BY <2>1, <2>2, <2>3, RemarksFrom
  <1>32. ASSUME NEW r \in Runs, PostUnheard(r)
        PROVE  Remarks'
    <2>1. WorkersStand
      BY <1>32, PostUnheardDoes, StandsFrom DEF InBlog, Places, Stands, Stays, Saves, Waits, Turns, Advances, Reported, Known
    <2>2. restorers' = restorers
      BY <1>32, PostUnheardDoes
    <2>3. MarksStand
      BY <1>32, PostUnheardDoes, MarksFrom
    <2> QED BY <2>1, <2>2, <2>3, RemarksFrom
  <1>33. ASSUME NEW r \in Runs, PostFails(r)
        PROVE  Remarks'
    <2>1. WorkersStand
      BY <1>33, PostFailsDoes, StandsFrom DEF InBlog, Places, Stands, Stays, Saves, Waits, Turns, Advances, Reported, Known
    <2>2. restorers' = restorers
      BY <1>33, PostFailsDoes
    <2>3. MarksStand
      BY <1>33, PostFailsDoes, MarksFrom
    <2> QED BY <2>1, <2>2, <2>3, RemarksFrom
  <1>34. ASSUME NEW r \in Runs, CannotVerify(r)
        PROVE  Remarks'
    <2>1. WorkersStand
      BY <1>34, CannotVerifyDoes, StandsFrom DEF InBlog, Places, Stands, Stays, Saves, Waits, Turns, Advances, Reported, Known
    <2>2. restorers' = restorers
      BY <1>34, CannotVerifyDoes
    <2>3. MarksStand
      BY <1>34, CannotVerifyDoes, MarksFrom
    <2> QED BY <2>1, <2>2, <2>3, RemarksFrom
  <1>35. ASSUME NEW r \in Runs, Die(r)
        PROVE  Remarks'
    <2>1. WorkersStand
      BY <1>35, DieDoes, StandsFrom DEF InBlog, Places
    <2>2. restorers' = restorers
      BY <1>35, DieDoes
    <2>3. MarksStand
      BY <1>35, DieDoes, MarksFrom
    <2> QED BY <2>1, <2>2, <2>3, RemarksFrom
  <1>36. ASSUME NEW r \in Runs, GoStale(r)
        PROVE  Remarks'
    <2>1. WorkersStand
      BY <1>36, GoStaleDoes, StandsFrom DEF InBlog, Places
    <2>2. restorers' = restorers
      BY <1>36, GoStaleDoes
    <2>3. MarksStand
      BY <1>36, GoStaleDoes, MarksFrom
    <2> QED BY <2>1, <2>2, <2>3, RemarksFrom
  <1>37. ASSUME NEW r \in Runs, NEW b \in Blogs, AskRetry(r, b)
        PROVE  Remarks'
    <2>1. WorkersStand
      BY <1>37, AskRetryDoes, StandsFrom DEF InBlog, Places
    <2>2. restorers' = restorers
      BY <1>37, AskRetryDoes
    <2>3. MarksStand
      BY <1>37, AskRetryDoes, MarksFrom
    <2> QED BY <2>1, <2>2, <2>3, RemarksFrom
  <1>38. ASSUME NEW r \in Runs, NEW b \in Blogs, Skip(r, b)
        PROVE  Remarks'
    <2>1. WorkersStand
      BY <1>38, SkipDoes, StandsFrom DEF InBlog, Places
    <2>2. restorers' = restorers
      BY <1>38, SkipDoes
    <2>3. MarksStand
      BY <1>38, SkipDoes, MarksFrom DEF JobsKeep
    <2> QED BY <2>1, <2>2, <2>3, RemarksFrom
  <1>39. ASSUME NEW r \in Runs, NEW b \in Blogs, RestoreBlog(r, b)
        PROVE  Remarks'
    BY <1>39, RestoreRemarks
  <1>40. ASSUME NEW r \in Runs, NEW b \in Blogs, RestoreGoesStale(r, b)
        PROVE  Remarks'
    <2>1. WorkersStand
      BY <1>40, RestoreGoesStaleDoes, StandsFrom DEF InBlog, Places
    <2>2. restorers' = restorers
      BY <1>40, RestoreGoesStaleDoes
    <2>3. MarksStand
      BY <1>40, RestoreGoesStaleDoes, RestHas DEF MarksStand, Marking
    <2> QED BY <2>1, <2>2, <2>3, RemarksFrom
  <1>41. ASSUME NEW b \in Blogs, CheckImport(b)
        PROVE  Remarks'
    <2>1. WorkersStand
      BY <1>41, CheckImportDoes, StandsFrom DEF InBlog, Places
    <2>2. restorers' = restorers
      BY <1>41, CheckImportDoes
    <2>3. MarksStand
      BY <1>41, CheckImportDoes, MarksFrom
    <2> QED BY <2>1, <2>2, <2>3, RemarksFrom
  <1>42. ASSUME NEW b \in Blogs, Import(b)
        PROVE  Remarks'
    <2>1. WorkersStand
      BY <1>42, ImportDoes, StandsFrom DEF InBlog, Places
    <2>2. restorers' = restorers
      BY <1>42, ImportDoes
    <2>3. MarksStand
      BY <1>42, ImportDoes, MarksFrom
    <2> QED BY <2>1, <2>2, <2>3, RemarksFrom
  <1>43. ASSUME NEW b \in Blogs, Edit(b)
        PROVE  Remarks'
    <2>1. WorkersStand
      BY <1>43, EditDoes, StandsFrom DEF InBlog, Places
    <2>2. restorers' = restorers
      BY <1>43, EditDoes
    <2>3. MarksStand
      BY <1>43, EditDoes, MarksFrom
    <2> QED BY <2>1, <2>2, <2>3, RemarksFrom
  <1>44. ASSUME NEW r \in Runs, NEW b \in Blogs, NEW n \in 1..MaxAttempt, NEW k \in Phases,
               broker[<<r, b, n, k>>] = "running", PhaseLands(<<r, b, n, k>>)
        PROVE  Remarks'
    <2>1. WorkersStand
      BY <1>44, PhaseLandsDoes, StandsFrom DEF InBlog, Places
    <2>2. restorers' = restorers
      BY <1>44, PhaseLandsDoes
    <2>3. MarksStand
      BY <1>44, PhaseLandsDoes, MarksFrom
    <2> QED BY <2>1, <2>2, <2>3, RemarksFrom
  <1>45. ASSUME NEW r \in Runs, NEW b \in Blogs, NEW n \in 1..MaxAttempt, NEW k \in Phases,
               broker[<<r, b, n, k>>] = "running", PhaseRefused(<<r, b, n, k>>)
        PROVE  Remarks'
    <2>1. WorkersStand
      BY <1>45, PhaseRefusedDoes, StandsFrom DEF InBlog, Places
    <2>2. restorers' = restorers
      BY <1>45, PhaseRefusedDoes
    <2>3. MarksStand
      BY <1>45, PhaseRefusedDoes, MarksFrom
    <2> QED BY <2>1, <2>2, <2>3, RemarksFrom
  <1>46. ASSUME NEW r \in Runs, NEW b \in Blogs, NEW n \in 1..MaxAttempt, NEW k \in Phases,
               broker[<<r, b, n, k>>] = "running", PhaseDies(<<r, b, n, k>>)
        PROVE  Remarks'
    <2>1. WorkersStand
      BY <1>46, PhaseDiesDoes, StandsFrom DEF InBlog, Places
    <2>2. restorers' = restorers
      BY <1>46, PhaseDiesDoes
    <2>3. MarksStand
      BY <1>46, PhaseDiesDoes, MarksFrom
    <2> QED BY <2>1, <2>2, <2>3, RemarksFrom
  <1>47. ASSUME NEW t \in restorers, RestorePasses(t)
        PROVE  Remarks'
    <2>1. copy[t.run][t.blog] # None /\ t.run \in Runs /\ t.blog \in Blogs
      BY RestHas DEF Threaded
    <2>2. worker' = worker
      BY <1>47, <2>1, RestorePassesDoes
    <2>3. \A o \in Runs, c \in Blogs : o # t.run \/ c # t.blog => job'[o][c].restore = job[o][c].restore
      BY <1>47, <2>1, RestorePassesDoes DEF Marking, JobsKeep, Restores
    <2>4. Goes(t, "finalize") /\ t.pc \in Rewriting /\ job'[t.run][t.blog].restore = "running"
      BY <1>47, <2>1, RestorePassesDoes DEF Marking
    <2> QED BY <2>2, <2>3, <2>4, ThreadRemarks
  <1>48. ASSUME NEW t \in restorers, RestoreFinalize(t)
        PROVE  Remarks'
    <2>1. copy[t.run][t.blog] # None /\ t.run \in Runs /\ t.blog \in Blogs
      BY RestHas DEF Threaded
    <2>2. worker' = worker
      BY <1>48, <2>1, RestoreFinalizeDoes
    <2>3. \A o \in Runs, c \in Blogs : o # t.run \/ c # t.blog => job'[o][c].restore = job[o][c].restore
      BY <1>48, <2>1, RestoreFinalizeDoes DEF Marking, JobsKeep, Restores
    <2>4. Goes(t, "verify") /\ t.pc \in Rewriting /\ job'[t.run][t.blog].restore = "running"
      BY <1>48, <2>1, RestoreFinalizeDoes DEF Marking
    <2> QED BY <2>2, <2>3, <2>4, ThreadRemarks
  <1>49. ASSUME NEW t \in restorers, RestoreVerify(t)
        PROVE  Remarks'
    <2>1. copy[t.run][t.blog] # None /\ t.run \in Runs /\ t.blog \in Blogs
      BY RestHas DEF Threaded
    <2>2. worker' = worker
      BY <1>49, <2>1, RestoreVerifyDoes
    <2>3. \A o \in Runs, c \in Blogs : o # t.run \/ c # t.blog => job'[o][c].restore = job[o][c].restore
      BY <1>49, <2>1, RestoreVerifyDoes DEF Marking, JobsKeep, Restores
    <2>4. Goes(t, "flag") /\ "flag" \notin Rewriting
      BY <1>49, RestoreVerifyDoes DEF Rewriting
    <2> QED BY <2>2, <2>3, <2>4, ThreadRemarks
  <1>50. ASSUME NEW t \in restorers, RestoreFlag(t)
        PROVE  Remarks'
    <2>1. copy[t.run][t.blog] # None /\ t.run \in Runs /\ t.blog \in Blogs
      BY RestHas DEF Threaded
    <2>2. worker' = worker
      BY <1>50, <2>1, RestoreFlagDoes
    <2>3. \A o \in Runs, c \in Blogs : o # t.run \/ c # t.blog => job'[o][c].restore = job[o][c].restore
      BY <1>50, <2>1, RestoreFlagDoes DEF Marking, JobsKeep, Restores
    <2>4. Goes(t, "import") /\ "import" \notin Rewriting
      BY <1>50, RestoreFlagDoes DEF Rewriting
    <2> QED BY <2>2, <2>3, <2>4, ThreadRemarks
  <1>51. ASSUME NEW t \in restorers, RestoreImport(t)
        PROVE  Remarks'
    <2>1. copy[t.run][t.blog] # None /\ t.run \in Runs /\ t.blog \in Blogs
      BY RestHas DEF Threaded
    <2>2. worker' = worker
      BY <1>51, <2>1, RestoreImportDoes
    <2>3. \A o \in Runs, c \in Blogs : o # t.run \/ c # t.blog => job'[o][c].restore = job[o][c].restore
      BY <1>51, <2>1, RestoreImportDoes DEF Marking, JobsKeep, Restores
    <2>4. Ends(t)
      BY <1>51, <2>1, RestoreImportDoes
    <2> QED BY <2>2, <2>3, <2>4, ThreadRemarks
  <1>52. ASSUME NEW t \in restorers, RestoreFails(t)
        PROVE  Remarks'
    <2>1. copy[t.run][t.blog] # None /\ t.run \in Runs /\ t.blog \in Blogs
      BY RestHas DEF Threaded
    <2>2. worker' = worker
      BY <1>52, <2>1, RestoreFailsDoes
    <2>3. \A o \in Runs, c \in Blogs : o # t.run \/ c # t.blog => job'[o][c].restore = job[o][c].restore
      BY <1>52, <2>1, RestoreFailsDoes DEF Marking, JobsKeep, Restores
    <2>4. Ends(t)
      BY <1>52, <2>1, RestoreFailsDoes
    <2> QED BY <2>2, <2>3, <2>4, ThreadRemarks
  <1>53. ASSUME NEW t \in restorers, RestoreDies(t)
        PROVE  Remarks'
    <2>1. copy[t.run][t.blog] # None /\ t.run \in Runs /\ t.blog \in Blogs
      BY RestHas DEF Threaded
    <2>2. worker' = worker
      BY <1>53, <2>1, RestoreDiesDoes
    <2>3. \A o \in Runs, c \in Blogs : o # t.run \/ c # t.blog => job'[o][c].restore = job[o][c].restore
      BY <1>53, <2>1, RestoreDiesDoes DEF Marking, JobsKeep, Restores
    <2>4. Ends(t)
      BY <1>53, <2>1, RestoreDiesDoes
    <2> QED BY <2>2, <2>3, <2>4, ThreadRemarks
  <1>54. CASE UNCHANGED vars
    <2>1. worker' = worker /\ job' = job /\ restorers' = restorers
      BY <1>54 DEF vars, database, threads
    <2> QED BY <2>1, StandsFrom, MarksFrom, RemarksFrom
  <1> QED BY <1>0, <1>1, <1>2, <1>3, <1>4, <1>5, <1>6, <1>7, <1>8, <1>9,
     <1>10, <1>11, <1>12, <1>13, <1>14, <1>15, <1>16, <1>17, <1>18, <1>19,
     <1>20, <1>21, <1>22, <1>23, <1>24, <1>25, <1>26, <1>27, <1>28, <1>29,
     <1>30, <1>31, <1>32, <1>33, <1>34, <1>35, <1>36, <1>37, <1>38, <1>39,
     <1>40, <1>41, <1>42, <1>43, <1>44, <1>45, <1>46, <1>47, <1>48, <1>49,
     <1>50, <1>51, <1>52, <1>53, <1>54 DEF Did

-----------------------------------------------------------------------------
(* Together they hold always.                                                *)
Inv ==
    /\ Shaped /\ Threaded /\ Remarks /\ Admitted /\ Over
    /\ AllFresh /\ AllPure /\ AllPoint /\ AllLanded

(* The first state has them.                                                 *)
LEMMA NothingIn ==
    /\ Nothing \in Progress /\ Nothing.at = 0 /\ ~ Nothing.taken /\ ~ Nothing.refreshed
    /\ NoJob \in Job /\ NoJob.status = "none" /\ NoJob.plan = None /\ NoJob.restore = "none"
    /\ NoJob.progress = Nothing
    /\ Pristine \in Content /\ \A r \in Runs : Pristine.step[r] = 0
  <1>1. Nothing \in Progress
    BY LastIn DEF Nothing, Progress
  <1>2. 1 \in 1..MaxAttempt /\ 0 \in 0..MaxVersion
    BY RunsAssumption
  <1>3. NoJob \in Job
    BY <1>1, <1>2 DEF NoJob, Job, Marks
  <1>4. Pristine \in Content
    BY LastIn DEF Pristine, Content
  <1> QED BY <1>1, <1>3, <1>4 DEF Nothing, NoJob, Pristine

(* The first states: no run begun, nothing landed.                           *)
LEMMA InitInv ==
    ASSUME Init PROVE Inv
  <1>1. /\ \A r \in Runs : run[r].status = "none" /\ run[r] \in Run
        /\ run \in [Runs -> Run]
    BY DEF Init, Run
  <1>2. /\ \A r \in Runs : worker[r] = Off
        /\ worker \in [Runs -> Worker]
    BY OffIn DEF Init
  <1>3. /\ \A r \in Runs, b \in Blogs : job[r][b] = NoJob /\ copy[r][b] = None
        /\ job \in [Runs -> [Blogs -> Job]] /\ copy \in [Runs -> [Blogs -> Content \cup {None}]]
    BY NothingIn DEF Init
  <1>4. /\ \A b \in Blogs : store[b] = Pristine /\ snapshot[b].content = Pristine
        /\ store \in [Blogs -> Content]
        /\ snapshot \in [Blogs -> [version : 1..MaxVersion, content : Content]]
    BY NothingIn, RunsAssumption DEF Init
  <1>5. /\ broker \in [Keys -> {"none", "running", "done", "refused", "dead"}]
        /\ \A r \in Runs, b \in Blogs, n \in 1..MaxAttempt, k \in Phases : broker[<<r, b, n, k>>] = "none"
    BY DEF Init, Keys
  <1>6. Off.pc = "off"
    BY DEF Off
  <1>7. Shaped
    <2>1. TypeOK
      BY <1>1, <1>2, <1>3, <1>4 DEF TypeOK, Init
    <2>2. \A r \in Runs : Placed(r)
      BY <1>2, <1>6 DEF Placed, InBlog
    <2> QED BY <1>5, <2>1, <2>2 DEF Shaped, Init
  <1>8. Threaded /\ Remarks /\ Admitted /\ Over /\ AllFresh
    <2>1. restorers = {} /\ request = None
      BY DEF Init
    <2>2. Threaded /\ Remarks
      BY <1>2, <1>6, <2>1 DEF Threaded, Remarks, Recalls, InBlog
    <2>3. Calm
      BY <1>3, NothingIn DEF Calm
    <2>4. Admitted /\ Over /\ AllFresh
      BY <1>1, <1>2, <1>3, <1>6, <2>1, <2>3
      DEF Admitted, OneActive, Aside, Beating, Locked, Over, AllFresh, Fresh, Active, Finished
    <2> QED BY <2>2, <2>4
  <1>9. AllPure /\ AllPoint
    <2>1. ASSUME NEW q \in Runs, NEW d \in Blogs PROVE PureAll(q, d)
      <3>1. /\ store[d].step[q] = 0 /\ snapshot[d].content.step[q] = 0
            /\ \A o \in Runs : copy[o][d] = None /\ job[o][d].plan = None /\ worker[o].pc = "off"
        BY <1>2, <1>3, <1>4, <1>6, NothingIn
      <3> QED BY <3>1 DEF PureAll, Pure, InBlog
    <2>2. ASSUME NEW q \in Runs, NEW d \in Blogs PROVE Point(q, d)
      <3>1. job[q][d].plan = None /\ copy[q][d] = None
        BY <1>3, NothingIn
      <3> QED BY <1>5, <3>1 DEF Point
    <2> QED BY <2>1, <2>2 DEF AllPure, AllPoint
  <1>10. AllLanded
    <2>1. ASSUME NEW q \in Runs, NEW d \in Blogs PROVE Landed(q, d)
      <3>1. job[q][d].progress = Nothing /\ job[q][d].status = "none" /\ store[d].step[q] = 0
        BY <1>3, <1>4, NothingIn
      <3>2. Sound(q, d, job[q][d].progress)
        BY <3>1, NothingIn DEF Sound
      <3> QED BY <1>2, <1>5, <1>6, <3>1, <3>2 DEF Landed, InBlog
    <2> QED BY <2>1 DEF AllLanded
  <1> QED BY <1>7, <1>8, <1>9, <1>10 DEF Inv

(* Every step keeps them.                                                    *)
LEMMA NextInv ==
    ASSUME Inv, [Next]_vars PROVE Inv'
  <1> USE DEF Inv
  <1>1. Did
    BY StepDid
  <1>2. Quiet \/ Loud
    BY <1>1, QuietOrLoud
  <1>3. AllFit
    BY <1>1, FitStep
  <1>4. Remembers /\ HistoryFits
    BY StepRemembers
  <1>5. ASSUME NEW q \in Runs, NEW d \in Blogs PROVE Grows(q, d)
    BY <1>2, <1>4, GrowsStep
  <1>6. Shaped'
    <2>1. ASSUME NEW q \in Runs PROVE Placed(q)'
      BY <1>1, PlacedStep
    <2>2. TypeOK'
      BY <1>3, <1>4 DEF AllFit, TypeOK, RunFits, JobFits, CopyFits, SnapshotFits, StoreFits, WorkerFits,
                  RestorersFits, RestoreThread, RestFits, HistoryFits
    <2> QED BY <1>3, <2>1, <2>2 DEF Shaped, AllFit, BrokerFits, RequestFits
  <1>7. Threaded' /\ Remarks'
    BY <1>1, <1>2, <1>5, <1>4, ThreadedStep, RemarksStep
  <1>8. Admitted' /\ Over'
    <2>1. Locked /\ OneActive /\ Beating
      BY DEF Admitted
    <2>2. OneActive' /\ Beating'
      BY <1>1, <2>1, OneActiveStep, BeatingStep
    <2>3. ASSUME CalmStays PROVE Aside' /\ Locked'
      BY <1>1, <2>3, AsideStep, LockedStep
    <2>4. ASSUME NEW r \in Runs, NEW b \in Blogs, RestoreBlog(r, b) PROVE Aside' /\ Locked'
      <3>1. /\ request' = None /\ run' = run /\ worker' = worker
            /\ \A o \in Runs : run[o].status \in Active => run[o].status = "running" /\ run[o].stale
        BY <2>4, RestoreBlogDoes
      <3> QED BY <2>1, <3>1 DEF Aside, Locked, Beating, Active, Doing
    <2>5. Aside' /\ Locked'
      BY <1>1, <1>4, <2>3, <2>4, CalmStep
    <2>6. Over'
      BY <1>1, OverStep
    <2> QED BY <2>2, <2>6, <2>5 DEF Admitted
  <1>9. AllFresh'
    <2>1. Locked
      BY DEF Admitted
    <2>2. ASSUME NEW q \in Runs PROVE Fresh(q)'
      BY <1>1, <2>1, FreshStep
    <2> QED BY <2>2 DEF AllFresh
  <1>10. AllPure'
    <2>1. ASSUME NEW q \in Runs, NEW d \in Blogs PROVE PureAll(q, d)'
      BY <1>2, <1>5, PureStep
    <2> QED BY <2>1 DEF AllPure
  <1>11. AllPoint'
    <2>1. ASSUME NEW q \in Runs, NEW d \in Blogs PROVE Point(q, d)'
      BY <1>2, <1>5, PointStep
    <2> QED BY <2>1 DEF AllPoint
  <1>12. AllLanded'
    <2>1. ASSUME NEW q \in Runs, NEW d \in Blogs PROVE Landed(q, d)'
      BY <1>2, <1>3, <1>5, LandedStep DEF AllFit
    <2> QED BY <2>1 DEF AllLanded
  <1> QED BY <1>6, <1>7, <1>8, <1>9, <1>10, <1>11, <1>12

(* The invariant holds in every state of every behaviour.                    *)
LEMMA AlwaysInv == Spec => []Inv
  <1>1. Init => Inv
    BY InitInv
  <1>2. Inv /\ [Next]_vars => Inv'
    BY NextInv
  <1> QED BY <1>1, <1>2, PTL DEF Spec

(* One active run has an environment to itself, no restore that was let in   *)
(* alone and runs is beside a live worker, and a run that is over has no job *)
(* left open: the admission checks of create, start, resume, retry, skip and *)
(* restore compose with every cancel, stale heartbeat, dead thread, restart  *)
(* and save of a worker's whole progress.                                    *)
THEOREM ReservationIsKept == Spec => []OneReservation
  <1>1. Inv => OneReservation
    <2> SUFFICES ASSUME Inv PROVE OneReservation
      OBVIOUS
    <2>1. TypeOK /\ OneActive /\ Aside /\ Over
      BY DEF Inv, Shaped, Admitted
    <2>2. \A r, o \in Runs : {run[r].status, run[o].status} \subseteq Active => r = o
      BY <2>1 DEF OneActive
    <2>3. Restoring \ beside # {} => ~ Calm
      <3> SUFFICES ASSUME NEW j \in Restoring \ beside PROVE ~ Calm
        OBVIOUS
      <3>1. PICK r \in Runs, b \in Blogs : j = <<r, b>> /\ job[r][b].restore = "running"
        BY DEF Restoring
      <3> QED BY <3>1 DEF Calm
    <2> QED BY <2>1, <2>2, <2>3 DEF OneReservation, Aside, Over
  <1> QED BY <1>1, AlwaysInv, PTL

(* The cursor of a job never runs ahead of its blog, and a done job has      *)
(* landed whole, for every number of phases, attempts, runs and blogs: the   *)
(* worker's copy of the progress, the row's and every key that answers done  *)
(* are all behind what has landed, on every blog no restore has passed over. *)
THEOREM CursorIsSound == Spec => []CursorIsLanded
  <1>1. Inv => CursorIsLanded
    <2> SUFFICES ASSUME Inv PROVE CursorIsLanded
      OBVIOUS
    <2>1. ASSUME NEW r \in Runs, NEW b \in Blogs \ undone
          PROVE  /\ store[b].step[r] >= job[r][b].progress.at
                 /\ job[r][b].status = "done" => store[b].step[r] = Last
      <3>1. Landed(r, b) /\ b \notin undone
        BY DEF Inv, AllLanded
      <3>2. store[b].step[r] \in 0..Last /\ job[r][b].progress.at \in 0..Last
        BY StepIn, JobHas DEF Inv
      <3> QED BY <3>1, <3>2, LastIn DEF Landed, Sound
    <2> QED BY <2>1 DEF CursorIsLanded
  <1> QED BY <1>1, AlwaysInv, PTL

(* What a restore puts back is from before the plan: no phase of a run has   *)
(* landed, been copied or been exported before its blog was kept, and the    *)
(* copy is the state the plan was made from.                                 *)
THEOREM PointIsBefore == Spec => []RestorePointIsBefore
  <1>1. Inv => RestorePointIsBefore
    <2> SUFFICES ASSUME Inv PROVE RestorePointIsBefore
      OBVIOUS
    <2>1. ASSUME NEW r \in Runs, NEW b \in Blogs
          PROVE  /\ store[b].step[r] > 0 => copy[r][b] # None
                 /\ copy[r][b] # None => copy[r][b].step[r] = 0 /\ copy[r][b] = job[r][b].plan
      <3>1. PureAll(r, b) /\ Point(r, b) /\ store[b] # None
        BY StepIn DEF Inv, AllPure, AllPoint
      <3> QED BY <3>1 DEF PureAll, Pure, Point
    <2> QED BY <2>1 DEF RestorePointIsBefore
  <1> QED BY <1>1, AlwaysInv, PTL

=============================================================================
