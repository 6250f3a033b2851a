# A verification of the ARB data warehouse and its logo admin

TLA+ models of the parts of this repository where several actors meet in one
database: the change sets the assistant proposes and a person applies, the logo
grid with its bulk batches and their undo, the versioned logo feed, the
assistant's turns with their leases and token books, the category draft and the
runs that publish it, spreadsheet imports, the PIM push, and the hourly load of
the warehouse. TLC checks the models on small instances; TLAPS proves what
matters most about the change sets, the logo feed, the assistant's turns and
books, the category runs, the spreadsheet import and the warehouse for every
instance.

## 1. The system

### Parts, state, operations

| Part | Code (under `src/`) | State | Operations |
|---|---|---|---|
| Change sets | `logo-admin/staging.py`, `snapshots.py`, `commands.py` | `logo.agent_change_set`, its items, `agent_action_journal` | stage, refresh, apply, discard, undo, expire |
| Mutations | `logo-admin/mutations.py`, `routes_api.py` | `logo.assignment`, settings, pricing, rules, bulk batches | save, copy, delete, bulk apply and undo |
| Logo feed | `logo-admin/routes_feed.py`, `sql/migrations/*feed*` | `row_version`, `assignment_tombstone`, one sequence, one advisory lock | stamp, tombstone, dependency bump, page |
| Assistant | `routes_agent.py`, `agent.py`, `agent_repository.py` | sessions with a lease, messages, a semaphore of the process | prepare, run, heartbeat, finish, release, cancel |
| Token books | `quotas.py` | rate window, daily and monthly book, reservations | reserve, mark, reconcile, retain, sweep |
| Category publishing | `categories_runs.py` | `catmgr.run`, `catmgr.run_job`, jobs at a WordPress broker | create, start, claim, phases, pause, cancel, retry, skip, restart, restore |
| Category drafts | `categories_draft.py`, `_mapping`, `_planner`, `_service`, `_api` | the draft tables | edits under one lock, a pure planner |
| Spreadsheet import | `spreadsheet.py`, `spreadsheet_mapping.py` | a job, chunked change sets | upload, confirm mapping, stage chunks, confirm |
| Maintenance | `maintenance.py` | - | expire sets, sweep reservations, prune |
| Warehouse load | `pull_fdm4.py`, `infra/load_dump.py`, `infra/run_sync.sh`, `infra/reap.sh`, `sql/woo_transform.sql` | `fdm4.*`, `woo.*`, `woo.sync_control` | pull, swap raw tables, transform, reap |
| PIM | `infra/pull_pim.py`, `push_pim.py`, `pim_push_worker.py` | `pim.*`, a queue in `logo.audit_log` | pull, diff, approve, push |
| Media | `infra/publish-*`, `generate-renditions.py` | object keys | publish |
| Sessions | `auth.py`, `authorization.py` | session registry | login, check, revoke |
| Pure parts | `design_resolver.py`, price rules, `mix_service.py` | - | resolve, price |

`PROJECT.json` lists every part with its status. All state that matters is in
one PostgreSQL database. The actors are request threads (each with a pooled
connection), the assistant's turns, the maintenance timer, imports and loads
that run as scripts, triggers, and consumers that poll feeds over HTTP.

### How they interact

* The assistant's tools never write: they *stage* items in a change set. A
  person who has seen the preview applies the set over HTTP. Editors, MCP tools
  and applies take the same advisory *scope* locks; imports and loads take none,
  so apply and undo also take table locks.
* Every write of `logo.assignment`, from whatever part, goes through the feed's
  triggers, which stamp a version under one lock held until commit.
* An apply or a bulk batch keeps a before image; an undo compares the present
  with what was left and puts the image back.
* A turn holds a lease on its session, a permit of its process, and for each
  provider call a reservation in the books of its user and of the month.
* The hourly load replaces the raw tables under previews and applies that read
  them, and stamps the rows that the products feed and the shop's gate go by.
* A spreadsheet becomes several change sets, which the review gate holds back
  until every chunk is staged.
* The category planner reads snapshots of the stores; a run carries its plan to
  WordPress and imports the stores again.

### What is hard

Decisions on state read in an earlier transaction (previews, replays, before
images); lock order and the writers outside the protocol; versions drawn in one
order and published in another; undo long after the fact; leases that expire
under a live turn; cancellation of a task whose thread is already committing; a
sweep racing the call it believes dead; crashes between two commits; sources
read table by table while they change; a long sequence of edits of a draft that
must still have a plan. The list
with its lines is under `hazards` in `PROJECT.json`.

## 2. Modules

| Module | Models | Checked by |
|---|---|---|
| `ChangeSet` | stage, refresh, apply, discard, undo, expiry, HTTP editors, imports, loads and bumps over rows with scope, row and table locks | `change_set_two`, `change_set_edits` |
| `ReviewedChange` | what a change set promises: nothing happens that was not reviewed, an undo is exact, closed sets stay closed | `change_set_two` (`KeepsPromise`) |
| `ChangeSetProofs` | theorems about `ChangeSet`: types, scope locks, the review of a set, previews, exact snapshots, the journal, the refusals of undo, hard deletes, saves of what was loaded, and that it implements `ReviewedChange` | TLAPS |
| `LogoFeed` | stamps, tombstones, bumps, version lock and row locks, and the walk of a consumer | `logo_feed_rows`, `logo_feed_edits` |
| `FeedProofs` | theorems about `LogoFeed`: the order of versions, that a cursor passes nothing, and that edits of shared values reach a consumer | TLAPS |
| `BulkBatch` | two writers of batches (editor and assistant), their before images and the undo, statement by statement | `bulk_batches` |
| `BulkProofs` | theorems about `BulkBatch`: an undo leaves later edits, and puts back what was there before, once | TLAPS |
| `LogoGrid` | every editor of the grid, every journaled batch and its undo, as functions on the grid of a store | `logo_grid` |
| `Quota` | rate window, daily and monthly books, reservations, sweep, midnight | `agent_turns` |
| `AgentTurn` | the turns of sessions over `Quota`: lease, heartbeat, replay, calls, finish, cleanup, crash | `agent_turns` |
| `TurnProofs` | theorems about `AgentTurn` and `Quota`: leases, answers, books, bills, permits | TLAPS |
| `CategoryRuns` | apply runs of the category editor: admission, the worker and its broker jobs, restore, recovery at start-up | `category_runs` |
| `CategoryRunsProofs` | theorems about `CategoryRuns`: the reservation of an environment, saved progress, the restore point | TLAPS |
| `CategoryPlan` | the draft tree, its overrides and mapping, imports of exports, and the planner | `category_plan` |
| `SpreadsheetJob` | uploads, confirmations, chunks, the review gate, the cleanup | `spreadsheet` |
| `SpreadsheetProofs` | theorems about `SpreadsheetJob`: the caps, and the review of a sheet as a whole | TLAPS |
| `PimPush` | pull, presence, diff, approval, automatic and manual push | `pim_push` |
| `PimProofs` | a theorem about `PimPush`: no product is deleted that a whole source did not deny | TLAPS |
| `Warehouse` | the run row, the dump, the raw tables, the transform, the reaper, the products feed and the shop's gate | `warehouse` |
| `WarehouseProofs` | theorems about `Warehouse`: readers, outcomes of runs, what a success certifies | TLAPS |

Each `MC...` module gives the constants of one component small values. `map` in
`PROJECT.json` names the lines each definition stands for. An operator whose
comment begins with `fault:` is no part of the model: it is a plausible bug that
a mutant puts in the place of a definition.

How the modules compose: `AgentTurn` extends `Quota` and adds to its books; `ChangeSet` refines
`ReviewedChange`; `LogoGrid` takes each transaction as one step because
`ChangeSet` and `BulkBatch` open them up; `CategoryPlan` takes a run as one
step (or one that stopped after parking terms) because `CategoryRuns` opens it
up; `SpreadsheetJob` takes an apply as one step for the same reason.

### ChangeSet

A row has a content (`val`), an `updated_at` (`stamp`) and the version a trigger
gives it (`ver`). A client is a connection; `pc` says which statement of its
handler comes next, `work` holds its uncommitted rows, `held` its scope locks,
`tabs` its table locks. Statements are READ COMMITTED; an action is one statement
or several nothing can come between. `stage_write` is four transactions (read,
preview that is rolled back, store, or again up to `MaxTries` times) and so four
places; apply and undo are one transaction each: row of the set, scopes, tables,
snapshot, dispatch, comparison, journal and status.

Abstractions. Scopes have two levels, a row and its store: the row, color and
style scopes of the code all lie inside the store scope that every assignment
command locks too. `lock_scopes` is one step, because its tokens are taken
sorted. The snapshot over several scopes is one step, under the locks. The hash
is the triple it hashes (revision, commands, diff). The review gate is open:
the gate of a set that belongs to a spreadsheet is in `SpreadsheetJob`, as is
`stage_write_batch`. Category drafts inside a set and `prune_agent_history` are
not modelled; the check for a changed scope contract cannot fire, because the
code does not change while it runs. `set_logo_name`'s trigger is the separate
action `Bump`.

Two kinds of command remove a row. `delete` removes a row of `logo.assignment`:
the tools in `HARD_DELETE_TOOLS` and `remove_design` with `hard=true`, which
`_command_is_destructive` flags. `clear` stands for the staged tools that DELETE
a row of another table and are not flagged: a pricing tier
(`mutations.py:1198`), a color's prices (1451, 1456), a logo's name (1565), and
stock, sync, mix and approval rows (1623, 1663, 1716, 2161, 2245;
`mix_service.py:223`). `Destructive` follows the flag, so a `clear` is applied
without an acknowledgement, and nothing is claimed of the rows it removes.

### LogoFeed

Two transactions run short scripts of statements. `SaveStamp`/`SaveRow` are the
two halves of `INSERT ... ON CONFLICT` (the trigger draws the version before the
row is locked), `LockRow`/`WriteRow` those of UPDATE and DELETE, `EditShared` and
the bumps that follow it the dependency triggers. `Poll` is one page of
`/feed/logos`, a REPEATABLE READ transaction. What a row serves is its own value
or the shared one: cost, image and name follow the same rule.

### BulkBatch

A batch reads the before image of its rows, writes them, and keeps both in
`bulk_batch_row`. The editor's batches read FOR UPDATE; `bulk_apply_execute`
does not. Both undo paths compare the present row with what the batch left; one
row version is drawn per write (the commit order of versions is `LogoFeed`'s
subject). The assistant's apply and undo of a whole-store change are one step,
because of the table locks `ChangeSet` models. Rows another transaction inserts
after a replacing batch has listed its rows are abstracted per key.

### LogoGrid

A slot is a style, a garment color, an option row and a position; position 1 is
the anchor, the others its companions. A batch works on a copy of the grid and a
journal (`Opened`, `JournalBefore`, `JournalAfter`, `Unjournal`, `Close`) with the
operators of the single edits (`Upsert` with its cascade, `Deactivated`,
`Deleted`); its outcome becomes the grid, its journal is appended. The
batch editors are paste, fill of gaps, copy of a style, reorder, swap, bulk apply
and the image of a design; the others (save, removal of a row or a color, hiding
and showing styles, apply to colors, the plain copy of a style, removal of a
design, clearing an image) keep no journal, and neither do the imports. `Undo`
decides row by row, as the code does.

`ImportCsv` and `ImportSheets` fold over the rows of a file: one that fails a
check, or whose slot an earlier row took, is left out. The two differ as the
code does: a CSV row must be of something the store sells (or replace a row) and
may be inactive; a row of the old sheets always comes active, and leaves a row
that people have written alone when the import preserves those. `loaded` is what
the row's `updated_by` says about that. `MirrorImages` replaces image URLs of
the old site by copies; downloads that fail leave theirs. None of the three
takes a scope lock: here each is one step, the races are in `ChangeSet`.

Abstractions. A logo is a design and an image URL; codes, schemes, locations,
costs and names are left out. What a design resolves to is given (`HasArt`), and
a color's classes too (`Class`). Locked styles and the copy of a whole store are
not modelled. The ghosts `wrote` and `settled` only serve the properties.

### AgentTurn and Quota

A turn reads its replay, takes the lease, calls the provider up to `MaxCalls`
times, stores its answer and cleans up. Every database transaction may fail
before it commits, and may commit while its acknowledgement is lost; a request
may be cancelled in each of its awaits; the process may crash. A heartbeat may
be late (`Expire`), another turn may take the lease, midnight may pass, and the
sweeper takes any subset of the reserved rows, which stands for the clocks it
compares. Input and output tokens are one number; the provider bills at most
what was reserved, because the estimate counts a token per byte and the output
limit. The provider's client sends a request at most twice (`agent.py`,
`max_retries=1`): `AttemptLost` is an attempt that was served and billed while
the client gave up waiting for it, `Create` the attempt that was answered or
failed for good, and only the usage of that one is known to the turn. A
cancelled turn and a failed one differ in the word stored only, and are one
outcome here. The tool calls of a turn are the stages of `ChangeSet`.

### CategoryRuns

A run has a job per blog and at most one thread. `worker[r].pc` is the next
statement of `process_run`: claim, version fence, live export, copy of the state
before, then for each phase a look-up of its keys, the POST and the wait, and in
the end verification, re-import and the status of the job; after each phase
`save` writes the progress from which a later worker goes on. A broker job is
keyed by run, blog, attempt and phase, and lands, is refused or dies on its own
time, also after the worker has stopped waiting. The content of a blog is how far
each plan has landed on it, how many edits others have made, and whether it is
half restored.

A request that calls WordPress while it holds the environment lock (start,
resume, retry) is two steps, and so are a cancel, which takes no lock, and an
import, which checks for runs first. The thread a request starts is started
with its commit. Restore threads outlive the row that says `done`, as in the
code: the flag of the run's job, the import and a last unconditional save follow.

`progress.restore` lives in the same JSON as the cursor, and there are three
writers of it. `_save_progress` replaces the whole JSON by the worker's copy,
taken at the claim, and so puts the mark back to what it was then
(`worker[r].mark`). `_save_restore_progress` sets the mark from the restore
thread's own copy, at every pass. `restore_blog` and `recover_runs` set it under
the environment lock. As long as one of them writes at a time the mark can be
trusted. Two races end that, and the model has both: `cancel` takes no lock, so
a worker may go on under a cancelled run, and a restore is then admitted beside
it; and a second restore of a job may be requested once the first has said
`done` but not ended. The history `beside` names the jobs whose restore was let
in so, and `undone` the blogs that a pass of a restore has reached.

Abstractions. A phase lands whole or is refused whole (the rows inside a page,
redirects and the UNSPSC mapping are data), `Pages` may be 0, and the passes of a
restore before its last are one. The WordPress side is what `tests/fake_wp.py`
and the callers say of it: keys that are done are replayed, one phase per blog at
a time, fences on what the plan expects. Two timing assumptions: a live worker
beats within `STALE_JOB_MINUTES` (it does so at each poll), and a request ends
within that time. Worker tokens are left out: within one process the token of a
live worker is the one in the row. `_restore_threads` holds the newest thread of
a job; where two live, the model asks whether any does. A plan whose snapshot is
older than fingerprints (`fingerprint_unchecked`, `categories_runs.py:1086`)
skips the comparison with the live export: plans here have a fingerprint. The
drift audit is not modelled.

### CategoryPlan

`node`, `extra`, `exclude`, `slugMap`, `rules`, `assigned` and `acked` are the
draft tables; `snapshot` is the warehouse's copy of a store, `store` is
WordPress, `export` an export fetched and not yet stored. Each request to the
draft holds `lock_draft` and is one action. `PlanOf` is `build_blog_plan`:
dispositions, the survivor of each category, creates, renames through parked
slugs, parents, deletes and memberships; `Clear` says that no blocker stops a run; `Converged`
is the store such a plan leaves.

Abstractions. Names, descriptions, sort orders, collections, curated lists,
paging and the impact preview are left out; a rule matches every product; a
product is its own SKU. A node seeded from a snapshot takes its term's id, and
WordPress gives a new term the id after its highest one. A rename override of a
store is not modelled.

### SpreadsheetJob

A job is a row, a private file and one change set per chunk. `up[u]` and
`conf[c]` are where an upload and a confirmation are: every transaction of
`_reserve_upload`, `finalize_upload`, `_ensure_linked_change_set`,
`_ensure_chunk_links`, `stage_write_batch` and the last update of the job is a
step, every file operation too. The cleanup is one transaction with two visible
moments (what it reads and what it deletes) and the removal of files after it.
An upload in `Fragile` may fail to be read again at any confirmation (damaged,
or refused by a mapping that changed). Parsing and the mapping proposed by the
provider either succeed or fail.

### PimPush

One product with one variant, and `OtherRows` rows of the mirror beside them
that count when a full pull retires what it did not see. `pim` is Sales Layer,
`mirror` the tables `pim.api_*`, `dirty` what has changed after the mirror's
watermark, `world` the presence set of the stores and FDM4, each of which may be short, stale or gone. `Diff` is
`run_diff`; `rows` are the rows of all change sets that are not finished;
`push` and `pull` are the processes. Every call to the PIM may fail or stay
unanswered, and a process may be killed between any two calls.

Statements are READ COMMITTED and so actions of their own where something can
come between them. The diff judges whether the sources are whole (`DiffRead`),
then reads what they list (`DiffList`), then writes its rows (`DiffWrite`). The
check before a removal judges the source (`Check`), then looks the product up
(`Look`). Whether FDM4 is whole is asked once in the life of a process
(`_fdm4_master_ok`, here `push.master`), also on behalf of a row of another
product (`JudgeMaster`), and the answer is used for every later row. An
automatic run approves what it proposed except what is above a brake: too many
visibility flips, removals or orphans (`Braked`, with any number of rows of
other products in the set); those wait for a person (`HandApply`).

Abstractions. `style_fill`, `color_fill`, `variant_remove`, images, runs scoped
to some styles, and the page a parent id comes from are left out. The queue of
requests is reduced to the lock the worker takes; its own hazards are listed
without a property. Every push is a process of its own: the worker of the app
starts one for each request.

### Warehouse

`control` is `woo.sync_control`, `script` and `child` the processes of a run,
`batch` the rows the child works on: what it has pulled, then what it swaps in,
then what the transform wants. `staged` are rows the open transform has written
and locked. `consumer` reads `/feed/products`; `shop` is WordPress with its gate
(outside the repository, as `docs` and `run_sync.sh` use it). Time is not
counted: a run may be past its cap (`aged`), and the load flag may be old
(`stale`).

Abstractions. Each FDM4 table yields one row of the projection, so a torn dump
yields a torn projection. The price, mix and PIM overlays of the transform, the
assertion of row counts, the retention of dumps and control rows, the removal of
tombstones after 30 days and `feed-ping.sh` are not modelled. The transform is
alone between runs, so no gap of the sequence is ever published late.

## 3. What the runs show

| Run | Instance | Shows |
|---|---|---|
| `change_set_two` | 2 connections, 2 sets over 2 rows, an import | a stored preview is always of the items stored with it (`PreviewIsOfItems`); what apply and undo read of the set stands until they commit (`ReviewStands`); nobody writes under their snapshot (`SnapshotIsCurrent`); the journal is the change that was made and an undo puts it back (`JournalIsTheChange`); every step refines `ReviewedChange` (`KeepsPromise`) |
| `change_set_edits` | hard deletes and whole-store writes beside editors, version bumps | scopes exclude overlapping writers (`CooperatingWritersExclude`); an undo is refused only if a row was really touched (`RefusedOnlyIfTouched`); a save replaces what its browser loaded (`SaveReplacesWhatWasLoaded`); no assignment row is removed without acknowledgement (`HardDeletesAcknowledged`) |
| `logo_feed_rows` | 2 writers, 2 keys, page size 1, 3 versions | a cursor passes nothing, and a key is never both row and tombstone (`NothingSkipped`); versions are published in order (`PublishedInOrder`); a consumer that caught up has what is served (`CaughtUpSeesEdits`) |
| `logo_feed_edits` | with inserts that borrow the shared value | *violated*: an open insert escapes the bump of an edit |
| `bulk_batches` | 2 rows, 2 batches, editor and assistant | an undo leaves later edits (`UndoLeavesEdits`) and restores the state before the batch, once (`RestoresPreBatch`) |
| `logo_grid` | 2 styles, 2 colors, 2 options, 2 positions; any two of the operations, and the undo of each | no companion shows without its anchor, except where the code's own undo leaves it (`AnchorsHold`); a batch undone at once leaves no trace (`UndoneAtOnce`); an undo touches only rows the batch wrote last (`OnlyItsOwn`); the order a person dragged wins (`ReorderWins`) |
| `agent_turns` | 2 turns of one session, 2 days, caps of 1 | books balance with the reservations and stay within the caps (`BooksBalance`), the last attempt of every call is paid, and a call that was sent is never given back as unsent (`ChargesCoverBills`), permits are given back once (`PermitsBalance`), a turn answers alone and once (`AnsweredAlone`), a lease is only taken over after it expired (`LeaseIsKept`) |
| `category_runs` | a run over 2 blogs, a run over 1 of them, 2 attempts, 2 restores, 3 interventions or failures | one active run per environment, no restore that was let in alone beside a live one, no open job in a finished run (`OneReservation`); saved progress never runs ahead of a blog no restore has reached (`CursorIsLanded`); the state before a plan is kept before anything of it lands, and is free of it (`RestorePointIsBefore`); a worker leaves every job (`JobSettles`) |
| `category_plan` | 2 stores, 4 terms, 3 slugs, 1 product, 1 extra; any 3 edits | a run carries the tree and loses no product (`CarriesTheTree`); a category keeps its term (`KeepsItsTerm`); a new slug leaves no live slug without a disposition (`ReslugStaysMapped`); what has converged plans to nothing, and no edits leave an unsound draft (`ReplansToNothing`) |
| `spreadsheet` | 2 uploads of one user, of 2 chunks and of 1; 2 tabs | caps on uploads hold, and what can be confirmed has its file (`WithinCaps`); no chunk of a steady sheet is applied before every chunk is staged (`ReviewedWhole`); private files are removed in the end (`UploadsAreRemoved`) |
| `pim_push` | 1 product with its variant, 1 outside change, 1 fault, caps of 1 with up to 1 row of other products | a product is deleted only where the source the row names was whole and then or later did not list it, whatever was proposed or approved before (`SparedStays`); the PIM comes to carry what the stores carry, or to be empty, unless a brake leaves the rows for a person (`PimSettles`) |
| `warehouse` | 2 run slots used again and again, 2 tables, 2 edits, 1 fault | a run seen failed never becomes a success (`OutcomeStands`); a certified projection is of this run's FDM4 (`CertifiedIsFresh`); neither the feed's consumer nor the shop's gate steps over a change (`ReadersMissNothing`); both come to show FDM4 (`ReadersConverge`) |

Every property of a passing run has a mutant in `PROJECT.json`: a plausible bug
in one definition, with which TLC finds the property violated. A type invariant
is a conjunct of a property that states more, so it has no run of its own.

### Bounds

`MaxClock` (committed writes), `MaxRev`, `MaxItems`, `MaxTries`, `MaxVersion`,
`MaxTurns`, `MaxCalls`, `MaxRequests`, `Days`, `Crashes`, `MaxAttempt`,
`MaxEdits`, `MaxMoves`, `MaxSteps`, `MaxChanges`, `MaxFaults`, `MaxBeside`,
`RestoreIds`, `Tabs`, `Fragile`. They only stop counters. (`MaxFlips`,
`MaxRemovals` and `MaxOrphans` are the code's own caps, made small.)

Two rows of one store are enough for overlapping, nested and disjoint scopes (a
row against its store, a row against the other); two values are enough for a
change and its reversal; two connections are enough for every race of two
transactions, and the sets, editors, imports and loads all compete for them.
Three versions with pages of one row give walks of several pages with writes
between them. Caps of one token with requests of one and of three make every cap
bind. In `CategoryRuns`, `MaxMoves` counts what people and failures do to a
behaviour: starts, resumes, retries, skips, restores, pauses, cancels, imports,
edits, lost answers, dead threads and restarts, three of them in any order; what
follows from them, giving up on a phase included, is free. The plans of the run
have no membership pages; its first run stops at a failure, its second does not.
The safety properties also held in a longer exploration with one page of
memberships and both settings for the first run (1.8 million states).

`MaxSteps = 2` in `LogoGrid` lets any operation follow any other from either
start grid, and the undo of both come later in either order. Three edits in
`CategoryPlan` are, for instance, a re-slug, a mapping of the old slug and a
change in WordPress, with an apply of each store between any two. A user cap of
one makes two uploads of a user compete (the cap of everybody is counted under
the same locks and cannot be met by two uploads); the tabs say who can confirm
what. In `PimPush` one change of the world and one fault fall
anywhere in an unbounded sequence of runs. In `Warehouse` two edits of FDM4 are
enough for a dump that never was a state of it, and for a row that goes and comes
back; run slots are used again without limit.

Deadlock is checked in the change-set, feed, batch, spreadsheet, PIM and
warehouse runs: someone can always take a step. PostgreSQL breaks deadlocks of
locks by aborting one transaction, and aborts are actions. The runs of
`AgentTurn`, `CategoryRuns`, `CategoryPlan` and `LogoGrid` end, since requests,
edits and interventions are bounded, so deadlock is not checked there.

### Fairness and liveness

Weak fairness stands for a thread or a process that keeps running, or a timer
that keeps firing; strong fairness for something that others may interrupt, only
not for ever.

* `CategoryRuns`: WF of each worker's own step: a thread that is not dead keeps
  running (it sleeps between polls and waits for nothing without a limit).
  Nothing is assumed of WordPress, of operators or of restarts, and the failures
  a step can meet are not part of the fair action. `JobSettles`: whatever
  WordPress does, the worker leaves the job.
* `SpreadsheetJob`: WF of the cleanup's transaction (a timer fires it every
  hour) and of the hour that passes; SF of its file removal, which a restart may
  cut short, not every time. Nothing is assumed of uploads and confirmations:
  whatever is left, `UploadsAreRemoved` by the cleanup.
* `PimPush`: WF of the hourly automatic run and of the steps of what has begun;
  SF of the weekly full pull, which has to wait for a lock. `PimSettles` speaks
  of behaviours in which the sources come to rest.
* `Warehouse`: WF of the steps of a run that is not past its cap, of cron's next
  run, the reaper, the consumer's poll, the gate and the reconcile. A run past
  its cap may hang for ever, until it is reaped. `ReadersConverge`.

Elsewhere no fairness is assumed: a person need not apply a set, a consumer of
the logo feed need not poll, and nothing in the code makes them.

### Disagreement found

`logo_feed_edits`, listed under `findings`: an assignment inserted by a
transaction that is still open escapes the dependency bump of an edit, although
the feed promises that a caught-up consumer sees the edit.

### Observed, without a run of their own

The models reach these states, or had to leave them out of a property's premise.
Comments of the code speak against several of them.

* Feed. `INSERT ... ON CONFLICT` draws its version, under the version lock,
  before it locks the row; UPDATE and DELETE lock the row first. Two writers of
  one row can so wait for each other, and PostgreSQL aborts one. The migration
  on the commit order says that every writer takes the lock in the same order
  and "so it adds no deadlock risk".
* Batches. `bulk_apply_undo` compares versions: a dependency bump between apply
  and undo makes it skip a row nobody edited. `bulk_apply_execute` reads its
  before image without a row lock: with a writer outside the scope locks (an
  import) between that read and the write, an undo restores a state older than
  the one the batch replaced. `bulk_batches` leaves that writer out.
* `_restore_design_image` knows an image by its URL only: when batch 2 has set
  the same URL again, undoing batch 1 deletes it.
* Grid. The undo of a batch decides row by row, so it can leave an active
  companion without an active anchor when only one of them was edited since.
  `set_design_image` does not look at locked styles as `design_swap` does; a
  fill with explicit colors is not checked against the plan it came from; a row
  that a replacing batch deleted, whose slot was filled and emptied since, is
  inserted again by the undo.
* Turns. A replay is read before the lease is taken; a turn that ends in between
  is missing from it.
* Runs. `cancel` reads a queued run, the worker claims its first job, the cancel
  commits: the run is cancelled while its worker goes on
  (`categories_runs.py:802` says a cancelled run "never mutates a store again
  until an operator transitions it explicitly"), and another run may start
  beside it. A restore of a job of a completed run flags the job, and the run
  stays `completed` (`:1764`, "the run's own outcome must stop calling it
  migrated"). A second restore of the same job, requested while the first
  imports its export, loses its `running` mark to the first one's last save: a
  queued run may then go on beside it. After the cancel race the worker's next
  save erases the mark of a restore that was admitted meanwhile; a run can then
  be created, and the restore's next save makes the mark `running` beside it.
  `OneReservation` leaves out the restores let in that way (`beside`) and
  nothing else. A skip between the failure of a job and
  the failure of its run is overwritten: the run is `failed` with a pending job
  and no failed one, until it is resumed.
* Plan. A row that sends a live slug elsewhere while a node of that very slug
  stays makes every later plan of a converged store non-empty
  (`ReplansToNothing` is about drafts that do not contradict themselves so).
  `_slug_owner` does not look at `previous_slug`. Seeding a draft while the
  broker has terms parked makes nodes of the parked slugs. Re-slugging an extra
  of one store can leave the same slug of another store without a disposition;
  an extra with two live terms keeps the one with the lowest id.
* Spreadsheet. The comment at `maintenance.py:15` promises that a sheet is
  reviewable only once every chunk has staged. The attempt to prove it found two
  ways around it, and `ReviewedWhole` leaves both out (`Steady`). First, an
  import that stopped between chunks and whose file cannot be read at the next
  confirmation is rejected with only its first set discarded
  (`_mark_job_rejected`, `spreadsheet.py:1056`); the review gate opens for the
  chunks staged before and for those another tab stages after. Second, a sheet
  whose first chunk has no row to stage: the cleanup retires the sets it has
  seen, between the link of the first set and `_ensure_chunk_links`
  (`spreadsheet.py:954`); the later sets are then made and staged under a job
  the cleanup deletes, and each can be applied before the next is staged. Two
  chunks are too few to show either one in full; the proof is about every number
  of chunks.
* Hard deletes. The tools listed in section 2 remove rows without the
  acknowledgement that a removal of assignments needs.
* Turns. When the client gives up on an attempt and sends the request again, both
  may be billed; the reservation then covers either of the two, and the usage of
  the second replaces it.
* PIM. FDM4 is judged whole once in a process and may be cut short by a load
  while the process goes on: a product that the short table does not list is
  deleted, although no whole FDM4 lacked it. The comment at `push_pim.py:1082`
  speaks of "a missing, stale or truncated source" at this very check.
  `SparedStays` therefore counts a source as having denied a product when it was
  whole at some moment of the run and did not list the product then or later.
* PIM. A killed automatic run leaves removals approved that the next one may
  apply beside its own (against the comment at `push_pim.py:1136`); each is
  checked again before it is sent, which is what `SparedStays` shows. A worker
  of the queue killed after its `started` row leaves its request `running` for
  ever, and a request without an id never matches its outcome.

## 4. What is proved

Of the change sets every property that a run checks, the refinement included,
is proved, for every set of rows, stores, tables, commands, connections and
bounds:

* `TypeCorrect`: `Spec => []TypeOK`, and `AlwaysTyped`, the same with the shape
  of each open transaction (`Shape`: what a client at some place of its handler
  holds). Typing alone is not inductive: that `apply` hashes a sequence of
  commands needs that a client at `dispatch` has a set with items.
* `WritersExclude`: `Spec => []CooperatingWritersExclude`. The inductive
  invariant is `LocksKept`: a token has one holder (`OneHolder`), and a client
  beyond the lock step holds the lock set of its scopes (`Locked`). The argument
  is the lemma `CommonRowCommonLock`: two scopes with a common row have a common
  token in their lock sets, because of the ancestors.
* `ReviewAlwaysStands`: `Spec => []ReviewStands`. The invariant is `Reviewing`:
  a set's row lock has one holder (`OneReviewer`), and what the holder copied of
  the set still is the set (`Reviewed`).
* `PreviewsMatch`: `Spec => []PreviewIsOfItems`. A preview is
  computed outside the row lock and stored later, so the property alone is not
  inductive. `Previewed` adds `Based`: what a client computed is the preview of
  the items of its set whenever the set still has the revision it read. Only
  staging changes the items, and it raises the revision; the fence at
  `Persist` compares it.
* `SnapshotsStayCurrent`: `Spec => []SnapshotIsCurrent`. The
  invariant `Steady` says that the table locks of two clients are disjoint and
  no client has unsaved rows in a table another has locked (`Apart`), that a
  client past its snapshot holds the lock of each table of its scopes and its
  snapshot is the present one (`Guarded`), and that the journal of an applied
  set covers just the rows of its scopes (`JournalScoped`), without which undo
  would lock fewer tables than it restores.
* `JournalIsExact`: `Spec => JournalIsTheChange`. From
  `Steady`, with `AllScoped` (an open transaction has written only rows of its
  own scopes, and only while it dispatches) and `Blanks` (a row that is not
  there carries no stamp, in the before images too: else an undo would not give
  back the state it compares). The lemma `WrittenInScope` relates what each
  command writes to the scopes it locks.
* `UndoRefusalsAreReal`: `Spec => []RefusedOnlyIfTouched`. The
  invariant `AllUntouched`: the rows of an applied set nobody wrote since still
  equal its after image, up to stamps.
* `ImplementsReviewedChange`: `Spec => KeepsPromise`. Needed
  beside the above is `AllListed`: the plan of an applied set is the difference
  of the two images of its journal. Each action then maps to a step of
  `ReviewedChange` on one set, or to a stutter.
* `DeletesAreAcknowledged`: `Spec => HardDeletesAcknowledged`.
  `AllFlagged` says that a set with a destructive item carries the flag, which
  staging raises and nothing lowers; `AllAcknowledged`, that a client past the
  check of an apply with such commands has the acknowledgement, and that only
  destructive commands have left rows of `logo.assignment` deleted. Rows of other
  tables are outside the theorem, because the code asks for nothing there.
* `SavesAreOfWhatWasLoaded`: `Spec => []SaveReplacesWhatWasLoaded`.
  The hard part is that an undo restores old stamps, so a stamp is not unique in
  time. `Told` says that it still tells contents apart: among the rows anyone
  knows (the table, the before images, what browsers have loaded), equal stamps
  mean equal contents. `Exclusive` keeps two transactions from writing one row.

Of the bulk batches, for any rows, values, batches, connections and plans
(`BulkProofs`):

* `EditsAreLeft`: `Spec => UndoLeavesEdits`, whoever else writes the rows. The
  undo compares the present row with what the batch left, so what has to be shown
  is that the two are equal only when nobody wrote in between (`LastWrote`). That
  rests on versions: no version is drawn for two batches, nor again by an undo
  (`DrawnOnce`), and no row carries one from the future (`Versions`). `JournalOf`
  says how far the journal of a batch in progress has come, and `Apart` that two
  transactions hold no common row.
* `PutBackOnce`: `Outside = {} => (Spec => RestoresPreBatch)`. The hypothesis says
  that every writer takes the scope locks, as in `bulk_batches`; section 3 says
  what happens otherwise. `Images` and `ImageKept` tie the before image to the row
  the batch replaced. For "once" there are two undo paths that know nothing of
  each other. When the assistant's came first, the editor's compares versions,
  and those never come back (`NotYet`, `NoReturn`). When the editor's came first,
  the assistant's compares contents, which an undo does restore: `Dead` says that
  the stamp of what was undone is then nowhere left, neither in a row nor in
  another batch's before image (`Known`, `Untold`), so it cannot match. `Cards`
  ties the state of the assistant's change set to that of its batch.

Of the logo feed, for every set of keys, writers and scripts and every page size
(`FeedProofs`):

* `VersionsAppearInOrder`: `Spec => PublishedInOrder`. The invariant is `Draws`:
  only the holder of the advisory lock has written anything, and each number it
  drew is `Ahead`: above whatever is published and above the cursor. What a
  commit makes of a key is either one of these numbers or what was served before
  (`CommitServes`).
* `CursorPassesNothing`: `Spec => []NothingSkipped`. It needs `Views` (a
  transaction never sees a key as row and tombstone at once, which is why the
  insert trigger clears the tombstone before the row is looked up) and, for a
  poll, that a page is the oldest part of what is wanted (`PageIsOldest`), all of
  it when it is not full (`ShortPageIsAll`).
* `EditsAreSeen`: `BorrowersApart => (Spec => []CaughtUpSeesEdits)`. The hypothesis
  says that no script makes a row borrow a shared value that a script edits: the
  scripts of `logo_feed_rows` are such, those of `logo_feed_edits` are not, and
  there TLC finds the consumer that misses an edit. So that window is the only
  one. `EditInv` says of a writer that it is `Careful`: the rows that serve what
  it has edited are written or still to be bumped (`Bumps`), it begins no new
  borrowing (`BorrowsAsBefore`), and it leaves a tombstone where it takes a row
  away (`Leaves`). A commit then changes what is served only at versions above
  the cursor (`CommitKeepsValue`), so that copies stay `Exact`.

Of the assistant's turns and books every property that `agent_turns` checks is
proved, for every number of turns, sessions, users, days, requests and tokens
(`TurnProofs`):

* `LeasesKept`: `Spec => LeaseIsKept`. From `Shaped` (types, and what a turn at
  some place of its handler holds) and `Kept` (a lease names a turn of its own
  session), by what each step does to a lease (`LeaseSteps`).
* `TurnsAnswerAlone`: `Spec => AnsweredAlone`. `AllAlone` says that while a turn
  still holds its lease nothing was answered since it took it; a turn whose
  lease was taken over finds that out in the transaction that stores its answer.
* `BooksAlwaysBalance`: `Spec => []BooksBalance`. The books are sums over the
  reservations, so the proof needs a theory of finite sums: that `SumFunction`
  takes out one element (`SumTakesOut`) and splits over a partition
  (`SumSplits`). They rest on the existence of the fold, shown by the least
  counterexample over the size of the domain (`LeastNumber`, from `WFMin`).
  `Unused` strengthens the invariant: a reservation that is not reconciled has
  used nothing, so what a sweep gives back is what was reserved.
* `BillsAlwaysCharged`: `Spec => []ChargesCoverBills`. `Billing` says that a
  reservation is marked before the provider can bill either attempt (`Unbilled`),
  that what is charged covers the last attempt, and the lost one too until the
  usage is known (`Covered`), and that a turn with an open request has the row it
  believes it has (`Requested`), which only the sweep can settle under it. That
  both attempts together are charged is not claimed: the code cannot know.
* `PermitsAlwaysBalance`: `Spec => []PermitsBalance`. `Permitted`: the requests
  at work are a finite set, and with the free permits they make `MaxTurns`.

Of the category runs, for every number of runs, blogs, phases and attempts
(`CategoryRunsProofs`). The three invariants have one inductive invariant, `Inv`,
and nothing in it is about an instance:

* `ReservationIsKept`: `Spec => []OneReservation`. `Placed` says what a worker at
  each place of `process_run` has in hand. `OneActive`, `Aside` and `Beating` are
  the reservation with the reasons it lasts: two runs are never active together,
  a restore that runs leaves only a stale run without a thread beside it, and a
  run whose thread is alive is not stale. All three speak of marks, and a mark
  can be overwritten, so `Remarks` says who writes them: the thread of a restore
  that was let in alone is the only one of its job and finds the mark it set
  (`Writes`), and no worker brings a `running` mark back (`Recalls`). Its two
  halves are the lemmas `MarksStand` and `WorkersStand` about each step.
  `Locked` carries the checks of a
  request that has the environment lock over its call of WordPress to its
  commit. `Over`: a finished run has no open job.
* `PointIsBefore`: `Spec => []RestorePointIsBefore`. `Pure`: no content anywhere
  (a blog, the warehouse, a plan, a copy, what a worker exported) holds a phase
  of a run that has no copy yet. That has to cover the plans and copies of other
  runs, because a restore may put one of them back. `Point` adds that a broker
  job exists only after the copy; `Fresh` speaks of runs not begun, and
  `Threaded` says that a restore thread has a copy to put back.
* `CursorIsSound`: `Spec => []CursorIsLanded`. `Sound` is asked of the saved
  progress and of the worker's own copy of it, and `Landed` adds that a key that
  answers `done` has landed, also a key of an earlier attempt that a later
  worker finds. All of it holds only on blogs that no pass of a restore has
  reached (`undone`), whatever the row says of a restore; that no step undoes it
  is the lemma about `Grows`.

The module first shows for every action what it writes, field by field (the
lemmas that end in `Does`), and that it keeps the types (`FitStep`); the parts
of the invariant are then proved from these facts and not from the actions.

Of the spreadsheet import, for every set of uploads, users, tabs and caps and
any number of chunks (`SpreadsheetProofs`):

* `CapsAlwaysHold`: `Spec => []WithinCaps`. `Counted`: an upload that was
  admitted and has not inserted its row still holds the lock of the caps and
  there is room for it. `Kept` adds where a file is at each place of an upload,
  a confirmation and the cleanup.
* `ReviewsAreWhole`: `Spec => ReviewedWhole`, for steady sheets (section 3). Two
  more parts of the invariant: `Chained` says that sets are made, linked and
  staged in order, and that a confirmation beyond chunk k has staged the chunks
  up to k; `Sheltered` says of a sheet that is not all staged that its first set
  is pending only under a job that keeps the gate shut (`Guarded`), that none of
  its sets is pending once the first one is closed, and that a cleanup about to
  delete the job takes every pending set of it along (`Doomed`).

Of the PIM, for any rows beside the product, approvals and outside changes
(`PimProofs`):

* `NoneGoesUnasked`: `Spec => SparedStays`. `Typed` says what rows, pushes and
  pulls look like at each of their steps. `Reasons` is about what a push knows:
  before it sends it has judged nothing (`Unsent`), an answer that FDM4 is whole
  was true at some moment since then (`Heard`), and past the look at the source
  of a removal that source is among those that denied the product (`Reasoned`).
  The lemma `LookedAtIsWhole` ties the judgement of a row, which may be an old
  one, to that history, and `SentKeeps` says that no other request takes a
  product away.

Of the warehouse, for every set of run slots, tables and contents and every page
size (`WarehouseProofs`):

* `NoReaderMisses`: `Spec => []ReadersMissNothing`. Three parts are about
  versions: `Ahead` (a row an open transform has changed carries a version above
  whatever a reader has seen), `Served` (what the consumer has passed it was
  served, whatever page it is on) and `Told` (a success advertised the
  projection that is there).
* `OutcomesStand`: `Spec => OutcomeStands`. `Solo`: a run that still lives is
  the one started last, and its row is not a success; `Seats` ties the places of
  the script and its child together.
* `CertifiedRowsAreFresh`: `Spec => CertifiedIsFresh`. `Grounds`: what a run has
  read, dumped, swapped in and staged is of FDM4 as it was since the run began,
  at each place of the two processes.

Each inductive invariant was an invariant of a TLC run before it was proved.

The assumptions are the ASSUMEs of the modules, which TLC evaluates in every run
of `agent_turns`, `bulk_batches`, `category_runs`, `change_set_*`, `logo_feed_*`, `pim_push`, `spreadsheet` and `warehouse`.
They say that bounds and caps are natural numbers and the constants are of their
types, that the keys of the feed and the tables of the warehouse are finite, that a
sheet accepts rows of its own chunks only, and that `None`, `Absent`, `Unread` and `Failed` are none of the values
beside which they stand. None of them restricts what the code may do.

Only model-checked: `CaughtUpSeesEdits` for scripts outside `BorrowersApart`,
where it is false (`logo_feed_edits`); liveness (`JobSettles`, `UploadsAreRemoved`,
`PimSettles`, `ReadersConverge`), which with fairness and ENABLED is out of the
prover's reach; and the properties of `LogoGrid` and `CategoryPlan`. Those two are
functions on a grid and on trees: a paste folds over a clipboard, an import over a
file, a mapping climbs a tree. What such a fold leaves is an induction over data,
and an induction principle takes a predicate as its parameter, which no installed
prover can instantiate. Where the other proofs need induction over numbers (sums,
pages of the products feed) they take the least counterexample instead.

## 5. Plan

1. *Done*: `ChangeSet`, `ReviewedChange` and `ChangeSetProofs`; `LogoFeed` and
   `FeedProofs`; `BulkBatch` and `BulkProofs`; `LogoGrid`; `Quota`, `AgentTurn` and `TurnProofs`;
   `CategoryRuns` and `CategoryRunsProofs`; `CategoryPlan`; `SpreadsheetJob` and `SpreadsheetProofs`;
   `PimPush` and `PimProofs`; `Warehouse` and `WarehouseProofs`.
2. Proofs: the part of `LogoGrid` that needs no fold (reorder, swap, image and
   `Undo`: what `Rewrite` journals is what it changed), then the folds.
3. Models: the queue of PIM requests, price and mix overlays of the transform,
   two processes with worker tokens in `CategoryRuns`, locked styles.

Instances stay at two actors and two objects; a run answers one question.

## 6. Not modelled

Reads, pages, prompts and the browser application change no state. Provisioning,
backup and seed scripts are run by hand. The deployment contract is a pure check
at start-up. Media publishing repeats uploads by content key. The mix table is
written by one guarded statement. Sessions are checked in one transaction per
request. `PROJECT.json` gives the reason for each part, and for each modelled
part what it leaves out.
