--------------------------- MODULE SpreadsheetProofs --------------------------
(* The spreadsheet import: theorems about SpreadsheetJob.                    *)
EXTENDS SpreadsheetJob, FiniteSetTheorems, TLAPS

-----------------------------------------------------------------------------
(* Shape: types, and that whoever works on a sheet works on one of its       *)
(* chunks.                                                                   *)

Working(c) == conf[c].pc # "idle"
Busy(c) == Working(c) => Of(c) \in Uploads /\ conf[c].k \in 1..ChunksOf[Of(c)]
Shaped == TypeOK /\ \A c \in Confirmers : Busy(c)

First(u) == <<u, 1>>

(* The chunks of a sheet are sets, and the first of them is one.             *)
LEMMA SetIn ==
    ASSUME NEW u \in Uploads, NEW k \in 1..ChunksOf[u] PROVE <<u, k>> \in Sets /\ <<u, k>> \in SetsOf(u)
  <1>1. <<u, k>> \in {u} \X (1..ChunksOf[u])
    OBVIOUS
  <1>2. <<u, k>> \in Sets
    BY <1>1 DEF Sets
  <1> QED BY <1>2 DEF SetsOf

(* A set is a chunk of one upload.                                           *)
LEMMA SetOut ==
    ASSUME NEW s \in Sets
    PROVE  s[1] \in Uploads /\ s[2] \in 1..ChunksOf[s[1]] /\ s = <<s[1], s[2]>> /\ s \in SetsOf(s[1])
  <1>1. PICK u \in Uploads : s \in {u} \X (1..ChunksOf[u])
    BY DEF Sets
  <1>2. s[1] = u /\ s[2] \in 1..ChunksOf[u] /\ s = <<s[1], s[2]>>
    BY <1>1
  <1> QED BY <1>2 DEF SetsOf

(* Every sheet has a first chunk.                                            *)
LEMMA FirstIn ==
    ASSUME NEW u \in Uploads
    PROVE  ChunksOf[u] \in Nat \ {0} /\ 1 \in 1..ChunksOf[u] /\ First(u) \in Sets /\ First(u) \in SetsOf(u)
  <1>1. ChunksOf[u] \in Nat \ {0} /\ 1 \in 1..ChunksOf[u]
    BY BoundsAssumption
  <1> QED BY <1>1, SetIn DEF First

-----------------------------------------------------------------------------
(* What the steps of a confirmation do, field by field.                      *)

OtherConfs(c) == conf' \in [Confirmers -> Confirming] /\ \A d \in Confirmers \ {c} : conf'[d] = conf[d]
Moves(c, pc, k, staged) ==
    /\ OtherConfs(c) /\ conf'[c].pc = pc /\ conf'[c].u = conf[c].u
    /\ conf'[c].k = k /\ conf'[c].staged = staged
Leaves(c) == OtherConfs(c) /\ conf'[c] = Idle
Stores(u) ==
    file' \in [Uploads -> BOOLEAN] /\ file'[u] /\ \A v \in Uploads \ {u} : file'[v] = file[v]
Removes(u) ==
    file' \in [Uploads -> BOOLEAN] /\ ~file'[u] /\ \A v \in Uploads \ {u} : file'[v] = file[v]
JobGets(u, status, linked, chunks) ==
    /\ job' \in [Uploads -> Job] /\ \A v \in Uploads \ {u} : job'[v] = job[v]
    /\ job'[u].status = status /\ job'[u].linked = linked /\ job'[u].chunks = chunks
SetGets(s, status, items) ==
    /\ set' \in [Sets -> ChangeSet] /\ \A r \in Sets \ {s} : set'[r] = set[r]
    /\ set'[s].status = status /\ set'[s].items = items

Places == {"idle", "read", "missed", "reject", "link", "chunks", "stage",
           "store", "final", "unlink", "drop", "gone"}

(* The shape of one confirmation, of one job and of one set.                 *)
LEMMA ConfHas ==
    ASSUME Shaped, NEW c \in Confirmers
    PROVE  /\ conf[c] \in Confirming /\ conf[c].pc \in Places /\ conf[c].k \in Nat
           /\ conf[c].staged \in BOOLEAN /\ conf \in [Confirmers -> Confirming]
           /\ conf[c].pc # "idle" => Of(c) \in Uploads /\ conf[c].k \in 1..ChunksOf[Of(c)]
  <1>1. conf \in [Confirmers -> Confirming]
    BY DEF Shaped, TypeOK
  <1>2. conf[c] \in Confirming
    BY <1>1
  <1>3. conf[c].pc # "idle" => Of(c) \in Uploads /\ conf[c].k \in 1..ChunksOf[Of(c)]
    BY DEF Shaped, Busy, Working
  <1> QED BY <1>1, <1>2, <1>3 DEF Confirming, Places

(* The shape of one job.                                                     *)
LEMMA JobHas ==
    ASSUME Shaped, NEW u \in Uploads
    PROVE  /\ job[u] \in Job /\ job \in [Uploads -> Job]
           /\ job[u].status \in {"none", "mapping_processing", "mapping_pending",
                                 "mapping_confirmed", "staged", "rejected"}
           /\ job[u].linked \in BOOLEAN /\ job[u].chunks \in BOOLEAN
  <1>1. job[u] \in Job /\ job \in [Uploads -> Job]
    BY DEF Shaped, TypeOK
  <1> QED BY <1>1 DEF Job

(* The shape of one change set.                                              *)
LEMMA SetHas ==
    ASSUME Shaped, NEW s \in Sets
    PROVE  /\ set[s] \in ChangeSet /\ set \in [Sets -> ChangeSet]
           /\ set[s].status \in {"none", "pending", "applied", "discarded"}
           /\ set[s].items \in BOOLEAN
  <1>1. set[s] \in ChangeSet /\ set \in [Sets -> ChangeSet]
    BY DEF Shaped, TypeOK
  <1> QED BY <1>1 DEF ChangeSet

(* A step to another place changes the place only.                           *)
LEMMA StepMoves ==
    ASSUME Shaped, NEW c \in Confirmers, NEW pc \in Places, Step(c, pc)
    PROVE  Moves(c, pc, conf[c].k, conf[c].staged)
  BY ConfHas DEF Step, Moves, OtherConfs, Confirming, Places

(* An answer ends the request.                                               *)
LEMMA ReturnLeaves ==
    ASSUME Shaped, NEW c \in Confirmers, Return(c)
    PROVE  Leaves(c)
  BY ConfHas DEF Return, Leaves, OtherConfs, Confirming, Idle

(* The first chunk.                                                          *)
LEMMA StagesMoves ==
    ASSUME Shaped, NEW c \in Confirmers, NEW k \in Nat, Stages(c, k)
    PROVE  Moves(c, "stage", k, conf[c].staged)
  BY ConfHas DEF Stages, Moves, OtherConfs, Confirming

(* Beyond a chunk is the next, or the end.                                   *)
LEMMA NextChunkMoves ==
    ASSUME Shaped, NEW c \in Confirmers, NEW staged \in BOOLEAN, conf[c].pc # "idle",
           NextChunk(c, staged)
    PROVE  \/ /\ conf[c].k < ChunksOf[Of(c)] /\ conf[c].k + 1 \in 1..ChunksOf[Of(c)]
              /\ Moves(c, "stage", conf[c].k + 1, conf[c].staged \/ staged)
           \/ /\ conf[c].k = ChunksOf[Of(c)]
              /\ Moves(c, "final", conf[c].k, conf[c].staged \/ staged)
  <1>1. ChunksOf[Of(c)] \in Nat /\ conf[c].k \in 1..ChunksOf[Of(c)]
    BY ConfHas, FirstIn
  <1>2. CASE conf[c].k < ChunksOf[Of(c)]
    BY <1>1, <1>2, ConfHas DEF NextChunk, Moves, OtherConfs, Confirming
  <1>3. CASE ~ (conf[c].k < ChunksOf[Of(c)])
    <2>1. conf[c].k = ChunksOf[Of(c)]
      BY <1>1, <1>3
    <2>2. conf' = [conf EXCEPT ![c].pc = "final", ![c].k = @, ![c].staged = @ \/ staged]
      BY <1>3 DEF NextChunk
    <2>3. Moves(c, "final", conf[c].k, conf[c].staged \/ staged)
      BY <2>2, ConfHas DEF Moves, OtherConfs, Confirming
    <2> QED BY <2>1, <2>3
  <1> QED BY <1>2, <1>3

(* Writing one field of a job or of a set.                                   *)
LEMMA StatusGets ==
    ASSUME Shaped, NEW u \in Uploads,
           NEW st \in {"none", "mapping_processing", "mapping_pending", "mapping_confirmed",
                       "staged", "rejected"},
           job' = [job EXCEPT ![u].status = st]
    PROVE  JobGets(u, st, job[u].linked, job[u].chunks)
  BY JobHas DEF JobGets, Job

(* Discarding writes the status of a pending set.                            *)
LEMMA DiscardGets ==
    ASSUME Shaped, NEW s \in Sets, set' = Discarded(s)
    PROVE  SetGets(s, IF set[s].status = "pending" THEN "discarded" ELSE set[s].status, set[s].items)
  BY SetHas DEF SetGets, Discarded, ChangeSet

(* ReadUpload finds the file, or misses it.                                  *)
LEMMA ReadDoes ==
    ASSUME Shaped, NEW c \in Confirmers, ReadUpload(c)
    PROVE  /\ conf[c].pc = "read" /\ UNCHANGED <<job, file, aged, set, up, maint>>
           /\ \/ Moves(c, "link", conf[c].k, conf[c].staged)
              \/ (~file[Of(c)] \/ Of(c) \in Fragile) /\ Moves(c, "missed", conf[c].k, conf[c].staged)
  BY StepMoves DEF ReadUpload, Goes, Places

(* _terminal_confirmation_result answers, or the job is to be rejected.      *)
LEMMA MissedDoes ==
    ASSUME Shaped, NEW c \in Confirmers, Missed(c)
    PROVE  /\ conf[c].pc = "missed" /\ UNCHANGED <<job, file, aged, set, up, maint>>
           /\ Leaves(c) \/ Moves(c, "reject", conf[c].k, conf[c].staged)
  BY StepMoves, ReturnLeaves DEF Missed, Goes, Places

LinkEffect(c, u) ==
    /\ conf[c].pc = "link" /\ u \in Uploads /\ UNCHANGED <<file, aged, up, maint>>
    /\ \/ Leaves(c) /\ UNCHANGED <<job, set>>
       \/ /\ Confirmable(u) /\ ~job[u].linked
          /\ JobGets(u, "mapping_confirmed", TRUE, job[u].chunks)
          /\ SetGets(First(u), "pending", FALSE)
          /\ Moves(c, "chunks", conf[c].k, conf[c].staged)
       \/ /\ Confirmable(u) /\ job[u].linked /\ UNCHANGED <<job, set>>
          /\ Moves(c, "chunks", conf[c].k, conf[c].staged)
       \/ /\ Confirmable(u) /\ job[u].linked /\ set[First(u)].status # "pending"
          /\ JobGets(u, "rejected", job[u].linked, job[u].chunks)
          /\ UNCHANGED set
          /\ Moves(c, "gone", conf[c].k, conf[c].staged)

(* Link finds the set, makes it, or gives the job up.                        *)
LEMMA LinkDoes ==
    ASSUME Shaped, NEW c \in Confirmers, Link(c) PROVE LinkEffect(c, Of(c))
  <1> SUFFICES ASSUME NEW u, u = Of(c) PROVE LinkEffect(c, u)
    OBVIOUS
  <1> USE DEF LinkEffect
  <1>1. conf[c].pc = "link" /\ u \in Uploads /\ UNCHANGED <<file, aged, up, maint>>
    BY ConfHas DEF Link, Goes
  <1>2. CASE ~Confirmable(u)
    BY <1>1, <1>2, ReturnLeaves DEF Link
  <1>3. CASE Confirmable(u) /\ ~job[u].linked
    <2>1. /\ job' = [job EXCEPT ![u].status = "mapping_confirmed", ![u].linked = TRUE]
          /\ set' = [set EXCEPT ![First(u)] = NewSet]
          /\ Step(c, "chunks")
      BY <1>3 DEF Link, First
    <2>2. JobGets(u, "mapping_confirmed", TRUE, job[u].chunks)
      BY <1>1, <2>1, JobHas DEF JobGets, Job
    <2>3. SetGets(First(u), "pending", FALSE)
      BY <1>1, <2>1, SetHas, FirstIn DEF SetGets, ChangeSet, NewSet
    <2>4. Moves(c, "chunks", conf[c].k, conf[c].staged)
      BY <2>1, StepMoves DEF Places
    <2> QED BY <1>1, <1>3, <2>2, <2>3, <2>4
  <1>4. CASE Confirmable(u) /\ job[u].linked /\ set[First(u)].status = "pending"
    <2>1. Step(c, "chunks") /\ UNCHANGED <<job, set>>
      BY <1>4 DEF Link, First
    <2>2. Moves(c, "chunks", conf[c].k, conf[c].staged)
      BY <2>1, StepMoves DEF Places
    <2> QED BY <1>1, <1>4, <2>1, <2>2
  <1>5. CASE Confirmable(u) /\ job[u].linked /\ set[First(u)].status # "pending"
    <2>1. job' = [job EXCEPT ![u].status = "rejected"] /\ Step(c, "gone") /\ UNCHANGED set
      BY <1>5 DEF Link, First
    <2>2. JobGets(u, "rejected", job[u].linked, job[u].chunks)
      BY <1>1, <2>1, StatusGets
    <2>3. Moves(c, "gone", conf[c].k, conf[c].staged)
      BY <2>1, StepMoves DEF Places
    <2> QED BY <1>1, <1>5, <2>1, <2>2, <2>3
  <1>6. job[u].linked \in BOOLEAN
    BY <1>1, JobHas
  <1> QED BY <1>2, <1>3, <1>4, <1>5, <1>6

(* EnsureChunkLinks makes a set of every chunk but the first.                *)
Opened(u) ==
    /\ set' \in [Sets -> ChangeSet]
    /\ \A s \in Sets : IF s[1] = u /\ s[2] > 1 THEN set'[s].status = "pending" /\ ~set'[s].items
                                               ELSE set'[s] = set[s]
EnsureEffect(c, u) ==
    /\ conf[c].pc = "chunks" /\ u \in Uploads /\ UNCHANGED <<file, aged, up, maint>>
    /\ \/ Leaves(c) /\ UNCHANGED <<job, set>>
       \/ job[u].chunks /\ Moves(c, "stage", 1, conf[c].staged) /\ UNCHANGED <<job, set>>
       \/ /\ ~job[u].chunks /\ Unconfirmed(u) /\ Moves(c, "stage", 1, conf[c].staged)
          /\ JobGets(u, job[u].status, job[u].linked, TRUE) /\ Opened(u)

(* EnsureChunkLinks opens the sets of the other chunks, once.                *)
LEMMA EnsureDoes ==
    ASSUME Shaped, NEW c \in Confirmers, EnsureChunkLinks(c) PROVE EnsureEffect(c, Of(c))
  <1> SUFFICES ASSUME NEW u, u = Of(c) PROVE EnsureEffect(c, u)
    OBVIOUS
  <1> USE DEF EnsureEffect
  <1>1. conf[c].pc = "chunks" /\ u \in Uploads /\ UNCHANGED <<file, aged, up, maint>>
    BY ConfHas DEF EnsureChunkLinks, Goes
  <1>2. CASE job[u].status = "none"
    <2>1. Return(c) /\ UNCHANGED <<job, set>>
      BY <1>2 DEF EnsureChunkLinks, Unconfirmed
    <2> QED BY <1>1, <2>1, ReturnLeaves
  <1>3. CASE job[u].status # "none" /\ job[u].chunks
    <2>1. Stages(c, 1) /\ UNCHANGED <<job, set>>
      BY <1>3 DEF EnsureChunkLinks
    <2> QED BY <1>1, <1>3, <2>1, StagesMoves
  <1>4. CASE job[u].status # "none" /\ ~job[u].chunks /\ Unconfirmed(u)
    <2>1. /\ job' = [job EXCEPT ![u].chunks = TRUE] /\ Stages(c, 1)
          /\ set' = [s \in Sets |-> IF s[1] = u /\ s[2] > 1 THEN NewSet ELSE set[s]]
      BY <1>4 DEF EnsureChunkLinks
    <2>2. JobGets(u, job[u].status, job[u].linked, TRUE)
      BY <1>1, <2>1, JobHas DEF JobGets, Job
    <2>3. Opened(u)
      BY <2>1, SetHas DEF Opened, NewSet, ChangeSet
    <2> QED BY <1>1, <1>4, <2>1, <2>2, <2>3, StagesMoves
  <1>5. CASE job[u].status # "none" /\ ~job[u].chunks /\ ~Unconfirmed(u)
    BY <1>1, <1>5, ReturnLeaves DEF EnsureChunkLinks
  <1> QED BY <1>2, <1>3, <1>4, <1>5

(* A chunk is passed: it has nothing to stage, or it has been staged.        *)
Passes(c, staged) ==
    \/ /\ conf[c].k < ChunksOf[Of(c)] /\ conf[c].k + 1 \in 1..ChunksOf[Of(c)]
       /\ Moves(c, "stage", conf[c].k + 1, conf[c].staged \/ staged)
    \/ /\ conf[c].k = ChunksOf[Of(c)]
       /\ Moves(c, "final", conf[c].k, conf[c].staged \/ staged)

PreviewEffect(c, s) ==
    /\ conf[c].pc = "stage" /\ s \in Sets /\ UNCHANGED <<job, file, aged, set, up, maint>>
    /\ \/ Leaves(c)
       \/ conf[c].k \notin Accepted[Of(c)] /\ Passes(c, FALSE)
       \/ set[s].items /\ Passes(c, TRUE)
       \/ Moves(c, "store", conf[c].k, conf[c].staged)

(* PreviewBatch passes a chunk, or has rows to store.                        *)
LEMMA PreviewDoes ==
    ASSUME Shaped, NEW c \in Confirmers, PreviewBatch(c) PROVE PreviewEffect(c, <<Of(c), conf[c].k>>)
  <1> SUFFICES ASSUME NEW s, s = <<Of(c), conf[c].k>> PROVE PreviewEffect(c, s)
    OBVIOUS
  <1> USE DEF PreviewEffect
  <1>1. conf[c].pc = "stage" /\ UNCHANGED <<job, file, aged, set, up, maint>>
    BY DEF PreviewBatch, Goes
  <1>2. Of(c) \in Uploads /\ s \in Sets /\ s[1] = Of(c) /\ s[2] = conf[c].k
    BY <1>1, ConfHas, SetIn
  <1>3. CASE set[s].status # "pending"
    BY <1>1, <1>2, <1>3, ReturnLeaves DEF PreviewBatch
  <1>4. CASE set[s].status = "pending" /\ s[2] \notin Accepted[s[1]]
    <2>1. NextChunk(c, FALSE)
      BY <1>4 DEF PreviewBatch
    <2> QED BY <1>1, <1>2, <1>4, <2>1, NextChunkMoves DEF Passes
  <1>5. CASE set[s].status = "pending" /\ s[2] \in Accepted[s[1]] /\ set[s].items
    <2>1. NextChunk(c, TRUE)
      BY <1>5 DEF PreviewBatch
    <2> QED BY <1>1, <1>2, <1>5, <2>1, NextChunkMoves DEF Passes
  <1>6. CASE set[s].status = "pending" /\ s[2] \in Accepted[s[1]] /\ ~set[s].items
    <2>1. Step(c, "store")
      BY <1>6 DEF PreviewBatch
    <2> QED BY <1>1, <1>2, <2>1, StepMoves DEF Places
  <1> QED BY <1>3, <1>4, <1>5, <1>6

StoreEffect(c, s) ==
    /\ conf[c].pc = "store" /\ ~Held(s) /\ s \in Sets
    /\ UNCHANGED <<job, file, aged, up, maint>>
    /\ \/ Leaves(c) /\ UNCHANGED set
       \/ Moves(c, "stage", conf[c].k, conf[c].staged) /\ UNCHANGED set
       \/ set[s].status = "pending" /\ SetGets(s, "pending", TRUE) /\ Passes(c, TRUE)

(* StoreBatch stores the rows of a pending set, and passes.                  *)
LEMMA StoreDoes ==
    ASSUME Shaped, NEW c \in Confirmers, StoreBatch(c) PROVE StoreEffect(c, <<Of(c), conf[c].k>>)
  <1> SUFFICES ASSUME NEW s, s = <<Of(c), conf[c].k>> PROVE StoreEffect(c, s)
    OBVIOUS
  <1> USE DEF StoreEffect
  <1>1. conf[c].pc = "store" /\ ~Held(s) /\ UNCHANGED <<job, file, aged, up, maint>>
    BY DEF StoreBatch, Goes
  <1>2. s \in Sets
    BY <1>1, ConfHas, SetIn
  <1>3. CASE set[s].status # "pending"
    BY <1>1, <1>2, <1>3, ReturnLeaves DEF StoreBatch
  <1>4. CASE set[s].status = "pending" /\ set[s].items
    <2>1. Step(c, "stage") /\ UNCHANGED set
      BY <1>4 DEF StoreBatch
    <2> QED BY <1>1, <1>2, <2>1, StepMoves DEF Places
  <1>5. CASE set[s].status = "pending" /\ ~set[s].items
    <2>1. NextChunk(c, TRUE) /\ set' = [set EXCEPT ![s].items = TRUE]
      BY <1>5 DEF StoreBatch
    <2>2. SetGets(s, "pending", TRUE)
      BY <1>2, <1>5, <2>1, SetHas DEF SetGets, ChangeSet
    <2> QED BY <1>1, <1>2, <1>5, <2>1, <2>2, NextChunkMoves DEF Passes
  <1> QED BY <1>3, <1>4, <1>5

FinishEffect(c, u) ==
    /\ conf[c].pc = "final" /\ u \in Uploads /\ UNCHANGED <<file, aged, set, up, maint>>
    /\ \/ Leaves(c) /\ UNCHANGED job
       \/ /\ job[u].status # "none"
          /\ \E st \in {"staged", "rejected"} :
                /\ JobGets(u, st, job[u].linked, job[u].chunks)
                /\ Terminal(u) => st = job[u].status
                /\ ~Terminal(u) /\ conf[c].staged => st = "staged"
                /\ Moves(c, "unlink", conf[c].k, st = "staged")

(* FinishJob decides the job, once.                                          *)
LEMMA FinishDoes ==
    ASSUME Shaped, NEW c \in Confirmers, FinishJob(c) PROVE FinishEffect(c, Of(c))
  <1> SUFFICES ASSUME NEW u, u = Of(c) PROVE FinishEffect(c, u)
    OBVIOUS
  <1> USE DEF FinishEffect
  <1>1. conf[c].pc = "final" /\ u \in Uploads /\ UNCHANGED <<file, aged, set, up, maint>>
    BY ConfHas DEF FinishJob, Goes
  <1>2. CASE job[u].status = "none"
    BY <1>1, <1>2, ReturnLeaves DEF FinishJob
  <1>3. CASE job[u].status # "none"
    <2>1. PICK st : st = IF Terminal(u) THEN job[u].status ELSE Outcome(c)
      OBVIOUS
    <2>2. st \in {"staged", "rejected"} /\ (Terminal(u) => st = job[u].status)
          /\ (~Terminal(u) /\ conf[c].staged => st = "staged")
      BY <2>1 DEF Terminal, Outcome
    <2>3. /\ job' = [job EXCEPT ![u].status = st]
          /\ conf' = [conf EXCEPT ![c].pc = "unlink", ![c].staged = st = "staged"]
      BY <1>3, <2>1 DEF FinishJob
    <2>4. JobGets(u, st, job[u].linked, job[u].chunks)
      BY <1>1, <2>2, <2>3, StatusGets
    <2>5. Moves(c, "unlink", conf[c].k, st = "staged")
      BY <2>2, <2>3, ConfHas DEF Moves, OtherConfs, Confirming
    <2> QED BY <1>1, <1>3, <2>2, <2>4, <2>5
  <1> QED BY <1>2, <1>3

(* ConfirmUnlink removes the file.                                           *)
LEMMA UnlinkDoes ==
    ASSUME Shaped, NEW c \in Confirmers, ConfirmUnlink(c)
    PROVE  /\ conf[c].pc \in {"unlink", "gone"} /\ UNCHANGED <<job, aged, set, up, maint>>
           /\ Of(c) \in Uploads /\ Removes(Of(c))
           /\ Leaves(c) \/ Moves(c, "drop", conf[c].k, conf[c].staged)
  <1>1. /\ conf[c].pc \in {"unlink", "gone"} /\ UNCHANGED <<job, aged, set, up, maint>>
        /\ file' = [file EXCEPT ![Of(c)] = FALSE]
        /\ Leaves(c) \/ Moves(c, "drop", conf[c].k, conf[c].staged)
    BY StepMoves, ReturnLeaves DEF ConfirmUnlink, Goes, Places
  <1>2. Of(c) \in Uploads /\ file \in [Uploads -> BOOLEAN]
    BY <1>1, ConfHas DEF Shaped, TypeOK
  <1> QED BY <1>1, <1>2 DEF Removes

DropEffect(c, s) ==
    /\ conf[c].pc = "drop" /\ s \in Sets /\ UNCHANGED <<job, file, aged, up, maint>>
    /\ Leaves(c)
    /\ UNCHANGED set \/ (Reviewable(s) /\ SetGets(s, "discarded", set[s].items))

(* DropEmpty discards the first set where the review may.                    *)
LEMMA DropDoes ==
    ASSUME Shaped, NEW c \in Confirmers, DropEmpty(c) PROVE DropEffect(c, First(Of(c)))
  <1> SUFFICES ASSUME NEW s, s = First(Of(c)) PROVE DropEffect(c, s)
    OBVIOUS
  <1> USE DEF DropEffect
  <1>1. /\ conf[c].pc = "drop" /\ UNCHANGED <<job, file, aged, up, maint>>
        /\ Leaves(c) /\ set' = IF Reviewable(s) THEN Discarded(s) ELSE set
    BY ReturnLeaves DEF DropEmpty, Goes, First
  <1>2. s \in Sets
    BY <1>1, ConfHas, FirstIn
  <1> QED BY <1>1, <1>2, DiscardGets DEF Reviewable

RejectEffect(c, u) ==
    /\ conf[c].pc = "reject" /\ u \in Uploads /\ UNCHANGED <<file, aged, up, maint>>
    /\ Moves(c, "gone", conf[c].k, conf[c].staged)
    /\ job[u].linked => ~Held(First(u))
    /\ \/ ~Unconfirmed(u) /\ UNCHANGED <<job, set>>
       \/ /\ Unconfirmed(u) /\ JobGets(u, "rejected", job[u].linked, job[u].chunks)
          /\ ~job[u].linked /\ UNCHANGED set
       \/ /\ Unconfirmed(u) /\ JobGets(u, "rejected", job[u].linked, job[u].chunks)
          /\ job[u].linked
          /\ SetGets(First(u), IF set[First(u)].status = "pending" THEN "discarded"
                               ELSE set[First(u)].status, set[First(u)].items)

(* MarkRejected ends a job and its first set.                                *)
LEMMA RejectDoes ==
    ASSUME Shaped, NEW c \in Confirmers, MarkRejected(c) PROVE RejectEffect(c, Of(c))
  <1> SUFFICES ASSUME NEW u, u = Of(c) PROVE RejectEffect(c, u)
    OBVIOUS
  <1> USE DEF RejectEffect
  <1>1. /\ conf[c].pc = "reject" /\ u \in Uploads /\ UNCHANGED <<file, aged, up, maint>>
        /\ Moves(c, "gone", conf[c].k, conf[c].staged) /\ (job[u].linked => ~Held(First(u)))
    BY ConfHas, StepMoves DEF MarkRejected, Goes, Places, First
  <1>2. CASE ~Unconfirmed(u)
    BY <1>1, <1>2 DEF MarkRejected
  <1>3. CASE Unconfirmed(u)
    <2>1. /\ job' = [job EXCEPT ![u].status = "rejected"]
          /\ set' = IF job[u].linked THEN Discarded(First(u)) ELSE set
      BY <1>3 DEF MarkRejected, First
    <2>2. JobGets(u, "rejected", job[u].linked, job[u].chunks)
      BY <1>1, <2>1, StatusGets
    <2>3. CASE job[u].linked
      <3>1. set' = Discarded(First(u))
        BY <2>1, <2>3
      <3> QED BY <1>1, <1>3, <2>2, <2>3, <3>1, FirstIn, DiscardGets
    <2>4. CASE ~job[u].linked
      BY <1>1, <1>3, <2>1, <2>2, <2>4
    <2> QED BY <2>3, <2>4
  <1> QED BY <1>2, <1>3

ConfirmEffect(c, u) ==
    /\ conf[c].pc = "idle" /\ u \in Uploads /\ Unconfirmed(u)
    /\ UNCHANGED <<job, file, aged, set, up, maint>>
    /\ OtherConfs(c) /\ conf'[c] = [pc |-> "read", u |-> u, k |-> 1, staged |-> FALSE]

(* Confirm begins with the first chunk.                                      *)
LEMMA ConfirmDoes ==
    ASSUME Shaped, NEW c \in Confirmers, NEW u \in Tabs[c], Confirm(c, u) PROVE ConfirmEffect(c, u)
  <1>1. u \in Uploads
    BY BoundsAssumption
  <1> QED BY <1>1, ConfHas DEF Confirm, Goes, OtherConfs, Confirming, ConfirmEffect

-----------------------------------------------------------------------------
(* The same of uploads, reviews and cleanups.                                *)

Stations == {"idle", "admitted", "write", "map", "discard", "unlink", "done"}
UpGets(u, place) ==
    up' \in [Uploads -> Stations] /\ up'[u] = place /\ \A v \in Uploads \ {u} : up'[v] = up[v]
Vacates(u) ==
    job' \in [Uploads -> Job] /\ job'[u] = NoJob /\ \A v \in Uploads \ {u} : job'[v] = job[v]

(* The shape of the rest.                                                    *)
LEMMA UpHas ==
    ASSUME Shaped
    PROVE  /\ up \in [Uploads -> Stations] /\ file \in [Uploads -> BOOLEAN]
           /\ aged \in [Uploads -> BOOLEAN] /\ maint \in Cleaning
  BY DEF Shaped, TypeOK, Stations

(* Admit lets in where there is room.                                        *)
LEMMA AdmitDoes ==
    ASSUME Shaped, NEW u \in Uploads, Admit(u)
    PROVE  /\ up[u] = "idle" /\ LockFree(u) /\ UNCHANGED <<job, file, aged, set, conf, maint>>
           /\ UpGets(u, "done") \/ (Room(u) /\ UpGets(u, "admitted"))
  <1>1. up[u] = "idle" /\ LockFree(u) /\ UNCHANGED <<job, file, aged, set, conf, maint>>
    BY DEF Admit
  <1>2. CASE Room(u)
    BY <1>1, <1>2, UpHas DEF Admit, UpGets, Stations
  <1>3. CASE ~Room(u)
    BY <1>1, <1>3, UpHas DEF Admit, UpGets, Stations
  <1> QED BY <1>2, <1>3

(* ReserveJob makes the row.                                                 *)
LEMMA ReserveDoes ==
    ASSUME Shaped, NEW u \in Uploads, ReserveJob(u)
    PROVE  /\ up[u] = "admitted" /\ UNCHANGED <<file, aged, set, conf, maint>>
           /\ UpGets(u, "write") /\ JobGets(u, "mapping_processing", job[u].linked, job[u].chunks)
  BY StatusGets, UpHas DEF ReserveJob, UpGets, Stations

(* WriteFile stores the upload.                                              *)
LEMMA WriteDoes ==
    ASSUME Shaped, NEW u \in Uploads, WriteFile(u)
    PROVE  /\ up[u] = "write" /\ UNCHANGED <<job, aged, set, conf, maint>>
           /\ UpGets(u, "map") /\ Stores(u)
  BY UpHas DEF WriteFile, UpGets, Stores, Stations

(* WriteFails gives the place back.                                          *)
LEMMA WriteFailsDoes ==
    ASSUME Shaped, NEW u \in Uploads, WriteFails(u)
    PROVE  /\ up[u] = "write" /\ UNCHANGED <<file, aged, set, conf, maint>> /\ UpGets(u, "done")
           /\ UNCHANGED job \/ (job[u].status = "mapping_processing" /\ Vacates(u))
  <1>1. up[u] = "write" /\ UNCHANGED <<file, aged, set, conf, maint>> /\ UpGets(u, "done")
    BY UpHas DEF WriteFails, UpGets, Stations
  <1>2. CASE job[u].status = "mapping_processing"
    BY <1>1, <1>2, JobHas DEF WriteFails, Unreserved, Vacates, NoJob, Job
  <1>3. CASE job[u].status # "mapping_processing"
    BY <1>1, <1>3 DEF WriteFails, Unreserved
  <1> QED BY <1>2, <1>3

(* SheetFails goes to discard.                                               *)
LEMMA SheetFailsDoes ==
    ASSUME Shaped, NEW u \in Uploads, SheetFails(u)
    PROVE  up[u] = "map" /\ UNCHANGED <<job, file, aged, set, conf, maint>> /\ UpGets(u, "discard")
  BY UpHas DEF SheetFails, UpGets, Stations

(* Finalize offers a fresh job for confirmation.                             *)
LEMMA FinalizeDoes ==
    ASSUME Shaped, NEW u \in Uploads, Finalize(u)
    PROVE  /\ up[u] = "map" /\ UNCHANGED <<file, aged, set, conf, maint>>
           /\ UpGets(u, "done") \/ UpGets(u, "discard")
           /\ \/ UNCHANGED job
              \/ /\ job[u].status = "mapping_processing" /\ ~aged[u]
                 /\ JobGets(u, "mapping_pending", job[u].linked, job[u].chunks)
  <1>1. up[u] = "map" /\ UNCHANGED <<file, aged, set, conf, maint>>
    BY DEF Finalize
  <1>2. UpGets(u, "done") \/ UpGets(u, "discard")
    <2>1. PICK cancelled \in BOOLEAN :
             up' = [up EXCEPT ![u] = IF (job[u].status = "mapping_processing" /\ ~aged[u]) /\ ~cancelled
                                     THEN "done" ELSE "discard"]
      BY DEF Finalize
    <2> QED BY <2>1, UpHas DEF UpGets, Stations
  <1>3. CASE job[u].status = "mapping_processing" /\ ~aged[u]
    BY <1>1, <1>2, <1>3, StatusGets DEF Finalize
  <1>4. CASE ~ (job[u].status = "mapping_processing" /\ ~aged[u])
    BY <1>1, <1>2, <1>4 DEF Finalize
  <1> QED BY <1>3, <1>4

(* DiscardReserved takes the row back.                                       *)
LEMMA DiscardReservedDoes ==
    ASSUME Shaped, NEW u \in Uploads, DiscardReserved(u)
    PROVE  /\ up[u] = "discard" /\ UNCHANGED <<file, aged, set, conf, maint>>
           /\ \/ UNCHANGED job /\ UpGets(u, "done")
              \/ job[u].status = "mapping_processing" /\ Vacates(u) /\ UpGets(u, "unlink")
  <1>1. up[u] = "discard" /\ UNCHANGED <<file, aged, set, conf, maint>>
    BY DEF DiscardReserved
  <1>2. CASE Discards(u)
    <2>1. job' = [job EXCEPT ![u] = NoJob] /\ up' = [up EXCEPT ![u] = "unlink"]
      BY <1>2 DEF DiscardReserved
    <2>2. Vacates(u)
      BY <2>1, JobHas DEF Vacates, NoJob, Job
    <2>3. UpGets(u, "unlink")
      BY <2>1, UpHas DEF UpGets, Stations
    <2> QED BY <1>1, <1>2, <2>2, <2>3 DEF Discards
  <1>3. CASE ~Discards(u)
    BY <1>1, <1>3, UpHas DEF DiscardReserved, UpGets, Stations
  <1> QED BY <1>2, <1>3

(* RemovePrivateFile removes the file.                                       *)
LEMMA RemoveDoes ==
    ASSUME Shaped, NEW u \in Uploads, RemovePrivateFile(u)
    PROVE  /\ up[u] = "unlink" /\ UNCHANGED <<job, aged, set, conf, maint>>
           /\ UpGets(u, "done") /\ Removes(u)
  BY UpHas DEF RemovePrivateFile, UpGets, Removes, Stations

(* Age ends the hour of one job.                                             *)
LEMMA AgeDoes ==
    ASSUME Shaped, NEW u \in Uploads, Age(u)
    PROVE  /\ job[u] # NoJob \/ file[u]
           /\ UNCHANGED <<job, file, set, up, conf, maint>>
           /\ aged' \in [Uploads -> BOOLEAN] /\ aged'[u] /\ \A v \in Uploads \ {u} : aged'[v] = aged[v]
  BY UpHas DEF Age, request

(* Apply closes a set that is reviewable.                                    *)
LEMMA ApplyDoes ==
    ASSUME Shaped, NEW s \in Sets, Apply(s)
    PROVE  /\ Reviewable(s) /\ set[s].items /\ UNCHANGED <<job, file, aged, up, conf, maint>>
           /\ SetGets(s, "applied", set[s].items)
  BY SetHas DEF Apply, request, SetGets, ChangeSet

(* Discard closes one too.                                                   *)
LEMMA DiscardDoes ==
    ASSUME Shaped, NEW s \in Sets, Discard(s)
    PROVE  /\ Reviewable(s) /\ UNCHANGED <<job, file, aged, up, conf, maint>>
           /\ SetGets(s, "discarded", set[s].items)
  BY DiscardGets DEF Discard, request, Reviewable

(* CleanupUpdate takes the old jobs and their unfinished sets.               *)
LEMMA UpdateDoes ==
    ASSUME Shaped, CleanupUpdate
    PROVE  /\ maint.pc = "idle" /\ UNCHANGED <<job, file, aged, set, up, conf>>
           /\ maint' \in Cleaning /\ maint'.pc = "delete"
           /\ maint'.old = {u \in Uploads : aged[u] /\ job[u] # NoJob}
           /\ maint'.drop = Unfinished(maint'.old)
  <1> DEFINE old == {u \in Uploads : aged[u] /\ job[u] # NoJob}
  <1>1. maint' = [pc |-> "delete", old |-> old, drop |-> Unfinished(old)]
        /\ maint.pc = "idle" /\ UNCHANGED <<job, file, aged, set, up, conf>>
    BY DEF CleanupUpdate, request
  <1>2. old \in SUBSET Uploads /\ Unfinished(old) \in SUBSET Sets
    BY DEF Unfinished
  <1> QED BY <1>1, <1>2 DEF Cleaning

(* CleanupDelete commits both.                                               *)
LEMMA DeleteDoes ==
    ASSUME Shaped, CleanupDelete
    PROVE  /\ maint.pc = "delete" /\ UNCHANGED <<file, aged, up, conf>>
           /\ maint' \in Cleaning /\ maint'.pc = "unlink"
           /\ maint'.old = {u \in Uploads : job'[u] = NoJob /\ aged[u]}
           /\ job' \in [Uploads -> Job]
           /\ \A u \in Uploads : job'[u] = IF u \in maint.old THEN NoJob ELSE job[u]
           /\ set' \in [Sets -> ChangeSet]
           /\ \A s \in Sets : set'[s].items = set[s].items
           /\ \A s \in Sets : set'[s].status = IF s \in maint.drop THEN "discarded" ELSE set[s].status
  <1>1. /\ maint.pc = "delete" /\ UNCHANGED <<file, aged, up, conf>>
        /\ set' = [s \in Sets |-> IF s \in maint.drop THEN [set[s] EXCEPT !.status = "discarded"] ELSE set[s]]
        /\ job' = [u \in Uploads |-> IF u \in maint.old THEN NoJob ELSE job[u]]
        /\ maint' = [pc |-> "unlink", drop |-> {}, old |-> Orphans(job')]
    BY DEF CleanupDelete, request
  <1>2. job' \in [Uploads -> Job]
        /\ \A u \in Uploads : job'[u] = IF u \in maint.old THEN NoJob ELSE job[u]
    BY <1>1, JobHas DEF NoJob, Job
  <1>3. set' \in [Sets -> ChangeSet]
        /\ (\A s \in Sets : set'[s].items = set[s].items)
        /\ \A s \in Sets : set'[s].status = IF s \in maint.drop THEN "discarded" ELSE set[s].status
    BY <1>1, SetHas DEF ChangeSet
  <1>4. Orphans(job') = {u \in Uploads : job'[u] = NoJob /\ aged[u]}
    BY DEF Orphans
  <1>5. maint' \in Cleaning
    BY <1>1, <1>4 DEF Cleaning
  <1> QED BY <1>1, <1>2, <1>3, <1>4, <1>5

(* CleanupFiles removes the files of the orphans.                            *)
LEMMA FilesDoes ==
    ASSUME Shaped, CleanupFiles
    PROVE  /\ maint.pc = "unlink" /\ UNCHANGED <<job, aged, set, up, conf>>
           /\ maint' \in Cleaning /\ maint'.pc = "idle"
           /\ file' \in [Uploads -> BOOLEAN]
           /\ \A u \in Uploads : file'[u] = (file[u] /\ u \notin maint.old)
  BY UpHas DEF CleanupFiles, request, Resting, Cleaning

(* Restart ends every request.                                               *)
LEMMA RestartDoes ==
    ASSUME Shaped, Restart
    PROVE  /\ UNCHANGED <<job, file, aged, set, maint>>
           /\ up' \in [Uploads -> Stations]
           /\ \A u \in Uploads : up'[u] = IF up[u] = "idle" THEN "idle" ELSE "done"
           /\ conf' \in [Confirmers -> Confirming] /\ \A c \in Confirmers : conf'[c] = Idle
  BY DEF Restart, Stations, Confirming, Idle

(* KillCleanup ends the cleanup before its files.                            *)
LEMMA KillDoes ==
    ASSUME Shaped, KillCleanup
    PROVE  /\ UNCHANGED <<job, file, aged, set, up, conf>>
           /\ maint.pc = "unlink" /\ maint' \in Cleaning /\ maint'.pc = "idle"
  BY DEF KillCleanup, request, Resting, Cleaning

-----------------------------------------------------------------------------
(* Every step keeps the shape.                                               *)

Types ==
    /\ job \in [Uploads -> Job] /\ set \in [Sets -> ChangeSet]
    /\ file \in [Uploads -> BOOLEAN] /\ aged \in [Uploads -> BOOLEAN]
    /\ up \in [Uploads -> Stations] /\ conf \in [Confirmers -> Confirming] /\ maint \in Cleaning
Rooted(u) == job[u].linked => set[First(u)].status # "none"

(* The shape, part by part.                                                  *)
LEMMA ShapeParts ==
    Shaped <=> Types /\ (\A u \in Uploads : Rooted(u)) /\ \A c \in Confirmers : Busy(c)
  BY DEF Shaped, TypeOK, Types, Stations, Rooted, First

(* The types.                                                                *)
LEMMA TypesStep ==
    ASSUME Shaped, [Next]_vars PROVE Types'
  <1>1. ASSUME NEW u \in Uploads, Admit(u) PROVE Types'
    BY <1>1, AdmitDoes, ShapeParts DEF UpGets, Stations, Types
  <1>2. ASSUME NEW u \in Uploads, ReserveJob(u) PROVE Types'
    BY <1>2, ReserveDoes, ShapeParts DEF UpGets, Stations, JobGets, Types
  <1>3. ASSUME NEW u \in Uploads, WriteFile(u) PROVE Types'
    BY <1>3, WriteDoes, ShapeParts DEF UpGets, Stations, Stores, Types
  <1>4. ASSUME NEW u \in Uploads, WriteFails(u) PROVE Types'
    BY <1>4, WriteFailsDoes, ShapeParts DEF UpGets, Stations, Vacates, NoJob,
       Types
  <1>5. ASSUME NEW u \in Uploads, SheetFails(u) PROVE Types'
    BY <1>5, SheetFailsDoes, ShapeParts DEF UpGets, Stations, Types
  <1>6. ASSUME NEW u \in Uploads, Finalize(u) PROVE Types'
    BY <1>6, FinalizeDoes, ShapeParts DEF UpGets, Stations, JobGets, Types
  <1>7. ASSUME NEW u \in Uploads, DiscardReserved(u) PROVE Types'
    BY <1>7, DiscardReservedDoes, ShapeParts DEF UpGets, Stations, Vacates,
       NoJob, Types
  <1>8. ASSUME NEW u \in Uploads, RemovePrivateFile(u) PROVE Types'
    BY <1>8, RemoveDoes, ShapeParts DEF UpGets, Stations, Removes, Types
  <1>9. ASSUME NEW u \in Uploads, Age(u) PROVE Types'
    BY <1>9, AgeDoes, ShapeParts DEF Types
  <1>10. ASSUME NEW c \in Confirmers, ReadUpload(c) PROVE Types'
    BY <1>10, ReadDoes, ShapeParts DEF Moves, OtherConfs, Types
  <1>11. ASSUME NEW c \in Confirmers, Missed(c) PROVE Types'
    BY <1>11, MissedDoes, ShapeParts DEF Moves, Leaves, OtherConfs, Idle, Types
  <1>12. ASSUME NEW c \in Confirmers, Link(c) PROVE Types'
    <2>1. PICK u : u = Of(c)
      OBVIOUS
    <2>2. LinkEffect(c, u)
      BY <1>12, <2>1, LinkDoes
    <2> QED
      BY <2>1, <2>2, ShapeParts DEF LinkEffect, Moves, Leaves, OtherConfs, Idle,
         JobGets, SetGets, Types
  <1>13. ASSUME NEW c \in Confirmers, EnsureChunkLinks(c) PROVE Types'
    <2>1. PICK u : u = Of(c)
      OBVIOUS
    <2>2. EnsureEffect(c, u)
      BY <1>13, <2>1, EnsureDoes
    <2> QED
      BY <2>1, <2>2, ShapeParts DEF EnsureEffect, Moves, Leaves, OtherConfs,
         Idle, JobGets, Opened, Types
  <1>14. ASSUME NEW c \in Confirmers, PreviewBatch(c) PROVE Types'
    <2>1. PICK s : s = <<Of(c), conf[c].k>>
      OBVIOUS
    <2>2. PreviewEffect(c, s)
      BY <1>14, <2>1, PreviewDoes
    <2> QED
      BY <2>1, <2>2, ShapeParts DEF PreviewEffect, Passes, Moves, Leaves,
         OtherConfs, Idle, Types
  <1>15. ASSUME NEW c \in Confirmers, StoreBatch(c) PROVE Types'
    <2>1. PICK s : s = <<Of(c), conf[c].k>>
      OBVIOUS
    <2>2. StoreEffect(c, s)
      BY <1>15, <2>1, StoreDoes
    <2> QED
      BY <2>1, <2>2, ShapeParts DEF StoreEffect, Passes, Moves, Leaves,
         OtherConfs, Idle, SetGets, Types
  <1>16. ASSUME NEW c \in Confirmers, FinishJob(c) PROVE Types'
    <2>1. PICK u : u = Of(c)
      OBVIOUS
    <2>2. FinishEffect(c, u)
      BY <1>16, <2>1, FinishDoes
    <2> QED
      BY <2>1, <2>2, ShapeParts DEF FinishEffect, Moves, Leaves, OtherConfs,
         Idle, JobGets, Types
  <1>17. ASSUME NEW c \in Confirmers, ConfirmUnlink(c) PROVE Types'
    BY <1>17, UnlinkDoes, ShapeParts DEF Removes, Moves, Leaves, OtherConfs,
       Idle, Types
  <1>18. ASSUME NEW c \in Confirmers, DropEmpty(c) PROVE Types'
    <2>1. PICK s : s = First(Of(c))
      OBVIOUS
    <2>2. DropEffect(c, s)
      BY <1>18, <2>1, DropDoes
    <2> QED
      BY <2>1, <2>2, ShapeParts DEF DropEffect, Leaves, OtherConfs, Idle,
         SetGets, Types
  <1>19. ASSUME NEW c \in Confirmers, MarkRejected(c) PROVE Types'
    <2>1. PICK u : u = Of(c)
      OBVIOUS
    <2>2. RejectEffect(c, u)
      BY <1>19, <2>1, RejectDoes
    <2> QED
      BY <2>1, <2>2, ShapeParts DEF RejectEffect, Moves, OtherConfs, JobGets,
         SetGets, Types
  <1>20. ASSUME NEW c \in Confirmers, NEW u \in Tabs[c], Confirm(c, u) PROVE Types'
    <2>1. ConfirmEffect(c, u)
      BY <1>20, ConfirmDoes
    <2> QED
      BY <2>1, ShapeParts DEF ConfirmEffect, OtherConfs, Types
  <1>21. ASSUME NEW s \in Sets, Apply(s) PROVE Types'
    BY <1>21, ApplyDoes, ShapeParts DEF SetGets, Types
  <1>22. ASSUME NEW s \in Sets, Discard(s) PROVE Types'
    BY <1>22, DiscardDoes, ShapeParts DEF SetGets, Types
  <1>23. ASSUME CleanupUpdate PROVE Types'
    BY <1>23, UpdateDoes, ShapeParts DEF Types
  <1>24. ASSUME CleanupDelete PROVE Types'
    BY <1>24, DeleteDoes, ShapeParts DEF NoJob, Types
  <1>25. ASSUME CleanupFiles PROVE Types'
    BY <1>25, FilesDoes, ShapeParts DEF Types
  <1>26. ASSUME Restart PROVE Types'
    BY <1>26, RestartDoes, ShapeParts DEF Stations, Idle, Types
  <1>27. ASSUME KillCleanup PROVE Types'
    BY <1>27, KillDoes, ShapeParts DEF Types
  <1>28. CASE UNCHANGED vars
    BY <1>28, ShapeParts DEF vars, request, Types
  <1> QED
    BY <1>1, <1>2, <1>3, <1>4, <1>5, <1>6, <1>7, <1>8, <1>9, <1>10, <1>11,
       <1>12, <1>13, <1>14, <1>15, <1>16, <1>17, <1>18, <1>19, <1>20, <1>21,
       <1>22, <1>23, <1>24, <1>25, <1>26, <1>27, <1>28 DEF Next, Upload,
       ConfirmMapping, Cleanup

(* A linked set does not vanish.                                             *)
LEMMA RootedStep ==
    ASSUME Shaped, NEW w \in Uploads, [Next]_vars PROVE Rooted(w)'
  <1>1. ASSUME NEW u \in Uploads, Admit(u) PROVE Rooted(w)'
    BY <1>1, AdmitDoes, ShapeParts, FirstIn DEF UpGets, Stations, Rooted
  <1>2. ASSUME NEW u \in Uploads, ReserveJob(u) PROVE Rooted(w)'
    BY <1>2, ReserveDoes, ShapeParts, FirstIn DEF UpGets, Stations, JobGets,
       Rooted
  <1>3. ASSUME NEW u \in Uploads, WriteFile(u) PROVE Rooted(w)'
    BY <1>3, WriteDoes, ShapeParts, FirstIn DEF UpGets, Stations, Stores, Rooted
  <1>4. ASSUME NEW u \in Uploads, WriteFails(u) PROVE Rooted(w)'
    BY <1>4, WriteFailsDoes, ShapeParts, FirstIn DEF UpGets, Stations, Vacates,
       NoJob, Rooted
  <1>5. ASSUME NEW u \in Uploads, SheetFails(u) PROVE Rooted(w)'
    BY <1>5, SheetFailsDoes, ShapeParts, FirstIn DEF UpGets, Stations, Rooted
  <1>6. ASSUME NEW u \in Uploads, Finalize(u) PROVE Rooted(w)'
    BY <1>6, FinalizeDoes, ShapeParts, FirstIn DEF UpGets, Stations, JobGets,
       Rooted
  <1>7. ASSUME NEW u \in Uploads, DiscardReserved(u) PROVE Rooted(w)'
    BY <1>7, DiscardReservedDoes, ShapeParts, FirstIn DEF UpGets, Stations,
       Vacates, NoJob, Rooted
  <1>8. ASSUME NEW u \in Uploads, RemovePrivateFile(u) PROVE Rooted(w)'
    BY <1>8, RemoveDoes, ShapeParts, FirstIn DEF UpGets, Stations, Removes,
       Rooted
  <1>9. ASSUME NEW u \in Uploads, Age(u) PROVE Rooted(w)'
    BY <1>9, AgeDoes, ShapeParts, FirstIn DEF Rooted
  <1>10. ASSUME NEW c \in Confirmers, ReadUpload(c) PROVE Rooted(w)'
    BY <1>10, ReadDoes, ShapeParts, FirstIn DEF Moves, OtherConfs, Rooted
  <1>11. ASSUME NEW c \in Confirmers, Missed(c) PROVE Rooted(w)'
    BY <1>11, MissedDoes, ShapeParts, FirstIn DEF Moves, Leaves, OtherConfs,
       Idle, Rooted
  <1>12. ASSUME NEW c \in Confirmers, Link(c) PROVE Rooted(w)'
    <2>1. PICK u : u = Of(c)
      OBVIOUS
    <2>2. LinkEffect(c, u)
      BY <1>12, <2>1, LinkDoes
    <2> QED
      BY <2>1, <2>2, ShapeParts, FirstIn DEF LinkEffect, Moves, Leaves,
         OtherConfs, Idle, JobGets, SetGets, Rooted, First
  <1>13. ASSUME NEW c \in Confirmers, EnsureChunkLinks(c) PROVE Rooted(w)'
    <2>1. PICK u : u = Of(c)
      OBVIOUS
    <2>2. EnsureEffect(c, u)
      BY <1>13, <2>1, EnsureDoes
    <2> QED
      BY <2>1, <2>2, ShapeParts, FirstIn DEF EnsureEffect, Moves, Leaves,
         OtherConfs, Idle, JobGets, Opened, Rooted, First
  <1>14. ASSUME NEW c \in Confirmers, PreviewBatch(c) PROVE Rooted(w)'
    <2>1. PICK s : s = <<Of(c), conf[c].k>>
      OBVIOUS
    <2>2. PreviewEffect(c, s)
      BY <1>14, <2>1, PreviewDoes
    <2> QED
      BY <2>1, <2>2, ShapeParts, FirstIn DEF PreviewEffect, Passes, Moves,
         Leaves, OtherConfs, Idle, Rooted, First
  <1>15. ASSUME NEW c \in Confirmers, StoreBatch(c) PROVE Rooted(w)'
    <2>1. PICK s : s = <<Of(c), conf[c].k>>
      OBVIOUS
    <2>2. StoreEffect(c, s)
      BY <1>15, <2>1, StoreDoes
    <2> QED
      BY <2>1, <2>2, ShapeParts, FirstIn DEF StoreEffect, Passes, Moves, Leaves,
         OtherConfs, Idle, SetGets, Rooted, First
  <1>16. ASSUME NEW c \in Confirmers, FinishJob(c) PROVE Rooted(w)'
    <2>1. PICK u : u = Of(c)
      OBVIOUS
    <2>2. FinishEffect(c, u)
      BY <1>16, <2>1, FinishDoes
    <2> QED
      BY <2>1, <2>2, ShapeParts, FirstIn DEF FinishEffect, Moves, Leaves,
         OtherConfs, Idle, JobGets, Rooted, First
  <1>17. ASSUME NEW c \in Confirmers, ConfirmUnlink(c) PROVE Rooted(w)'
    BY <1>17, UnlinkDoes, ShapeParts, FirstIn DEF Removes, Moves, Leaves,
       OtherConfs, Idle, Rooted
  <1>18. ASSUME NEW c \in Confirmers, DropEmpty(c) PROVE Rooted(w)'
    <2>1. PICK s : s = First(Of(c))
      OBVIOUS
    <2>2. DropEffect(c, s)
      BY <1>18, <2>1, DropDoes
    <2> QED
      BY <2>1, <2>2, ShapeParts, FirstIn DEF DropEffect, Leaves, OtherConfs,
         Idle, SetGets, Rooted, First
  <1>19. ASSUME NEW c \in Confirmers, MarkRejected(c) PROVE Rooted(w)'
    <2>1. PICK u : u = Of(c)
      OBVIOUS
    <2>2. RejectEffect(c, u)
      BY <1>19, <2>1, RejectDoes
    <2> QED
      BY <2>1, <2>2, ShapeParts, FirstIn DEF RejectEffect, Moves, OtherConfs,
         JobGets, SetGets, Rooted, First
  <1>20. ASSUME NEW c \in Confirmers, NEW u \in Tabs[c], Confirm(c, u) PROVE Rooted(w)'
    <2>1. ConfirmEffect(c, u)
      BY <1>20, ConfirmDoes
    <2> QED
      BY <2>1, ShapeParts, FirstIn DEF ConfirmEffect, OtherConfs, Rooted
  <1>21. ASSUME NEW s \in Sets, Apply(s) PROVE Rooted(w)'
    BY <1>21, ApplyDoes, ShapeParts, FirstIn DEF SetGets, Rooted
  <1>22. ASSUME NEW s \in Sets, Discard(s) PROVE Rooted(w)'
    BY <1>22, DiscardDoes, ShapeParts, FirstIn DEF SetGets, Rooted
  <1>23. ASSUME CleanupUpdate PROVE Rooted(w)'
    BY <1>23, UpdateDoes, ShapeParts, FirstIn DEF Rooted
  <1>24. ASSUME CleanupDelete PROVE Rooted(w)'
    BY <1>24, DeleteDoes, ShapeParts, FirstIn DEF NoJob, Rooted
  <1>25. ASSUME CleanupFiles PROVE Rooted(w)'
    BY <1>25, FilesDoes, ShapeParts, FirstIn DEF Rooted
  <1>26. ASSUME Restart PROVE Rooted(w)'
    BY <1>26, RestartDoes, ShapeParts, FirstIn DEF Stations, Idle, Rooted
  <1>27. ASSUME KillCleanup PROVE Rooted(w)'
    BY <1>27, KillDoes, ShapeParts, FirstIn DEF Rooted
  <1>28. CASE UNCHANGED vars
    BY <1>28, ShapeParts, FirstIn DEF vars, request, Rooted
  <1> QED
    BY <1>1, <1>2, <1>3, <1>4, <1>5, <1>6, <1>7, <1>8, <1>9, <1>10, <1>11,
       <1>12, <1>13, <1>14, <1>15, <1>16, <1>17, <1>18, <1>19, <1>20, <1>21,
       <1>22, <1>23, <1>24, <1>25, <1>26, <1>27, <1>28 DEF Next, Upload,
       ConfirmMapping, Cleanup

(* Whoever works, works on a chunk.                                          *)
LEMMA BusyStep ==
    ASSUME Shaped, NEW d \in Confirmers, [Next]_vars PROVE Busy(d)'
  <1>1. ASSUME NEW u \in Uploads, Admit(u) PROVE Busy(d)'
    BY <1>1, AdmitDoes, ShapeParts, FirstIn DEF UpGets, Stations, Busy, Working,
       Of
  <1>2. ASSUME NEW u \in Uploads, ReserveJob(u) PROVE Busy(d)'
    BY <1>2, ReserveDoes, ShapeParts, FirstIn DEF UpGets, Stations, JobGets,
       Busy, Working, Of
  <1>3. ASSUME NEW u \in Uploads, WriteFile(u) PROVE Busy(d)'
    BY <1>3, WriteDoes, ShapeParts, FirstIn DEF UpGets, Stations, Stores, Busy,
       Working, Of
  <1>4. ASSUME NEW u \in Uploads, WriteFails(u) PROVE Busy(d)'
    BY <1>4, WriteFailsDoes, ShapeParts, FirstIn DEF UpGets, Stations, Vacates,
       NoJob, Busy, Working, Of
  <1>5. ASSUME NEW u \in Uploads, SheetFails(u) PROVE Busy(d)'
    BY <1>5, SheetFailsDoes, ShapeParts, FirstIn DEF UpGets, Stations, Busy,
       Working, Of
  <1>6. ASSUME NEW u \in Uploads, Finalize(u) PROVE Busy(d)'
    BY <1>6, FinalizeDoes, ShapeParts, FirstIn DEF UpGets, Stations, JobGets,
       Busy, Working, Of
  <1>7. ASSUME NEW u \in Uploads, DiscardReserved(u) PROVE Busy(d)'
    BY <1>7, DiscardReservedDoes, ShapeParts, FirstIn DEF UpGets, Stations,
       Vacates, NoJob, Busy, Working, Of
  <1>8. ASSUME NEW u \in Uploads, RemovePrivateFile(u) PROVE Busy(d)'
    BY <1>8, RemoveDoes, ShapeParts, FirstIn DEF UpGets, Stations, Removes,
       Busy, Working, Of
  <1>9. ASSUME NEW u \in Uploads, Age(u) PROVE Busy(d)'
    BY <1>9, AgeDoes, ShapeParts, FirstIn DEF Busy, Working, Of
  <1>10. ASSUME NEW c \in Confirmers, ReadUpload(c) PROVE Busy(d)'
    BY <1>10, ReadDoes, ShapeParts, FirstIn DEF Moves, OtherConfs, Busy,
       Working, Of
  <1>11. ASSUME NEW c \in Confirmers, Missed(c) PROVE Busy(d)'
    BY <1>11, MissedDoes, ShapeParts, FirstIn DEF Moves, Leaves, OtherConfs,
       Idle, Busy, Working, Of
  <1>12. ASSUME NEW c \in Confirmers, Link(c) PROVE Busy(d)'
    <2>1. PICK u : u = Of(c)
      OBVIOUS
    <2>2. LinkEffect(c, u)
      BY <1>12, <2>1, LinkDoes
    <2>3. CASE d # c
      BY <2>1, <2>2, <2>3, ConfHas, FirstIn DEF LinkEffect, Moves, Leaves,
         OtherConfs, Idle, JobGets, SetGets, Busy, Working, Of
    <2>4. CASE d = c
      BY <2>2, <2>4, ConfHas DEF LinkEffect, Moves, Leaves, Idle, JobGets,
         SetGets, Busy, Working, Of
    <2> QED BY <2>3, <2>4
  <1>13. ASSUME NEW c \in Confirmers, EnsureChunkLinks(c) PROVE Busy(d)'
    <2>1. PICK u : u = Of(c)
      OBVIOUS
    <2>2. EnsureEffect(c, u)
      BY <1>13, <2>1, EnsureDoes
    <2>3. CASE d # c
      BY <2>1, <2>2, <2>3, ConfHas, FirstIn DEF EnsureEffect, Moves, Leaves,
         OtherConfs, Idle, JobGets, Opened, Busy, Working, Of
    <2>4. CASE d = c
      BY <2>1, <2>2, <2>4, ConfHas, FirstIn DEF EnsureEffect, Moves, Leaves,
         OtherConfs, Idle, JobGets, Opened, Busy, Working, Of
    <2> QED BY <2>3, <2>4
  <1>14. ASSUME NEW c \in Confirmers, PreviewBatch(c) PROVE Busy(d)'
    <2>1. PICK s : s = <<Of(c), conf[c].k>>
      OBVIOUS
    <2>2. PreviewEffect(c, s)
      BY <1>14, <2>1, PreviewDoes
    <2>3. CASE d # c
      BY <2>1, <2>2, <2>3, ConfHas, FirstIn DEF PreviewEffect, Passes, Moves,
         Leaves, OtherConfs, Idle, Busy, Working, Of
    <2>4. CASE d = c
      BY <2>1, <2>2, <2>4, ConfHas, FirstIn DEF PreviewEffect, Passes, Moves,
         Leaves, OtherConfs, Idle, Busy, Working, Of
    <2> QED BY <2>3, <2>4
  <1>15. ASSUME NEW c \in Confirmers, StoreBatch(c) PROVE Busy(d)'
    <2>1. PICK s : s = <<Of(c), conf[c].k>>
      OBVIOUS
    <2>2. StoreEffect(c, s)
      BY <1>15, <2>1, StoreDoes
    <2>3. CASE d # c
      BY <2>1, <2>2, <2>3, ConfHas, FirstIn DEF StoreEffect, Passes, Moves,
         Leaves, OtherConfs, Idle, SetGets, Busy, Working, Of
    <2>4. CASE d = c
      BY <2>1, <2>2, <2>4, ConfHas, FirstIn DEF StoreEffect, Passes, Moves,
         Leaves, OtherConfs, Idle, SetGets, Busy, Working, Of
    <2> QED BY <2>3, <2>4
  <1>16. ASSUME NEW c \in Confirmers, FinishJob(c) PROVE Busy(d)'
    <2>1. PICK u : u = Of(c)
      OBVIOUS
    <2>2. FinishEffect(c, u)
      BY <1>16, <2>1, FinishDoes
    <2>3. CASE d # c
      BY <2>1, <2>2, <2>3, ConfHas, FirstIn DEF FinishEffect, Moves, Leaves,
         OtherConfs, Idle, JobGets, Busy, Working, Of
    <2>4. CASE d = c
      BY <2>1, <2>2, <2>4, ConfHas, FirstIn DEF FinishEffect, Moves, Leaves,
         OtherConfs, Idle, JobGets, Busy, Working, Of
    <2> QED BY <2>3, <2>4
  <1>17. ASSUME NEW c \in Confirmers, ConfirmUnlink(c) PROVE Busy(d)'
    BY <1>17, UnlinkDoes, ShapeParts, FirstIn DEF Removes, Moves, Leaves,
       OtherConfs, Idle, Busy, Working, Of
  <1>18. ASSUME NEW c \in Confirmers, DropEmpty(c) PROVE Busy(d)'
    <2>1. PICK s : s = First(Of(c))
      OBVIOUS
    <2>2. DropEffect(c, s)
      BY <1>18, <2>1, DropDoes
    <2>3. CASE d # c
      BY <2>1, <2>2, <2>3, ConfHas, FirstIn DEF DropEffect, Leaves, OtherConfs,
         Idle, SetGets, Busy, Working, Of
    <2>4. CASE d = c
      BY <2>1, <2>2, <2>4, ConfHas, FirstIn DEF DropEffect, Leaves, OtherConfs,
         Idle, SetGets, Busy, Working, Of
    <2> QED BY <2>3, <2>4
  <1>19. ASSUME NEW c \in Confirmers, MarkRejected(c) PROVE Busy(d)'
    <2>1. PICK u : u = Of(c)
      OBVIOUS
    <2>2. RejectEffect(c, u)
      BY <1>19, <2>1, RejectDoes
    <2>3. CASE d # c
      BY <2>2, ConfHas DEF RejectEffect, Moves, OtherConfs, Busy, Working, Of
    <2>4. CASE d = c
      BY <2>1, <2>2, <2>4, ConfHas, FirstIn DEF RejectEffect, Moves, OtherConfs,
         JobGets, SetGets, Busy, Working, Of
    <2> QED BY <2>3, <2>4
  <1>20. ASSUME NEW c \in Confirmers, NEW u \in Tabs[c], Confirm(c, u) PROVE Busy(d)'
    <2>1. ConfirmEffect(c, u)
      BY <1>20, ConfirmDoes
    <2>3. CASE d # c
      BY <2>1, <2>3, ConfHas, FirstIn DEF ConfirmEffect, OtherConfs, Busy,
         Working, Of
    <2>4. CASE d = c
      BY <2>1, <2>4, ConfHas, FirstIn DEF ConfirmEffect, OtherConfs, Busy,
         Working, Of
    <2> QED BY <2>3, <2>4
  <1>21. ASSUME NEW s \in Sets, Apply(s) PROVE Busy(d)'
    BY <1>21, ApplyDoes, ShapeParts, FirstIn DEF SetGets, Busy, Working, Of
  <1>22. ASSUME NEW s \in Sets, Discard(s) PROVE Busy(d)'
    BY <1>22, DiscardDoes, ShapeParts, FirstIn DEF SetGets, Busy, Working, Of
  <1>23. ASSUME CleanupUpdate PROVE Busy(d)'
    BY <1>23, UpdateDoes, ShapeParts, FirstIn DEF Busy, Working, Of
  <1>24. ASSUME CleanupDelete PROVE Busy(d)'
    BY <1>24, DeleteDoes, ShapeParts, FirstIn DEF NoJob, Busy, Working, Of
  <1>25. ASSUME CleanupFiles PROVE Busy(d)'
    BY <1>25, FilesDoes, ShapeParts, FirstIn DEF Busy, Working, Of
  <1>26. ASSUME Restart PROVE Busy(d)'
    BY <1>26, RestartDoes, ShapeParts, FirstIn DEF Stations, Idle, Busy,
       Working, Of
  <1>27. ASSUME KillCleanup PROVE Busy(d)'
    BY <1>27, KillDoes, ShapeParts, FirstIn DEF Busy, Working, Of
  <1>28. CASE UNCHANGED vars
    BY <1>28, ShapeParts, FirstIn DEF vars, request, Busy, Working, Of
  <1> QED
    BY <1>1, <1>2, <1>3, <1>4, <1>5, <1>6, <1>7, <1>8, <1>9, <1>10, <1>11,
       <1>12, <1>13, <1>14, <1>15, <1>16, <1>17, <1>18, <1>19, <1>20, <1>21,
       <1>22, <1>23, <1>24, <1>25, <1>26, <1>27, <1>28 DEF Next, Upload,
       ConfirmMapping, Cleanup

(* SpreadsheetJob keeps its shape: types, and chunks that exist.             *)
LEMMA AlwaysShaped == Spec => []Shaped
  <1>1. Init => Shaped
    BY DEF Init, Shaped, TypeOK, Busy, Working, Idle, Resting, NoJob, Job, ChangeSet, Cleaning, Confirming
  <1>2. Shaped /\ [Next]_vars => Shaped'
    <2> SUFFICES ASSUME Shaped, [Next]_vars PROVE Shaped'
      OBVIOUS
    <2>1. Types' /\ (\A u \in Uploads : Rooted(u)') /\ \A c \in Confirmers : Busy(c)'
      BY TypesStep, RootedStep, BusyStep
    <2>2. Types' /\ (\A u \in Uploads : Rooted(u))' /\ (\A c \in Confirmers : Busy(c))'
      BY <2>1
    <2>3. (Types /\ (\A u \in Uploads : Rooted(u)) /\ \A c \in Confirmers : Busy(c))' <=> Shaped'
      BY ShapeParts, PTL
    <2> QED BY <2>2, <2>3
  <1> QED BY <1>1, <1>2, PTL DEF Spec

-----------------------------------------------------------------------------
(* What the requests, the file and the cleanup know of a job.                *)

Placed(u) ==
    /\ up[u] \in {"idle", "admitted"} => job[u] = NoJob /\ \A s \in SetsOf(u) : set[s].status = "none"
    /\ up[u] \in {"write", "map"} => ~Unconfirmed(u)
    /\ up[u] = "unlink" => job[u].status = "none"
    /\ up[u] = "map" /\ ~aged[u] => file[u]
    /\ Unconfirmed(u) => file[u]
Employed(c) ==
    Working(c) => /\ up[Of(c)] \notin {"idle", "admitted", "write", "map"}
                  /\ job[Of(c)].status # "mapping_processing"
                  /\ conf[c].pc \in {"unlink", "gone", "drop"} => ~Unconfirmed(Of(c))
Swept == maint.pc = "unlink" => \A u \in maint.old : aged[u] /\ ~Unconfirmed(u)
Retiring ==
    maint.pc = "delete" => /\ \A u \in maint.old : aged[u]
                           /\ \A s \in maint.drop : s[1] \in maint.old /\ set[s].status = "pending"
Kept == (\A u \in Uploads : Placed(u)) /\ (\A c \in Confirmers : Employed(c)) /\ Swept /\ Retiring

(* A job that can be confirmed has its file.                                 *)
LEMMA PlacedStep ==
    ASSUME Shaped, Kept, NEW w \in Uploads, [Next]_vars PROVE Placed(w)'
  <1>1. ASSUME NEW u \in Uploads, Admit(u) PROVE Placed(w)'
    BY <1>1, AdmitDoes, JobHas, FirstIn, UpHas DEF UpGets, Stations, Kept,
       Placed, Employed, Swept, Retiring, Working, Of, Unconfirmed, SetsOf,
       NoJob, Reviewable, Confirmable
  <1>2. ASSUME NEW u \in Uploads, ReserveJob(u) PROVE Placed(w)'
    BY <1>2, ReserveDoes, JobHas, FirstIn, UpHas DEF UpGets, Stations, JobGets,
       Kept, Placed, Employed, Swept, Retiring, Working, Of, Unconfirmed,
       SetsOf, NoJob, Reviewable, Confirmable
  <1>3. ASSUME NEW u \in Uploads, WriteFile(u) PROVE Placed(w)'
    BY <1>3, WriteDoes, JobHas, FirstIn, UpHas DEF UpGets, Stations, Stores,
       Kept, Placed, Employed, Swept, Retiring, Working, Of, Unconfirmed,
       SetsOf, NoJob, Reviewable, Confirmable
  <1>4. ASSUME NEW u \in Uploads, WriteFails(u) PROVE Placed(w)'
    BY <1>4, WriteFailsDoes, JobHas, FirstIn, UpHas DEF UpGets, Stations,
       Vacates, NoJob, Kept, Placed, Employed, Swept, Retiring, Working, Of,
       Unconfirmed, SetsOf, Reviewable, Confirmable
  <1>5. ASSUME NEW u \in Uploads, SheetFails(u) PROVE Placed(w)'
    BY <1>5, SheetFailsDoes, JobHas, FirstIn, UpHas DEF UpGets, Stations, Kept,
       Placed, Employed, Swept, Retiring, Working, Of, Unconfirmed, SetsOf,
       NoJob, Reviewable, Confirmable
  <1>6. ASSUME NEW u \in Uploads, Finalize(u) PROVE Placed(w)'
    BY <1>6, FinalizeDoes, JobHas, FirstIn, UpHas DEF UpGets, Stations, JobGets,
       Kept, Placed, Employed, Swept, Retiring, Working, Of, Unconfirmed,
       SetsOf, NoJob, Reviewable, Confirmable
  <1>7. ASSUME NEW u \in Uploads, DiscardReserved(u) PROVE Placed(w)'
    BY <1>7, DiscardReservedDoes, JobHas, FirstIn, UpHas DEF UpGets, Stations,
       Vacates, NoJob, Kept, Placed, Employed, Swept, Retiring, Working, Of,
       Unconfirmed, SetsOf, Reviewable, Confirmable
  <1>8. ASSUME NEW u \in Uploads, RemovePrivateFile(u) PROVE Placed(w)'
    BY <1>8, RemoveDoes, JobHas, FirstIn, UpHas DEF UpGets, Stations, Removes,
       Kept, Placed, Employed, Swept, Retiring, Working, Of, Unconfirmed,
       SetsOf, NoJob, Reviewable, Confirmable
  <1>9. ASSUME NEW u \in Uploads, Age(u) PROVE Placed(w)'
    BY <1>9, AgeDoes, JobHas, FirstIn, UpHas DEF Kept, Placed, Employed, Swept,
       Retiring, Working, Of, Unconfirmed, SetsOf, NoJob, Reviewable,
       Confirmable
  <1>10. ASSUME NEW c \in Confirmers, ReadUpload(c) PROVE Placed(w)'
    BY <1>10, ReadDoes, JobHas, FirstIn, UpHas DEF Moves, OtherConfs, Kept,
       Placed, Employed, Swept, Retiring, Working, Of, Unconfirmed, SetsOf,
       NoJob, Reviewable, Confirmable
  <1>11. ASSUME NEW c \in Confirmers, Missed(c) PROVE Placed(w)'
    BY <1>11, MissedDoes, JobHas, FirstIn, UpHas DEF Moves, Leaves, OtherConfs,
       Idle, Kept, Placed, Employed, Swept, Retiring, Working, Of, Unconfirmed,
       SetsOf, NoJob, Reviewable, Confirmable
  <1>12. ASSUME NEW c \in Confirmers, Link(c) PROVE Placed(w)'
    <2>1. PICK u : u = Of(c)
      OBVIOUS
    <2>2. LinkEffect(c, u)
      BY <1>12, <2>1, LinkDoes
    <2> QED
      BY <2>2, FirstIn DEF LinkEffect, JobGets, SetGets, Kept, Placed,
         Unconfirmed, SetsOf, NoJob, Confirmable
  <1>13. ASSUME NEW c \in Confirmers, EnsureChunkLinks(c) PROVE Placed(w)'
    <2>1. PICK u : u = Of(c)
      OBVIOUS
    <2>2. EnsureEffect(c, u)
      BY <1>13, <2>1, EnsureDoes
    <2> QED
      BY <2>2 DEF EnsureEffect, Leaves, Idle, JobGets, Opened, Kept, Placed,
         Retiring, Of, Unconfirmed, SetsOf, NoJob
  <1>14. ASSUME NEW c \in Confirmers, PreviewBatch(c) PROVE Placed(w)'
    <2>1. PICK s : s = <<Of(c), conf[c].k>>
      OBVIOUS
    <2>2. PreviewEffect(c, s)
      BY <1>14, <2>1, PreviewDoes
    <2> QED
      BY <2>2 DEF PreviewEffect, Kept, Placed, Unconfirmed
  <1>15. ASSUME NEW c \in Confirmers, StoreBatch(c) PROVE Placed(w)'
    <2>1. PICK s : s = <<Of(c), conf[c].k>>
      OBVIOUS
    <2>2. StoreEffect(c, s)
      BY <1>15, <2>1, StoreDoes
    <2> QED
      BY <2>2 DEF StoreEffect, Passes, SetGets, Kept, Placed, Unconfirmed,
         SetsOf
  <1>16. ASSUME NEW c \in Confirmers, FinishJob(c) PROVE Placed(w)'
    <2>1. PICK u : u = Of(c)
      OBVIOUS
    <2>2. FinishEffect(c, u)
      BY <1>16, <2>1, FinishDoes
    <2> QED
      BY <2>2 DEF FinishEffect, Moves, Leaves, Idle, JobGets, Kept, Placed,
         Unconfirmed, NoJob
  <1>17. ASSUME NEW c \in Confirmers, ConfirmUnlink(c) PROVE Placed(w)'
    BY <1>17, UnlinkDoes, JobHas, FirstIn, UpHas DEF Removes, Moves, Leaves,
       OtherConfs, Idle, Kept, Placed, Employed, Swept, Retiring, Working, Of,
       Unconfirmed, SetsOf, NoJob, Reviewable, Confirmable
  <1>18. ASSUME NEW c \in Confirmers, DropEmpty(c) PROVE Placed(w)'
    <2>1. PICK s : s = First(Of(c))
      OBVIOUS
    <2>2. DropEffect(c, s)
      BY <1>18, <2>1, DropDoes
    <2> QED
      BY <2>1, <2>2, JobHas, FirstIn, UpHas DEF DropEffect, Leaves, OtherConfs,
         Idle, SetGets, Kept, Placed, Employed, Swept, Retiring, Working, Of,
         Unconfirmed, SetsOf, NoJob, Reviewable, Confirmable
  <1>19. ASSUME NEW c \in Confirmers, MarkRejected(c) PROVE Placed(w)'
    <2>1. PICK u : u = Of(c)
      OBVIOUS
    <2>2. RejectEffect(c, u)
      BY <1>19, <2>1, RejectDoes
    <2> QED
      BY <2>2 DEF RejectEffect, JobGets, SetGets, Kept, Placed, Unconfirmed,
         SetsOf, NoJob
  <1>20. ASSUME NEW c \in Confirmers, NEW u \in Tabs[c], Confirm(c, u) PROVE Placed(w)'
    <2>1. ConfirmEffect(c, u)
      BY <1>20, ConfirmDoes
    <2> QED
      BY <2>1, JobHas, FirstIn, UpHas DEF ConfirmEffect, OtherConfs, Kept,
         Placed, Employed, Swept, Retiring, Working, Of, Unconfirmed, SetsOf,
         NoJob, Reviewable, Confirmable
  <1>21. ASSUME NEW s \in Sets, Apply(s) PROVE Placed(w)'
    BY <1>21, ApplyDoes DEF SetGets, Kept, Placed, Employed, Swept, Retiring,
       Working, Unconfirmed, SetsOf, Reviewable
  <1>22. ASSUME NEW s \in Sets, Discard(s) PROVE Placed(w)'
    BY <1>22, DiscardDoes, JobHas, FirstIn, UpHas DEF SetGets, Kept, Placed,
       Employed, Swept, Retiring, Working, Of, Unconfirmed, SetsOf, NoJob,
       Reviewable, Confirmable
  <1>23. ASSUME CleanupUpdate PROVE Placed(w)'
    BY <1>23, UpdateDoes, JobHas, FirstIn, UpHas DEF Kept, Placed, Employed,
       Swept, Retiring, Working, Of, Unconfirmed, SetsOf, NoJob, Reviewable,
       Confirmable
  <1>24. ASSUME CleanupDelete PROVE Placed(w)'
    BY <1>24, DeleteDoes, JobHas, FirstIn, UpHas DEF NoJob, Kept, Placed,
       Employed, Swept, Retiring, Working, Of, Unconfirmed, SetsOf, Reviewable,
       Confirmable
  <1>25. ASSUME CleanupFiles PROVE Placed(w)'
    BY <1>25, FilesDoes, JobHas, FirstIn, UpHas DEF Kept, Placed, Employed,
       Swept, Retiring, Working, Of, Unconfirmed, SetsOf, NoJob, Reviewable,
       Confirmable
  <1>26. ASSUME Restart PROVE Placed(w)'
    BY <1>26, RestartDoes, JobHas, FirstIn, UpHas DEF Stations, Idle, Kept,
       Placed, Employed, Swept, Retiring, Working, Of, Unconfirmed, SetsOf,
       NoJob, Reviewable, Confirmable
  <1>27. ASSUME KillCleanup PROVE Placed(w)'
    BY <1>27, KillDoes, JobHas, FirstIn, UpHas DEF Kept, Placed, Employed,
       Swept, Retiring, Working, Of, Unconfirmed, SetsOf, NoJob, Reviewable,
       Confirmable
  <1>28. CASE UNCHANGED vars
    BY <1>28, JobHas, FirstIn, UpHas DEF vars, request, Kept, Placed, Employed,
       Swept, Retiring, Working, Of, Unconfirmed, SetsOf, NoJob, Reviewable,
       Confirmable
  <1> QED
    BY <1>1, <1>2, <1>3, <1>4, <1>5, <1>6, <1>7, <1>8, <1>9, <1>10, <1>11,
       <1>12, <1>13, <1>14, <1>15, <1>16, <1>17, <1>18, <1>19, <1>20, <1>21,
       <1>22, <1>23, <1>24, <1>25, <1>26, <1>27, <1>28 DEF Next, Upload,
       ConfirmMapping, Cleanup

(* Whoever confirms came after the upload.                                   *)
LEMMA EmployedStep ==
    ASSUME Shaped, Kept, NEW d \in Confirmers, [Next]_vars PROVE Employed(d)'
  <1>1. ASSUME NEW u \in Uploads, Admit(u) PROVE Employed(d)'
    BY <1>1, AdmitDoes, ConfHas DEF UpGets, Stations, Kept, Employed, Working,
       Of, Unconfirmed, Confirmable, Shaped, Busy
  <1>2. ASSUME NEW u \in Uploads, ReserveJob(u) PROVE Employed(d)'
    BY <1>2, ReserveDoes, ConfHas DEF UpGets, Stations, JobGets, Kept, Employed,
       Working, Of, Unconfirmed, Confirmable, Shaped, Busy
  <1>3. ASSUME NEW u \in Uploads, WriteFile(u) PROVE Employed(d)'
    BY <1>3, WriteDoes, ConfHas DEF UpGets, Stations, Stores, Kept, Employed,
       Working, Of, Unconfirmed, Confirmable, Shaped, Busy
  <1>4. ASSUME NEW u \in Uploads, WriteFails(u) PROVE Employed(d)'
    BY <1>4, WriteFailsDoes, ConfHas DEF UpGets, Stations, Vacates, NoJob, Kept,
       Employed, Working, Of, Unconfirmed, Confirmable, Shaped, Busy
  <1>5. ASSUME NEW u \in Uploads, SheetFails(u) PROVE Employed(d)'
    BY <1>5, SheetFailsDoes, ConfHas DEF UpGets, Stations, Kept, Employed,
       Working, Of, Unconfirmed, Confirmable, Shaped, Busy
  <1>6. ASSUME NEW u \in Uploads, Finalize(u) PROVE Employed(d)'
    BY <1>6, FinalizeDoes, ConfHas DEF UpGets, Stations, JobGets, Kept,
       Employed, Working, Of, Unconfirmed, Confirmable, Shaped, Busy
  <1>7. ASSUME NEW u \in Uploads, DiscardReserved(u) PROVE Employed(d)'
    BY <1>7, DiscardReservedDoes, ConfHas DEF UpGets, Stations, Vacates, NoJob,
       Kept, Employed, Working, Of, Unconfirmed, Confirmable, Shaped, Busy
  <1>8. ASSUME NEW u \in Uploads, RemovePrivateFile(u) PROVE Employed(d)'
    BY <1>8, RemoveDoes, ConfHas DEF UpGets, Stations, Removes, Kept, Employed,
       Working, Of, Unconfirmed, Confirmable, Shaped, Busy
  <1>9. ASSUME NEW u \in Uploads, Age(u) PROVE Employed(d)'
    BY <1>9, AgeDoes, ConfHas DEF Kept, Employed, Working, Of, Unconfirmed,
       Confirmable, Shaped, Busy
  <1>10. ASSUME NEW c \in Confirmers, ReadUpload(c) PROVE Employed(d)'
    BY <1>10, ReadDoes, ConfHas DEF Moves, OtherConfs, Kept, Employed, Working,
       Of, Unconfirmed, Confirmable, Shaped, Busy
  <1>11. ASSUME NEW c \in Confirmers, Missed(c) PROVE Employed(d)'
    BY <1>11, MissedDoes, ConfHas DEF Moves, Leaves, OtherConfs, Idle, Kept,
       Employed, Working, Of, Unconfirmed, Confirmable, Shaped, Busy
  <1>12. ASSUME NEW c \in Confirmers, Link(c) PROVE Employed(d)'
    <2>1. PICK u : u = Of(c)
      OBVIOUS
    <2>2. LinkEffect(c, u)
      BY <1>12, <2>1, LinkDoes
    <2>3. CASE d # c
      <3>1. conf'[d] = conf[d]
        BY <2>2, <2>3 DEF LinkEffect, Moves, Leaves, OtherConfs
      <3>2. /\ up' = up
            /\ \A v \in Uploads : \/ job'[v].status = job[v].status
                                  \/ Unconfirmed(v) /\ job'[v].status \in {"mapping_confirmed", "rejected"}
        BY <2>2 DEF LinkEffect, JobGets, Unconfirmed, Confirmable
      <3> QED BY <3>1, <3>2, ConfHas DEF Kept, Employed, Working, Of, Unconfirmed
    <2>4. CASE d = c
      <3>1. /\ conf[c].pc = "link" /\ up' = up
            /\ job'[u].status \in {job[u].status, "mapping_confirmed", "rejected"}
        BY <2>2 DEF LinkEffect, JobGets
      <3>2. \/ conf'[c].pc = "idle"
            \/ conf'[c].u = u /\ conf'[c].pc = "chunks"
            \/ conf'[c].u = u /\ conf'[c].pc = "gone" /\ job'[u].status = "rejected"
        <4>1. \/ Leaves(c) \/ Moves(c, "chunks", conf[c].k, conf[c].staged)
              \/ Moves(c, "gone", conf[c].k, conf[c].staged) /\ job'[u].status = "rejected"
          BY <2>2 DEF LinkEffect, JobGets
        <4> QED BY <2>1, <4>1 DEF Moves, Leaves, Idle, Of
      <3> QED BY <2>1, <2>4, <3>1, <3>2 DEF Kept, Employed, Working, Of, Unconfirmed
    <2> QED BY <2>3, <2>4
  <1>13. ASSUME NEW c \in Confirmers, EnsureChunkLinks(c) PROVE Employed(d)'
    <2>1. PICK u : u = Of(c)
      OBVIOUS
    <2>2. EnsureEffect(c, u)
      BY <1>13, <2>1, EnsureDoes
    <2> QED
      BY <2>2 DEF EnsureEffect, Moves, Leaves, OtherConfs, Idle, JobGets, Kept,
         Employed, Working, Of, Unconfirmed, Confirmable, Shaped, Busy
  <1>14. ASSUME NEW c \in Confirmers, PreviewBatch(c) PROVE Employed(d)'
    <2>1. PICK s : s = <<Of(c), conf[c].k>>
      OBVIOUS
    <2>2. PreviewEffect(c, s)
      BY <1>14, <2>1, PreviewDoes
    <2> QED
      BY <2>2 DEF PreviewEffect, Passes, Moves, Leaves, OtherConfs, Idle, Kept,
         Employed, Working, Of, Unconfirmed
  <1>15. ASSUME NEW c \in Confirmers, StoreBatch(c) PROVE Employed(d)'
    <2>1. PICK s : s = <<Of(c), conf[c].k>>
      OBVIOUS
    <2>2. StoreEffect(c, s)
      BY <1>15, <2>1, StoreDoes
    <2> QED
      BY <2>2 DEF StoreEffect, Passes, Moves, Leaves, OtherConfs, Idle,
         SetGets, Kept, Employed, Working, Of, Unconfirmed
  <1>16. ASSUME NEW c \in Confirmers, FinishJob(c) PROVE Employed(d)'
    <2>1. PICK u : u = Of(c)
      OBVIOUS
    <2>2. FinishEffect(c, u)
      BY <1>16, <2>1, FinishDoes
    <2>3. CASE d # c
      <3>1. conf'[d] = conf[d]
        BY <2>2, <2>3 DEF FinishEffect, Moves, Leaves, OtherConfs
      <3>2. /\ up' = up
            /\ \A v \in Uploads : \/ job'[v].status = job[v].status
                                  \/ job'[v].status \in {"staged", "rejected"}
        BY <2>2 DEF FinishEffect, JobGets, Unconfirmed, Confirmable
      <3> QED BY <3>1, <3>2, ConfHas DEF Kept, Employed, Working, Of, Unconfirmed
    <2>4. CASE d = c
      BY <2>1, <2>2, <2>4 DEF FinishEffect, Moves, Leaves, Idle, JobGets, Kept, Employed,
         Working, Of, Unconfirmed
    <2> QED BY <2>3, <2>4
  <1>17. ASSUME NEW c \in Confirmers, ConfirmUnlink(c) PROVE Employed(d)'
    BY <1>17, UnlinkDoes, ConfHas DEF Removes, Moves, Leaves, OtherConfs, Idle,
       Kept, Employed, Working, Of, Unconfirmed, Confirmable, Shaped, Busy
  <1>18. ASSUME NEW c \in Confirmers, DropEmpty(c) PROVE Employed(d)'
    <2>1. PICK s : s = First(Of(c))
      OBVIOUS
    <2>2. DropEffect(c, s)
      BY <1>18, <2>1, DropDoes
    <2> QED
      BY <2>1, <2>2, ConfHas DEF DropEffect, Leaves, OtherConfs, Idle, SetGets,
         Kept, Employed, Working, Of, Unconfirmed, Confirmable, Shaped, Busy
  <1>19. ASSUME NEW c \in Confirmers, MarkRejected(c) PROVE Employed(d)'
    <2>1. PICK u : u = Of(c)
      OBVIOUS
    <2>2. RejectEffect(c, u)
      BY <1>19, <2>1, RejectDoes
    <2>3. CASE d # c
      <3>1. conf'[d] = conf[d]
        BY <2>2, <2>3 DEF RejectEffect, Moves, Leaves, OtherConfs
      <3>2. /\ up' = up
            /\ \A v \in Uploads : \/ job'[v].status = job[v].status
                                  \/ job'[v].status \in {"staged", "rejected"}
        BY <2>2 DEF RejectEffect, JobGets, Unconfirmed, Confirmable
      <3> QED BY <3>1, <3>2, ConfHas DEF Kept, Employed, Working, Of, Unconfirmed
    <2>4. CASE d = c
      BY <2>1, <2>2, <2>4 DEF RejectEffect, Moves, Leaves, Idle, JobGets, Kept, Employed,
         Working, Of, Unconfirmed
    <2> QED BY <2>3, <2>4
  <1>20. ASSUME NEW c \in Confirmers, NEW u \in Tabs[c], Confirm(c, u) PROVE Employed(d)'
    <2>1. ConfirmEffect(c, u)
      BY <1>20, ConfirmDoes
    <2>3. CASE d # c
      BY <2>1, <2>3, ConfHas DEF ConfirmEffect, OtherConfs, Kept, Employed,
         Placed, NoJob, Working, Of, Unconfirmed
    <2>4. CASE d = c
      BY <2>1, <2>4, ConfHas DEF ConfirmEffect, OtherConfs, Kept, Employed,
         Placed, NoJob, Working, Of, Unconfirmed
    <2> QED BY <2>3, <2>4
  <1>21. ASSUME NEW s \in Sets, Apply(s) PROVE Employed(d)'
    BY <1>21, ApplyDoes, ConfHas DEF SetGets, Kept, Employed, Working, Of,
       Unconfirmed, Confirmable, Shaped, Busy
  <1>22. ASSUME NEW s \in Sets, Discard(s) PROVE Employed(d)'
    BY <1>22, DiscardDoes, ConfHas DEF SetGets, Kept, Employed, Working, Of,
       Unconfirmed, Confirmable, Shaped, Busy
  <1>23. ASSUME CleanupUpdate PROVE Employed(d)'
    BY <1>23, UpdateDoes, ConfHas DEF Kept, Employed, Working, Of, Unconfirmed,
       Confirmable, Shaped, Busy
  <1>24. ASSUME CleanupDelete PROVE Employed(d)'
    BY <1>24, DeleteDoes, ConfHas DEF NoJob, Kept, Employed, Working, Of,
       Unconfirmed, Confirmable, Shaped, Busy
  <1>25. ASSUME CleanupFiles PROVE Employed(d)'
    BY <1>25, FilesDoes, ConfHas DEF Kept, Employed, Working, Of, Unconfirmed,
       Confirmable, Shaped, Busy
  <1>26. ASSUME Restart PROVE Employed(d)'
    BY <1>26, RestartDoes, ConfHas DEF Stations, Idle, Kept, Employed, Working,
       Of, Unconfirmed, Confirmable, Shaped, Busy
  <1>27. ASSUME KillCleanup PROVE Employed(d)'
    BY <1>27, KillDoes, ConfHas DEF Kept, Employed, Working, Of, Unconfirmed,
       Confirmable, Shaped, Busy
  <1>28. CASE UNCHANGED vars
    BY <1>28, ConfHas DEF vars, request, Kept, Employed, Working, Of,
       Unconfirmed, Confirmable, Shaped, Busy
  <1> QED
    BY <1>1, <1>2, <1>3, <1>4, <1>5, <1>6, <1>7, <1>8, <1>9, <1>10, <1>11,
       <1>12, <1>13, <1>14, <1>15, <1>16, <1>17, <1>18, <1>19, <1>20, <1>21,
       <1>22, <1>23, <1>24, <1>25, <1>26, <1>27, <1>28 DEF Next, Upload,
       ConfirmMapping, Cleanup

(* A file is swept after its job.                                            *)
LEMMA SweptStep ==
    ASSUME Shaped, Kept, [Next]_vars PROVE Swept'
  <1>1. ASSUME NEW u \in Uploads, Admit(u) PROVE Swept'
    BY <1>1, AdmitDoes, UpHas DEF UpGets, Stations, Kept, Swept, Unconfirmed,
       NoJob, Cleaning, Confirmable
  <1>2. ASSUME NEW u \in Uploads, ReserveJob(u) PROVE Swept'
    BY <1>2, ReserveDoes, UpHas DEF UpGets, Stations, JobGets, Kept, Swept,
       Unconfirmed, NoJob, Cleaning, Confirmable
  <1>3. ASSUME NEW u \in Uploads, WriteFile(u) PROVE Swept'
    BY <1>3, WriteDoes, UpHas DEF UpGets, Stations, Stores, Kept, Swept,
       Unconfirmed, NoJob, Cleaning, Confirmable
  <1>4. ASSUME NEW u \in Uploads, WriteFails(u) PROVE Swept'
    BY <1>4, WriteFailsDoes, UpHas DEF UpGets, Stations, Vacates, NoJob, Kept,
       Swept, Unconfirmed, Cleaning, Confirmable
  <1>5. ASSUME NEW u \in Uploads, SheetFails(u) PROVE Swept'
    BY <1>5, SheetFailsDoes, UpHas DEF UpGets, Stations, Kept, Swept,
       Unconfirmed, NoJob, Cleaning, Confirmable
  <1>6. ASSUME NEW u \in Uploads, Finalize(u) PROVE Swept'
    BY <1>6, FinalizeDoes, UpHas DEF UpGets, Stations, JobGets, Kept, Swept,
       Unconfirmed, NoJob, Cleaning, Confirmable
  <1>7. ASSUME NEW u \in Uploads, DiscardReserved(u) PROVE Swept'
    BY <1>7, DiscardReservedDoes, UpHas DEF UpGets, Stations, Vacates, NoJob,
       Kept, Swept, Unconfirmed, Cleaning, Confirmable
  <1>8. ASSUME NEW u \in Uploads, RemovePrivateFile(u) PROVE Swept'
    BY <1>8, RemoveDoes, UpHas DEF UpGets, Stations, Removes, Kept, Swept,
       Unconfirmed, NoJob, Cleaning, Confirmable
  <1>9. ASSUME NEW u \in Uploads, Age(u) PROVE Swept'
    BY <1>9, AgeDoes, UpHas DEF Kept, Swept, Unconfirmed, NoJob, Cleaning,
       Confirmable
  <1>10. ASSUME NEW c \in Confirmers, ReadUpload(c) PROVE Swept'
    BY <1>10, ReadDoes, UpHas DEF Moves, OtherConfs, Kept, Swept, Unconfirmed,
       NoJob, Cleaning, Confirmable
  <1>11. ASSUME NEW c \in Confirmers, Missed(c) PROVE Swept'
    BY <1>11, MissedDoes, UpHas DEF Moves, Leaves, OtherConfs, Idle, Kept,
       Swept, Unconfirmed, NoJob, Cleaning, Confirmable
  <1>12. ASSUME NEW c \in Confirmers, Link(c) PROVE Swept'
    <2>1. PICK u : u = Of(c)
      OBVIOUS
    <2>2. LinkEffect(c, u)
      BY <1>12, <2>1, LinkDoes
    <2> QED
      BY <2>1, <2>2, UpHas DEF LinkEffect, Moves, Leaves, OtherConfs, Idle,
         JobGets, SetGets, Kept, Swept, Unconfirmed, NoJob, Cleaning,
         Confirmable
  <1>13. ASSUME NEW c \in Confirmers, EnsureChunkLinks(c) PROVE Swept'
    <2>1. PICK u : u = Of(c)
      OBVIOUS
    <2>2. EnsureEffect(c, u)
      BY <1>13, <2>1, EnsureDoes
    <2> QED
      BY <2>1, <2>2, UpHas DEF EnsureEffect, Moves, Leaves, OtherConfs, Idle,
         JobGets, Opened, Kept, Swept, Unconfirmed, NoJob, Cleaning, Confirmable
  <1>14. ASSUME NEW c \in Confirmers, PreviewBatch(c) PROVE Swept'
    <2>1. PICK s : s = <<Of(c), conf[c].k>>
      OBVIOUS
    <2>2. PreviewEffect(c, s)
      BY <1>14, <2>1, PreviewDoes
    <2> QED
      BY <2>1, <2>2, UpHas DEF PreviewEffect, Passes, Moves, Leaves, OtherConfs,
         Idle, Kept, Swept, Unconfirmed, NoJob, Cleaning, Confirmable
  <1>15. ASSUME NEW c \in Confirmers, StoreBatch(c) PROVE Swept'
    <2>1. PICK s : s = <<Of(c), conf[c].k>>
      OBVIOUS
    <2>2. StoreEffect(c, s)
      BY <1>15, <2>1, StoreDoes
    <2> QED
      BY <2>1, <2>2, UpHas DEF StoreEffect, Passes, Moves, Leaves, OtherConfs,
         Idle, SetGets, Kept, Swept, Unconfirmed, NoJob, Cleaning, Confirmable
  <1>16. ASSUME NEW c \in Confirmers, FinishJob(c) PROVE Swept'
    <2>1. PICK u : u = Of(c)
      OBVIOUS
    <2>2. FinishEffect(c, u)
      BY <1>16, <2>1, FinishDoes
    <2> QED
      BY <2>1, <2>2, UpHas DEF FinishEffect, Moves, Leaves, OtherConfs, Idle,
         JobGets, Kept, Swept, Unconfirmed, NoJob, Cleaning, Confirmable
  <1>17. ASSUME NEW c \in Confirmers, ConfirmUnlink(c) PROVE Swept'
    BY <1>17, UnlinkDoes, UpHas DEF Removes, Moves, Leaves, OtherConfs, Idle,
       Kept, Swept, Unconfirmed, NoJob, Cleaning, Confirmable
  <1>18. ASSUME NEW c \in Confirmers, DropEmpty(c) PROVE Swept'
    <2>1. PICK s : s = First(Of(c))
      OBVIOUS
    <2>2. DropEffect(c, s)
      BY <1>18, <2>1, DropDoes
    <2> QED
      BY <2>1, <2>2, UpHas DEF DropEffect, Leaves, OtherConfs, Idle, SetGets,
         Kept, Swept, Unconfirmed, NoJob, Cleaning, Confirmable
  <1>19. ASSUME NEW c \in Confirmers, MarkRejected(c) PROVE Swept'
    <2>1. PICK u : u = Of(c)
      OBVIOUS
    <2>2. RejectEffect(c, u)
      BY <1>19, <2>1, RejectDoes
    <2> QED
      BY <2>1, <2>2, UpHas DEF RejectEffect, Moves, OtherConfs, JobGets,
         SetGets, Kept, Swept, Unconfirmed, NoJob, Cleaning, Confirmable
  <1>20. ASSUME NEW c \in Confirmers, NEW u \in Tabs[c], Confirm(c, u) PROVE Swept'
    <2>1. ConfirmEffect(c, u)
      BY <1>20, ConfirmDoes
    <2> QED
      BY <2>1, UpHas DEF ConfirmEffect, OtherConfs, Kept, Swept, Unconfirmed,
         NoJob, Cleaning, Confirmable
  <1>21. ASSUME NEW s \in Sets, Apply(s) PROVE Swept'
    BY <1>21, ApplyDoes, UpHas DEF SetGets, Kept, Swept, Unconfirmed, NoJob,
       Cleaning, Confirmable
  <1>22. ASSUME NEW s \in Sets, Discard(s) PROVE Swept'
    BY <1>22, DiscardDoes, UpHas DEF SetGets, Kept, Swept, Unconfirmed, NoJob,
       Cleaning, Confirmable
  <1>23. ASSUME CleanupUpdate PROVE Swept'
    BY <1>23, UpdateDoes, UpHas DEF Kept, Swept, Unconfirmed, NoJob, Cleaning,
       Confirmable
  <1>24. ASSUME CleanupDelete PROVE Swept'
    BY <1>24, DeleteDoes, UpHas DEF NoJob, Kept, Swept, Unconfirmed, Cleaning,
       Confirmable
  <1>25. ASSUME CleanupFiles PROVE Swept'
    BY <1>25, FilesDoes, UpHas DEF Kept, Swept, Unconfirmed, NoJob, Cleaning,
       Confirmable
  <1>26. ASSUME Restart PROVE Swept'
    BY <1>26, RestartDoes, UpHas DEF Stations, Idle, Kept, Swept, Unconfirmed,
       NoJob, Cleaning, Confirmable
  <1>27. ASSUME KillCleanup PROVE Swept'
    BY <1>27, KillDoes, UpHas DEF Kept, Swept, Unconfirmed, NoJob, Cleaning,
       Confirmable
  <1>28. CASE UNCHANGED vars
    BY <1>28, UpHas DEF vars, request, Kept, Swept, Unconfirmed, NoJob,
       Cleaning, Confirmable
  <1> QED
    BY <1>1, <1>2, <1>3, <1>4, <1>5, <1>6, <1>7, <1>8, <1>9, <1>10, <1>11,
       <1>12, <1>13, <1>14, <1>15, <1>16, <1>17, <1>18, <1>19, <1>20, <1>21,
       <1>22, <1>23, <1>24, <1>25, <1>26, <1>27, <1>28 DEF Next, Upload,
       ConfirmMapping, Cleanup

(* A set that the open cleanup has taken stays as it was.                    *)
LEMMA RetiringStep ==
    ASSUME Shaped, Kept, [Next]_vars PROVE Retiring'
  <1>1. ASSUME NEW u \in Uploads, Admit(u) PROVE Retiring'
    BY <1>1, AdmitDoes, UpHas, FirstIn DEF UpGets, Stations, Kept, Retiring,
       Held, Reviewable, Unfinished, Cleaning
  <1>2. ASSUME NEW u \in Uploads, ReserveJob(u) PROVE Retiring'
    BY <1>2, ReserveDoes, UpHas, FirstIn DEF UpGets, Stations, JobGets, Kept,
       Retiring, Held, Reviewable, Unfinished, Cleaning
  <1>3. ASSUME NEW u \in Uploads, WriteFile(u) PROVE Retiring'
    BY <1>3, WriteDoes, UpHas, FirstIn DEF UpGets, Stations, Stores, Kept,
       Retiring, Held, Reviewable, Unfinished, Cleaning
  <1>4. ASSUME NEW u \in Uploads, WriteFails(u) PROVE Retiring'
    BY <1>4, WriteFailsDoes, UpHas, FirstIn DEF UpGets, Stations, Vacates,
       NoJob, Kept, Retiring, Held, Reviewable, Unfinished, Cleaning
  <1>5. ASSUME NEW u \in Uploads, SheetFails(u) PROVE Retiring'
    BY <1>5, SheetFailsDoes, UpHas, FirstIn DEF UpGets, Stations, Kept,
       Retiring, Held, Reviewable, Unfinished, Cleaning
  <1>6. ASSUME NEW u \in Uploads, Finalize(u) PROVE Retiring'
    BY <1>6, FinalizeDoes, UpHas, FirstIn DEF UpGets, Stations, JobGets, Kept,
       Retiring, Held, Reviewable, Unfinished, Cleaning
  <1>7. ASSUME NEW u \in Uploads, DiscardReserved(u) PROVE Retiring'
    BY <1>7, DiscardReservedDoes, UpHas, FirstIn DEF UpGets, Stations, Vacates,
       NoJob, Kept, Retiring, Held, Reviewable, Unfinished, Cleaning
  <1>8. ASSUME NEW u \in Uploads, RemovePrivateFile(u) PROVE Retiring'
    BY <1>8, RemoveDoes, UpHas, FirstIn DEF UpGets, Stations, Removes, Kept,
       Retiring, Held, Reviewable, Unfinished, Cleaning
  <1>9. ASSUME NEW u \in Uploads, Age(u) PROVE Retiring'
    BY <1>9, AgeDoes, UpHas, FirstIn DEF Kept, Retiring, Held, Reviewable,
       Unfinished, Cleaning
  <1>10. ASSUME NEW c \in Confirmers, ReadUpload(c) PROVE Retiring'
    BY <1>10, ReadDoes, UpHas, FirstIn DEF Moves, OtherConfs, Kept, Retiring,
       Held, Reviewable, Unfinished, Cleaning
  <1>11. ASSUME NEW c \in Confirmers, Missed(c) PROVE Retiring'
    BY <1>11, MissedDoes, UpHas, FirstIn DEF Moves, Leaves, OtherConfs, Idle,
       Kept, Retiring, Held, Reviewable, Unfinished, Cleaning
  <1>12. ASSUME NEW c \in Confirmers, Link(c) PROVE Retiring'
    <2>1. PICK u : u = Of(c)
      OBVIOUS
    <2>2. LinkEffect(c, u)
      BY <1>12, <2>1, LinkDoes
    <2> QED
      BY <2>1, <2>2, UpHas, FirstIn DEF LinkEffect, Moves, Leaves, OtherConfs,
         Idle, JobGets, SetGets, Kept, Retiring, Held, Reviewable, Unfinished,
         Cleaning
  <1>13. ASSUME NEW c \in Confirmers, EnsureChunkLinks(c) PROVE Retiring'
    <2>1. PICK u : u = Of(c)
      OBVIOUS
    <2>2. EnsureEffect(c, u)
      BY <1>13, <2>1, EnsureDoes
    <2> QED
      BY <2>1, <2>2, UpHas, FirstIn DEF EnsureEffect, Moves, Leaves, OtherConfs,
         Idle, JobGets, Opened, Kept, Retiring, Held, Reviewable, Unfinished,
         Cleaning
  <1>14. ASSUME NEW c \in Confirmers, PreviewBatch(c) PROVE Retiring'
    <2>1. PICK s : s = <<Of(c), conf[c].k>>
      OBVIOUS
    <2>2. PreviewEffect(c, s)
      BY <1>14, <2>1, PreviewDoes
    <2> QED
      BY <2>1, <2>2, UpHas, FirstIn DEF PreviewEffect, Passes, Moves, Leaves,
         OtherConfs, Idle, Kept, Retiring, Held, Reviewable, Unfinished,
         Cleaning
  <1>15. ASSUME NEW c \in Confirmers, StoreBatch(c) PROVE Retiring'
    <2>1. PICK s : s = <<Of(c), conf[c].k>>
      OBVIOUS
    <2>2. StoreEffect(c, s)
      BY <1>15, <2>1, StoreDoes
    <2> QED
      BY <2>1, <2>2, UpHas, FirstIn DEF StoreEffect, Passes, Moves, Leaves,
         OtherConfs, Idle, SetGets, Kept, Retiring, Held, Reviewable,
         Unfinished, Cleaning
  <1>16. ASSUME NEW c \in Confirmers, FinishJob(c) PROVE Retiring'
    <2>1. PICK u : u = Of(c)
      OBVIOUS
    <2>2. FinishEffect(c, u)
      BY <1>16, <2>1, FinishDoes
    <2> QED
      BY <2>1, <2>2, UpHas, FirstIn DEF FinishEffect, Moves, Leaves, OtherConfs,
         Idle, JobGets, Kept, Retiring, Held, Reviewable, Unfinished, Cleaning
  <1>17. ASSUME NEW c \in Confirmers, ConfirmUnlink(c) PROVE Retiring'
    BY <1>17, UnlinkDoes, UpHas, FirstIn DEF Removes, Moves, Leaves, OtherConfs,
       Idle, Kept, Retiring, Held, Reviewable, Unfinished, Cleaning
  <1>18. ASSUME NEW c \in Confirmers, DropEmpty(c) PROVE Retiring'
    <2>1. PICK s : s = First(Of(c))
      OBVIOUS
    <2>2. DropEffect(c, s)
      BY <1>18, <2>1, DropDoes
    <2> QED
      BY <2>1, <2>2, UpHas, FirstIn DEF DropEffect, Leaves, OtherConfs, Idle,
         SetGets, Kept, Retiring, Held, Reviewable, Unfinished, Cleaning
  <1>19. ASSUME NEW c \in Confirmers, MarkRejected(c) PROVE Retiring'
    <2>1. PICK u : u = Of(c)
      OBVIOUS
    <2>2. RejectEffect(c, u)
      BY <1>19, <2>1, RejectDoes
    <2> QED
      BY <2>1, <2>2, UpHas, FirstIn DEF RejectEffect, Moves, OtherConfs,
         JobGets, SetGets, Kept, Retiring, Held, Reviewable, Unfinished,
         Cleaning
  <1>20. ASSUME NEW c \in Confirmers, NEW u \in Tabs[c], Confirm(c, u) PROVE Retiring'
    <2>1. ConfirmEffect(c, u)
      BY <1>20, ConfirmDoes
    <2> QED
      BY <2>1, UpHas, FirstIn DEF ConfirmEffect, OtherConfs, Kept, Retiring,
         Held, Reviewable, Unfinished, Cleaning
  <1>21. ASSUME NEW s \in Sets, Apply(s) PROVE Retiring'
    BY <1>21, ApplyDoes, UpHas, FirstIn DEF SetGets, Kept, Retiring, Held,
       Reviewable, Unfinished, Cleaning
  <1>22. ASSUME NEW s \in Sets, Discard(s) PROVE Retiring'
    BY <1>22, DiscardDoes, UpHas, FirstIn DEF SetGets, Kept, Retiring, Held,
       Reviewable, Unfinished, Cleaning
  <1>23. ASSUME CleanupUpdate PROVE Retiring'
    BY <1>23, UpdateDoes, UpHas, FirstIn DEF Kept, Retiring, Held, Reviewable,
       Unfinished, Cleaning
  <1>24. ASSUME CleanupDelete PROVE Retiring'
    BY <1>24, DeleteDoes, UpHas, FirstIn DEF NoJob, Kept, Retiring, Held,
       Reviewable, Unfinished, Cleaning
  <1>25. ASSUME CleanupFiles PROVE Retiring'
    BY <1>25, FilesDoes, UpHas, FirstIn DEF Kept, Retiring, Held, Reviewable,
       Unfinished, Cleaning
  <1>26. ASSUME Restart PROVE Retiring'
    BY <1>26, RestartDoes, UpHas, FirstIn DEF Stations, Idle, Kept, Retiring,
       Held, Reviewable, Unfinished, Cleaning
  <1>27. ASSUME KillCleanup PROVE Retiring'
    BY <1>27, KillDoes, UpHas, FirstIn DEF Kept, Retiring, Held, Reviewable,
       Unfinished, Cleaning
  <1>28. CASE UNCHANGED vars
    BY <1>28, UpHas, FirstIn DEF vars, request, Kept, Retiring, Held,
       Reviewable, Unfinished, Cleaning
  <1> QED
    BY <1>1, <1>2, <1>3, <1>4, <1>5, <1>6, <1>7, <1>8, <1>9, <1>10, <1>11,
       <1>12, <1>13, <1>14, <1>15, <1>16, <1>17, <1>18, <1>19, <1>20, <1>21,
       <1>22, <1>23, <1>24, <1>25, <1>26, <1>27, <1>28 DEF Next, Upload,
       ConfirmMapping, Cleanup

(* The file of a job that can be confirmed is kept.                          *)
LEMMA AlwaysKept == Spec => []Kept
  <1>1. Init => Kept
    BY DEF Init, Kept, Placed, Employed, Swept, Retiring, Working, Idle, Resting, NoJob, Unconfirmed, SetsOf
  <1>2. Shaped /\ Shaped' /\ Kept /\ [Next]_vars => Kept'
    <2> SUFFICES ASSUME Shaped, Kept, [Next]_vars PROVE Kept'
      OBVIOUS
    <2>1. (\A u \in Uploads : Placed(u)') /\ (\A c \in Confirmers : Employed(c)') /\ Swept' /\ Retiring'
      BY PlacedStep, EmployedStep, SweptStep, RetiringStep
    <2> QED BY <2>1 DEF Kept
  <1> QED BY <1>1, <1>2, AlwaysShaped, PTL DEF Spec

-----------------------------------------------------------------------------
(* The places.                                                               *)

LiveIn(S) == {u \in S : Live(u)}
Counted ==
    /\ IsFiniteSet(LiveIn(Uploads))
    /\ LiveJobs(Uploads) <= GlobalCap
    /\ \A u \in Uploads : LiveJobs(SameOwner(u)) <= UserCap
    /\ \A u \in Uploads : up[u] = "admitted" => LockFree(u) /\ Room(u)

Reserves(u) == up[u] = "admitted" /\ up'[u] = "write"
Enters(u) ==
    /\ up[u] = "idle" /\ LockFree(u) /\ Room(u) /\ UNCHANGED <<job, aged>>
    /\ \A v \in Uploads \ {u} : up'[v] = up[v]

(* A job comes to live by a reservation, a place is given by an admission.   *)
LEMMA LiveStep ==
    ASSUME Shaped, Kept, NEW w \in Uploads, [Next]_vars PROVE (Live(w)' => Live(w) \/ Reserves(w))
  <1>1. ASSUME NEW u \in Uploads, Admit(u) PROVE (Live(w)' => Live(w) \/ Reserves(w))
    BY <1>1, AdmitDoes, JobHas, UpHas DEF UpGets, Stations, Live, Reserves,
       Kept, Unconfirmed, Confirmable
  <1>2. ASSUME NEW u \in Uploads, ReserveJob(u) PROVE (Live(w)' => Live(w) \/ Reserves(w))
    BY <1>2, ReserveDoes, JobHas, UpHas DEF UpGets, Stations, JobGets, Live,
       Reserves, Kept, Unconfirmed, Confirmable
  <1>3. ASSUME NEW u \in Uploads, WriteFile(u) PROVE (Live(w)' => Live(w) \/ Reserves(w))
    BY <1>3, WriteDoes, JobHas, UpHas DEF UpGets, Stations, Stores, Live,
       Reserves, Kept, Unconfirmed, Confirmable
  <1>4. ASSUME NEW u \in Uploads, WriteFails(u) PROVE (Live(w)' => Live(w) \/ Reserves(w))
    BY <1>4, WriteFailsDoes, JobHas, UpHas DEF UpGets, Stations, Vacates, NoJob,
       Live, Reserves, Kept, Unconfirmed, Confirmable
  <1>5. ASSUME NEW u \in Uploads, SheetFails(u) PROVE (Live(w)' => Live(w) \/ Reserves(w))
    BY <1>5, SheetFailsDoes, JobHas, UpHas DEF UpGets, Stations, Live, Reserves,
       Kept, Unconfirmed, Confirmable
  <1>6. ASSUME NEW u \in Uploads, Finalize(u) PROVE (Live(w)' => Live(w) \/ Reserves(w))
    BY <1>6, FinalizeDoes, JobHas, UpHas DEF UpGets, Stations, JobGets, Live,
       Reserves, Kept, Unconfirmed, Confirmable
  <1>7. ASSUME NEW u \in Uploads, DiscardReserved(u) PROVE (Live(w)' => Live(w) \/ Reserves(w))
    BY <1>7, DiscardReservedDoes, JobHas, UpHas DEF UpGets, Stations, Vacates,
       NoJob, Live, Reserves, Kept, Unconfirmed, Confirmable
  <1>8. ASSUME NEW u \in Uploads, RemovePrivateFile(u) PROVE (Live(w)' => Live(w) \/ Reserves(w))
    BY <1>8, RemoveDoes, JobHas, UpHas DEF UpGets, Stations, Removes, Live,
       Reserves, Kept, Unconfirmed, Confirmable
  <1>9. ASSUME NEW u \in Uploads, Age(u) PROVE (Live(w)' => Live(w) \/ Reserves(w))
    BY <1>9, AgeDoes, JobHas, UpHas DEF Live, Reserves, Kept, Unconfirmed,
       Confirmable
  <1>10. ASSUME NEW c \in Confirmers, ReadUpload(c) PROVE (Live(w)' => Live(w) \/ Reserves(w))
    BY <1>10, ReadDoes, JobHas, UpHas DEF Moves, OtherConfs, Live, Reserves,
       Kept, Unconfirmed, Confirmable
  <1>11. ASSUME NEW c \in Confirmers, Missed(c) PROVE (Live(w)' => Live(w) \/ Reserves(w))
    BY <1>11, MissedDoes, JobHas, UpHas DEF Moves, Leaves, OtherConfs, Idle,
       Live, Reserves, Kept, Unconfirmed, Confirmable
  <1>12. ASSUME NEW c \in Confirmers, Link(c) PROVE (Live(w)' => Live(w) \/ Reserves(w))
    <2>1. PICK u : u = Of(c)
      OBVIOUS
    <2>2. LinkEffect(c, u)
      BY <1>12, <2>1, LinkDoes
    <2> QED
      BY <2>1, <2>2, JobHas, UpHas DEF LinkEffect, Moves, Leaves, OtherConfs,
         Idle, JobGets, SetGets, Live, Reserves, Kept, Unconfirmed, Confirmable
  <1>13. ASSUME NEW c \in Confirmers, EnsureChunkLinks(c) PROVE (Live(w)' => Live(w) \/ Reserves(w))
    <2>1. PICK u : u = Of(c)
      OBVIOUS
    <2>2. EnsureEffect(c, u)
      BY <1>13, <2>1, EnsureDoes
    <2> QED
      BY <2>1, <2>2, JobHas, UpHas DEF EnsureEffect, Moves, Leaves, OtherConfs,
         Idle, JobGets, Opened, Live, Reserves, Kept, Unconfirmed, Confirmable
  <1>14. ASSUME NEW c \in Confirmers, PreviewBatch(c) PROVE (Live(w)' => Live(w) \/ Reserves(w))
    <2>1. PICK s : s = <<Of(c), conf[c].k>>
      OBVIOUS
    <2>2. PreviewEffect(c, s)
      BY <1>14, <2>1, PreviewDoes
    <2> QED
      BY <2>1, <2>2, JobHas, UpHas DEF PreviewEffect, Passes, Moves, Leaves,
         OtherConfs, Idle, Live, Reserves, Kept, Unconfirmed, Confirmable
  <1>15. ASSUME NEW c \in Confirmers, StoreBatch(c) PROVE (Live(w)' => Live(w) \/ Reserves(w))
    <2>1. PICK s : s = <<Of(c), conf[c].k>>
      OBVIOUS
    <2>2. StoreEffect(c, s)
      BY <1>15, <2>1, StoreDoes
    <2> QED
      BY <2>1, <2>2, JobHas, UpHas DEF StoreEffect, Passes, Moves, Leaves,
         OtherConfs, Idle, SetGets, Live, Reserves, Kept, Unconfirmed,
         Confirmable
  <1>16. ASSUME NEW c \in Confirmers, FinishJob(c) PROVE (Live(w)' => Live(w) \/ Reserves(w))
    <2>1. PICK u : u = Of(c)
      OBVIOUS
    <2>2. FinishEffect(c, u)
      BY <1>16, <2>1, FinishDoes
    <2> QED
      BY <2>1, <2>2, JobHas, UpHas DEF FinishEffect, Moves, Leaves, OtherConfs,
         Idle, JobGets, Live, Reserves, Kept, Unconfirmed, Confirmable
  <1>17. ASSUME NEW c \in Confirmers, ConfirmUnlink(c) PROVE (Live(w)' => Live(w) \/ Reserves(w))
    BY <1>17, UnlinkDoes, JobHas, UpHas DEF Removes, Moves, Leaves, OtherConfs,
       Idle, Live, Reserves, Kept, Unconfirmed, Confirmable
  <1>18. ASSUME NEW c \in Confirmers, DropEmpty(c) PROVE (Live(w)' => Live(w) \/ Reserves(w))
    <2>1. PICK s : s = First(Of(c))
      OBVIOUS
    <2>2. DropEffect(c, s)
      BY <1>18, <2>1, DropDoes
    <2> QED
      BY <2>1, <2>2, JobHas, UpHas DEF DropEffect, Leaves, OtherConfs, Idle,
         SetGets, Live, Reserves, Kept, Unconfirmed, Confirmable
  <1>19. ASSUME NEW c \in Confirmers, MarkRejected(c) PROVE (Live(w)' => Live(w) \/ Reserves(w))
    <2>1. PICK u : u = Of(c)
      OBVIOUS
    <2>2. RejectEffect(c, u)
      BY <1>19, <2>1, RejectDoes
    <2> QED
      BY <2>1, <2>2, JobHas, UpHas DEF RejectEffect, Moves, OtherConfs, JobGets,
         SetGets, Live, Reserves, Kept, Unconfirmed, Confirmable
  <1>20. ASSUME NEW c \in Confirmers, NEW u \in Tabs[c], Confirm(c, u) PROVE (Live(w)' => Live(w) \/ Reserves(w))
    <2>1. ConfirmEffect(c, u)
      BY <1>20, ConfirmDoes
    <2> QED
      BY <2>1, JobHas, UpHas DEF ConfirmEffect, OtherConfs, Live, Reserves,
         Kept, Unconfirmed, Confirmable
  <1>21. ASSUME NEW s \in Sets, Apply(s) PROVE (Live(w)' => Live(w) \/ Reserves(w))
    BY <1>21, ApplyDoes, JobHas, UpHas DEF SetGets, Live, Reserves, Kept,
       Unconfirmed, Confirmable
  <1>22. ASSUME NEW s \in Sets, Discard(s) PROVE (Live(w)' => Live(w) \/ Reserves(w))
    BY <1>22, DiscardDoes, JobHas, UpHas DEF SetGets, Live, Reserves, Kept,
       Unconfirmed, Confirmable
  <1>23. ASSUME CleanupUpdate PROVE (Live(w)' => Live(w) \/ Reserves(w))
    BY <1>23, UpdateDoes, JobHas, UpHas DEF Live, Reserves, Kept, Unconfirmed,
       Confirmable
  <1>24. ASSUME CleanupDelete PROVE (Live(w)' => Live(w) \/ Reserves(w))
    BY <1>24, DeleteDoes, JobHas, UpHas DEF NoJob, Live, Reserves, Kept,
       Unconfirmed, Confirmable
  <1>25. ASSUME CleanupFiles PROVE (Live(w)' => Live(w) \/ Reserves(w))
    BY <1>25, FilesDoes, JobHas, UpHas DEF Live, Reserves, Kept, Unconfirmed,
       Confirmable
  <1>26. ASSUME Restart PROVE (Live(w)' => Live(w) \/ Reserves(w))
    BY <1>26, RestartDoes, JobHas, UpHas DEF Stations, Idle, Live, Reserves,
       Kept, Unconfirmed, Confirmable
  <1>27. ASSUME KillCleanup PROVE (Live(w)' => Live(w) \/ Reserves(w))
    BY <1>27, KillDoes, JobHas, UpHas DEF Live, Reserves, Kept, Unconfirmed,
       Confirmable
  <1>28. CASE UNCHANGED vars
    BY <1>28, JobHas, UpHas DEF vars, request, Live, Reserves, Kept,
       Unconfirmed, Confirmable
  <1> QED
    BY <1>1, <1>2, <1>3, <1>4, <1>5, <1>6, <1>7, <1>8, <1>9, <1>10, <1>11,
       <1>12, <1>13, <1>14, <1>15, <1>16, <1>17, <1>18, <1>19, <1>20, <1>21,
       <1>22, <1>23, <1>24, <1>25, <1>26, <1>27, <1>28 DEF Next, Upload,
       ConfirmMapping, Cleanup

(* Nobody is let in but by an admission.                                     *)
LEMMA EntryStep ==
    ASSUME Shaped, Kept, NEW w \in Uploads, [Next]_vars PROVE (up'[w] = "admitted" => up[w] = "admitted" \/ Enters(w))
  <1>1. ASSUME NEW u \in Uploads, Admit(u) PROVE (up'[w] = "admitted" => up[w] = "admitted" \/ Enters(w))
    BY <1>1, AdmitDoes, UpHas DEF UpGets, Stations, Enters
  <1>2. ASSUME NEW u \in Uploads, ReserveJob(u) PROVE (up'[w] = "admitted" => up[w] = "admitted" \/ Enters(w))
    BY <1>2, ReserveDoes, UpHas DEF UpGets, Stations, JobGets, Enters
  <1>3. ASSUME NEW u \in Uploads, WriteFile(u) PROVE (up'[w] = "admitted" => up[w] = "admitted" \/ Enters(w))
    BY <1>3, WriteDoes, UpHas DEF UpGets, Stations, Stores, Enters
  <1>4. ASSUME NEW u \in Uploads, WriteFails(u) PROVE (up'[w] = "admitted" => up[w] = "admitted" \/ Enters(w))
    BY <1>4, WriteFailsDoes, UpHas DEF UpGets, Stations, Vacates, NoJob, Enters
  <1>5. ASSUME NEW u \in Uploads, SheetFails(u) PROVE (up'[w] = "admitted" => up[w] = "admitted" \/ Enters(w))
    BY <1>5, SheetFailsDoes, UpHas DEF UpGets, Stations, Enters
  <1>6. ASSUME NEW u \in Uploads, Finalize(u) PROVE (up'[w] = "admitted" => up[w] = "admitted" \/ Enters(w))
    BY <1>6, FinalizeDoes, UpHas DEF UpGets, Stations, JobGets, Enters
  <1>7. ASSUME NEW u \in Uploads, DiscardReserved(u) PROVE (up'[w] = "admitted" => up[w] = "admitted" \/ Enters(w))
    BY <1>7, DiscardReservedDoes, UpHas DEF UpGets, Stations, Vacates, NoJob,
       Enters
  <1>8. ASSUME NEW u \in Uploads, RemovePrivateFile(u) PROVE (up'[w] = "admitted" => up[w] = "admitted" \/ Enters(w))
    BY <1>8, RemoveDoes, UpHas DEF UpGets, Stations, Removes, Enters
  <1>9. ASSUME NEW u \in Uploads, Age(u) PROVE (up'[w] = "admitted" => up[w] = "admitted" \/ Enters(w))
    BY <1>9, AgeDoes, UpHas DEF Enters
  <1>10. ASSUME NEW c \in Confirmers, ReadUpload(c) PROVE (up'[w] = "admitted" => up[w] = "admitted" \/ Enters(w))
    BY <1>10, ReadDoes, UpHas DEF Moves, OtherConfs, Enters
  <1>11. ASSUME NEW c \in Confirmers, Missed(c) PROVE (up'[w] = "admitted" => up[w] = "admitted" \/ Enters(w))
    BY <1>11, MissedDoes, UpHas DEF Moves, Leaves, OtherConfs, Idle, Enters
  <1>12. ASSUME NEW c \in Confirmers, Link(c) PROVE (up'[w] = "admitted" => up[w] = "admitted" \/ Enters(w))
    <2>1. PICK u : u = Of(c)
      OBVIOUS
    <2>2. LinkEffect(c, u)
      BY <1>12, <2>1, LinkDoes
    <2> QED
      BY <2>1, <2>2, UpHas DEF LinkEffect, Moves, Leaves, OtherConfs, Idle,
         JobGets, SetGets, Enters
  <1>13. ASSUME NEW c \in Confirmers, EnsureChunkLinks(c) PROVE (up'[w] = "admitted" => up[w] = "admitted" \/ Enters(w))
    <2>1. PICK u : u = Of(c)
      OBVIOUS
    <2>2. EnsureEffect(c, u)
      BY <1>13, <2>1, EnsureDoes
    <2> QED
      BY <2>1, <2>2, UpHas DEF EnsureEffect, Moves, Leaves, OtherConfs, Idle,
         JobGets, Opened, Enters
  <1>14. ASSUME NEW c \in Confirmers, PreviewBatch(c) PROVE (up'[w] = "admitted" => up[w] = "admitted" \/ Enters(w))
    <2>1. PICK s : s = <<Of(c), conf[c].k>>
      OBVIOUS
    <2>2. PreviewEffect(c, s)
      BY <1>14, <2>1, PreviewDoes
    <2> QED
      BY <2>1, <2>2, UpHas DEF PreviewEffect, Passes, Moves, Leaves, OtherConfs,
         Idle, Enters
  <1>15. ASSUME NEW c \in Confirmers, StoreBatch(c) PROVE (up'[w] = "admitted" => up[w] = "admitted" \/ Enters(w))
    <2>1. PICK s : s = <<Of(c), conf[c].k>>
      OBVIOUS
    <2>2. StoreEffect(c, s)
      BY <1>15, <2>1, StoreDoes
    <2> QED
      BY <2>1, <2>2, UpHas DEF StoreEffect, Passes, Moves, Leaves, OtherConfs,
         Idle, SetGets, Enters
  <1>16. ASSUME NEW c \in Confirmers, FinishJob(c) PROVE (up'[w] = "admitted" => up[w] = "admitted" \/ Enters(w))
    <2>1. PICK u : u = Of(c)
      OBVIOUS
    <2>2. FinishEffect(c, u)
      BY <1>16, <2>1, FinishDoes
    <2> QED
      BY <2>1, <2>2, UpHas DEF FinishEffect, Moves, Leaves, OtherConfs, Idle,
         JobGets, Enters
  <1>17. ASSUME NEW c \in Confirmers, ConfirmUnlink(c) PROVE (up'[w] = "admitted" => up[w] = "admitted" \/ Enters(w))
    BY <1>17, UnlinkDoes, UpHas DEF Removes, Moves, Leaves, OtherConfs, Idle,
       Enters
  <1>18. ASSUME NEW c \in Confirmers, DropEmpty(c) PROVE (up'[w] = "admitted" => up[w] = "admitted" \/ Enters(w))
    <2>1. PICK s : s = First(Of(c))
      OBVIOUS
    <2>2. DropEffect(c, s)
      BY <1>18, <2>1, DropDoes
    <2> QED
      BY <2>1, <2>2, UpHas DEF DropEffect, Leaves, OtherConfs, Idle, SetGets,
         Enters
  <1>19. ASSUME NEW c \in Confirmers, MarkRejected(c) PROVE (up'[w] = "admitted" => up[w] = "admitted" \/ Enters(w))
    <2>1. PICK u : u = Of(c)
      OBVIOUS
    <2>2. RejectEffect(c, u)
      BY <1>19, <2>1, RejectDoes
    <2> QED
      BY <2>1, <2>2, UpHas DEF RejectEffect, Moves, OtherConfs, JobGets,
         SetGets, Enters
  <1>20. ASSUME NEW c \in Confirmers, NEW u \in Tabs[c], Confirm(c, u) PROVE (up'[w] = "admitted" => up[w] = "admitted" \/ Enters(w))
    <2>1. ConfirmEffect(c, u)
      BY <1>20, ConfirmDoes
    <2> QED
      BY <2>1, UpHas DEF ConfirmEffect, OtherConfs, Enters
  <1>21. ASSUME NEW s \in Sets, Apply(s) PROVE (up'[w] = "admitted" => up[w] = "admitted" \/ Enters(w))
    BY <1>21, ApplyDoes, UpHas DEF SetGets, Enters
  <1>22. ASSUME NEW s \in Sets, Discard(s) PROVE (up'[w] = "admitted" => up[w] = "admitted" \/ Enters(w))
    BY <1>22, DiscardDoes, UpHas DEF SetGets, Enters
  <1>23. ASSUME CleanupUpdate PROVE (up'[w] = "admitted" => up[w] = "admitted" \/ Enters(w))
    BY <1>23, UpdateDoes, UpHas DEF Enters
  <1>24. ASSUME CleanupDelete PROVE (up'[w] = "admitted" => up[w] = "admitted" \/ Enters(w))
    BY <1>24, DeleteDoes, UpHas DEF NoJob, Enters
  <1>25. ASSUME CleanupFiles PROVE (up'[w] = "admitted" => up[w] = "admitted" \/ Enters(w))
    BY <1>25, FilesDoes, UpHas DEF Enters
  <1>26. ASSUME Restart PROVE (up'[w] = "admitted" => up[w] = "admitted" \/ Enters(w))
    BY <1>26, RestartDoes, UpHas DEF Stations, Idle, Enters
  <1>27. ASSUME KillCleanup PROVE (up'[w] = "admitted" => up[w] = "admitted" \/ Enters(w))
    BY <1>27, KillDoes, UpHas DEF Enters
  <1>28. CASE UNCHANGED vars
    BY <1>28, UpHas DEF vars, request, Enters
  <1> QED
    BY <1>1, <1>2, <1>3, <1>4, <1>5, <1>6, <1>7, <1>8, <1>9, <1>10, <1>11,
       <1>12, <1>13, <1>14, <1>15, <1>16, <1>17, <1>18, <1>19, <1>20, <1>21,
       <1>22, <1>23, <1>24, <1>25, <1>26, <1>27, <1>28 DEF Next, Upload,
       ConfirmMapping, Cleanup

(* Fewer live jobs take fewer places.                                        *)
LEMMA FewerLive ==
    ASSUME NEW A, NEW B, A \subseteq B, IsFiniteSet(B)
    PROVE  /\ IsFiniteSet(A) /\ Cardinality(A) \in Nat /\ Cardinality(B) \in Nat
           /\ Cardinality(A) <= Cardinality(B)
  BY FS_Subset, FS_CardinalityType

(* The number of live jobs after a step that reserves at most for u.         *)
LEMMA OneMore ==
    ASSUME NEW A, NEW B, NEW u, A \subseteq B \cup {u}, IsFiniteSet(B)
    PROVE  /\ IsFiniteSet(A) /\ Cardinality(A) \in Nat /\ Cardinality(B) \in Nat
           /\ Cardinality(A) <= Cardinality(B) + 1
  <1>1. /\ IsFiniteSet(B \cup {u}) /\ Cardinality(B) \in Nat
        /\ Cardinality(B \cup {u}) \in {Cardinality(B), Cardinality(B) + 1}
    BY FS_AddElement, FS_CardinalityType
  <1>2. IsFiniteSet(A) /\ Cardinality(A) \in Nat /\ Cardinality(A) <= Cardinality(B \cup {u})
    BY <1>1, FewerLive
  <1> QED BY <1>1, <1>2

(* A step keeps the places.                                                  *)
LEMMA CountedStep ==
    ASSUME Shaped, Kept, Counted, [Next]_vars PROVE Counted'
  <1> DEFINE Next1(S) == {u \in S : Live(u)'}
  <1>1. \A w \in Uploads : Live(w)' => Live(w) \/ Reserves(w)
    BY LiveStep
  <1>2. \A w \in Uploads : up'[w] = "admitted" => up[w] = "admitted" \/ Enters(w)
    BY EntryStep
  <1>3. \A S : LiveJobs(S) = Cardinality(LiveIn(S)) /\ LiveJobs(S)' = Cardinality(LiveIn(S)')
    BY DEF LiveJobs, LiveIn
  <1>4. \A S \in SUBSET Uploads : LiveIn(S) \subseteq LiveIn(Uploads) /\ IsFiniteSet(LiveIn(S))
                                 /\ LiveJobs(S) \in Nat
    BY <1>3, FewerLive DEF LiveIn, Counted
  <1>5. \A u \in Uploads : SameOwner(u) \in SUBSET Uploads
    BY DEF SameOwner
  <1>6. UserCap \in Nat /\ GlobalCap \in Nat
    BY CapsAssumption
  <1>7. CASE \E u \in Uploads : Reserves(u)
    <2>1. PICK u \in Uploads : Reserves(u)
      BY <1>7
    <2>2. LockFree(u) /\ Room(u)
      BY <2>1 DEF Counted, Reserves
    <2>3. \A w \in Uploads \ {u} : ~Reserves(w) /\ up'[w] # "admitted"
      BY <1>2, <2>1, <2>2 DEF Reserves, LockFree, Enters
    <2>4. \A S \in SUBSET Uploads : LiveIn(S)' \subseteq LiveIn(S) \cup {u}
      BY <1>1, <2>3 DEF LiveIn
    <2>5. \A S \in SUBSET Uploads : u \notin S => LiveIn(S)' \subseteq LiveIn(S)
      BY <1>1, <2>3 DEF LiveIn
    <2>6. IsFiniteSet(LiveIn(Uploads)') /\ LiveJobs(Uploads)' <= LiveJobs(Uploads) + 1 /\ LiveJobs(Uploads)' \in Nat
      BY <1>3, <1>4, <2>4, OneMore
    <2>7. LiveJobs(Uploads)' <= GlobalCap
      BY <1>4, <1>6, <2>2, <2>6 DEF Room
    <2>8. ASSUME NEW w \in Uploads PROVE LiveJobs(SameOwner(w))' <= UserCap
      <3>1. CASE u \in SameOwner(w)
        <4>1. SameOwner(w) = SameOwner(u)
          BY <3>1 DEF SameOwner
        <4>2. LiveJobs(SameOwner(u))' <= LiveJobs(SameOwner(u)) + 1 /\ LiveJobs(SameOwner(u))' \in Nat
          <5>1. SameOwner(u) \in SUBSET Uploads /\ IsFiniteSet(LiveIn(SameOwner(u)))
            BY <1>4, <1>5
          <5>2. LiveIn(SameOwner(u))' \subseteq LiveIn(SameOwner(u)) \cup {u}
            BY <2>4, <5>1
          <5>3. /\ Cardinality(LiveIn(SameOwner(u))') <= Cardinality(LiveIn(SameOwner(u))) + 1
                /\ Cardinality(LiveIn(SameOwner(u))') \in Nat
            BY <5>1, <5>2, OneMore
          <5> QED BY <1>3, <5>3
        <4> QED BY <1>4, <1>5, <1>6, <2>2, <4>1, <4>2 DEF Room
      <3>2. CASE u \notin SameOwner(w)
        <4>1. LiveJobs(SameOwner(w))' <= LiveJobs(SameOwner(w)) /\ LiveJobs(SameOwner(w))' \in Nat
          BY <1>3, <1>4, <1>5, <2>5, <3>2, FewerLive
        <4> QED BY <1>4, <1>5, <1>6, <4>1 DEF Counted
      <3> QED BY <3>1, <3>2
    <2>9. \A w \in Uploads : up'[w] # "admitted"
      BY <2>1, <2>3 DEF Reserves
    <2> QED BY <2>6, <2>7, <2>8, <2>9 DEF Counted
  <1>8. CASE ~ \E u \in Uploads : Reserves(u)
    <2>1. \A S \in SUBSET Uploads : LiveIn(S)' \subseteq LiveIn(S)
      BY <1>1, <1>8 DEF LiveIn
    <2>2. \A S \in SUBSET Uploads : /\ IsFiniteSet(LiveIn(S)') /\ LiveJobs(S)' \in Nat
                                    /\ LiveJobs(S)' <= LiveJobs(S)
      BY <1>3, <1>4, <2>1, FewerLive
    <2>3. LiveJobs(Uploads)' <= GlobalCap /\ \A w \in Uploads : LiveJobs(SameOwner(w))' <= UserCap
      BY <1>4, <1>5, <1>6, <2>2 DEF Counted
    <2>4. ASSUME NEW w \in Uploads, up'[w] = "admitted" PROVE LockFree(w)' /\ Room(w)'
      <3>1. LockFree(w) /\ Room(w)
        BY <1>2, <2>4 DEF Counted, Enters
      <3>2. \A v \in Uploads \ {w} : up[v] # "admitted"
        BY <3>1 DEF LockFree
      <3>3. ASSUME NEW v \in Uploads \ {w} PROVE up'[v] # "admitted"
        <4>1. CASE up[w] = "admitted"
          BY <1>2, <3>2, <4>1 DEF Enters, LockFree
        <4>2. CASE Enters(w)
          BY <3>2, <4>2 DEF Enters
        <4> QED BY <1>2, <2>4, <4>1, <4>2
      <3>4. Room(w)'
        BY <1>4, <1>5, <1>6, <2>2, <3>1 DEF Room
      <3> QED BY <3>3, <3>4 DEF LockFree
    <2> QED BY <2>2, <2>3, <2>4 DEF Counted
  <1> QED BY <1>7, <1>8

(* The places are counted.                                                   *)
LEMMA AlwaysCounted == Spec => []Counted
  <1>1. Init => Counted
    <2> SUFFICES ASSUME Init PROVE Counted
      OBVIOUS
    <2>1. \A S \in SUBSET Uploads : LiveIn(S) = {}
      BY DEF Init, LiveIn, Live, NoJob
    <2>2. \A S \in SUBSET Uploads : LiveJobs(S) = 0 /\ IsFiniteSet(LiveIn(S))
      BY <2>1, FS_EmptySet DEF LiveJobs, LiveIn
    <2>3. \A u \in Uploads : SameOwner(u) \in SUBSET Uploads /\ up[u] = "idle"
      BY DEF SameOwner, Init
    <2>4. UserCap \in Nat /\ GlobalCap \in Nat
      BY CapsAssumption
    <2> QED BY <2>2, <2>3, <2>4 DEF Counted
  <1>2. Shaped /\ Kept /\ Counted /\ [Next]_vars => Counted'
    BY CountedStep
  <1> QED BY <1>1, <1>2, AlwaysShaped, AlwaysKept, PTL DEF Spec

(* WithinCaps for every set of uploads, users, tabs and caps: uploads that   *)
(* come in together never take more places than there are, and a mapping     *)
(* that can be confirmed has its file.                                       *)
THEOREM CapsAlwaysHold == Spec => []WithinCaps
  <1>1. Shaped /\ Kept /\ Counted => WithinCaps
    BY DEF Shaped, Kept, Placed, Counted, WithinCaps, Confirmable
  <1> QED BY <1>1, AlwaysShaped, AlwaysKept, AlwaysCounted, PTL

-----------------------------------------------------------------------------
(* The change sets of a job and the links to them.                           *)

Staging(c) == conf[c].pc \in {"stage", "store"}
AllStaged(u) == \A k \in Accepted[u] : set[<<u, k>>].items

Tied(u) ==
    /\ ~job[u].linked /\ job[u].status # "none" => \A s \in SetsOf(u) : set[s].status = "none"
    /\ ~job[u].chunks /\ job[u].status # "none" => \A s \in SetsOf(u) : s[2] > 1 => set[s].status = "none"
    /\ job[u].status = "mapping_processing" => ~job[u].linked /\ ~job[u].chunks
    /\ job[u].chunks => job[u].linked
    /\ Unconfirmed(u) /\ job[u].linked
         => job[u].status = "mapping_confirmed" /\ set[First(u)].status = "pending"
Stocked(s) == set[s].items => set[s].status # "none"
InOrder(u) == \A k \in 1..ChunksOf[u] : set[<<u, k>>].items
                => \A j \in Accepted[u] : j < k => set[<<u, j>>].items
Linked(c) ==
    /\ conf[c].pc \in {"chunks", "stage", "store", "final"} => job[Of(c)].linked \/ job[Of(c)].status = "none"
    /\ conf[c].pc \in {"stage", "store", "final"} => job[Of(c)].chunks \/ job[Of(c)].status = "none"
Passed(c) ==
    /\ Staging(c) => \A j \in Accepted[Of(c)] : j < conf[c].k => set[<<Of(c), j>>].items
    /\ conf[c].pc = "final" => AllStaged(Of(c))
Chained ==
    /\ \A u \in Uploads : Tied(u) /\ InOrder(u)
    /\ \A s \in Sets : Stocked(s)
    /\ \A c \in Confirmers : Linked(c) /\ Passed(c)

(* A job is tied to the sets that exist.                                     *)
LEMMA TiedStep ==
    ASSUME Shaped, Kept, Chained, NEW w \in Uploads, [Next]_vars PROVE Tied(w)'
  <1>1. ASSUME NEW u \in Uploads, Admit(u) PROVE Tied(w)'
    BY <1>1, AdmitDoes, JobHas, FirstIn, UpHas DEF UpGets, Stations, Chained,
       Kept, Placed, Retiring, Tied, Linked, Unconfirmed, Confirmable, NoJob
  <1>2. ASSUME NEW u \in Uploads, ReserveJob(u) PROVE Tied(w)'
    BY <1>2, ReserveDoes, JobHas, FirstIn, UpHas DEF UpGets, Stations, JobGets,
       Chained, Kept, Placed, Retiring, Tied, Linked, Unconfirmed, Confirmable,
       NoJob, SetsOf, Reviewable, BuildInProgress, First
  <1>3. ASSUME NEW u \in Uploads, WriteFile(u) PROVE Tied(w)'
    BY <1>3, WriteDoes, JobHas, FirstIn, UpHas DEF UpGets, Stations, Stores,
       Chained, Kept, Placed, Retiring, Tied, Linked, Unconfirmed, Confirmable,
       NoJob
  <1>4. ASSUME NEW u \in Uploads, WriteFails(u) PROVE Tied(w)'
    BY <1>4, WriteFailsDoes, JobHas, FirstIn, UpHas DEF UpGets, Stations,
       Vacates, NoJob, Chained, Kept, Placed, Retiring, Tied, Linked,
       Unconfirmed, Confirmable
  <1>5. ASSUME NEW u \in Uploads, SheetFails(u) PROVE Tied(w)'
    BY <1>5, SheetFailsDoes, JobHas, FirstIn, UpHas DEF UpGets, Stations,
       Chained, Kept, Placed, Retiring, Tied, Linked, Unconfirmed, Confirmable,
       NoJob
  <1>6. ASSUME NEW u \in Uploads, Finalize(u) PROVE Tied(w)'
    BY <1>6, FinalizeDoes, JobHas, FirstIn, UpHas DEF UpGets, Stations, JobGets,
       Chained, Kept, Placed, Retiring, Tied, Linked, Unconfirmed, Confirmable,
       NoJob
  <1>7. ASSUME NEW u \in Uploads, DiscardReserved(u) PROVE Tied(w)'
    BY <1>7, DiscardReservedDoes, JobHas, FirstIn, UpHas DEF UpGets, Stations,
       Vacates, NoJob, Chained, Kept, Placed, Retiring, Tied, Linked,
       Unconfirmed, Confirmable
  <1>8. ASSUME NEW u \in Uploads, RemovePrivateFile(u) PROVE Tied(w)'
    BY <1>8, RemoveDoes, JobHas, FirstIn, UpHas DEF UpGets, Stations, Removes,
       Chained, Kept, Placed, Retiring, Tied, Linked, Unconfirmed, Confirmable,
       NoJob
  <1>9. ASSUME NEW u \in Uploads, Age(u) PROVE Tied(w)'
    BY <1>9, AgeDoes, JobHas, FirstIn, UpHas DEF Chained, Kept, Placed,
       Retiring, Tied, Linked, Unconfirmed, Confirmable, NoJob
  <1>10. ASSUME NEW c \in Confirmers, ReadUpload(c) PROVE Tied(w)'
    BY <1>10, ReadDoes, JobHas, FirstIn, UpHas DEF Moves, OtherConfs, Chained,
       Kept, Placed, Retiring, Tied, Linked, Unconfirmed, Confirmable, NoJob
  <1>11. ASSUME NEW c \in Confirmers, Missed(c) PROVE Tied(w)'
    BY <1>11, MissedDoes, JobHas, FirstIn, UpHas DEF Moves, Leaves, OtherConfs,
       Idle, Chained, Kept, Placed, Retiring, Tied, Linked, Unconfirmed,
       Confirmable, NoJob
  <1>12. ASSUME NEW c \in Confirmers, Link(c) PROVE Tied(w)'
    <2>1. PICK u : u = Of(c)
      OBVIOUS
    <2>2. LinkEffect(c, u)
      BY <1>12, <2>1, LinkDoes
    <2> QED
      BY <2>2, FirstIn DEF LinkEffect, Moves, Leaves, OtherConfs, JobGets,
         SetGets, Chained, Kept, Retiring, Tied, Unconfirmed, Confirmable,
         SetsOf, First
  <1>13. ASSUME NEW c \in Confirmers, EnsureChunkLinks(c) PROVE Tied(w)'
    <2>1. PICK u : u = Of(c)
      OBVIOUS
    <2>2. EnsureEffect(c, u)
      BY <1>13, <2>1, EnsureDoes
    <2> QED
      BY <2>1, <2>2, JobHas, FirstIn, UpHas DEF EnsureEffect, Moves, Leaves,
         OtherConfs, Idle, JobGets, Opened, Chained, Kept, Placed, Retiring,
         Tied, Linked, Unconfirmed, Confirmable, NoJob, SetsOf, Reviewable,
         BuildInProgress, First
  <1>14. ASSUME NEW c \in Confirmers, PreviewBatch(c) PROVE Tied(w)'
    <2>1. PICK s : s = <<Of(c), conf[c].k>>
      OBVIOUS
    <2>2. PreviewEffect(c, s)
      BY <1>14, <2>1, PreviewDoes
    <2> QED
      BY <2>1, <2>2, JobHas, FirstIn, UpHas DEF PreviewEffect, Passes, Moves,
         Leaves, OtherConfs, Idle, Chained, Kept, Placed, Retiring, Tied,
         Linked, Unconfirmed, Confirmable, NoJob
  <1>15. ASSUME NEW c \in Confirmers, StoreBatch(c) PROVE Tied(w)'
    <2>1. PICK s : s = <<Of(c), conf[c].k>>
      OBVIOUS
    <2>2. StoreEffect(c, s)
      BY <1>15, <2>1, StoreDoes
    <2> QED
      BY <2>2, FirstIn DEF StoreEffect, Passes, Leaves, OtherConfs, SetGets,
         Chained, Tied, Unconfirmed, SetsOf, First
  <1>16. ASSUME NEW c \in Confirmers, FinishJob(c) PROVE Tied(w)'
    <2>1. PICK u : u = Of(c)
      OBVIOUS
    <2>2. FinishEffect(c, u)
      BY <1>16, <2>1, FinishDoes
    <2> QED
      BY <2>1, <2>2, JobHas, FirstIn, UpHas DEF FinishEffect, Moves, Leaves,
         OtherConfs, Idle, JobGets, Chained, Kept, Placed, Retiring, Tied,
         Linked, Unconfirmed, Confirmable, NoJob
  <1>17. ASSUME NEW c \in Confirmers, ConfirmUnlink(c) PROVE Tied(w)'
    BY <1>17, UnlinkDoes, JobHas, FirstIn, UpHas DEF Removes, Moves, Leaves,
       OtherConfs, Idle, Chained, Kept, Placed, Retiring, Tied, Linked,
       Unconfirmed, Confirmable, NoJob
  <1>18. ASSUME NEW c \in Confirmers, DropEmpty(c) PROVE Tied(w)'
    <2>1. PICK s : s = First(Of(c))
      OBVIOUS
    <2>2. DropEffect(c, s)
      BY <1>18, <2>1, DropDoes
    <2> QED
      BY <2>1, <2>2, JobHas, FirstIn, UpHas DEF DropEffect, Leaves, OtherConfs,
         Idle, SetGets, Chained, Kept, Placed, Retiring, Tied, Linked,
         Unconfirmed, Confirmable, NoJob, SetsOf, Reviewable, BuildInProgress,
         First
  <1>19. ASSUME NEW c \in Confirmers, MarkRejected(c) PROVE Tied(w)'
    <2>1. PICK u : u = Of(c)
      OBVIOUS
    <2>2. RejectEffect(c, u)
      BY <1>19, <2>1, RejectDoes
    <2> QED
      BY <2>1, <2>2, FirstIn DEF RejectEffect, JobGets, SetGets, Chained, Tied,
         Unconfirmed, SetsOf
  <1>20. ASSUME NEW c \in Confirmers, NEW u \in Tabs[c], Confirm(c, u) PROVE Tied(w)'
    <2>1. ConfirmEffect(c, u)
      BY <1>20, ConfirmDoes
    <2> QED
      BY <2>1, JobHas, FirstIn, UpHas DEF ConfirmEffect, OtherConfs, Chained,
         Kept, Placed, Retiring, Tied, Linked, Unconfirmed, Confirmable, NoJob
  <1>21. ASSUME NEW s \in Sets, Apply(s) PROVE Tied(w)'
    BY <1>21, ApplyDoes, JobHas, FirstIn, UpHas DEF SetGets, Chained, Kept,
       Placed, Retiring, Tied, Linked, Unconfirmed, Confirmable, NoJob, SetsOf,
       Reviewable, BuildInProgress, First
  <1>22. ASSUME NEW s \in Sets, Discard(s) PROVE Tied(w)'
    BY <1>22, DiscardDoes, JobHas, FirstIn, UpHas DEF SetGets, Chained, Kept,
       Placed, Retiring, Tied, Linked, Unconfirmed, Confirmable, NoJob, SetsOf,
       Reviewable, BuildInProgress, First
  <1>23. ASSUME CleanupUpdate PROVE Tied(w)'
    BY <1>23, UpdateDoes, JobHas, FirstIn, UpHas DEF Chained, Kept, Placed,
       Retiring, Tied, Linked, Unconfirmed, Confirmable, NoJob
  <1>24. ASSUME CleanupDelete PROVE Tied(w)'
    <2>1. CASE w \in maint.old
      BY <1>24, <2>1, DeleteDoes, JobHas DEF Tied, Unconfirmed, NoJob
    <2>2. CASE w \notin maint.old
      <3>1. job'[w] = job[w] /\ \A s \in SetsOf(w) : set'[s].status = set[s].status
        BY <1>24, <2>2, DeleteDoes DEF Kept, Retiring, SetsOf
      <3> QED BY <3>1, FirstIn DEF Tied, Chained, Unconfirmed
    <2> QED BY <2>1, <2>2
  <1>25. ASSUME CleanupFiles PROVE Tied(w)'
    BY <1>25, FilesDoes, JobHas, FirstIn, UpHas DEF Chained, Kept, Placed,
       Retiring, Tied, Linked, Unconfirmed, Confirmable, NoJob
  <1>26. ASSUME Restart PROVE Tied(w)'
    BY <1>26, RestartDoes, JobHas, FirstIn, UpHas DEF Stations, Idle, Chained,
       Kept, Placed, Retiring, Tied, Linked, Unconfirmed, Confirmable, NoJob
  <1>27. ASSUME KillCleanup PROVE Tied(w)'
    BY <1>27, KillDoes, JobHas, FirstIn, UpHas DEF Chained, Kept, Placed,
       Retiring, Tied, Linked, Unconfirmed, Confirmable, NoJob
  <1>28. CASE UNCHANGED vars
    BY <1>28, JobHas, FirstIn, UpHas DEF vars, request, Chained, Kept, Placed,
       Retiring, Tied, Linked, Unconfirmed, Confirmable, NoJob
  <1> QED
    BY <1>1, <1>2, <1>3, <1>4, <1>5, <1>6, <1>7, <1>8, <1>9, <1>10, <1>11,
       <1>12, <1>13, <1>14, <1>15, <1>16, <1>17, <1>18, <1>19, <1>20, <1>21,
       <1>22, <1>23, <1>24, <1>25, <1>26, <1>27, <1>28 DEF Next, Upload,
       ConfirmMapping, Cleanup

(* What has rows exists.                                                     *)
LEMMA StockedStep ==
    ASSUME Shaped, Kept, Chained, NEW r \in Sets, [Next]_vars PROVE Stocked(r)'
  <1>1. ASSUME NEW u \in Uploads, Admit(u) PROVE Stocked(r)'
    BY <1>1, AdmitDoes, SetHas, FirstIn, UpHas DEF UpGets, Stations, Chained,
       Kept, Retiring, Stocked, Reviewable
  <1>2. ASSUME NEW u \in Uploads, ReserveJob(u) PROVE Stocked(r)'
    BY <1>2, ReserveDoes, SetHas, FirstIn, UpHas DEF UpGets, Stations, JobGets,
       Chained, Kept, Retiring, Stocked, Reviewable
  <1>3. ASSUME NEW u \in Uploads, WriteFile(u) PROVE Stocked(r)'
    BY <1>3, WriteDoes, SetHas, FirstIn, UpHas DEF UpGets, Stations, Stores,
       Chained, Kept, Retiring, Stocked, Reviewable
  <1>4. ASSUME NEW u \in Uploads, WriteFails(u) PROVE Stocked(r)'
    BY <1>4, WriteFailsDoes, SetHas, FirstIn, UpHas DEF UpGets, Stations,
       Vacates, NoJob, Chained, Kept, Retiring, Stocked, Reviewable
  <1>5. ASSUME NEW u \in Uploads, SheetFails(u) PROVE Stocked(r)'
    BY <1>5, SheetFailsDoes, SetHas, FirstIn, UpHas DEF UpGets, Stations,
       Chained, Kept, Retiring, Stocked, Reviewable
  <1>6. ASSUME NEW u \in Uploads, Finalize(u) PROVE Stocked(r)'
    BY <1>6, FinalizeDoes, SetHas, FirstIn, UpHas DEF UpGets, Stations, JobGets,
       Chained, Kept, Retiring, Stocked, Reviewable
  <1>7. ASSUME NEW u \in Uploads, DiscardReserved(u) PROVE Stocked(r)'
    BY <1>7, DiscardReservedDoes, SetHas, FirstIn, UpHas DEF UpGets, Stations,
       Vacates, NoJob, Chained, Kept, Retiring, Stocked, Reviewable
  <1>8. ASSUME NEW u \in Uploads, RemovePrivateFile(u) PROVE Stocked(r)'
    BY <1>8, RemoveDoes, SetHas, FirstIn, UpHas DEF UpGets, Stations, Removes,
       Chained, Kept, Retiring, Stocked, Reviewable
  <1>9. ASSUME NEW u \in Uploads, Age(u) PROVE Stocked(r)'
    BY <1>9, AgeDoes, SetHas, FirstIn, UpHas DEF Chained, Kept, Retiring,
       Stocked, Reviewable
  <1>10. ASSUME NEW c \in Confirmers, ReadUpload(c) PROVE Stocked(r)'
    BY <1>10, ReadDoes, SetHas, FirstIn, UpHas DEF Moves, OtherConfs, Chained,
       Kept, Retiring, Stocked, Reviewable
  <1>11. ASSUME NEW c \in Confirmers, Missed(c) PROVE Stocked(r)'
    BY <1>11, MissedDoes, SetHas, FirstIn, UpHas DEF Moves, Leaves, OtherConfs,
       Idle, Chained, Kept, Retiring, Stocked, Reviewable
  <1>12. ASSUME NEW c \in Confirmers, Link(c) PROVE Stocked(r)'
    <2>1. PICK u : u = Of(c)
      OBVIOUS
    <2>2. LinkEffect(c, u)
      BY <1>12, <2>1, LinkDoes
    <2> QED
      BY <2>1, <2>2, SetHas, FirstIn, UpHas DEF LinkEffect, Moves, Leaves,
         OtherConfs, Idle, JobGets, SetGets, Chained, Kept, Retiring, Stocked,
         Reviewable
  <1>13. ASSUME NEW c \in Confirmers, EnsureChunkLinks(c) PROVE Stocked(r)'
    <2>1. PICK u : u = Of(c)
      OBVIOUS
    <2>2. EnsureEffect(c, u)
      BY <1>13, <2>1, EnsureDoes
    <2> QED
      BY <2>1, <2>2, SetHas, FirstIn, UpHas DEF EnsureEffect, Moves, Leaves,
         OtherConfs, Idle, JobGets, Opened, Chained, Kept, Retiring, Stocked,
         Reviewable
  <1>14. ASSUME NEW c \in Confirmers, PreviewBatch(c) PROVE Stocked(r)'
    <2>1. PICK s : s = <<Of(c), conf[c].k>>
      OBVIOUS
    <2>2. PreviewEffect(c, s)
      BY <1>14, <2>1, PreviewDoes
    <2> QED
      BY <2>1, <2>2, SetHas, FirstIn, UpHas DEF PreviewEffect, Passes, Moves,
         Leaves, OtherConfs, Idle, Chained, Kept, Retiring, Stocked, Reviewable
  <1>15. ASSUME NEW c \in Confirmers, StoreBatch(c) PROVE Stocked(r)'
    <2>1. PICK s : s = <<Of(c), conf[c].k>>
      OBVIOUS
    <2>2. StoreEffect(c, s)
      BY <1>15, <2>1, StoreDoes
    <2> QED
      BY <2>1, <2>2, SetHas, FirstIn, UpHas DEF StoreEffect, Passes, Moves,
         Leaves, OtherConfs, Idle, SetGets, Chained, Kept, Retiring, Stocked,
         Reviewable
  <1>16. ASSUME NEW c \in Confirmers, FinishJob(c) PROVE Stocked(r)'
    <2>1. PICK u : u = Of(c)
      OBVIOUS
    <2>2. FinishEffect(c, u)
      BY <1>16, <2>1, FinishDoes
    <2> QED
      BY <2>1, <2>2, SetHas, FirstIn, UpHas DEF FinishEffect, Moves, Leaves,
         OtherConfs, Idle, JobGets, Chained, Kept, Retiring, Stocked, Reviewable
  <1>17. ASSUME NEW c \in Confirmers, ConfirmUnlink(c) PROVE Stocked(r)'
    BY <1>17, UnlinkDoes, SetHas, FirstIn, UpHas DEF Removes, Moves, Leaves,
       OtherConfs, Idle, Chained, Kept, Retiring, Stocked, Reviewable
  <1>18. ASSUME NEW c \in Confirmers, DropEmpty(c) PROVE Stocked(r)'
    <2>1. PICK s : s = First(Of(c))
      OBVIOUS
    <2>2. DropEffect(c, s)
      BY <1>18, <2>1, DropDoes
    <2> QED
      BY <2>1, <2>2, SetHas, FirstIn, UpHas DEF DropEffect, Leaves, OtherConfs,
         Idle, SetGets, Chained, Kept, Retiring, Stocked, Reviewable
  <1>19. ASSUME NEW c \in Confirmers, MarkRejected(c) PROVE Stocked(r)'
    <2>1. PICK u : u = Of(c)
      OBVIOUS
    <2>2. RejectEffect(c, u)
      BY <1>19, <2>1, RejectDoes
    <2> QED
      BY <2>1, <2>2, SetHas, FirstIn, UpHas DEF RejectEffect, Moves, OtherConfs,
         JobGets, SetGets, Chained, Kept, Retiring, Stocked, Reviewable
  <1>20. ASSUME NEW c \in Confirmers, NEW u \in Tabs[c], Confirm(c, u) PROVE Stocked(r)'
    <2>1. ConfirmEffect(c, u)
      BY <1>20, ConfirmDoes
    <2> QED
      BY <2>1, SetHas, FirstIn, UpHas DEF ConfirmEffect, OtherConfs, Chained,
         Kept, Retiring, Stocked, Reviewable
  <1>21. ASSUME NEW s \in Sets, Apply(s) PROVE Stocked(r)'
    BY <1>21, ApplyDoes, SetHas, FirstIn, UpHas DEF SetGets, Chained, Kept,
       Retiring, Stocked, Reviewable
  <1>22. ASSUME NEW s \in Sets, Discard(s) PROVE Stocked(r)'
    BY <1>22, DiscardDoes, SetHas, FirstIn, UpHas DEF SetGets, Chained, Kept,
       Retiring, Stocked, Reviewable
  <1>23. ASSUME CleanupUpdate PROVE Stocked(r)'
    BY <1>23, UpdateDoes, SetHas, FirstIn, UpHas DEF Chained, Kept, Retiring,
       Stocked, Reviewable
  <1>24. ASSUME CleanupDelete PROVE Stocked(r)'
    BY <1>24, DeleteDoes, SetHas, FirstIn, UpHas DEF NoJob, Chained, Kept,
       Retiring, Stocked, Reviewable
  <1>25. ASSUME CleanupFiles PROVE Stocked(r)'
    BY <1>25, FilesDoes, SetHas, FirstIn, UpHas DEF Chained, Kept, Retiring,
       Stocked, Reviewable
  <1>26. ASSUME Restart PROVE Stocked(r)'
    BY <1>26, RestartDoes, SetHas, FirstIn, UpHas DEF Stations, Idle, Chained,
       Kept, Retiring, Stocked, Reviewable
  <1>27. ASSUME KillCleanup PROVE Stocked(r)'
    BY <1>27, KillDoes, SetHas, FirstIn, UpHas DEF Chained, Kept, Retiring,
       Stocked, Reviewable
  <1>28. CASE UNCHANGED vars
    BY <1>28, SetHas, FirstIn, UpHas DEF vars, request, Chained, Kept, Retiring,
       Stocked, Reviewable
  <1> QED
    BY <1>1, <1>2, <1>3, <1>4, <1>5, <1>6, <1>7, <1>8, <1>9, <1>10, <1>11,
       <1>12, <1>13, <1>14, <1>15, <1>16, <1>17, <1>18, <1>19, <1>20, <1>21,
       <1>22, <1>23, <1>24, <1>25, <1>26, <1>27, <1>28 DEF Next, Upload,
       ConfirmMapping, Cleanup

(* What is staged stays staged.                                              *)
LEMMA ItemsStay ==
    ASSUME Shaped, Kept, Chained, NEW r \in Sets, [Next]_vars PROVE (set[r].items => set'[r].items)
  <1>1. ASSUME NEW u \in Uploads, Admit(u) PROVE (set[r].items => set'[r].items)
    BY <1>1, AdmitDoes, SetHas, FirstIn, SetOut DEF UpGets, Stations, Chained,
       Stocked, Tied, Reviewable
  <1>2. ASSUME NEW u \in Uploads, ReserveJob(u) PROVE (set[r].items => set'[r].items)
    BY <1>2, ReserveDoes, SetHas, FirstIn, SetOut DEF UpGets, Stations, JobGets,
       Chained, Stocked, Tied, Reviewable
  <1>3. ASSUME NEW u \in Uploads, WriteFile(u) PROVE (set[r].items => set'[r].items)
    BY <1>3, WriteDoes, SetHas, FirstIn, SetOut DEF UpGets, Stations, Stores,
       Chained, Stocked, Tied, Reviewable
  <1>4. ASSUME NEW u \in Uploads, WriteFails(u) PROVE (set[r].items => set'[r].items)
    BY <1>4, WriteFailsDoes, SetHas, FirstIn, SetOut DEF UpGets, Stations,
       Vacates, NoJob, Chained, Stocked, Tied, Reviewable
  <1>5. ASSUME NEW u \in Uploads, SheetFails(u) PROVE (set[r].items => set'[r].items)
    BY <1>5, SheetFailsDoes, SetHas, FirstIn, SetOut DEF UpGets, Stations,
       Chained, Stocked, Tied, Reviewable
  <1>6. ASSUME NEW u \in Uploads, Finalize(u) PROVE (set[r].items => set'[r].items)
    BY <1>6, FinalizeDoes, SetHas, FirstIn, SetOut DEF UpGets, Stations,
       JobGets, Chained, Stocked, Tied, Reviewable
  <1>7. ASSUME NEW u \in Uploads, DiscardReserved(u) PROVE (set[r].items => set'[r].items)
    BY <1>7, DiscardReservedDoes, SetHas, FirstIn, SetOut DEF UpGets, Stations,
       Vacates, NoJob, Chained, Stocked, Tied, Reviewable
  <1>8. ASSUME NEW u \in Uploads, RemovePrivateFile(u) PROVE (set[r].items => set'[r].items)
    BY <1>8, RemoveDoes, SetHas, FirstIn, SetOut DEF UpGets, Stations, Removes,
       Chained, Stocked, Tied, Reviewable
  <1>9. ASSUME NEW u \in Uploads, Age(u) PROVE (set[r].items => set'[r].items)
    BY <1>9, AgeDoes, SetHas, FirstIn, SetOut DEF Chained, Stocked, Tied,
       Reviewable
  <1>10. ASSUME NEW c \in Confirmers, ReadUpload(c) PROVE (set[r].items => set'[r].items)
    BY <1>10, ReadDoes, SetHas, FirstIn, SetOut DEF Moves, OtherConfs, Chained,
       Stocked, Tied, Reviewable
  <1>11. ASSUME NEW c \in Confirmers, Missed(c) PROVE (set[r].items => set'[r].items)
    BY <1>11, MissedDoes, SetHas, FirstIn, SetOut DEF Moves, Leaves, OtherConfs,
       Idle, Chained, Stocked, Tied, Reviewable
  <1>12. ASSUME NEW c \in Confirmers, Link(c) PROVE (set[r].items => set'[r].items)
    <2>1. PICK u : u = Of(c)
      OBVIOUS
    <2>2. LinkEffect(c, u)
      BY <1>12, <2>1, LinkDoes
    <2>3. CASE r # First(u)
      BY <2>1, <2>2, <2>3, SetHas, FirstIn DEF LinkEffect, Moves, Leaves,
         OtherConfs, Idle, JobGets, SetGets, Chained, Stocked, Tied,
         Confirmable, Unconfirmed
    <2>4. CASE r = First(u)
      BY <2>1, <2>2, <2>4, SetHas, FirstIn DEF LinkEffect, Moves, Leaves,
         OtherConfs, Idle, JobGets, SetGets, Chained, Stocked, Tied,
         Confirmable, Unconfirmed
    <2> QED BY <2>3, <2>4
  <1>13. ASSUME NEW c \in Confirmers, EnsureChunkLinks(c) PROVE (set[r].items => set'[r].items)
    <2>1. PICK u : u = Of(c)
      OBVIOUS
    <2>2. EnsureEffect(c, u)
      BY <1>13, <2>1, EnsureDoes
    <2> QED
      BY <2>2, SetOut DEF EnsureEffect, Moves, Leaves, OtherConfs, Idle,
         JobGets, Opened, Chained, Stocked, Tied, Reviewable, Linked,
         Unconfirmed, Confirmable, Of
  <1>14. ASSUME NEW c \in Confirmers, PreviewBatch(c) PROVE (set[r].items => set'[r].items)
    <2>1. PICK s : s = <<Of(c), conf[c].k>>
      OBVIOUS
    <2>2. PreviewEffect(c, s)
      BY <1>14, <2>1, PreviewDoes
    <2> QED
      BY <2>1, <2>2, SetHas, FirstIn, SetOut DEF PreviewEffect, Passes, Moves,
         Leaves, OtherConfs, Idle, Chained, Stocked, Tied, Reviewable
  <1>15. ASSUME NEW c \in Confirmers, StoreBatch(c) PROVE (set[r].items => set'[r].items)
    <2>1. PICK s : s = <<Of(c), conf[c].k>>
      OBVIOUS
    <2>2. StoreEffect(c, s)
      BY <1>15, <2>1, StoreDoes
    <2> QED
      BY <2>2 DEF StoreEffect, SetGets
  <1>16. ASSUME NEW c \in Confirmers, FinishJob(c) PROVE (set[r].items => set'[r].items)
    <2>1. PICK u : u = Of(c)
      OBVIOUS
    <2>2. FinishEffect(c, u)
      BY <1>16, <2>1, FinishDoes
    <2> QED
      BY <2>1, <2>2, SetHas, FirstIn, SetOut DEF FinishEffect, Moves, Leaves,
         OtherConfs, Idle, JobGets, Chained, Stocked, Tied, Reviewable
  <1>17. ASSUME NEW c \in Confirmers, ConfirmUnlink(c) PROVE (set[r].items => set'[r].items)
    BY <1>17, UnlinkDoes, SetHas, FirstIn, SetOut DEF Removes, Moves, Leaves,
       OtherConfs, Idle, Chained, Stocked, Tied, Reviewable
  <1>18. ASSUME NEW c \in Confirmers, DropEmpty(c) PROVE (set[r].items => set'[r].items)
    <2>1. PICK s : s = First(Of(c))
      OBVIOUS
    <2>2. DropEffect(c, s)
      BY <1>18, <2>1, DropDoes
    <2> QED
      BY <2>2 DEF DropEffect, SetGets
  <1>19. ASSUME NEW c \in Confirmers, MarkRejected(c) PROVE (set[r].items => set'[r].items)
    <2>1. PICK u : u = Of(c)
      OBVIOUS
    <2>2. RejectEffect(c, u)
      BY <1>19, <2>1, RejectDoes
    <2> QED
      BY <2>1, <2>2, SetHas, FirstIn, SetOut DEF RejectEffect, Moves,
         OtherConfs, JobGets, SetGets, Chained, Stocked, Tied, Reviewable
  <1>20. ASSUME NEW c \in Confirmers, NEW u \in Tabs[c], Confirm(c, u) PROVE (set[r].items => set'[r].items)
    <2>1. ConfirmEffect(c, u)
      BY <1>20, ConfirmDoes
    <2> QED
      BY <2>1, SetHas, FirstIn, SetOut DEF ConfirmEffect, OtherConfs, Chained,
         Stocked, Tied, Reviewable
  <1>21. ASSUME NEW s \in Sets, Apply(s) PROVE (set[r].items => set'[r].items)
    BY <1>21, ApplyDoes, SetHas, FirstIn, SetOut DEF SetGets, Chained, Stocked,
       Tied, Reviewable
  <1>22. ASSUME NEW s \in Sets, Discard(s) PROVE (set[r].items => set'[r].items)
    BY <1>22, DiscardDoes, SetHas, FirstIn, SetOut DEF SetGets, Chained,
       Stocked, Tied, Reviewable
  <1>23. ASSUME CleanupUpdate PROVE (set[r].items => set'[r].items)
    BY <1>23, UpdateDoes, SetHas, FirstIn, SetOut DEF Chained, Stocked, Tied,
       Reviewable
  <1>24. ASSUME CleanupDelete PROVE (set[r].items => set'[r].items)
    BY <1>24, DeleteDoes, SetHas, FirstIn, SetOut DEF NoJob, Chained, Stocked,
       Tied, Reviewable
  <1>25. ASSUME CleanupFiles PROVE (set[r].items => set'[r].items)
    BY <1>25, FilesDoes, SetHas, FirstIn, SetOut DEF Chained, Stocked, Tied,
       Reviewable
  <1>26. ASSUME Restart PROVE (set[r].items => set'[r].items)
    BY <1>26, RestartDoes, SetHas, FirstIn, SetOut DEF Stations, Idle, Chained,
       Stocked, Tied, Reviewable
  <1>27. ASSUME KillCleanup PROVE (set[r].items => set'[r].items)
    BY <1>27, KillDoes, SetHas, FirstIn, SetOut DEF Chained, Stocked, Tied,
       Reviewable
  <1>28. CASE UNCHANGED vars
    BY <1>28, SetHas, FirstIn, SetOut DEF vars, request, Chained, Stocked, Tied,
       Reviewable
  <1> QED
    BY <1>1, <1>2, <1>3, <1>4, <1>5, <1>6, <1>7, <1>8, <1>9, <1>10, <1>11,
       <1>12, <1>13, <1>14, <1>15, <1>16, <1>17, <1>18, <1>19, <1>20, <1>21,
       <1>22, <1>23, <1>24, <1>25, <1>26, <1>27, <1>28 DEF Next, Upload,
       ConfirmMapping, Cleanup

(* Whoever stages has linked the sets.                                       *)
LEMMA LinkedStep ==
    ASSUME Shaped, Kept, Chained, NEW d \in Confirmers, [Next]_vars PROVE Linked(d)'
  <1>1. ASSUME NEW u \in Uploads, Admit(u) PROVE Linked(d)'
    BY <1>1, AdmitDoes, ConfHas DEF UpGets, Stations, Chained, Kept, Placed,
       Employed, Linked, Working, Of, NoJob, Shaped, Busy, Unconfirmed,
       Confirmable
  <1>2. ASSUME NEW u \in Uploads, ReserveJob(u) PROVE Linked(d)'
    BY <1>2, ReserveDoes, ConfHas DEF UpGets, Stations, JobGets, Chained, Kept,
       Placed, Employed, Linked, Working, Of, NoJob, Shaped, Busy, Unconfirmed,
       Confirmable
  <1>3. ASSUME NEW u \in Uploads, WriteFile(u) PROVE Linked(d)'
    BY <1>3, WriteDoes, ConfHas DEF UpGets, Stations, Stores, Chained, Kept,
       Placed, Employed, Linked, Working, Of, NoJob, Shaped, Busy, Unconfirmed,
       Confirmable
  <1>4. ASSUME NEW u \in Uploads, WriteFails(u) PROVE Linked(d)'
    BY <1>4, WriteFailsDoes, ConfHas DEF UpGets, Stations, Vacates, NoJob,
       Chained, Kept, Placed, Employed, Linked, Working, Of, Shaped, Busy,
       Unconfirmed, Confirmable
  <1>5. ASSUME NEW u \in Uploads, SheetFails(u) PROVE Linked(d)'
    BY <1>5, SheetFailsDoes, ConfHas DEF UpGets, Stations, Chained, Kept,
       Placed, Employed, Linked, Working, Of, NoJob, Shaped, Busy, Unconfirmed,
       Confirmable
  <1>6. ASSUME NEW u \in Uploads, Finalize(u) PROVE Linked(d)'
    BY <1>6, FinalizeDoes, ConfHas DEF UpGets, Stations, JobGets, Chained, Kept,
       Placed, Employed, Linked, Working, Of, NoJob, Shaped, Busy, Unconfirmed,
       Confirmable
  <1>7. ASSUME NEW u \in Uploads, DiscardReserved(u) PROVE Linked(d)'
    BY <1>7, DiscardReservedDoes, ConfHas DEF UpGets, Stations, Vacates, NoJob,
       Chained, Kept, Placed, Employed, Linked, Working, Of, Shaped, Busy,
       Unconfirmed, Confirmable
  <1>8. ASSUME NEW u \in Uploads, RemovePrivateFile(u) PROVE Linked(d)'
    BY <1>8, RemoveDoes, ConfHas DEF UpGets, Stations, Removes, Chained, Kept,
       Placed, Employed, Linked, Working, Of, NoJob, Shaped, Busy, Unconfirmed,
       Confirmable
  <1>9. ASSUME NEW u \in Uploads, Age(u) PROVE Linked(d)'
    BY <1>9, AgeDoes, ConfHas DEF Chained, Kept, Placed, Employed, Linked,
       Working, Of, NoJob, Shaped, Busy, Unconfirmed, Confirmable
  <1>10. ASSUME NEW c \in Confirmers, ReadUpload(c) PROVE Linked(d)'
    BY <1>10, ReadDoes, ConfHas DEF Moves, OtherConfs, Chained, Kept, Placed,
       Employed, Linked, Working, Of, NoJob, Shaped, Busy, Unconfirmed,
       Confirmable
  <1>11. ASSUME NEW c \in Confirmers, Missed(c) PROVE Linked(d)'
    BY <1>11, MissedDoes, ConfHas DEF Moves, Leaves, OtherConfs, Idle, Chained,
       Kept, Placed, Employed, Linked, Working, Of, NoJob, Shaped, Busy,
       Unconfirmed, Confirmable
  <1>12. ASSUME NEW c \in Confirmers, Link(c) PROVE Linked(d)'
    <2>1. PICK u : u = Of(c)
      OBVIOUS
    <2>2. LinkEffect(c, u)
      BY <1>12, <2>1, LinkDoes
    <2>3. CASE d # c
      <3>1. conf'[d] = conf[d]
        BY <2>2, <2>3 DEF LinkEffect, Moves, Leaves, OtherConfs
      <3>2. \A v \in Uploads : /\ job[v].linked \/ job[v].status = "none" => job'[v].linked \/ job'[v].status = "none"
                               /\ job[v].chunks \/ job[v].status = "none" => job'[v].chunks \/ job'[v].status = "none"
        BY <2>2 DEF LinkEffect, JobGets, Unconfirmed, Confirmable
      <3> QED BY <3>1, <3>2, ConfHas DEF Chained, Linked, Of
    <2>4. CASE d = c
      <3>1. \/ conf'[c].pc \in {"idle", "gone"}
            \/ conf'[c].pc = "chunks" /\ conf'[c].u = u /\ job'[u].linked
        <4>1. \/ Leaves(c) \/ Moves(c, "gone", conf[c].k, conf[c].staged)
              \/ Moves(c, "chunks", conf[c].k, conf[c].staged) /\ job'[u].linked
          BY <2>2 DEF LinkEffect, JobGets
        <4> QED BY <2>1, <4>1 DEF Moves, Leaves, Idle, Of
      <3> QED BY <2>4, <3>1 DEF Linked, Of
    <2> QED BY <2>3, <2>4
  <1>13. ASSUME NEW c \in Confirmers, EnsureChunkLinks(c) PROVE Linked(d)'
    <2>1. PICK u : u = Of(c)
      OBVIOUS
    <2>2. EnsureEffect(c, u)
      BY <1>13, <2>1, EnsureDoes
    <2>3. CASE d # c
      <3>1. conf'[d] = conf[d]
        BY <2>2, <2>3 DEF EnsureEffect, Moves, Leaves, OtherConfs
      <3>2. \A v \in Uploads : /\ job[v].linked \/ job[v].status = "none" => job'[v].linked \/ job'[v].status = "none"
                               /\ job[v].chunks \/ job[v].status = "none" => job'[v].chunks \/ job'[v].status = "none"
        BY <2>2 DEF EnsureEffect, JobGets, Unconfirmed
      <3> QED BY <3>1, <3>2, ConfHas DEF Chained, Linked, Of
    <2>4. CASE d = c
      <3>1. job[u].linked \/ job[u].status = "none"
        BY <2>1, <2>2 DEF EnsureEffect, Chained, Linked
      <3> QED BY <2>1, <2>2, <2>4, <3>1 DEF EnsureEffect, Moves, Leaves, Idle, JobGets, Linked, Of
    <2> QED BY <2>3, <2>4
  <1>14. ASSUME NEW c \in Confirmers, PreviewBatch(c) PROVE Linked(d)'
    <2>1. PICK s : s = <<Of(c), conf[c].k>>
      OBVIOUS
    <2>2. PreviewEffect(c, s)
      BY <1>14, <2>1, PreviewDoes
    <2> QED
      BY <2>2 DEF PreviewEffect, Passes, Moves, Leaves, OtherConfs, Idle,
         Chained, Employed, Linked, Working, Of, NoJob, Busy, Unconfirmed,
         Confirmable
  <1>15. ASSUME NEW c \in Confirmers, StoreBatch(c) PROVE Linked(d)'
    <2>1. PICK s : s = <<Of(c), conf[c].k>>
      OBVIOUS
    <2>2. StoreEffect(c, s)
      BY <1>15, <2>1, StoreDoes
    <2> QED
      BY <2>2 DEF StoreEffect, Passes, Moves, Leaves, OtherConfs, Idle,
         SetGets, Chained, Placed, Employed, Linked, Working, Of
  <1>16. ASSUME NEW c \in Confirmers, FinishJob(c) PROVE Linked(d)'
    <2>1. PICK u : u = Of(c)
      OBVIOUS
    <2>2. FinishEffect(c, u)
      BY <1>16, <2>1, FinishDoes
    <2>3. CASE d # c
      <3>1. conf'[d] = conf[d]
        BY <2>2, <2>3 DEF FinishEffect, Moves, Leaves, OtherConfs
      <3>2. \A v \in Uploads : /\ job[v].linked \/ job[v].status = "none" => job'[v].linked \/ job'[v].status = "none"
                               /\ job[v].chunks \/ job[v].status = "none" => job'[v].chunks \/ job'[v].status = "none"
        BY <2>2 DEF FinishEffect, JobGets
      <3> QED BY <3>1, <3>2, ConfHas DEF Chained, Linked, Of
    <2>4. CASE d = c
      BY <2>1, <2>2, <2>4 DEF FinishEffect, Moves, Leaves, Idle, Linked
    <2> QED BY <2>3, <2>4
  <1>17. ASSUME NEW c \in Confirmers, ConfirmUnlink(c) PROVE Linked(d)'
    BY <1>17, UnlinkDoes, ConfHas DEF Removes, Moves, Leaves, OtherConfs, Idle,
       Chained, Kept, Placed, Employed, Linked, Working, Of, NoJob, Shaped,
       Busy, Unconfirmed, Confirmable
  <1>18. ASSUME NEW c \in Confirmers, DropEmpty(c) PROVE Linked(d)'
    <2>1. PICK s : s = First(Of(c))
      OBVIOUS
    <2>2. DropEffect(c, s)
      BY <1>18, <2>1, DropDoes
    <2> QED
      BY <2>2 DEF DropEffect, Leaves, OtherConfs, Idle, Chained, Linked, Of
  <1>19. ASSUME NEW c \in Confirmers, MarkRejected(c) PROVE Linked(d)'
    <2>1. PICK u : u = Of(c)
      OBVIOUS
    <2>2. RejectEffect(c, u)
      BY <1>19, <2>1, RejectDoes
    <2>3. CASE d # c
      <3>1. conf'[d] = conf[d]
        BY <2>2, <2>3 DEF RejectEffect, Moves, Leaves, OtherConfs
      <3>2. \A v \in Uploads : /\ job[v].linked \/ job[v].status = "none" => job'[v].linked \/ job'[v].status = "none"
                               /\ job[v].chunks \/ job[v].status = "none" => job'[v].chunks \/ job'[v].status = "none"
        BY <2>2 DEF RejectEffect, JobGets, Unconfirmed
      <3> QED BY <3>1, <3>2, ConfHas DEF Chained, Linked, Of
    <2>4. CASE d = c
      BY <2>1, <2>2, <2>4 DEF RejectEffect, Moves, Linked
    <2> QED BY <2>3, <2>4
  <1>20. ASSUME NEW c \in Confirmers, NEW u \in Tabs[c], Confirm(c, u) PROVE Linked(d)'
    <2>1. ConfirmEffect(c, u)
      BY <1>20, ConfirmDoes
    <2> QED
      BY <2>1, ConfHas DEF ConfirmEffect, OtherConfs, Chained, Kept, Placed,
         Employed, Linked, Working, Of, NoJob, Shaped, Busy, Unconfirmed,
         Confirmable
  <1>21. ASSUME NEW s \in Sets, Apply(s) PROVE Linked(d)'
    BY <1>21, ApplyDoes, ConfHas DEF SetGets, Chained, Kept, Placed, Employed,
       Linked, Working, Of, NoJob, Shaped, Busy, Unconfirmed, Confirmable
  <1>22. ASSUME NEW s \in Sets, Discard(s) PROVE Linked(d)'
    BY <1>22, DiscardDoes, ConfHas DEF SetGets, Chained, Kept, Placed, Employed,
       Linked, Working, Of, NoJob, Shaped, Busy, Unconfirmed, Confirmable
  <1>23. ASSUME CleanupUpdate PROVE Linked(d)'
    BY <1>23, UpdateDoes, ConfHas DEF Chained, Kept, Placed, Employed, Linked,
       Working, Of, NoJob, Shaped, Busy, Unconfirmed, Confirmable
  <1>24. ASSUME CleanupDelete PROVE Linked(d)'
    BY <1>24, DeleteDoes, ConfHas DEF NoJob, Chained, Kept, Placed, Employed,
       Linked, Working, Of, Shaped, Busy, Unconfirmed, Confirmable
  <1>25. ASSUME CleanupFiles PROVE Linked(d)'
    BY <1>25, FilesDoes, ConfHas DEF Chained, Kept, Placed, Employed, Linked,
       Working, Of, NoJob, Shaped, Busy, Unconfirmed, Confirmable
  <1>26. ASSUME Restart PROVE Linked(d)'
    BY <1>26, RestartDoes, ConfHas DEF Stations, Idle, Chained, Kept, Placed,
       Employed, Linked, Working, Of, NoJob, Shaped, Busy, Unconfirmed,
       Confirmable
  <1>27. ASSUME KillCleanup PROVE Linked(d)'
    BY <1>27, KillDoes, ConfHas DEF Chained, Kept, Placed, Employed, Linked,
       Working, Of, NoJob, Shaped, Busy, Unconfirmed, Confirmable
  <1>28. CASE UNCHANGED vars
    BY <1>28, ConfHas DEF vars, request, Chained, Kept, Placed, Employed,
       Linked, Working, Of, NoJob, Shaped, Busy, Unconfirmed, Confirmable
  <1> QED
    BY <1>1, <1>2, <1>3, <1>4, <1>5, <1>6, <1>7, <1>8, <1>9, <1>10, <1>11,
       <1>12, <1>13, <1>14, <1>15, <1>16, <1>17, <1>18, <1>19, <1>20, <1>21,
       <1>22, <1>23, <1>24, <1>25, <1>26, <1>27, <1>28 DEF Next, Upload,
       ConfirmMapping, Cleanup

(* Rows come by StoreBatch only.                                             *)
LEMMA RowsStep ==
    ASSUME Shaped, Kept, Chained, NEW r \in Sets, [Next]_vars PROVE (set'[r].items => set[r].items \/ \E d \in Confirmers : conf[d].pc = "store" /\ r = <<Of(d), conf[d].k>>)
  <1>1. ASSUME NEW u \in Uploads, Admit(u) PROVE (set'[r].items => set[r].items \/ \E d \in Confirmers : conf[d].pc = "store" /\ r = <<Of(d), conf[d].k>>)
    BY <1>1, AdmitDoes, SetHas, FirstIn DEF UpGets, Stations, Chained
  <1>2. ASSUME NEW u \in Uploads, ReserveJob(u) PROVE (set'[r].items => set[r].items \/ \E d \in Confirmers : conf[d].pc = "store" /\ r = <<Of(d), conf[d].k>>)
    BY <1>2, ReserveDoes, SetHas, FirstIn DEF UpGets, Stations, JobGets, Chained
  <1>3. ASSUME NEW u \in Uploads, WriteFile(u) PROVE (set'[r].items => set[r].items \/ \E d \in Confirmers : conf[d].pc = "store" /\ r = <<Of(d), conf[d].k>>)
    BY <1>3, WriteDoes, SetHas, FirstIn DEF UpGets, Stations, Stores, Chained
  <1>4. ASSUME NEW u \in Uploads, WriteFails(u) PROVE (set'[r].items => set[r].items \/ \E d \in Confirmers : conf[d].pc = "store" /\ r = <<Of(d), conf[d].k>>)
    BY <1>4, WriteFailsDoes, SetHas, FirstIn DEF UpGets, Stations, Vacates,
       NoJob, Chained
  <1>5. ASSUME NEW u \in Uploads, SheetFails(u) PROVE (set'[r].items => set[r].items \/ \E d \in Confirmers : conf[d].pc = "store" /\ r = <<Of(d), conf[d].k>>)
    BY <1>5, SheetFailsDoes, SetHas, FirstIn DEF UpGets, Stations, Chained
  <1>6. ASSUME NEW u \in Uploads, Finalize(u) PROVE (set'[r].items => set[r].items \/ \E d \in Confirmers : conf[d].pc = "store" /\ r = <<Of(d), conf[d].k>>)
    BY <1>6, FinalizeDoes, SetHas, FirstIn DEF UpGets, Stations, JobGets,
       Chained
  <1>7. ASSUME NEW u \in Uploads, DiscardReserved(u) PROVE (set'[r].items => set[r].items \/ \E d \in Confirmers : conf[d].pc = "store" /\ r = <<Of(d), conf[d].k>>)
    BY <1>7, DiscardReservedDoes, SetHas, FirstIn DEF UpGets, Stations, Vacates,
       NoJob, Chained
  <1>8. ASSUME NEW u \in Uploads, RemovePrivateFile(u) PROVE (set'[r].items => set[r].items \/ \E d \in Confirmers : conf[d].pc = "store" /\ r = <<Of(d), conf[d].k>>)
    BY <1>8, RemoveDoes, SetHas, FirstIn DEF UpGets, Stations, Removes, Chained
  <1>9. ASSUME NEW u \in Uploads, Age(u) PROVE (set'[r].items => set[r].items \/ \E d \in Confirmers : conf[d].pc = "store" /\ r = <<Of(d), conf[d].k>>)
    BY <1>9, AgeDoes, SetHas, FirstIn DEF Chained
  <1>10. ASSUME NEW c \in Confirmers, ReadUpload(c) PROVE (set'[r].items => set[r].items \/ \E d \in Confirmers : conf[d].pc = "store" /\ r = <<Of(d), conf[d].k>>)
    BY <1>10, ReadDoes, SetHas, FirstIn DEF Moves, OtherConfs, Chained
  <1>11. ASSUME NEW c \in Confirmers, Missed(c) PROVE (set'[r].items => set[r].items \/ \E d \in Confirmers : conf[d].pc = "store" /\ r = <<Of(d), conf[d].k>>)
    BY <1>11, MissedDoes, SetHas, FirstIn DEF Moves, Leaves, OtherConfs, Idle,
       Chained
  <1>12. ASSUME NEW c \in Confirmers, Link(c) PROVE (set'[r].items => set[r].items \/ \E d \in Confirmers : conf[d].pc = "store" /\ r = <<Of(d), conf[d].k>>)
    <2>1. PICK u : u = Of(c)
      OBVIOUS
    <2>2. LinkEffect(c, u)
      BY <1>12, <2>1, LinkDoes
    <2> QED
      BY <2>1, <2>2, SetHas, FirstIn DEF LinkEffect, Moves, Leaves, OtherConfs,
         Idle, JobGets, SetGets, Chained
  <1>13. ASSUME NEW c \in Confirmers, EnsureChunkLinks(c) PROVE (set'[r].items => set[r].items \/ \E d \in Confirmers : conf[d].pc = "store" /\ r = <<Of(d), conf[d].k>>)
    <2>1. PICK u : u = Of(c)
      OBVIOUS
    <2>2. EnsureEffect(c, u)
      BY <1>13, <2>1, EnsureDoes
    <2> QED
      BY <2>1, <2>2, SetHas, FirstIn DEF EnsureEffect, Moves, Leaves,
         OtherConfs, Idle, JobGets, Opened, Chained
  <1>14. ASSUME NEW c \in Confirmers, PreviewBatch(c) PROVE (set'[r].items => set[r].items \/ \E d \in Confirmers : conf[d].pc = "store" /\ r = <<Of(d), conf[d].k>>)
    <2>1. PICK s : s = <<Of(c), conf[c].k>>
      OBVIOUS
    <2>2. PreviewEffect(c, s)
      BY <1>14, <2>1, PreviewDoes
    <2> QED
      BY <2>1, <2>2, SetHas, FirstIn DEF PreviewEffect, Passes, Moves, Leaves,
         OtherConfs, Idle, Chained
  <1>15. ASSUME NEW c \in Confirmers, StoreBatch(c) PROVE (set'[r].items => set[r].items \/ \E d \in Confirmers : conf[d].pc = "store" /\ r = <<Of(d), conf[d].k>>)
    <2>1. PICK s : s = <<Of(c), conf[c].k>>
      OBVIOUS
    <2>2. StoreEffect(c, s)
      BY <1>15, <2>1, StoreDoes
    <2> QED
      BY <2>1, <2>2, SetHas, FirstIn DEF StoreEffect, Passes, Moves, Leaves,
         OtherConfs, Idle, SetGets, Chained
  <1>16. ASSUME NEW c \in Confirmers, FinishJob(c) PROVE (set'[r].items => set[r].items \/ \E d \in Confirmers : conf[d].pc = "store" /\ r = <<Of(d), conf[d].k>>)
    <2>1. PICK u : u = Of(c)
      OBVIOUS
    <2>2. FinishEffect(c, u)
      BY <1>16, <2>1, FinishDoes
    <2> QED
      BY <2>1, <2>2, SetHas, FirstIn DEF FinishEffect, Moves, Leaves,
         OtherConfs, Idle, JobGets, Chained
  <1>17. ASSUME NEW c \in Confirmers, ConfirmUnlink(c) PROVE (set'[r].items => set[r].items \/ \E d \in Confirmers : conf[d].pc = "store" /\ r = <<Of(d), conf[d].k>>)
    BY <1>17, UnlinkDoes, SetHas, FirstIn DEF Removes, Moves, Leaves,
       OtherConfs, Idle, Chained
  <1>18. ASSUME NEW c \in Confirmers, DropEmpty(c) PROVE (set'[r].items => set[r].items \/ \E d \in Confirmers : conf[d].pc = "store" /\ r = <<Of(d), conf[d].k>>)
    <2>1. PICK s : s = First(Of(c))
      OBVIOUS
    <2>2. DropEffect(c, s)
      BY <1>18, <2>1, DropDoes
    <2> QED
      BY <2>1, <2>2, SetHas, FirstIn DEF DropEffect, Leaves, OtherConfs, Idle,
         SetGets, Chained
  <1>19. ASSUME NEW c \in Confirmers, MarkRejected(c) PROVE (set'[r].items => set[r].items \/ \E d \in Confirmers : conf[d].pc = "store" /\ r = <<Of(d), conf[d].k>>)
    <2>1. PICK u : u = Of(c)
      OBVIOUS
    <2>2. RejectEffect(c, u)
      BY <1>19, <2>1, RejectDoes
    <2> QED
      BY <2>1, <2>2, SetHas, FirstIn DEF RejectEffect, Moves, OtherConfs,
         JobGets, SetGets, Chained
  <1>20. ASSUME NEW c \in Confirmers, NEW u \in Tabs[c], Confirm(c, u) PROVE (set'[r].items => set[r].items \/ \E d \in Confirmers : conf[d].pc = "store" /\ r = <<Of(d), conf[d].k>>)
    <2>1. ConfirmEffect(c, u)
      BY <1>20, ConfirmDoes
    <2> QED
      BY <2>1, SetHas, FirstIn DEF ConfirmEffect, OtherConfs, Chained
  <1>21. ASSUME NEW s \in Sets, Apply(s) PROVE (set'[r].items => set[r].items \/ \E d \in Confirmers : conf[d].pc = "store" /\ r = <<Of(d), conf[d].k>>)
    BY <1>21, ApplyDoes, SetHas, FirstIn DEF SetGets, Chained
  <1>22. ASSUME NEW s \in Sets, Discard(s) PROVE (set'[r].items => set[r].items \/ \E d \in Confirmers : conf[d].pc = "store" /\ r = <<Of(d), conf[d].k>>)
    BY <1>22, DiscardDoes, SetHas, FirstIn DEF SetGets, Chained
  <1>23. ASSUME CleanupUpdate PROVE (set'[r].items => set[r].items \/ \E d \in Confirmers : conf[d].pc = "store" /\ r = <<Of(d), conf[d].k>>)
    BY <1>23, UpdateDoes, SetHas, FirstIn DEF Chained
  <1>24. ASSUME CleanupDelete PROVE (set'[r].items => set[r].items \/ \E d \in Confirmers : conf[d].pc = "store" /\ r = <<Of(d), conf[d].k>>)
    BY <1>24, DeleteDoes, SetHas, FirstIn DEF NoJob, Chained
  <1>25. ASSUME CleanupFiles PROVE (set'[r].items => set[r].items \/ \E d \in Confirmers : conf[d].pc = "store" /\ r = <<Of(d), conf[d].k>>)
    BY <1>25, FilesDoes, SetHas, FirstIn DEF Chained
  <1>26. ASSUME Restart PROVE (set'[r].items => set[r].items \/ \E d \in Confirmers : conf[d].pc = "store" /\ r = <<Of(d), conf[d].k>>)
    BY <1>26, RestartDoes, SetHas, FirstIn DEF Stations, Idle, Chained
  <1>27. ASSUME KillCleanup PROVE (set'[r].items => set[r].items \/ \E d \in Confirmers : conf[d].pc = "store" /\ r = <<Of(d), conf[d].k>>)
    BY <1>27, KillDoes, SetHas, FirstIn DEF Chained
  <1>28. CASE UNCHANGED vars
    BY <1>28, SetHas, FirstIn DEF vars, request, Chained
  <1> QED
    BY <1>1, <1>2, <1>3, <1>4, <1>5, <1>6, <1>7, <1>8, <1>9, <1>10, <1>11,
       <1>12, <1>13, <1>14, <1>15, <1>16, <1>17, <1>18, <1>19, <1>20, <1>21,
       <1>22, <1>23, <1>24, <1>25, <1>26, <1>27, <1>28 DEF Next, Upload,
       ConfirmMapping, Cleanup

Grows == \A r \in Sets : set[r].items => set'[r].items

(* What is staged stays staged.                                              *)
LEMMA RowsGrow == ASSUME Shaped, Kept, Chained, [Next]_vars PROVE Grows
  BY ItemsStay DEF Grows

(* Every chunk is a set.                                                     *)
LEMMA ChunkIn ==
    ASSUME NEW u \in Uploads, NEW k \in Accepted[u]
    PROVE  k \in 1..ChunksOf[u] /\ k \in Nat /\ <<u, k>> \in Sets
  <1>1. Accepted[u] \subseteq 1..ChunksOf[u]
    BY BoundsAssumption
  <1>2. k \in 1..ChunksOf[u] /\ k \in Nat
    BY <1>1, FirstIn
  <1> QED BY <1>2, SetIn

(* The chunks are staged in their order.                                     *)
LEMMA InOrderStep ==
    ASSUME Shaped, Kept, Chained, [Next]_vars, NEW w \in Uploads PROVE InOrder(w)'
  <1>1. SUFFICES ASSUME NEW k \in 1..ChunksOf[w], set'[<<w, k>>].items, NEW j \in Accepted[w], j < k
                 PROVE  set'[<<w, j>>].items
    BY DEF InOrder
  <1>2. <<w, k>> \in Sets /\ <<w, j>> \in Sets /\ Grows
    BY SetIn, ChunkIn, RowsGrow
  <1>3. CASE set[<<w, k>>].items
    BY <1>1, <1>2, <1>3 DEF Chained, InOrder, Grows
  <1>4. CASE ~set[<<w, k>>].items
    <2>1. PICK c \in Confirmers : conf[c].pc = "store" /\ <<w, k>> = <<Of(c), conf[c].k>>
      BY <1>1, <1>2, <1>4, RowsStep
    <2>2. Of(c) = w /\ conf[c].k = k /\ Staging(c)
      BY <2>1 DEF Staging
    <2> QED BY <1>1, <1>2, <2>2 DEF Chained, Passed, Grows
  <1> QED BY <1>3, <1>4

(* A confirmation that stays where it is has passed what it had.             *)
LEMMA PassedStays ==
    ASSUME Shaped, Chained, Grows, NEW d \in Confirmers, conf'[d] = conf[d] PROVE Passed(d)'
  <1>1. Staging(d) \/ conf[d].pc = "final" => Of(d) \in Uploads /\ \A j \in Accepted[Of(d)] : <<Of(d), j>> \in Sets
    BY ConfHas, ChunkIn DEF Staging
  <1> QED BY <1>1 DEF Chained, Passed, Staging, AllStaged, Grows, Of

(* Whoever is at a chunk has staged what came before it.                     *)
LEMMA PassedStep ==
    ASSUME Shaped, Kept, Chained, Grows, NEW d \in Confirmers, [Next]_vars PROVE Passed(d)'
  <1>1. ASSUME NEW u \in Uploads, Admit(u) PROVE Passed(d)'
    BY <1>1, AdmitDoes, ConfHas, ChunkIn, FirstIn DEF UpGets, Stations, Chained,
       Passed, Staging, AllStaged, Grows, Of, Working, Shaped, Busy
  <1>2. ASSUME NEW u \in Uploads, ReserveJob(u) PROVE Passed(d)'
    BY <1>2, ReserveDoes, ConfHas, ChunkIn, FirstIn DEF UpGets, Stations,
       JobGets, Chained, Passed, Staging, AllStaged, Grows, Of, Working, Shaped,
       Busy
  <1>3. ASSUME NEW u \in Uploads, WriteFile(u) PROVE Passed(d)'
    BY <1>3, WriteDoes, ConfHas, ChunkIn, FirstIn DEF UpGets, Stations, Stores,
       Chained, Passed, Staging, AllStaged, Grows, Of, Working, Shaped, Busy
  <1>4. ASSUME NEW u \in Uploads, WriteFails(u) PROVE Passed(d)'
    BY <1>4, WriteFailsDoes, ConfHas, ChunkIn, FirstIn DEF UpGets, Stations,
       Vacates, NoJob, Chained, Passed, Staging, AllStaged, Grows, Of, Working,
       Shaped, Busy
  <1>5. ASSUME NEW u \in Uploads, SheetFails(u) PROVE Passed(d)'
    BY <1>5, SheetFailsDoes, ConfHas, ChunkIn, FirstIn DEF UpGets, Stations,
       Chained, Passed, Staging, AllStaged, Grows, Of, Working, Shaped, Busy
  <1>6. ASSUME NEW u \in Uploads, Finalize(u) PROVE Passed(d)'
    BY <1>6, FinalizeDoes, ConfHas, ChunkIn, FirstIn DEF UpGets, Stations,
       JobGets, Chained, Passed, Staging, AllStaged, Grows, Of, Working, Shaped,
       Busy
  <1>7. ASSUME NEW u \in Uploads, DiscardReserved(u) PROVE Passed(d)'
    BY <1>7, DiscardReservedDoes, ConfHas, ChunkIn, FirstIn DEF UpGets,
       Stations, Vacates, NoJob, Chained, Passed, Staging, AllStaged, Grows, Of,
       Working, Shaped, Busy
  <1>8. ASSUME NEW u \in Uploads, RemovePrivateFile(u) PROVE Passed(d)'
    BY <1>8, RemoveDoes, ConfHas, ChunkIn, FirstIn DEF UpGets, Stations,
       Removes, Chained, Passed, Staging, AllStaged, Grows, Of, Working, Shaped,
       Busy
  <1>9. ASSUME NEW u \in Uploads, Age(u) PROVE Passed(d)'
    BY <1>9, AgeDoes, ConfHas, ChunkIn, FirstIn DEF Chained, Passed, Staging,
       AllStaged, Grows, Of, Working, Shaped, Busy
  <1>10. ASSUME NEW c \in Confirmers, ReadUpload(c) PROVE Passed(d)'
    BY <1>10, ReadDoes, ConfHas, ChunkIn, FirstIn DEF Moves, OtherConfs,
       Chained, Passed, Staging, AllStaged, Grows, Of, Working, Shaped, Busy
  <1>11. ASSUME NEW c \in Confirmers, Missed(c) PROVE Passed(d)'
    BY <1>11, MissedDoes, ConfHas, ChunkIn, FirstIn DEF Moves, Leaves,
       OtherConfs, Idle, Chained, Passed, Staging, AllStaged, Grows, Of,
       Working, Shaped, Busy
  <1>12. ASSUME NEW c \in Confirmers, Link(c) PROVE Passed(d)'
    <2>1. PICK u : u = Of(c)
      OBVIOUS
    <2>2. LinkEffect(c, u)
      BY <1>12, <2>1, LinkDoes
    <2>3. CASE d # c
      BY <2>2, <2>3, ChunkIn DEF LinkEffect, Moves, Leaves, OtherConfs, Idle,
         JobGets, SetGets, Chained, Passed, Staging, AllStaged, Grows, Of,
         Working, Shaped, Busy
    <2>4. CASE d = c
      BY <2>2, <2>4 DEF LinkEffect, Moves, Leaves, OtherConfs, Idle, JobGets,
         SetGets, Chained, Passed, Staging, AllStaged, Grows
    <2> QED BY <2>3, <2>4
  <1>13. ASSUME NEW c \in Confirmers, EnsureChunkLinks(c) PROVE Passed(d)'
    <2>1. PICK u : u = Of(c)
      OBVIOUS
    <2>2. EnsureEffect(c, u)
      BY <1>13, <2>1, EnsureDoes
    <2>3. CASE d # c
      <3>1. conf'[d] = conf[d]
        BY <2>2, <2>3 DEF EnsureEffect, Moves, Leaves, OtherConfs
      <3> QED BY <3>1, PassedStays
    <2>4. CASE d = c
      BY <2>2, <2>4, ChunkIn DEF EnsureEffect, Moves, Leaves, Idle, JobGets,
         Opened, Chained, Passed, Staging, AllStaged, Grows, Of, Working,
         Shaped, Busy
    <2> QED BY <2>3, <2>4
  <1>14. ASSUME NEW c \in Confirmers, PreviewBatch(c) PROVE Passed(d)'
    <2>1. PICK s : s = <<Of(c), conf[c].k>>
      OBVIOUS
    <2>2. PreviewEffect(c, s)
      BY <1>14, <2>1, PreviewDoes
    <2>3. CASE d # c
      <3>1. conf'[d] = conf[d]
        BY <2>2, <2>3 DEF PreviewEffect, Passes, Moves, Leaves, OtherConfs
      <3> QED BY <3>1, PassedStays
    <2>4. CASE d = c
      <3>1. Of(c) \in Uploads /\ conf[c].k \in Nat /\ ChunksOf[Of(c)] \in Nat
        BY <2>2, ConfHas, FirstIn DEF PreviewEffect
      <3>2. set' = set /\ \A j \in Accepted[Of(c)] : j < conf[c].k => set[<<Of(c), j>>].items
        BY <2>2 DEF PreviewEffect, Staging, Chained, Passed
      <3>3. CASE Leaves(c)
        BY <2>4, <3>3 DEF Leaves, Passed, Staging, Idle
      <3>4. CASE Moves(c, "store", conf[c].k, conf[c].staged)
        BY <2>4, <3>2, <3>4 DEF Moves, Passed, Staging, Of
      <3>5. CASE (conf[c].k \notin Accepted[Of(c)] \/ set[s].items) /\ \E t \in BOOLEAN : Passes(c, t)
        <4>1. \A j \in Accepted[Of(c)] : j <= conf[c].k => set'[<<Of(c), j>>].items
          <5> TAKE j \in Accepted[Of(c)]
          <5>1. j \in Nat
            BY <3>1, ChunkIn
          <5> QED BY <2>1, <3>1, <3>2, <3>5, <5>1
        <4>2. \A j \in Accepted[Of(c)] : j \in Nat /\ j <= ChunksOf[Of(c)]
          <5>1. Accepted[Of(c)] \subseteq 1..ChunksOf[Of(c)]
            BY <3>1, BoundsAssumption
          <5> QED BY <3>1, <5>1
        <4> QED BY <2>4, <3>1, <3>5, <4>1, <4>2 DEF Passes, Moves, Passed, Staging, AllStaged, Of
      <3> QED BY <2>2, <3>3, <3>4, <3>5 DEF PreviewEffect
    <2> QED BY <2>3, <2>4
  <1>15. ASSUME NEW c \in Confirmers, StoreBatch(c) PROVE Passed(d)'
    <2>1. PICK s : s = <<Of(c), conf[c].k>>
      OBVIOUS
    <2>2. StoreEffect(c, s)
      BY <1>15, <2>1, StoreDoes
    <2>3. CASE d # c
      BY <2>1, <2>2, <2>3, ConfHas, ChunkIn, FirstIn DEF StoreEffect, Passes, Moves,
         Leaves, OtherConfs, Chained, Passed, Staging, AllStaged, Grows, Of
    <2>4. CASE d = c
      <3>1. Of(c) \in Uploads /\ conf[c].k \in Nat /\ ChunksOf[Of(c)] \in Nat
        BY <2>2, ConfHas, FirstIn DEF StoreEffect
      <3>2. \A j \in Accepted[Of(c)] : j < conf[c].k => set'[<<Of(c), j>>].items
        BY <2>2, <3>1, ChunkIn DEF StoreEffect, Staging, Chained, Passed, Grows
      <3>3. CASE Leaves(c)
        BY <2>4, <3>3 DEF Leaves, Passed, Staging, Idle
      <3>4. CASE Moves(c, "stage", conf[c].k, conf[c].staged)
        BY <2>4, <3>2, <3>4 DEF Moves, Passed, Staging, Of
      <3>5. CASE set'[s].items /\ Passes(c, TRUE)
        <4>1. \A j \in Accepted[Of(c)] : j <= conf[c].k => set'[<<Of(c), j>>].items
          <5> TAKE j \in Accepted[Of(c)]
          <5>1. j \in Nat
            BY <3>1, ChunkIn
          <5> QED BY <2>1, <3>1, <3>2, <3>5, <5>1
        <4>2. \A j \in Accepted[Of(c)] : j \in Nat /\ j <= ChunksOf[Of(c)]
          <5>1. Accepted[Of(c)] \subseteq 1..ChunksOf[Of(c)]
            BY <3>1, BoundsAssumption
          <5> QED BY <3>1, <5>1
        <4> QED BY <2>4, <3>1, <3>5, <4>1, <4>2 DEF Passes, Moves, Passed, Staging, AllStaged, Of
      <3> QED BY <2>2, <3>3, <3>4, <3>5 DEF StoreEffect, SetGets
    <2> QED BY <2>3, <2>4
  <1>16. ASSUME NEW c \in Confirmers, FinishJob(c) PROVE Passed(d)'
    <2>1. PICK u : u = Of(c)
      OBVIOUS
    <2>2. FinishEffect(c, u)
      BY <1>16, <2>1, FinishDoes
    <2> QED
      BY <2>2 DEF FinishEffect, Moves, Leaves, OtherConfs, Idle, JobGets,
         Chained, Passed, Staging, AllStaged, Grows, Of, Working, Shaped, Busy
  <1>17. ASSUME NEW c \in Confirmers, ConfirmUnlink(c) PROVE Passed(d)'
    BY <1>17, UnlinkDoes, ConfHas, ChunkIn, FirstIn DEF Removes, Moves, Leaves,
       OtherConfs, Idle, Chained, Passed, Staging, AllStaged, Grows, Of,
       Working, Shaped, Busy
  <1>18. ASSUME NEW c \in Confirmers, DropEmpty(c) PROVE Passed(d)'
    <2>1. PICK s : s = First(Of(c))
      OBVIOUS
    <2>2. DropEffect(c, s)
      BY <1>18, <2>1, DropDoes
    <2> QED
      BY <2>1, <2>2, ConfHas, ChunkIn, FirstIn DEF DropEffect, Leaves,
         OtherConfs, Idle, SetGets, Chained, Passed, Staging, AllStaged, Grows,
         Of, Working, Shaped, Busy
  <1>19. ASSUME NEW c \in Confirmers, MarkRejected(c) PROVE Passed(d)'
    <2>1. PICK u : u = Of(c)
      OBVIOUS
    <2>2. RejectEffect(c, u)
      BY <1>19, <2>1, RejectDoes
    <2> QED
      BY <2>2, ChunkIn DEF RejectEffect, Moves, OtherConfs, JobGets, SetGets,
         Chained, Passed, Staging, AllStaged, Grows, Of, Working, Shaped, Busy
  <1>20. ASSUME NEW c \in Confirmers, NEW u \in Tabs[c], Confirm(c, u) PROVE Passed(d)'
    <2>1. ConfirmEffect(c, u)
      BY <1>20, ConfirmDoes
    <2>3. CASE d # c
      BY <2>1, <2>3, ConfHas, ChunkIn, FirstIn DEF ConfirmEffect, OtherConfs,
         Chained, Passed, Staging, AllStaged, Grows, Of, Working, Shaped, Busy
    <2>4. CASE d = c
      BY <2>1, <2>4, ConfHas, ChunkIn, FirstIn DEF ConfirmEffect, OtherConfs,
         Chained, Passed, Staging, AllStaged, Grows, Of, Working, Shaped, Busy
    <2> QED BY <2>3, <2>4
  <1>21. ASSUME NEW s \in Sets, Apply(s) PROVE Passed(d)'
    BY <1>21, ApplyDoes, ConfHas, ChunkIn, FirstIn DEF SetGets, Chained, Passed,
       Staging, AllStaged, Grows, Of, Working, Shaped, Busy
  <1>22. ASSUME NEW s \in Sets, Discard(s) PROVE Passed(d)'
    BY <1>22, DiscardDoes, ConfHas, ChunkIn, FirstIn DEF SetGets, Chained,
       Passed, Staging, AllStaged, Grows, Of, Working, Shaped, Busy
  <1>23. ASSUME CleanupUpdate PROVE Passed(d)'
    BY <1>23, UpdateDoes, ConfHas, ChunkIn, FirstIn DEF Chained, Passed,
       Staging, AllStaged, Grows, Of, Working, Shaped, Busy
  <1>24. ASSUME CleanupDelete PROVE Passed(d)'
    BY <1>24, DeleteDoes, ConfHas, ChunkIn, FirstIn DEF NoJob, Chained, Passed,
       Staging, AllStaged, Grows, Of, Working, Shaped, Busy
  <1>25. ASSUME CleanupFiles PROVE Passed(d)'
    BY <1>25, FilesDoes, ConfHas, ChunkIn, FirstIn DEF Chained, Passed, Staging,
       AllStaged, Grows, Of, Working, Shaped, Busy
  <1>26. ASSUME Restart PROVE Passed(d)'
    BY <1>26, RestartDoes, ConfHas, ChunkIn, FirstIn DEF Stations, Idle,
       Chained, Passed, Staging, AllStaged, Grows, Of, Working, Shaped, Busy
  <1>27. ASSUME KillCleanup PROVE Passed(d)'
    BY <1>27, KillDoes, ConfHas, ChunkIn, FirstIn DEF Chained, Passed, Staging,
       AllStaged, Grows, Of, Working, Shaped, Busy
  <1>28. CASE UNCHANGED vars
    BY <1>28, ConfHas, ChunkIn, FirstIn DEF vars, request, Chained, Passed,
       Staging, AllStaged, Grows, Of, Working, Shaped, Busy
  <1> QED
    BY <1>1, <1>2, <1>3, <1>4, <1>5, <1>6, <1>7, <1>8, <1>9, <1>10, <1>11,
       <1>12, <1>13, <1>14, <1>15, <1>16, <1>17, <1>18, <1>19, <1>20, <1>21,
       <1>22, <1>23, <1>24, <1>25, <1>26, <1>27, <1>28 DEF Next, Upload,
       ConfirmMapping, Cleanup

(* Jobs, sets and confirmers agree.                                          *)
LEMMA AlwaysChained == Spec => []Chained
  <1>1. Init => Chained
    <2> SUFFICES ASSUME Init PROVE Chained
      OBVIOUS
    <2>1. \A s \in Sets : set[s].status = "none" /\ ~set[s].items
      BY DEF Init
    <2>2. \A u \in Uploads : job[u] = NoJob
      BY DEF Init
    <2>3. ASSUME NEW u \in Uploads PROVE Tied(u) /\ InOrder(u)
      BY <2>1, <2>2, SetIn DEF Tied, InOrder, NoJob, Unconfirmed
    <2>4. \A c \in Confirmers : conf[c].pc = "idle"
      BY DEF Init, Idle
    <2> QED BY <2>1, <2>3, <2>4 DEF Chained, Stocked, Linked, Passed, Staging
  <1>2. Shaped /\ Kept /\ Chained /\ [Next]_vars => Chained'
    <2> SUFFICES ASSUME Shaped, Kept, Chained, [Next]_vars PROVE Chained'
      OBVIOUS
    <2>1. \A u \in Uploads : Tied(u)' /\ InOrder(u)'
      BY TiedStep, InOrderStep
    <2>2. \A s \in Sets : Stocked(s)'
      BY StockedStep
    <2>3. \A c \in Confirmers : Linked(c)' /\ Passed(c)'
      BY LinkedStep, PassedStep, RowsGrow
    <2> QED BY <2>1, <2>2, <2>3 DEF Chained
  <1> QED BY <1>1, <1>2, AlwaysShaped, AlwaysKept, PTL DEF Spec

-----------------------------------------------------------------------------
(* A steady sheet that is not staged as a whole.                             *)

Carried(c) ==
    Working(c) /\ Steady(Of(c)) =>
        /\ conf[c].pc \in {"missed", "reject"} => ~Unconfirmed(Of(c))
        /\ (Staging(c) /\ conf[c].k > 1) \/ conf[c].pc = "final" => conf[c].staged
Guarded(u) ==
    Steady(u) /\ ~AllStaged(u) =>
        /\ set[First(u)].status = "pending" => job[u].status = "mapping_confirmed" /\ job[u].linked
        /\ set[First(u)].status = "pending" /\ set[First(u)].items => job[u].chunks
        /\ set[First(u)].status # "pending" /\ set[First(u)].items
             => \A s \in SetsOf(u) : set[s].status # "pending"
Doomed(u) ==
    maint.pc = "delete" /\ u \in maint.old /\ Steady(u) /\ ~AllStaged(u) =>
        /\ set[First(u)].status = "pending" => First(u) \in maint.drop
        /\ set[First(u)].items => \A s \in SetsOf(u) : set[s].status = "pending" => s \in maint.drop
Sheltered ==
    /\ \A c \in Confirmers : Carried(c)
    /\ \A u \in Uploads : Guarded(u) /\ Doomed(u)

(* Whoever passes a chunk of a steady sheet has staged some.                 *)
LEMMA CarriedStep ==
    ASSUME Shaped, Kept, Chained, Sheltered, Grows, NEW d \in Confirmers, [Next]_vars PROVE Carried(d)'
  <1>1. ASSUME NEW u \in Uploads, Admit(u) PROVE Carried(d)'
    BY <1>1, AdmitDoes, ConfHas, FirstIn DEF UpGets, Stations, Sheltered,
       Carried, Steady, Staging, Working, Unconfirmed, Confirmable, Kept,
       Placed, Employed, Of, Shaped, Busy
  <1>2. ASSUME NEW u \in Uploads, ReserveJob(u) PROVE Carried(d)'
    BY <1>2, ReserveDoes, ConfHas, FirstIn DEF UpGets, Stations, JobGets,
       Sheltered, Carried, Steady, Staging, Working, Unconfirmed, Confirmable,
       Kept, Placed, Employed, Of, Shaped, Busy
  <1>3. ASSUME NEW u \in Uploads, WriteFile(u) PROVE Carried(d)'
    BY <1>3, WriteDoes, ConfHas, FirstIn DEF UpGets, Stations, Stores,
       Sheltered, Carried, Steady, Staging, Working, Unconfirmed, Confirmable,
       Kept, Placed, Employed, Of, Shaped, Busy
  <1>4. ASSUME NEW u \in Uploads, WriteFails(u) PROVE Carried(d)'
    BY <1>4, WriteFailsDoes, ConfHas, FirstIn DEF UpGets, Stations, Vacates,
       NoJob, Sheltered, Carried, Steady, Staging, Working, Unconfirmed,
       Confirmable, Kept, Placed, Employed, Of, Shaped, Busy
  <1>5. ASSUME NEW u \in Uploads, SheetFails(u) PROVE Carried(d)'
    BY <1>5, SheetFailsDoes, ConfHas, FirstIn DEF UpGets, Stations, Sheltered,
       Carried, Steady, Staging, Working, Unconfirmed, Confirmable, Kept,
       Placed, Employed, Of, Shaped, Busy
  <1>6. ASSUME NEW u \in Uploads, Finalize(u) PROVE Carried(d)'
    BY <1>6, FinalizeDoes, ConfHas, FirstIn DEF UpGets, Stations, JobGets,
       Sheltered, Carried, Steady, Staging, Working, Unconfirmed, Confirmable,
       Kept, Placed, Employed, Of, Shaped, Busy
  <1>7. ASSUME NEW u \in Uploads, DiscardReserved(u) PROVE Carried(d)'
    BY <1>7, DiscardReservedDoes, ConfHas, FirstIn DEF UpGets, Stations,
       Vacates, NoJob, Sheltered, Carried, Steady, Staging, Working,
       Unconfirmed, Confirmable, Kept, Placed, Employed, Of, Shaped, Busy
  <1>8. ASSUME NEW u \in Uploads, RemovePrivateFile(u) PROVE Carried(d)'
    BY <1>8, RemoveDoes, ConfHas, FirstIn DEF UpGets, Stations, Removes,
       Sheltered, Carried, Steady, Staging, Working, Unconfirmed, Confirmable,
       Kept, Placed, Employed, Of, Shaped, Busy
  <1>9. ASSUME NEW u \in Uploads, Age(u) PROVE Carried(d)'
    BY <1>9, AgeDoes, ConfHas, FirstIn DEF Sheltered, Carried, Steady, Staging,
       Working, Unconfirmed, Confirmable, Kept, Placed, Employed, Of, Shaped,
       Busy
  <1>10. ASSUME NEW c \in Confirmers, ReadUpload(c) PROVE Carried(d)'
    <2>3. CASE d # c
      BY <1>10, ReadDoes, <2>3, ConfHas, FirstIn DEF Moves, OtherConfs, Sheltered,
         Carried, Steady, Staging, Working, Unconfirmed, Confirmable, Kept,
         Placed, Employed, Of, Shaped, Busy
    <2>4. CASE d = c
      BY <1>10, ReadDoes, <2>4, ConfHas, FirstIn DEF Moves, OtherConfs, Sheltered,
         Carried, Steady, Staging, Working, Unconfirmed, Confirmable, Kept,
         Placed, Employed, Of, Shaped, Busy
    <2> QED BY <2>3, <2>4
  <1>11. ASSUME NEW c \in Confirmers, Missed(c) PROVE Carried(d)'
    BY <1>11, MissedDoes, ConfHas, FirstIn DEF Moves, Leaves, OtherConfs, Idle,
       Sheltered, Carried, Steady, Staging, Working, Unconfirmed, Confirmable,
       Kept, Placed, Employed, Of, Shaped, Busy
  <1>12. ASSUME NEW c \in Confirmers, Link(c) PROVE Carried(d)'
    <2>1. PICK u : u = Of(c)
      OBVIOUS
    <2>2. LinkEffect(c, u)
      BY <1>12, <2>1, LinkDoes
    <2>3. CASE d # c
      <3>1. conf'[d] = conf[d]
        BY <2>2, <2>3 DEF LinkEffect, Moves, Leaves, OtherConfs
      <3>2. Working(d) /\ Unconfirmed(Of(d))' => Unconfirmed(Of(d))
        BY <2>2, <3>1, ConfHas DEF LinkEffect, JobGets, Unconfirmed, Confirmable, Of, Working
      <3> QED BY <3>1, <3>2 DEF Sheltered, Carried, Steady, Staging, Working, Of
    <2>4. CASE d = c
      BY <2>2, <2>4 DEF LinkEffect, Moves, Leaves, OtherConfs, Idle, JobGets,
         SetGets, Sheltered, Carried, Steady, Staging, Working, Unconfirmed,
         Confirmable, Kept, Placed, Employed
    <2> QED BY <2>3, <2>4
  <1>13. ASSUME NEW c \in Confirmers, EnsureChunkLinks(c) PROVE Carried(d)'
    <2>1. PICK u : u = Of(c)
      OBVIOUS
    <2>2. EnsureEffect(c, u)
      BY <1>13, <2>1, EnsureDoes
    <2>3. CASE d # c
      BY <2>2 DEF EnsureEffect, Moves, Leaves, OtherConfs, Idle, JobGets,
         Opened, Sheltered, Carried, Steady, Staging, Working, Unconfirmed,
         Confirmable, Kept, Placed, Employed, Of, Shaped, Busy
    <2>4. CASE d = c
      BY <2>2, <2>4 DEF EnsureEffect, Moves, Leaves, OtherConfs, Idle, JobGets,
         Opened, Carried, Steady, Staging, Working, Unconfirmed, Confirmable
    <2> QED BY <2>3, <2>4
  <1>14. ASSUME NEW c \in Confirmers, PreviewBatch(c) PROVE Carried(d)'
    <2>1. PICK s : s = <<Of(c), conf[c].k>>
      OBVIOUS
    <2>2. PreviewEffect(c, s)
      BY <1>14, <2>1, PreviewDoes
    <2>3. CASE d # c
      BY <2>1, <2>2, <2>3, ConfHas DEF PreviewEffect, Passes, Moves, Leaves, OtherConfs,
         Sheltered, Carried, Staging, Working, Unconfirmed, Of
    <2>4. CASE d = c /\ Steady(Of(c))
      <3>1. /\ Of(c) \in Uploads /\ conf[c].k \in Nat /\ conf[c].k >= 1 /\ ChunksOf[Of(c)] \in Nat
            /\ conf[c].staged \in BOOLEAN
        BY <2>2, ConfHas, FirstIn DEF PreviewEffect
      <3>2. conf[c].k = 1 => conf[c].k \in Accepted[Of(c)]
        BY <2>4 DEF Steady
      <3>3. conf[c].k > 1 => conf[c].staged
        BY <2>2, <2>4 DEF PreviewEffect, Sheltered, Carried, Working, Staging
      <3>4. CASE Passes(c, TRUE) \/ (conf[c].k \notin Accepted[Of(c)] /\ Passes(c, FALSE))
        <4>1. conf'[c].pc \in {"stage", "final"} /\ conf'[c].staged \in BOOLEAN
          BY <3>4 DEF Passes, Moves, OtherConfs, Confirming
        <4>2. conf'[c].staged
          <5>1. CASE Passes(c, TRUE)
            BY <4>1, <5>1 DEF Passes, Moves
          <5>2. CASE conf[c].k \notin Accepted[Of(c)] /\ Passes(c, FALSE)
            <6>1. conf[c].staged
              BY <3>1, <3>2, <3>3, <5>2
            <6> QED BY <4>1, <5>2, <6>1 DEF Passes, Moves
          <5> QED BY <3>4, <5>1, <5>2
        <4> QED BY <2>4, <4>1, <4>2 DEF Carried
      <3>5. CASE Leaves(c)
        BY <2>4, <3>5 DEF Leaves, Idle, Carried, Working
      <3>6. CASE Moves(c, "stage", conf[c].k, conf[c].staged) \/ Moves(c, "store", conf[c].k, conf[c].staged)
        BY <2>4, <3>3, <3>6 DEF Moves, Carried, Staging
      <3> QED BY <2>2, <3>4, <3>5, <3>6 DEF PreviewEffect
    <2>5. CASE d = c /\ ~Steady(Of(c))
      <3>1. Of(c)' = Of(c) \/ conf'[c].pc = "idle"
        <4>1. \/ Leaves(c) \/ Passes(c, TRUE) \/ Passes(c, FALSE)
              \/ \E pc \in Places : Moves(c, pc, conf[c].k, conf[c].staged)
          BY <2>2 DEF PreviewEffect, Places
        <4> QED BY <4>1 DEF Passes, Moves, Leaves, Idle, Of
      <3> QED BY <2>5, <3>1 DEF Carried, Working, Steady
    <2> QED BY <2>3, <2>4, <2>5
  <1>15. ASSUME NEW c \in Confirmers, StoreBatch(c) PROVE Carried(d)'
    <2>1. PICK s : s = <<Of(c), conf[c].k>>
      OBVIOUS
    <2>2. StoreEffect(c, s)
      BY <1>15, <2>1, StoreDoes
    <2>3. CASE d # c
      BY <2>1, <2>2, <2>3, ConfHas DEF StoreEffect, Passes, Moves, Leaves, OtherConfs,
         Sheltered, Carried, Staging, Working, Unconfirmed, Of
    <2>4. CASE d = c /\ Steady(Of(c))
      <3>1. /\ Of(c) \in Uploads /\ conf[c].k \in Nat /\ conf[c].k >= 1 /\ ChunksOf[Of(c)] \in Nat
            /\ conf[c].staged \in BOOLEAN
        BY <2>2, ConfHas, FirstIn DEF StoreEffect
      <3>2. conf[c].k = 1 => conf[c].k \in Accepted[Of(c)]
        BY <2>4 DEF Steady
      <3>3. conf[c].k > 1 => conf[c].staged
        BY <2>2, <2>4 DEF StoreEffect, Sheltered, Carried, Working, Staging
      <3>4. CASE Passes(c, TRUE) \/ (conf[c].k \notin Accepted[Of(c)] /\ Passes(c, FALSE))
        <4>1. conf'[c].pc \in {"stage", "final"} /\ conf'[c].staged \in BOOLEAN
          BY <3>4 DEF Passes, Moves, OtherConfs, Confirming
        <4>2. conf'[c].staged
          <5>1. CASE Passes(c, TRUE)
            BY <4>1, <5>1 DEF Passes, Moves
          <5>2. CASE conf[c].k \notin Accepted[Of(c)] /\ Passes(c, FALSE)
            <6>1. conf[c].staged
              BY <3>1, <3>2, <3>3, <5>2
            <6> QED BY <4>1, <5>2, <6>1 DEF Passes, Moves
          <5> QED BY <3>4, <5>1, <5>2
        <4> QED BY <2>4, <4>1, <4>2 DEF Carried
      <3>5. CASE Leaves(c)
        BY <2>4, <3>5 DEF Leaves, Idle, Carried, Working
      <3>6. CASE Moves(c, "stage", conf[c].k, conf[c].staged) \/ Moves(c, "store", conf[c].k, conf[c].staged)
        BY <2>4, <3>3, <3>6 DEF Moves, Carried, Staging
      <3> QED BY <2>2, <3>4, <3>5, <3>6 DEF StoreEffect
    <2>5. CASE d = c /\ ~Steady(Of(c))
      <3>1. Of(c)' = Of(c) \/ conf'[c].pc = "idle"
        <4>1. \/ Leaves(c) \/ Passes(c, TRUE) \/ Passes(c, FALSE)
              \/ \E pc \in Places : Moves(c, pc, conf[c].k, conf[c].staged)
          BY <2>2 DEF StoreEffect, Places
        <4> QED BY <4>1 DEF Passes, Moves, Leaves, Idle, Of
      <3> QED BY <2>5, <3>1 DEF Carried, Working, Steady
    <2> QED BY <2>3, <2>4, <2>5
  <1>16. ASSUME NEW c \in Confirmers, FinishJob(c) PROVE Carried(d)'
    <2>1. PICK u : u = Of(c)
      OBVIOUS
    <2>2. FinishEffect(c, u)
      BY <1>16, <2>1, FinishDoes
    <2>3. CASE d # c
      <3>1. conf'[d] = conf[d] /\ set' = set
        BY <2>2, <2>3 DEF FinishEffect, Moves, Leaves, OtherConfs
      <3>2. Working(d) /\ Unconfirmed(Of(d))' => Unconfirmed(Of(d))
        BY <2>2, <3>1, ConfHas DEF FinishEffect, JobGets, Unconfirmed, Of, Working
      <3> QED BY <3>1, <3>2 DEF Sheltered, Carried, Steady, Staging, Working, Of
    <2>4. CASE d = c
      BY <2>2, <2>4 DEF FinishEffect, Moves, Leaves, OtherConfs, Idle, JobGets,
         Sheltered, Carried, Steady, Staging, Working, Unconfirmed,
         Confirmable, Kept, Placed, Employed
    <2> QED BY <2>3, <2>4
  <1>17. ASSUME NEW c \in Confirmers, ConfirmUnlink(c) PROVE Carried(d)'
    BY <1>17, UnlinkDoes, ConfHas, FirstIn DEF Removes, Moves, Leaves,
       OtherConfs, Idle, Sheltered, Carried, Steady, Staging, Working,
       Unconfirmed, Confirmable, Kept, Placed, Employed, Of, Shaped, Busy
  <1>18. ASSUME NEW c \in Confirmers, DropEmpty(c) PROVE Carried(d)'
    <2>1. PICK s : s = First(Of(c))
      OBVIOUS
    <2>2. DropEffect(c, s)
      BY <1>18, <2>1, DropDoes
    <2> QED
      BY <2>1, <2>2, ConfHas, FirstIn DEF DropEffect, Leaves, OtherConfs, Idle,
         SetGets, Sheltered, Carried, Steady, Staging, Working, Unconfirmed,
         Confirmable, Kept, Placed, Employed, Of, Shaped, Busy
  <1>19. ASSUME NEW c \in Confirmers, MarkRejected(c) PROVE Carried(d)'
    <2>1. PICK u : u = Of(c)
      OBVIOUS
    <2>2. RejectEffect(c, u)
      BY <1>19, <2>1, RejectDoes
    <2>3. CASE d # c
      BY <2>2 DEF RejectEffect, Moves, OtherConfs, JobGets, SetGets, Sheltered,
         Carried, Steady, Staging, Working, Unconfirmed, Confirmable, Kept,
         Placed, Employed, Of, Shaped, Busy
    <2>4. CASE d = c
      BY <2>1, <2>2, <2>4, ConfHas, FirstIn DEF RejectEffect, Moves, OtherConfs,
         JobGets, SetGets, Sheltered, Carried, Steady, Staging, Working,
         Unconfirmed, Confirmable, Kept, Placed, Employed, Of, Shaped, Busy
    <2> QED BY <2>3, <2>4
  <1>20. ASSUME NEW c \in Confirmers, NEW u \in Tabs[c], Confirm(c, u) PROVE Carried(d)'
    <2>1. ConfirmEffect(c, u)
      BY <1>20, ConfirmDoes
    <2>3. CASE d # c
      BY <2>1, <2>3, ConfHas, FirstIn DEF ConfirmEffect, OtherConfs, Sheltered,
         Carried, Steady, Staging, Working, Unconfirmed, Confirmable, Kept,
         Placed, Employed, Of, Shaped, Busy
    <2>4. CASE d = c
      BY <2>1, <2>4, ConfHas, FirstIn DEF ConfirmEffect, OtherConfs, Sheltered,
         Carried, Steady, Staging, Working, Unconfirmed, Confirmable, Kept,
         Placed, Employed, Of, Shaped, Busy
    <2> QED BY <2>3, <2>4
  <1>21. ASSUME NEW s \in Sets, Apply(s) PROVE Carried(d)'
    BY <1>21, ApplyDoes, ConfHas, FirstIn DEF SetGets, Sheltered, Carried,
       Steady, Staging, Working, Unconfirmed, Confirmable, Kept, Placed,
       Employed, Of, Shaped, Busy
  <1>22. ASSUME NEW s \in Sets, Discard(s) PROVE Carried(d)'
    BY <1>22, DiscardDoes, ConfHas, FirstIn DEF SetGets, Sheltered, Carried,
       Steady, Staging, Working, Unconfirmed, Confirmable, Kept, Placed,
       Employed, Of, Shaped, Busy
  <1>23. ASSUME CleanupUpdate PROVE Carried(d)'
    BY <1>23, UpdateDoes, ConfHas, FirstIn DEF Sheltered, Carried, Steady,
       Staging, Working, Unconfirmed, Confirmable, Kept, Placed, Employed, Of,
       Shaped, Busy
  <1>24. ASSUME CleanupDelete PROVE Carried(d)'
    BY <1>24, DeleteDoes, ConfHas, FirstIn DEF NoJob, Sheltered, Carried,
       Steady, Staging, Working, Unconfirmed, Confirmable, Kept, Placed,
       Employed, Of, Shaped, Busy
  <1>25. ASSUME CleanupFiles PROVE Carried(d)'
    BY <1>25, FilesDoes, ConfHas, FirstIn DEF Sheltered, Carried, Steady,
       Staging, Working, Unconfirmed, Confirmable, Kept, Placed, Employed, Of,
       Shaped, Busy
  <1>26. ASSUME Restart PROVE Carried(d)'
    BY <1>26, RestartDoes, ConfHas, FirstIn DEF Stations, Idle, Sheltered,
       Carried, Steady, Staging, Working, Unconfirmed, Confirmable, Kept,
       Placed, Employed, Of, Shaped, Busy
  <1>27. ASSUME KillCleanup PROVE Carried(d)'
    BY <1>27, KillDoes, ConfHas, FirstIn DEF Sheltered, Carried, Steady,
       Staging, Working, Unconfirmed, Confirmable, Kept, Placed, Employed, Of,
       Shaped, Busy
  <1>28. CASE UNCHANGED vars
    BY <1>28, ConfHas, FirstIn DEF vars, request, Sheltered, Carried, Steady,
       Staging, Working, Unconfirmed, Confirmable, Kept, Placed, Employed, Of,
       Shaped, Busy
  <1> QED
    BY <1>1, <1>2, <1>3, <1>4, <1>5, <1>6, <1>7, <1>8, <1>9, <1>10, <1>11,
       <1>12, <1>13, <1>14, <1>15, <1>16, <1>17, <1>18, <1>19, <1>20, <1>21,
       <1>22, <1>23, <1>24, <1>25, <1>26, <1>27, <1>28 DEF Next, Upload,
       ConfirmMapping, Cleanup

(* What is not staged now was not before.                                    *)
LEMMA NotYet ==
    ASSUME Grows, NEW w \in Uploads, ~AllStaged(w)' PROVE ~AllStaged(w)
  BY ChunkIn DEF Grows, AllStaged

(* The chunks of a steady sheet are kept from the review.                    *)
LEMMA GuardedStep ==
    ASSUME Shaped, Kept, Chained, Sheltered, Grows, NEW w \in Uploads, Steady(w), ~AllStaged(w), ~AllStaged(w)', [Next]_vars PROVE Guarded(w)'
  <1>1. ASSUME NEW u \in Uploads, Admit(u) PROVE Guarded(w)'
    BY <1>1, AdmitDoes, JobHas, SetHas, FirstIn DEF UpGets, Stations, Sheltered,
       Guarded
  <1>2. ASSUME NEW u \in Uploads, ReserveJob(u) PROVE Guarded(w)'
    BY <1>2, ReserveDoes, JobHas, SetHas, FirstIn DEF UpGets, Stations, JobGets,
       Sheltered, Guarded, Kept, Placed
  <1>3. ASSUME NEW u \in Uploads, WriteFile(u) PROVE Guarded(w)'
    BY <1>3, WriteDoes, JobHas, SetHas, FirstIn DEF UpGets, Stations, Stores,
       Sheltered, Guarded
  <1>4. ASSUME NEW u \in Uploads, WriteFails(u) PROVE Guarded(w)'
    BY <1>4, WriteFailsDoes, JobHas, SetHas, FirstIn DEF UpGets, Stations,
       Vacates, NoJob, Sheltered, Guarded
  <1>5. ASSUME NEW u \in Uploads, SheetFails(u) PROVE Guarded(w)'
    BY <1>5, SheetFailsDoes, JobHas, SetHas, FirstIn DEF UpGets, Stations,
       Sheltered, Guarded
  <1>6. ASSUME NEW u \in Uploads, Finalize(u) PROVE Guarded(w)'
    BY <1>6, FinalizeDoes, JobHas, SetHas, FirstIn DEF UpGets, Stations,
       JobGets, Sheltered, Guarded
  <1>7. ASSUME NEW u \in Uploads, DiscardReserved(u) PROVE Guarded(w)'
    BY <1>7, DiscardReservedDoes, JobHas, SetHas, FirstIn DEF UpGets, Stations,
       Vacates, NoJob, Sheltered, Guarded
  <1>8. ASSUME NEW u \in Uploads, RemovePrivateFile(u) PROVE Guarded(w)'
    BY <1>8, RemoveDoes, JobHas, SetHas, FirstIn DEF UpGets, Stations, Removes,
       Sheltered, Guarded
  <1>9. ASSUME NEW u \in Uploads, Age(u) PROVE Guarded(w)'
    BY <1>9, AgeDoes, JobHas, SetHas, FirstIn DEF Sheltered, Guarded
  <1>10. ASSUME NEW c \in Confirmers, ReadUpload(c) PROVE Guarded(w)'
    BY <1>10, ReadDoes, JobHas, SetHas, FirstIn DEF Moves, OtherConfs,
       Sheltered, Guarded
  <1>11. ASSUME NEW c \in Confirmers, Missed(c) PROVE Guarded(w)'
    BY <1>11, MissedDoes, JobHas, SetHas, FirstIn DEF Moves, Leaves, OtherConfs,
       Idle, Sheltered, Guarded
  <1>12. ASSUME NEW c \in Confirmers, Link(c) PROVE Guarded(w)'
    <2>1. PICK u : u = Of(c)
      OBVIOUS
    <2>2. LinkEffect(c, u)
      BY <1>12, <2>1, LinkDoes
    <2> QED
      BY <2>1, <2>2, JobHas, SetHas, FirstIn DEF LinkEffect, Moves, Leaves,
         OtherConfs, Idle, JobGets, SetGets, Sheltered, Guarded, Chained, Tied,
         Confirmable, Unconfirmed, SetsOf, First
  <1>13. ASSUME NEW c \in Confirmers, EnsureChunkLinks(c) PROVE Guarded(w)'
    <2>1. PICK u : u = Of(c)
      OBVIOUS
    <2>2. EnsureEffect(c, u)
      BY <1>13, <2>1, EnsureDoes
    <2> QED
      BY <2>1, <2>2, FirstIn DEF EnsureEffect, Leaves, OtherConfs, Idle,
         JobGets, Opened, Sheltered, Guarded, Chained, Tied, Linked,
         Unconfirmed, SetsOf
  <1>14. ASSUME NEW c \in Confirmers, PreviewBatch(c) PROVE Guarded(w)'
    <2>1. PICK s : s = <<Of(c), conf[c].k>>
      OBVIOUS
    <2>2. PreviewEffect(c, s)
      BY <1>14, <2>1, PreviewDoes
    <2> QED
      BY <2>1, <2>2, JobHas, SetHas, FirstIn DEF PreviewEffect, Passes, Moves,
         Leaves, OtherConfs, Idle, Sheltered, Guarded
  <1>15. ASSUME NEW c \in Confirmers, StoreBatch(c) PROVE Guarded(w)'
    <2>1. PICK s : s = <<Of(c), conf[c].k>>
      OBVIOUS
    <2>2. StoreEffect(c, s)
      BY <1>15, <2>1, StoreDoes
    <2> QED
      BY <2>1, <2>2, FirstIn DEF StoreEffect, Passes, SetGets, Sheltered,
         Guarded, Chained, Linked, SetsOf
  <1>16. ASSUME NEW c \in Confirmers, FinishJob(c) PROVE Guarded(w)'
    <2>1. PICK u : u = Of(c)
      OBVIOUS
    <2>2. FinishEffect(c, u)
      BY <1>16, <2>1, FinishDoes
    <2> QED
      BY <2>1, <2>2, JobHas, SetHas, FirstIn DEF FinishEffect, Moves, Leaves,
         OtherConfs, Idle, JobGets, Sheltered, Guarded, Chained, Passed
  <1>17. ASSUME NEW c \in Confirmers, ConfirmUnlink(c) PROVE Guarded(w)'
    BY <1>17, UnlinkDoes, JobHas, SetHas, FirstIn DEF Removes, Moves, Leaves,
       OtherConfs, Idle, Sheltered, Guarded
  <1>18. ASSUME NEW c \in Confirmers, DropEmpty(c) PROVE Guarded(w)'
    <2>1. PICK s : s = First(Of(c))
      OBVIOUS
    <2>2. DropEffect(c, s)
      BY <1>18, <2>1, DropDoes
    <2> QED
      BY <2>1, <2>2, JobHas, SetHas, FirstIn DEF DropEffect, Leaves, OtherConfs,
         Idle, SetGets, Sheltered, Guarded, Reviewable, BuildInProgress, SetsOf,
         First
  <1>19. ASSUME NEW c \in Confirmers, MarkRejected(c) PROVE Guarded(w)'
    <2>1. PICK u : u = Of(c)
      OBVIOUS
    <2>2. RejectEffect(c, u)
      BY <1>19, <2>1, RejectDoes
    <2>3. CASE w # u
      BY <2>1, <2>2, <2>3, JobHas, SetHas, FirstIn DEF RejectEffect, Moves,
         OtherConfs, JobGets, SetGets, Sheltered, Guarded, Carried, Working,
         SetsOf, First, AllStaged
    <2>4. CASE w = u
      BY <2>1, <2>2, <2>4, JobHas, SetHas, FirstIn DEF RejectEffect, Moves,
         OtherConfs, JobGets, SetGets, Sheltered, Guarded, Carried, Working,
         SetsOf, First, AllStaged
    <2> QED BY <2>3, <2>4
  <1>20. ASSUME NEW c \in Confirmers, NEW u \in Tabs[c], Confirm(c, u) PROVE Guarded(w)'
    <2>1. ConfirmEffect(c, u)
      BY <1>20, ConfirmDoes
    <2> QED
      BY <2>1, JobHas, SetHas, FirstIn DEF ConfirmEffect, OtherConfs, Sheltered,
         Guarded
  <1>21. ASSUME NEW s \in Sets, Apply(s) PROVE Guarded(w)'
    BY <1>21, ApplyDoes, JobHas, SetHas, FirstIn DEF SetGets, Sheltered,
       Guarded, Reviewable, BuildInProgress, SetsOf, First
  <1>22. ASSUME NEW s \in Sets, Discard(s) PROVE Guarded(w)'
    BY <1>22, DiscardDoes, JobHas, SetHas, FirstIn DEF SetGets, Sheltered,
       Guarded, Reviewable, BuildInProgress, SetsOf, First
  <1>23. ASSUME CleanupUpdate PROVE Guarded(w)'
    BY <1>23, UpdateDoes, JobHas, SetHas, FirstIn DEF Sheltered, Guarded
  <1>24. ASSUME CleanupDelete PROVE Guarded(w)'
    BY <1>24, DeleteDoes, JobHas, SetHas, FirstIn DEF NoJob, Sheltered, Guarded,
       Doomed, Kept, Retiring, SetsOf, First, Cleaning
  <1>25. ASSUME CleanupFiles PROVE Guarded(w)'
    BY <1>25, FilesDoes, JobHas, SetHas, FirstIn DEF Sheltered, Guarded
  <1>26. ASSUME Restart PROVE Guarded(w)'
    BY <1>26, RestartDoes, JobHas, SetHas, FirstIn DEF Stations, Idle,
       Sheltered, Guarded
  <1>27. ASSUME KillCleanup PROVE Guarded(w)'
    BY <1>27, KillDoes, JobHas, SetHas, FirstIn DEF Sheltered, Guarded
  <1>28. CASE UNCHANGED vars
    BY <1>28, JobHas, SetHas, FirstIn DEF vars, request, Sheltered, Guarded
  <1> QED
    BY <1>1, <1>2, <1>3, <1>4, <1>5, <1>6, <1>7, <1>8, <1>9, <1>10, <1>11,
       <1>12, <1>13, <1>14, <1>15, <1>16, <1>17, <1>18, <1>19, <1>20, <1>21,
       <1>22, <1>23, <1>24, <1>25, <1>26, <1>27, <1>28 DEF Next, Upload,
       ConfirmMapping, Cleanup

(* The open cleanup has taken all of it.                                     *)
LEMMA DoomedStep ==
    ASSUME Shaped, Kept, Chained, Sheltered, Grows, NEW w \in Uploads, Steady(w), ~AllStaged(w), ~AllStaged(w)', [Next]_vars PROVE Doomed(w)'
  <1>1. ASSUME NEW u \in Uploads, Admit(u) PROVE Doomed(w)'
    BY <1>1, AdmitDoes, JobHas, SetHas, FirstIn DEF UpGets, Stations, Sheltered,
       Guarded, Doomed
  <1>2. ASSUME NEW u \in Uploads, ReserveJob(u) PROVE Doomed(w)'
    BY <1>2, ReserveDoes, JobHas, SetHas, FirstIn DEF UpGets, Stations, JobGets,
       Sheltered, Guarded, Doomed
  <1>3. ASSUME NEW u \in Uploads, WriteFile(u) PROVE Doomed(w)'
    BY <1>3, WriteDoes, JobHas, SetHas, FirstIn DEF UpGets, Stations, Stores,
       Sheltered, Guarded, Doomed
  <1>4. ASSUME NEW u \in Uploads, WriteFails(u) PROVE Doomed(w)'
    BY <1>4, WriteFailsDoes, JobHas, SetHas, FirstIn DEF UpGets, Stations,
       Vacates, NoJob, Sheltered, Guarded, Doomed
  <1>5. ASSUME NEW u \in Uploads, SheetFails(u) PROVE Doomed(w)'
    BY <1>5, SheetFailsDoes, JobHas, SetHas, FirstIn DEF UpGets, Stations,
       Sheltered, Guarded, Doomed
  <1>6. ASSUME NEW u \in Uploads, Finalize(u) PROVE Doomed(w)'
    BY <1>6, FinalizeDoes, JobHas, SetHas, FirstIn DEF UpGets, Stations,
       JobGets, Sheltered, Guarded, Doomed
  <1>7. ASSUME NEW u \in Uploads, DiscardReserved(u) PROVE Doomed(w)'
    BY <1>7, DiscardReservedDoes, JobHas, SetHas, FirstIn DEF UpGets, Stations,
       Vacates, NoJob, Sheltered, Guarded, Doomed
  <1>8. ASSUME NEW u \in Uploads, RemovePrivateFile(u) PROVE Doomed(w)'
    BY <1>8, RemoveDoes, JobHas, SetHas, FirstIn DEF UpGets, Stations, Removes,
       Sheltered, Guarded, Doomed
  <1>9. ASSUME NEW u \in Uploads, Age(u) PROVE Doomed(w)'
    BY <1>9, AgeDoes, JobHas, SetHas, FirstIn DEF Sheltered, Guarded, Doomed
  <1>10. ASSUME NEW c \in Confirmers, ReadUpload(c) PROVE Doomed(w)'
    BY <1>10, ReadDoes, JobHas, SetHas, FirstIn DEF Moves, OtherConfs,
       Sheltered, Guarded, Doomed
  <1>11. ASSUME NEW c \in Confirmers, Missed(c) PROVE Doomed(w)'
    BY <1>11, MissedDoes, JobHas, SetHas, FirstIn DEF Moves, Leaves, OtherConfs,
       Idle, Sheltered, Guarded, Doomed
  <1>12. ASSUME NEW c \in Confirmers, Link(c) PROVE Doomed(w)'
    <2>1. PICK u : u = Of(c)
      OBVIOUS
    <2>2. LinkEffect(c, u)
      BY <1>12, <2>1, LinkDoes
    <2> QED
      BY <2>1, <2>2, JobHas, SetHas, FirstIn DEF LinkEffect, Moves, Leaves,
         OtherConfs, Idle, JobGets, SetGets, Sheltered, Guarded, Doomed,
         Confirmable, Kept, Retiring, SetsOf, First
  <1>13. ASSUME NEW c \in Confirmers, EnsureChunkLinks(c) PROVE Doomed(w)'
    <2>1. PICK u : u = Of(c)
      OBVIOUS
    <2>2. EnsureEffect(c, u)
      BY <1>13, <2>1, EnsureDoes
    <2> QED
      BY <2>1, <2>2, FirstIn DEF EnsureEffect, Moves, Leaves, OtherConfs, Idle,
         JobGets, Opened, Sheltered, Guarded, Doomed, Chained, Tied, Linked,
         Unconfirmed, SetsOf
  <1>14. ASSUME NEW c \in Confirmers, PreviewBatch(c) PROVE Doomed(w)'
    <2>1. PICK s : s = <<Of(c), conf[c].k>>
      OBVIOUS
    <2>2. PreviewEffect(c, s)
      BY <1>14, <2>1, PreviewDoes
    <2> QED
      BY <2>1, <2>2, JobHas, SetHas, FirstIn DEF PreviewEffect, Passes, Moves,
         Leaves, OtherConfs, Idle, Sheltered, Guarded, Doomed
  <1>15. ASSUME NEW c \in Confirmers, StoreBatch(c) PROVE Doomed(w)'
    <2>1. PICK s : s = <<Of(c), conf[c].k>>
      OBVIOUS
    <2>2. StoreEffect(c, s)
      BY <1>15, <2>1, StoreDoes
    <2> QED
      BY <2>1, <2>2, JobHas, SetHas, FirstIn DEF StoreEffect, Passes, Moves,
         Leaves, OtherConfs, Idle, SetGets, Sheltered, Guarded, Doomed, Held,
         SetsOf, First
  <1>16. ASSUME NEW c \in Confirmers, FinishJob(c) PROVE Doomed(w)'
    <2>1. PICK u : u = Of(c)
      OBVIOUS
    <2>2. FinishEffect(c, u)
      BY <1>16, <2>1, FinishDoes
    <2> QED
      BY <2>1, <2>2, JobHas, SetHas, FirstIn DEF FinishEffect, Moves, Leaves,
         OtherConfs, Idle, JobGets, Sheltered, Guarded, Doomed
  <1>17. ASSUME NEW c \in Confirmers, ConfirmUnlink(c) PROVE Doomed(w)'
    BY <1>17, UnlinkDoes, JobHas, SetHas, FirstIn DEF Removes, Moves, Leaves,
       OtherConfs, Idle, Sheltered, Guarded, Doomed
  <1>18. ASSUME NEW c \in Confirmers, DropEmpty(c) PROVE Doomed(w)'
    <2>1. PICK s : s = First(Of(c))
      OBVIOUS
    <2>2. DropEffect(c, s)
      BY <1>18, <2>1, DropDoes
    <2> QED
      BY <2>1, <2>2, JobHas, SetHas, FirstIn DEF DropEffect, Leaves, OtherConfs,
         Idle, SetGets, Sheltered, Guarded, Doomed, SetsOf
  <1>19. ASSUME NEW c \in Confirmers, MarkRejected(c) PROVE Doomed(w)'
    <2>1. PICK u : u = Of(c)
      OBVIOUS
    <2>2. RejectEffect(c, u)
      BY <1>19, <2>1, RejectDoes
    <2>3. CASE w # u
      BY <2>1, <2>2, <2>3, JobHas, SetHas, FirstIn DEF RejectEffect, Moves,
         OtherConfs, JobGets, SetGets, Sheltered, Doomed, Carried, Working,
         SetsOf, First
    <2>4. CASE w = u
      BY <2>1, <2>2, <2>4, JobHas, SetHas, FirstIn DEF RejectEffect, Moves,
         OtherConfs, JobGets, SetGets, Sheltered, Doomed, Carried, Working,
         SetsOf, First
    <2> QED BY <2>3, <2>4
  <1>20. ASSUME NEW c \in Confirmers, NEW u \in Tabs[c], Confirm(c, u) PROVE Doomed(w)'
    <2>1. ConfirmEffect(c, u)
      BY <1>20, ConfirmDoes
    <2> QED
      BY <2>1, JobHas, SetHas, FirstIn DEF ConfirmEffect, OtherConfs, Sheltered,
         Guarded, Doomed
  <1>21. ASSUME NEW s \in Sets, Apply(s) PROVE Doomed(w)'
    BY <1>21, ApplyDoes, JobHas, SetHas, FirstIn DEF SetGets, Sheltered,
       Guarded, Doomed, SetsOf
  <1>22. ASSUME NEW s \in Sets, Discard(s) PROVE Doomed(w)'
    BY <1>22, DiscardDoes, JobHas, SetHas, FirstIn DEF SetGets, Sheltered,
       Guarded, Doomed, SetsOf
  <1>23. ASSUME CleanupUpdate PROVE Doomed(w)'
    BY <1>23, UpdateDoes, JobHas, SetHas, FirstIn DEF Sheltered, Guarded,
       Doomed, Unfinished, Incomplete, SetsOf, First
  <1>24. ASSUME CleanupDelete PROVE Doomed(w)'
    BY <1>24, DeleteDoes, JobHas, SetHas, FirstIn DEF NoJob, Sheltered, Guarded,
       Doomed
  <1>25. ASSUME CleanupFiles PROVE Doomed(w)'
    BY <1>25, FilesDoes, JobHas, SetHas, FirstIn DEF Sheltered, Guarded, Doomed
  <1>26. ASSUME Restart PROVE Doomed(w)'
    BY <1>26, RestartDoes, JobHas, SetHas, FirstIn DEF Stations, Idle,
       Sheltered, Guarded, Doomed
  <1>27. ASSUME KillCleanup PROVE Doomed(w)'
    BY <1>27, KillDoes, JobHas, SetHas, FirstIn DEF Sheltered, Guarded, Doomed
  <1>28. CASE UNCHANGED vars
    BY <1>28, JobHas, SetHas, FirstIn DEF vars, request, Sheltered, Guarded,
       Doomed
  <1> QED
    BY <1>1, <1>2, <1>3, <1>4, <1>5, <1>6, <1>7, <1>8, <1>9, <1>10, <1>11,
       <1>12, <1>13, <1>14, <1>15, <1>16, <1>17, <1>18, <1>19, <1>20, <1>21,
       <1>22, <1>23, <1>24, <1>25, <1>26, <1>27, <1>28 DEF Next, Upload,
       ConfirmMapping, Cleanup

(* A steady sheet is sheltered.                                              *)
LEMMA AlwaysSheltered == Spec => []Sheltered
  <1>1. Init => Sheltered
    BY FirstIn DEF Init, Sheltered, Carried, Guarded, Doomed, Working, Idle, Resting
  <1>2. Shaped /\ Kept /\ Chained /\ Sheltered /\ [Next]_vars => Sheltered'
    <2> SUFFICES ASSUME Shaped, Kept, Chained, Sheltered, [Next]_vars PROVE Sheltered'
      OBVIOUS
    <2>1. Grows
      BY RowsGrow
    <2>2. \A c \in Confirmers : Carried(c)'
      BY <2>1, CarriedStep
    <2>3. ASSUME NEW w \in Uploads PROVE Guarded(w)' /\ Doomed(w)'
      <3>1. CASE Steady(w) /\ ~AllStaged(w)'
        BY <2>1, <3>1, NotYet, GuardedStep, DoomedStep
      <3>2. CASE ~ (Steady(w) /\ ~AllStaged(w)')
        BY <3>2 DEF Guarded, Doomed, Steady
      <3> QED BY <3>1, <3>2
    <2> QED BY <2>2, <2>3 DEF Sheltered
  <1> QED BY <1>1, <1>2, AlwaysShaped, AlwaysKept, AlwaysChained, PTL DEF Spec

(* A set is applied by a review.                                             *)
LEMMA AppliedStep ==
    ASSUME Shaped, NEW r \in Sets, set[r].status # "applied", [Next]_vars PROVE (set'[r].status = "applied" => Reviewable(r) /\ set[r].items)
  <1>1. ASSUME NEW u \in Uploads, Admit(u) PROVE (set'[r].status = "applied" => Reviewable(r) /\ set[r].items)
    BY <1>1, AdmitDoes, SetHas, FirstIn DEF UpGets, Stations
  <1>2. ASSUME NEW u \in Uploads, ReserveJob(u) PROVE (set'[r].status = "applied" => Reviewable(r) /\ set[r].items)
    BY <1>2, ReserveDoes, SetHas, FirstIn DEF UpGets, Stations, JobGets
  <1>3. ASSUME NEW u \in Uploads, WriteFile(u) PROVE (set'[r].status = "applied" => Reviewable(r) /\ set[r].items)
    BY <1>3, WriteDoes, SetHas, FirstIn DEF UpGets, Stations, Stores
  <1>4. ASSUME NEW u \in Uploads, WriteFails(u) PROVE (set'[r].status = "applied" => Reviewable(r) /\ set[r].items)
    BY <1>4, WriteFailsDoes, SetHas, FirstIn DEF UpGets, Stations, Vacates,
       NoJob
  <1>5. ASSUME NEW u \in Uploads, SheetFails(u) PROVE (set'[r].status = "applied" => Reviewable(r) /\ set[r].items)
    BY <1>5, SheetFailsDoes, SetHas, FirstIn DEF UpGets, Stations
  <1>6. ASSUME NEW u \in Uploads, Finalize(u) PROVE (set'[r].status = "applied" => Reviewable(r) /\ set[r].items)
    BY <1>6, FinalizeDoes, SetHas, FirstIn DEF UpGets, Stations, JobGets
  <1>7. ASSUME NEW u \in Uploads, DiscardReserved(u) PROVE (set'[r].status = "applied" => Reviewable(r) /\ set[r].items)
    BY <1>7, DiscardReservedDoes, SetHas, FirstIn DEF UpGets, Stations, Vacates,
       NoJob
  <1>8. ASSUME NEW u \in Uploads, RemovePrivateFile(u) PROVE (set'[r].status = "applied" => Reviewable(r) /\ set[r].items)
    BY <1>8, RemoveDoes, SetHas, FirstIn DEF UpGets, Stations, Removes
  <1>9. ASSUME NEW u \in Uploads, Age(u) PROVE (set'[r].status = "applied" => Reviewable(r) /\ set[r].items)
    BY <1>9, AgeDoes, SetHas, FirstIn
  <1>10. ASSUME NEW c \in Confirmers, ReadUpload(c) PROVE (set'[r].status = "applied" => Reviewable(r) /\ set[r].items)
    BY <1>10, ReadDoes, SetHas, FirstIn DEF Moves, OtherConfs
  <1>11. ASSUME NEW c \in Confirmers, Missed(c) PROVE (set'[r].status = "applied" => Reviewable(r) /\ set[r].items)
    BY <1>11, MissedDoes, SetHas, FirstIn DEF Moves, Leaves, OtherConfs, Idle
  <1>12. ASSUME NEW c \in Confirmers, Link(c) PROVE (set'[r].status = "applied" => Reviewable(r) /\ set[r].items)
    <2>1. PICK u : u = Of(c)
      OBVIOUS
    <2>2. LinkEffect(c, u)
      BY <1>12, <2>1, LinkDoes
    <2> QED
      BY <2>1, <2>2, SetHas, FirstIn DEF LinkEffect, Moves, Leaves, OtherConfs,
         Idle, JobGets, SetGets
  <1>13. ASSUME NEW c \in Confirmers, EnsureChunkLinks(c) PROVE (set'[r].status = "applied" => Reviewable(r) /\ set[r].items)
    <2>1. PICK u : u = Of(c)
      OBVIOUS
    <2>2. EnsureEffect(c, u)
      BY <1>13, <2>1, EnsureDoes
    <2> QED
      BY <2>1, <2>2, SetHas, FirstIn DEF EnsureEffect, Moves, Leaves,
         OtherConfs, Idle, JobGets, Opened
  <1>14. ASSUME NEW c \in Confirmers, PreviewBatch(c) PROVE (set'[r].status = "applied" => Reviewable(r) /\ set[r].items)
    <2>1. PICK s : s = <<Of(c), conf[c].k>>
      OBVIOUS
    <2>2. PreviewEffect(c, s)
      BY <1>14, <2>1, PreviewDoes
    <2> QED
      BY <2>1, <2>2, SetHas, FirstIn DEF PreviewEffect, Passes, Moves, Leaves,
         OtherConfs, Idle
  <1>15. ASSUME NEW c \in Confirmers, StoreBatch(c) PROVE (set'[r].status = "applied" => Reviewable(r) /\ set[r].items)
    <2>1. PICK s : s = <<Of(c), conf[c].k>>
      OBVIOUS
    <2>2. StoreEffect(c, s)
      BY <1>15, <2>1, StoreDoes
    <2> QED
      BY <2>1, <2>2, SetHas, FirstIn DEF StoreEffect, Passes, Moves, Leaves,
         OtherConfs, Idle, SetGets
  <1>16. ASSUME NEW c \in Confirmers, FinishJob(c) PROVE (set'[r].status = "applied" => Reviewable(r) /\ set[r].items)
    <2>1. PICK u : u = Of(c)
      OBVIOUS
    <2>2. FinishEffect(c, u)
      BY <1>16, <2>1, FinishDoes
    <2> QED
      BY <2>1, <2>2, SetHas, FirstIn DEF FinishEffect, Moves, Leaves,
         OtherConfs, Idle, JobGets
  <1>17. ASSUME NEW c \in Confirmers, ConfirmUnlink(c) PROVE (set'[r].status = "applied" => Reviewable(r) /\ set[r].items)
    BY <1>17, UnlinkDoes, SetHas, FirstIn DEF Removes, Moves, Leaves,
       OtherConfs, Idle
  <1>18. ASSUME NEW c \in Confirmers, DropEmpty(c) PROVE (set'[r].status = "applied" => Reviewable(r) /\ set[r].items)
    <2>1. PICK s : s = First(Of(c))
      OBVIOUS
    <2>2. DropEffect(c, s)
      BY <1>18, <2>1, DropDoes
    <2> QED
      BY <2>1, <2>2, SetHas, FirstIn DEF DropEffect, Leaves, OtherConfs, Idle,
         SetGets
  <1>19. ASSUME NEW c \in Confirmers, MarkRejected(c) PROVE (set'[r].status = "applied" => Reviewable(r) /\ set[r].items)
    <2>1. PICK u : u = Of(c)
      OBVIOUS
    <2>2. RejectEffect(c, u)
      BY <1>19, <2>1, RejectDoes
    <2> QED
      BY <2>1, <2>2, SetHas, FirstIn DEF RejectEffect, Moves, OtherConfs,
         JobGets, SetGets
  <1>20. ASSUME NEW c \in Confirmers, NEW u \in Tabs[c], Confirm(c, u) PROVE (set'[r].status = "applied" => Reviewable(r) /\ set[r].items)
    <2>1. ConfirmEffect(c, u)
      BY <1>20, ConfirmDoes
    <2> QED
      BY <2>1, SetHas, FirstIn DEF ConfirmEffect, OtherConfs
  <1>21. ASSUME NEW s \in Sets, Apply(s) PROVE (set'[r].status = "applied" => Reviewable(r) /\ set[r].items)
    BY <1>21, ApplyDoes, SetHas, FirstIn DEF SetGets
  <1>22. ASSUME NEW s \in Sets, Discard(s) PROVE (set'[r].status = "applied" => Reviewable(r) /\ set[r].items)
    BY <1>22, DiscardDoes, SetHas, FirstIn DEF SetGets
  <1>23. ASSUME CleanupUpdate PROVE (set'[r].status = "applied" => Reviewable(r) /\ set[r].items)
    BY <1>23, UpdateDoes, SetHas, FirstIn
  <1>24. ASSUME CleanupDelete PROVE (set'[r].status = "applied" => Reviewable(r) /\ set[r].items)
    BY <1>24, DeleteDoes, SetHas, FirstIn DEF NoJob
  <1>25. ASSUME CleanupFiles PROVE (set'[r].status = "applied" => Reviewable(r) /\ set[r].items)
    BY <1>25, FilesDoes, SetHas, FirstIn
  <1>26. ASSUME Restart PROVE (set'[r].status = "applied" => Reviewable(r) /\ set[r].items)
    BY <1>26, RestartDoes, SetHas, FirstIn DEF Stations, Idle
  <1>27. ASSUME KillCleanup PROVE (set'[r].status = "applied" => Reviewable(r) /\ set[r].items)
    BY <1>27, KillDoes, SetHas, FirstIn
  <1>28. CASE UNCHANGED vars
    BY <1>28, SetHas, FirstIn DEF vars, request
  <1> QED
    BY <1>1, <1>2, <1>3, <1>4, <1>5, <1>6, <1>7, <1>8, <1>9, <1>10, <1>11,
       <1>12, <1>13, <1>14, <1>15, <1>16, <1>17, <1>18, <1>19, <1>20, <1>21,
       <1>22, <1>23, <1>24, <1>25, <1>26, <1>27, <1>28 DEF Next, Upload,
       ConfirmMapping, Cleanup

(* ReviewedWhole for every sheet that is steady, of any number of chunks,    *)
(* with any number of tabs, uploads and cleanups: no part of it is applied   *)
(* before the rows of every chunk have been staged.                          *)
THEOREM ReviewsAreWhole == Spec => ReviewedWhole
  <1>1. Shaped /\ Kept /\ Chained /\ Sheltered /\ [Next]_vars
          => [\A s \in Sets : set[s].status # "applied" /\ set'[s].status = "applied" /\ Steady(s[1])
                => \A k \in Accepted[s[1]] : set[<<s[1], k>>].items]_vars
    <2> SUFFICES ASSUME Shaped, Kept, Chained, Sheltered, [Next]_vars, NEW s \in Sets,
                        set[s].status # "applied", set'[s].status = "applied", Steady(s[1])
                 PROVE  AllStaged(s[1])
      BY DEF AllStaged
    <2>1. Reviewable(s) /\ set[s].items
      BY AppliedStep
    <2>2. s[1] \in Uploads /\ s[2] \in 1..ChunksOf[s[1]] /\ s = <<s[1], s[2]>> /\ s \in SetsOf(s[1])
      BY SetOut
    <2>3. PICK u \in Uploads : u = s[1]
      BY <2>2
    <2>4. CASE s[2] = 1
      <3>1. s = First(u)
        BY <2>2, <2>3, <2>4 DEF First
      <3> QED BY <2>1, <2>3, <2>4, <3>1 DEF Sheltered, Guarded, Reviewable, BuildInProgress
    <2>5. CASE s[2] # 1
      <3>1. 1 \in Accepted[u] /\ 1 < s[2]
        BY <2>2, <2>3, <2>5, FirstIn DEF Steady
      <3>2. set[First(u)].items
        BY <2>1, <2>2, <2>3, <3>1 DEF Chained, InOrder, First
      <3> QED BY <2>1, <2>2, <2>3, <3>2 DEF Sheltered, Guarded, Reviewable, BuildInProgress
    <2> QED BY <2>4, <2>5
  <1> QED BY <1>1, AlwaysShaped, AlwaysKept, AlwaysChained, AlwaysSheltered, PTL DEF Spec, ReviewedWhole

=============================================================================
