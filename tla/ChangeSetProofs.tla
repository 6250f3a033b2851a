--------------------------- MODULE ChangeSetProofs ---------------------------
(* Theorems about ChangeSet, for every value of its constants: types,        *)
(* control flow, scope and row locks; what a user confirms; what apply and   *)
(* undo see under the table locks; the journal, the promise of a review the  *)
(* protocol implements, the acknowledgement of hard deletes, and the row     *)
(* stamps an editor saves over.                                              *)
EXTENDS ChangeSet, TLAPS, SequenceTheorems

-----------------------------------------------------------------------------
(* The operators keep the types.                                             *)

(* The commands of the staged items are a sequence of commands.              *)
LEMMA ItemCmdsType ==
    ASSUME TypeOK, NEW s \in Sets
    PROVE  /\ ItemCmds(s) \in Seq(Command)
           /\ Len(ItemCmds(s)) = Len(cs[s].items)
  <1> DEFINE q == cs[s].items
  <1>1. q \in Seq(Item)
    BY DEF TypeOK, SetRow
  <1>2. Len(q) \in Nat /\ DOMAIN q = 1 .. Len(q)
    BY <1>1, LenProperties
  <1>3. \A i \in 1 .. Len(q) : q[i].cmd \in Command
    <2> TAKE i \in 1 .. Len(q)
    <2>1. q[i] \in Item
      BY <1>1, ElementOfSeq
    <2> QED BY <2>1 DEF Item
  <1>4. ItemCmds(s) \in [1 .. Len(q) -> Command]
    BY <1>2, <1>3 DEF ItemCmds
  <1>5. ItemCmds(s) \in Seq(Command)
    BY <1>2, <1>4, SeqDef
  <1>6. Len(ItemCmds(s)) = Len(q)
    BY <1>2, <1>4, <1>5, LenProperties
  <1> QED BY <1>5, <1>6

(* What a transaction sees has the type of the database.                     *)
LEMMA VisibleType ==
    ASSUME TypeOK, NEW c \in Clients
    PROVE  Visible(c) \in [Rows -> Row]
  BY DEF TypeOK, Visible, Dirty, NewRow, RowWith, Gone, Row, Vals

(* A snapshot of a database is a state, and it holds just its own rows.      *)
LEMMA SnapshotType ==
    ASSUME NEW view \in [Rows -> Row], NEW rows
    PROVE  /\ Snapshot(view, rows) \in States
           /\ \A r \in Rows : Snapshot(view, rows)[r] # None <=> r \in rows
  BY NoneAssumption DEF Snapshot, States

(* A diff of two snapshots of the same rows lists contents only.             *)
LEMMA DiffType ==
    ASSUME NEW old \in States, NEW new \in States,
           \A r \in Rows : old[r] # None => new[r] # None
    PROVE  Diff(old, new) \in Diffs
  BY DEF Diff, Diffs, States, Row

LEMMA NoJobType == NoJob \in Job
  BY EmptySeq DEF NoJob, Job, Gone, Row, Vals

LEMMA JobCmdsType ==
    ASSUME NEW j \in Job, NEW q \in Seq(Command)
    PROVE  [j EXCEPT !.cmds = q] \in Job
  BY DEF Job

LEMMA NoRowsType == NoRows \in States /\ NoRows \in [Rows -> Vals \cup {None}]
  BY DEF NoRows, States

(* The end of a transaction keeps the types of what it resets.               *)
LEMMA EndTxType ==
    ASSUME TypeOK, NEW c \in Clients, NEW p \in Place, NEW j \in Job, EndTx(c, p, j)
    PROVE  /\ pc' \in [Clients -> Place] /\ job' \in [Clients -> Job]
           /\ done' \in [Clients -> Nat] /\ held' \in [Clients -> SUBSET Scopes]
           /\ tabs' \in [Clients -> SUBSET Tables]
           /\ work' \in [Clients -> [Rows -> Vals \cup {None}]]
           /\ before' \in [Clients -> States]
  BY NoRowsType DEF TypeOK, EndTx

-----------------------------------------------------------------------------
(* Type correctness.  Each action keeps TypeOK, given the shape of jobs.     *)

Typed == TypeOK /\ Shape

LEMMA RowType == ASSUME TypeOK, NEW s \in Sets PROVE cs[s] \in SetRow
  BY DEF TypeOK

(* A request that changes one row of agent_change_set and nothing else.      *)
LEMMA SetRowTyped ==
    ASSUME Typed, NEW s \in Sets, NEW row \in SetRow,
           cs' = [cs EXCEPT ![s] = row], UNCHANGED <<Database, tx>>
    PROVE  TypeOK'
  BY DEF Typed, TypeOK, Database, tx

LEMMA CreateTyped == ASSUME Typed, NEW s \in Sets, Create(s) PROVE TypeOK'
  <1>1. cs[s] \in SetRow
    BY RowType DEF Typed
  <1>2. [cs[s] EXCEPT !.status = "pending"] \in SetRow
    BY <1>1 DEF SetRow
  <1> QED BY <1>2, SetRowTyped DEF Create

LEMMA DiscardTyped == ASSUME Typed, NEW s \in Sets, Discard(s) PROVE TypeOK'
  <1>1. cs[s] \in SetRow
    BY RowType DEF Typed
  <1>2. [cs[s] EXCEPT !.status = "discarded"] \in SetRow
    BY <1>1 DEF SetRow
  <1> QED BY <1>2, SetRowTyped DEF Discard

LEMMA ExpireTyped == ASSUME Typed, NEW s \in Sets, Expire(s) PROVE TypeOK'
  <1>1. cs[s] \in SetRow
    BY RowType DEF Typed
  <1>2. [cs[s] EXCEPT !.expired = TRUE] \in SetRow
    BY <1>1 DEF SetRow
  <1> QED BY <1>2, SetRowTyped DEF Expire

LEMMA FinishTyped ==
    ASSUME Typed, NEW c \in Clients, Finish(c), UNCHANGED Metadata
    PROVE  TypeOK'
  BY NoJobType, EndTxType DEF Typed, TypeOK, Finish, Metadata, Database, Place

LEMMA ReadSetTyped ==
    ASSUME Typed, NEW c \in Clients, NEW j \in Job, j.set \in Sets,
           j.op = "stage" => j.cmds # <<>>, ReadSet(c, j), UNCHANGED Metadata
    PROVE  TypeOK'
  <1>1. CASE Finish(c)
    BY <1>1, FinishTyped
  <1>2. CASE ~Finish(c)
    <2> DEFINE base == cs[j.set].rev
               cmds == IF j.op = "stage"
                       THEN Append(ItemCmds(j.set), j.cmds[Len(j.cmds)])
                       ELSE ItemCmds(j.set)
    <2>1. ItemCmds(j.set) \in Seq(Command)
      BY ItemCmdsType DEF Typed
    <2>2. j.op = "stage" => j.cmds[Len(j.cmds)] \in Command
      BY EmptySeq, LenProperties, ElementOfSeq DEF Job
    <2>3. cmds \in Seq(Command)
      BY <2>1, <2>2
    <2>4. base \in Nat
      BY DEF Typed, TypeOK, SetRow
    <2>5. [j EXCEPT !.base = base, !.cmds = cmds] \in Job
      BY <2>3, <2>4 DEF Job
    <2>6. /\ pc'  = [pc EXCEPT ![c] = "lock"]
          /\ job' = [job EXCEPT ![c] = [j EXCEPT !.base = base, !.cmds = cmds]]
          /\ UNCHANGED <<done, held, tabs, work, before>>
      BY <1>2 DEF ReadSet
    <2> QED BY <2>5, <2>6 DEF Typed, TypeOK, Metadata, Database, Place
  <1> QED BY <1>1, <1>2

LEMMA StageTyped ==
    ASSUME Typed, NEW c \in Clients, NEW s \in Sets, NEW m \in Commands,
           NEW k \in Calls, Stage(c, s, m, k)
    PROVE  TypeOK'
  <1> DEFINE j == [NoJob EXCEPT !.op = "stage", !.set = s, !.cmds = <<m>>, !.call = k]
  <1>1. <<m>> \in Seq(Command) /\ <<m>> # <<>>
    BY CommandsAssumption
  <1>2. j \in Job /\ j.set \in Sets /\ j.cmds # <<>>
    BY <1>1, NoJobType DEF Job
  <1> QED BY <1>2, ReadSetTyped DEF Stage

LEMMA ReadTyped == ASSUME Typed, NEW c \in Clients, Read(c) PROVE TypeOK'
  <1>1. job[c] \in Job /\ job[c].set \in Sets
    BY DEF Typed, TypeOK, Shape, JobFits, Read, Previewing
  <1>2. job[c].op = "stage" => job[c].cmds # <<>>
    BY DEF Typed, Shape, JobFits
  <1> QED BY <1>1, <1>2, ReadSetTyped DEF Read

(* A step from one place to another that keeps what is stored.               *)
LEMMA EndTyped ==
    ASSUME Typed, NEW c \in Clients, NEW p \in Place, NEW j \in Job,
           EndTx(c, p, j), UNCHANGED Metadata
    PROVE  TypeOK'
  BY EndTxType DEF Typed, TypeOK, Metadata, Database

(* The hash of a preview or of an apply, from two snapshots of its scopes.   *)
LEMMA DigestType ==
    ASSUME Typed, NEW c \in Clients, Snapped(c), NEW n \in Nat
    PROVE  LET rows == ScopeRows(job[c].cmds)
           IN Digest(n, job[c].cmds, Diff(before[c], Snapshot(Visible(c), rows))) \in Hash
  <1> DEFINE rows == ScopeRows(job[c].cmds)
  <1>1. Snapshot(Visible(c), rows) \in States
        /\ \A r \in Rows : Snapshot(Visible(c), rows)[r] # None <=> r \in rows
    BY VisibleType, SnapshotType DEF Typed
  <1>2. before[c] \in States /\ \A r \in Rows : before[c][r] # None <=> r \in rows
    BY DEF Typed, TypeOK, Shape, JobFits
  <1>3. Diff(before[c], Snapshot(Visible(c), rows)) \in Diffs
    BY <1>1, <1>2, DiffType
  <1>4. job[c].cmds \in Seq(Command)
    BY DEF Typed, TypeOK, Job
  <1> QED BY <1>3, <1>4 DEF Digest, Hash

LEMMA PreviewEndTyped == ASSUME Typed, NEW c \in Clients, PreviewEnd(c) PROVE TypeOK'
  <1> DEFINE j == job[c]
             h == Digest(j.base + 1, j.cmds,
                         Diff(before[c], Snapshot(Visible(c), ScopeRows(j.cmds))))
  <1>1. j \in Job /\ Snapped(c)
    BY DEF Typed, TypeOK, PreviewEnd, Previewing, Snapped
  <1>2. j.base + 1 \in Nat
    BY <1>1 DEF Job
  <1>3. h \in Hash
    BY <1>1, <1>2, DigestType
  <1>4. [j EXCEPT !.hash = h] \in Job
    BY <1>1, <1>3 DEF Job
  <1>5. EndTx(c, "persist", [j EXCEPT !.hash = h]) /\ UNCHANGED Metadata
    BY DEF PreviewEnd
  <1> QED BY <1>4, <1>5, EndTyped DEF Place

LEMMA StagedType ==
    ASSUME NEW x \in SetRow, NEW q \in Seq(Item), NEW b \in BOOLEAN
    PROVE  [x EXCEPT !.items = q, !.hardDelete = b] \in SetRow
  BY DEF SetRow

LEMMA RehashedType ==
    ASSUME NEW x \in SetRow, NEW n \in Nat, NEW h \in Hash
    PROVE  [x EXCEPT !.rev = n, !.hash = h] \in SetRow
  BY DEF SetRow

LEMMA RetryType ==
    ASSUME NEW j \in Job, NEW n \in Nat
    PROVE  [j EXCEPT !.tries = n, !.hash = None] \in Job
  BY DEF Job

LEMMA PersistTyped == ASSUME Typed, NEW c \in Clients, Persist(c) PROVE TypeOK'
  <1> DEFINE j == job[c]
             s == j.set
             item == [call |-> j.call, cmd |-> j.cmds[Len(j.cmds)]]
  <1>1. j \in Job /\ s \in Sets /\ j.hash \in Hash
    BY DEF Typed, TypeOK, Shape, JobFits, Persist, Previewing, Job
  <1>2. cs[s] \in SetRow /\ cs[s].items \in Seq(Item)
    BY <1>1 DEF Typed, TypeOK, SetRow
  <1>3. Persisted(s, j) \in SetRow
    <2> DEFINE row == [cs[s] EXCEPT !.rev = j.base + 1, !.hash = j.hash]
               n == j.base + 1
    <2>1. n \in Nat
      BY <1>1 DEF Job
    <2>2. row \in SetRow
      <3> HIDE DEF n
      <3>1. [cs[s] EXCEPT !.rev = n, !.hash = j.hash] \in SetRow
        BY <1>1, <1>2, <2>1, RehashedType
      <3> QED BY <3>1 DEF n
    <2> HIDE DEF row
    <2>3. CASE j.op = "stage"
      <3> DEFINE q == Append(cs[s].items, item)
                 b == Destructive(j.cmds)
      <3>1. j.cmds \in Seq(Command) /\ j.cmds # <<>> /\ j.call \in Calls
        BY <1>1, <2>3 DEF Typed, Shape, JobFits, Job
      <3>2. j.cmds[Len(j.cmds)] \in Command
        BY <3>1, EmptySeq, LenProperties, ElementOfSeq
      <3>3. item \in Item
        BY <3>1, <3>2 DEF Item
      <3>4. q \in Seq(Item)
        BY <1>2, <3>3
      <3>5. b \in BOOLEAN
        BY DEF Destructive
      <3>6. Persisted(s, j) = [row EXCEPT !.items = q, !.hardDelete = b]
        BY <2>3 DEF Persisted, row
      <3> HIDE DEF q, b
      <3>7. [row EXCEPT !.items = q, !.hardDelete = b] \in SetRow
        BY <2>2, <3>4, <3>5, StagedType
      <3> QED BY <3>6, <3>7
    <2>4. CASE j.op # "stage"
      BY <2>2, <2>4 DEF Persisted, row
    <2> QED BY <2>3, <2>4
  <1>4. cs' \in [Sets -> SetRow]
    BY <1>1, <1>3 DEF Typed, TypeOK, Persist
  <1>5. EndTx(c, "idle", NoJob) /\ UNCHANGED Database
    BY DEF Persist, Finish
  <1> QED BY <1>4, <1>5, EndTxType, NoJobType DEF Typed, TypeOK, Database, Place

LEMMA PersistRefusedTyped ==
    ASSUME Typed, NEW c \in Clients, PersistRefused(c) PROVE TypeOK'
  <1> DEFINE again == [job[c] EXCEPT !.tries = job[c].tries + 1, !.hash = None]
  <1>1. again \in Job
    <2> DEFINE n == job[c].tries + 1
    <2>1. job[c] \in Job /\ n \in Nat
      BY DEF Typed, TypeOK, Job
    <2> HIDE DEF n
    <2>2. [job[c] EXCEPT !.tries = n, !.hash = None] \in Job
      BY <2>1, RetryType
    <2> QED BY <2>2 DEF n
  <1>2. (EndTx(c, "request", again) \/ Finish(c)) /\ UNCHANGED Metadata
    BY DEF PersistRefused
  <1> QED BY <1>1, <1>2, EndTyped, FinishTyped DEF Place

(* The scopes of commands are scopes, and their rows rows of known tables.   *)
LEMMA ScopesType ==
    ASSUME NEW cmds \in Seq(Command)
    PROVE  /\ AllScopes(cmds) \subseteq Scopes
           /\ LockSet(AllScopes(cmds)) \subseteq Scopes
           /\ ScopeRows(cmds) \subseteq Rows
           /\ ScopeTables(cmds) \subseteq Tables
  <1>1. \A i \in DOMAIN cmds : cmds[i] \in Command
    BY LenProperties, ElementOfSeq
  <1>2. \A m \in Command : AffectedScope(m) \in Scopes
    BY RowsAssumption DEF Command, AffectedScope, Scopes
  <1>3. AllScopes(cmds) \subseteq Scopes
    BY <1>1, <1>2 DEF AllScopes, CompactScopes
  <1>4. LockSet(AllScopes(cmds)) \subseteq Scopes
    BY <1>3, RowsAssumption DEF LockSet, OwnScopes, Scopes
  <1>5. ScopeRows(cmds) \subseteq Rows
    BY DEF ScopeRows, RowsOf
  <1>6. ScopeTables(cmds) \subseteq Tables
    BY <1>5, RowsAssumption DEF ScopeTables
  <1> QED BY <1>3, <1>4, <1>5, <1>6

LEMMA LockScopesTyped == ASSUME Typed, NEW c \in Clients, LockScopes(c) PROVE TypeOK'
  <1>1. job[c].cmds \in Seq(Command)
    BY DEF Typed, TypeOK, Job
  <1>2. held' \in [Clients -> SUBSET Scopes]
    BY <1>1, ScopesType DEF Typed, TypeOK, LockScopes
  <1>3. before' \in [Clients -> States]
    BY SnapshotType, NoRowsType DEF Typed, TypeOK, LockScopes
  <1>4. pc' \in [Clients -> Place]
    BY DEF Typed, TypeOK, LockScopes, AfterLock, Place
  <1> QED BY <1>2, <1>3, <1>4 DEF Typed, TypeOK, LockScopes, Metadata, Database

LEMMA LockTablesTyped == ASSUME Typed, NEW c \in Clients, LockTables(c) PROVE TypeOK'
  <1>1. job[c].cmds \in Seq(Command)
    BY DEF Typed, TypeOK, Job
  <1>2. tabs' \in [Clients -> SUBSET Tables]
    BY <1>1, ScopesType DEF Typed, TypeOK, LockTables
  <1>3. before' \in [Clients -> States]
    BY SnapshotType DEF Typed, TypeOK, LockTables
  <1>4. pc' \in [Clients -> Place]
    BY DEF Typed, TypeOK, LockTables, Place
  <1> QED BY <1>2, <1>3, <1>4 DEF Typed, TypeOK, LockTables, Metadata, Database

(* What a command writes to a row is a content.                              *)
LEMMA NewValType ==
    ASSUME NEW m \in Command, NEW view \in [Rows -> Row]
    PROVE  NewVal(m, view) \in Vals
  BY DEF NewVal, Command, Row, Vals

LEMMA DispatchTyped == ASSUME Typed, NEW c \in Clients, Dispatch(c) PROVE TypeOK'
  <1> DEFINE m == job[c].cmds[done[c] + 1]
             rows == Written(m, Visible(c))
             v == NewVal(m, Visible(c))
  <1>1. m \in Command
    <2>1. job[c].cmds \in Seq(Command) /\ done[c] \in Nat /\ done[c] < Len(job[c].cmds)
      BY DEF Typed, TypeOK, Job, Dispatch
    <2>2. done[c] + 1 \in 1 .. Len(job[c].cmds)
      BY <2>1, LenProperties
    <2> QED BY <2>1, <2>2, ElementOfSeq
  <1>2. v \in Vals
    BY <1>1, NewValType, VisibleType DEF Typed
  <1>3. work' = [work EXCEPT ![c] = [r \in Rows |-> IF r \in rows THEN v ELSE work[c][r]]]
    BY DEF Dispatch
  <1>4. work' \in [Clients -> [Rows -> Vals \cup {None}]]
    <2> HIDE DEF rows, v
    <2> QED BY <1>2, <1>3 DEF Typed, TypeOK
  <1> QED BY <1>4 DEF Typed, TypeOK, Dispatch, Metadata, Database

LEMMA ApplyTyped ==
    ASSUME Typed, NEW c \in Clients, NEW s \in Sets, NEW ack \in BOOLEAN, Apply(c, s, ack)
    PROVE  TypeOK'
  <1>1. cs[s].hash \in Hash
    BY DEF Typed, TypeOK, SetRow, Apply
  <1>2. [NoJob EXCEPT !.op = "apply", !.set = s, !.hash = cs[s].hash, !.ack = ack] \in Job
    BY <1>1, NoJobType DEF Job
  <1> QED BY <1>2 DEF Typed, TypeOK, Apply, Metadata, Database, Place

LEMMA ApplyBeginTyped == ASSUME Typed, NEW c \in Clients, ApplyBegin(c) PROVE TypeOK'
  <1>1. CASE Finish(c)
    BY <1>1, FinishTyped DEF ApplyBegin
  <1>2. CASE ~Finish(c)
    <2>1. job[c].set \in Sets
      BY DEF ApplyBegin, Typed, Shape, JobFits
    <2>2. ItemCmds(job[c].set) \in Seq(Command)
      BY <2>1, ItemCmdsType DEF Typed
    <2> DEFINE q == ItemCmds(job[c].set)
               j == [job[c] EXCEPT !.cmds = q]
    <2>3b. job[c] \in Job
      BY DEF Typed, TypeOK
    <2>3. j \in Job
      BY <2>2, <2>3b, JobCmdsType
    <2>4. job' = [job EXCEPT ![c] = j]
      BY <1>2 DEF ApplyBegin
    <2>5. job' \in [Clients -> Job]
      <3> HIDE DEF j
      <3> QED BY <2>3, <2>4 DEF Typed, TypeOK
    <2> QED BY <1>2, <2>5 DEF Typed, TypeOK, ApplyBegin, Metadata, Database, Place
  <1> QED BY <1>1, <1>2

(* Committing rows keeps the types of what a commit writes.                  *)
LEMMA CommitRowsType ==
    ASSUME TypeOK, NEW new \in [Rows -> Row], NEW own, CommitRows(new, own)
    PROVE  db' \in [Rows -> Row] /\ clock' \in Nat /\ touched' \in [Sets -> BOOLEAN]
  <1>1. db' \in [Rows -> Row] /\ clock' \in Nat
    BY DEF TypeOK, CommitRows
  <1>2. touched' \in [Sets -> BOOLEAN]
    <2> DEFINE t(s) == IF s = own THEN FALSE ELSE touched[s] \/
                 (/\ cs[s].status = "applied"
                  /\ \E r \in ScopeRows(ItemCmds(s)) : new[r] # db[r])
    <2>1. touched' = [s \in Sets |-> t(s)]
      BY DEF CommitRows
    <2>2. \A s \in Sets : t(s) \in BOOLEAN
      BY DEF TypeOK
    <2> HIDE DEF t
    <2> QED BY <2>1, <2>2
  <1> QED BY <1>1, <1>2

(* The two status changes of a reviewed set.                                 *)
LEMMA StatusType ==
    ASSUME TypeOK, NEW s \in Sets, NEW x \in {"applied", "undone"},
           cs' = [cs EXCEPT ![s].status = x]
    PROVE  cs' \in [Sets -> SetRow]
  <1>1. cs[s] \in SetRow
    BY RowType
  <1>2. [cs[s] EXCEPT !.status = x] \in SetRow
    BY <1>1 DEF SetRow
  <1>3. cs \in [Sets -> SetRow]
    BY DEF TypeOK
  <1> QED BY <1>2, <1>3

LEMMA ApplyCommitTyped == ASSUME Typed, NEW c \in Clients, ApplyCommit(c) PROVE TypeOK'
  <1> DEFINE s == job[c].set
             new == Visible(c)
             entry == [before |-> before[c], after |-> Snapshot(new, ScopeRows(job[c].cmds))]
  <1>1. s \in Sets /\ new \in [Rows -> Row]
    BY VisibleType DEF Typed, Shape, JobFits, ApplyCommit, Applied
  <1>2. entry.before \in States /\ entry.after \in States
    BY <1>1, SnapshotType DEF Typed, TypeOK
  <1>3. journal' \in [Sets -> [before : States, after : States] \cup {None}]
    <2>1. journal' = [journal EXCEPT ![s] = entry]
      BY DEF ApplyCommit
    <2>2. entry \in [before : States, after : States]
      BY <1>2
    <2> HIDE DEF entry
    <2> QED BY <1>1, <2>1, <2>2 DEF Typed, TypeOK
  <1>4. cs' \in [Sets -> SetRow]
    BY <1>1, StatusType DEF Typed, ApplyCommit
  <1>5. CommitRows(new, s) /\ EndTx(c, "idle", NoJob)
    BY DEF ApplyCommit, Finish
  <1> QED BY <1>1, <1>3, <1>4, <1>5, CommitRowsType, EndTxType, NoJobType
          DEF Typed, TypeOK, Place

LEMMA ApplyDriftTyped == ASSUME Typed, NEW c \in Clients, ApplyDrift(c) PROVE TypeOK'
  <1>1. job[c].set \in Sets
    BY DEF Typed, Shape, JobFits, ApplyDrift, Applied
  <1>2. [NoJob EXCEPT !.op = "refresh", !.set = job[c].set] \in Job
    BY <1>1, NoJobType DEF Job
  <1> QED BY <1>2, EndTyped DEF ApplyDrift, Place

LEMMA UndoBeginTyped ==
    ASSUME Typed, NEW c \in Clients, NEW s \in Sets, UndoBegin(c, s)
    PROVE  TypeOK'
  <1>1. ItemCmds(s) \in Seq(Command)
    BY ItemCmdsType DEF Typed
  <1>2. [NoJob EXCEPT !.op = "undo", !.set = s, !.cmds = ItemCmds(s)] \in Job
    BY <1>1, NoJobType DEF Job
  <1> QED BY <1>2 DEF Typed, TypeOK, UndoBegin, Metadata, Database, Place

LEMMA UndoCommitTyped == ASSUME Typed, NEW c \in Clients, UndoCommit(c) PROVE TypeOK'
  <1> DEFINE s == job[c].set
  <1>1. s \in Sets /\ journal[s] \in [before : States, after : States]
    BY DEF Typed, TypeOK, Shape, JobFits, UndoCommit
  <1>2. Restored(c) \in [Rows -> Row]
    <2> DEFINE old == journal[s].before
               v(r) == IF old[r] = None THEN db[r]
                       ELSE IF old[r].val = Absent THEN Gone
                       ELSE RowWith(old[r].val, old[r].stamp)
    <2>1. old \in [Rows -> Row \cup {None}]
      BY <1>1 DEF States
    <2>2. \A r \in Rows : v(r) \in Row
      <3>1. Gone \in Row
        BY DEF Gone, Row, Vals
      <3>2. \A x \in Row : RowWith(x.val, x.stamp) \in Row
        BY DEF Typed, TypeOK, RowWith, Row
      <3> QED BY <2>1, <3>1, <3>2 DEF Typed, TypeOK
    <2>3. Restored(c) = [r \in Rows |-> v(r)]
      BY DEF Restored
    <2> HIDE DEF v
    <2> QED BY <2>2, <2>3
  <1>3. cs' \in [Sets -> SetRow]
    BY <1>1, StatusType DEF Typed, UndoCommit
  <1>4. CommitRows(Restored(c), s) /\ EndTx(c, "idle", NoJob) /\ UNCHANGED journal
    BY DEF UndoCommit, Finish
  <1> QED BY <1>2, <1>3, <1>4, CommitRowsType, EndTxType, NoJobType DEF Typed, TypeOK, Place

LEMMA WriteTyped ==
    ASSUME Typed, NEW c \in Clients, NEW m \in Edits,
           NEW loaded \in {Gone} \cup {db[r] : r \in Rows}, Write(c, m, loaded)
    PROVE  TypeOK'
  <1>1. <<m>> \in Seq(Command)
    BY CommandsAssumption
  <1>2. loaded \in Row
    BY DEF Typed, TypeOK, Gone, Row, Vals
  <1>3. [NoJob EXCEPT !.op = "write", !.cmds = <<m>>, !.loaded = loaded] \in Job
    BY <1>1, <1>2, NoJobType DEF Job
  <1> QED BY <1>3 DEF Typed, TypeOK, Write, Metadata, Database, Place

LEMMA ImportTyped ==
    ASSUME Typed, NEW c \in Clients, NEW m \in Loads, Import(c, m) PROVE TypeOK'
  <1>1. <<m>> \in Seq(Command)
    BY CommandsAssumption
  <1>2. [NoJob EXCEPT !.op = "import", !.cmds = <<m>>] \in Job
    BY <1>1, NoJobType DEF Job
  <1> QED BY <1>2 DEF Typed, TypeOK, Import, Metadata, Database, Place

LEMMA CommitWriteTyped == ASSUME Typed, NEW c \in Clients, CommitWrite(c) PROVE TypeOK'
  BY VisibleType, CommitRowsType, EndTxType, NoJobType
     DEF Typed, TypeOK, CommitWrite, Finish, Place

LEMMA BumpTyped == ASSUME Typed, NEW r \in Named, Bump(r) PROVE TypeOK'
  <1>1. r \in Rows /\ clock + 1 \in Nat /\ db[r] \in Row
    BY RowsAssumption DEF Typed, TypeOK
  <1>2. [db[r] EXCEPT !.ver = clock + 1] \in Row
    <2> DEFINE n == clock + 1
    <2>1. n \in Nat
      BY <1>1
    <2> HIDE DEF n
    <2>2. [db[r] EXCEPT !.ver = n] \in Row
      BY <1>1, <2>1 DEF Row
    <2> QED BY <2>2 DEF n
  <1>3. db' = [db EXCEPT ![r] = [db[r] EXCEPT !.ver = clock + 1]]
    BY DEF Bump
  <1>4. db' \in [Rows -> Row]
    BY <1>1, <1>2, <1>3 DEF Typed, TypeOK
  <1> QED BY <1>1, <1>4 DEF Typed, TypeOK, Bump, tx

(* A handler that ends by rolling back: nothing stored changes.              *)
LEMMA RollbackTyped ==
    ASSUME Typed, NEW c \in Clients,
           DispatchRaises(c) \/ UndoRefused(c) \/ Abort(c)
    PROVE  TypeOK'
  BY FinishTyped DEF DispatchRaises, UndoRefused, Abort

LEMMA RequestTyped == ASSUME Typed, NEW c \in Clients, Request(c) PROVE TypeOK'
  BY StageTyped, ApplyTyped, UndoBeginTyped, WriteTyped, ImportTyped DEF Request

LEMMA StepTyped == ASSUME Typed, NEW c \in Clients, Step(c) PROVE TypeOK'
  BY ReadTyped, PreviewEndTyped, PersistTyped, PersistRefusedTyped, LockScopesTyped,
     LockTablesTyped, DispatchTyped, ApplyBeginTyped, ApplyCommitTyped, ApplyDriftTyped,
     UndoCommitTyped, CommitWriteTyped, RollbackTyped
     DEF Step

LEMMA NextTyped == ASSUME Typed, [Next]_vars PROVE TypeOK'
  <1>1. CASE UNCHANGED vars
    BY <1>1 DEF Typed, TypeOK, vars, tx
  <1>2. CASE Next
    BY <1>2, RequestTyped, StepTyped, CreateTyped, DiscardTyped, ExpireTyped, BumpTyped DEF Next
  <1> QED BY <1>1, <1>2

-----------------------------------------------------------------------------
(* A client's action leaves the other clients where they are.                *)

OnlyMoves(c) == \A d \in Clients \ {c} :
    /\ pc'[d] = pc[d] /\ job'[d] = job[d] /\ done'[d] = done[d]
    /\ held'[d] = held[d] /\ tabs'[d] = tabs[d]
    /\ work'[d] = work[d] /\ before'[d] = before[d]

LEMMA EndTxMovesOne ==
    ASSUME TypeOK, NEW c \in Clients, NEW p, NEW j, EndTx(c, p, j)
    PROVE  OnlyMoves(c) /\ pc'[c] = p /\ job'[c] = j /\ done'[c] = 0 /\ held'[c] = {}
           /\ tabs'[c] = {} /\ work'[c] = NoRows /\ before'[c] = NoRows
  BY DEF TypeOK, EndTx, OnlyMoves

LEMMA ReadSetMovesOne ==
    ASSUME TypeOK, NEW c \in Clients, NEW j, ReadSet(c, j)
    PROVE  OnlyMoves(c)
  <1>1. CASE Finish(c)
    BY <1>1, EndTxMovesOne DEF Finish
  <1>2. CASE ~Finish(c)
    BY <1>2 DEF TypeOK, ReadSet, OnlyMoves
  <1> QED BY <1>1, <1>2

LEMMA RequestMovesOne == ASSUME TypeOK, NEW c \in Clients, Request(c) PROVE OnlyMoves(c)
  <1>1. ASSUME NEW s \in Sets, NEW m \in Commands, NEW k \in Calls, Stage(c, s, m, k)
        PROVE  OnlyMoves(c)
    BY <1>1, ReadSetMovesOne DEF Stage
  <1>2. ASSUME NEW s \in Sets, NEW ack \in BOOLEAN, Apply(c, s, ack) PROVE OnlyMoves(c)
    BY <1>2 DEF TypeOK, Apply, OnlyMoves
  <1>3. ASSUME NEW s \in Sets, UndoBegin(c, s) PROVE OnlyMoves(c)
    BY <1>3 DEF TypeOK, UndoBegin, OnlyMoves
  <1>4. ASSUME NEW m, NEW loaded, Write(c, m, loaded) PROVE OnlyMoves(c)
    BY <1>4 DEF TypeOK, Write, OnlyMoves
  <1>5. ASSUME NEW m, Import(c, m) PROVE OnlyMoves(c)
    BY <1>5 DEF TypeOK, Import, OnlyMoves
  <1> QED BY <1>1, <1>2, <1>3, <1>4, <1>5 DEF Request

LEMMA StepMovesOne == ASSUME TypeOK, NEW c \in Clients, Step(c) PROVE OnlyMoves(c)
  <1>1. CASE Read(c)
    BY <1>1, ReadSetMovesOne DEF Read
  <1>2. CASE LockScopes(c)
    BY <1>2 DEF TypeOK, LockScopes, OnlyMoves
  <1>3. CASE LockTables(c)
    BY <1>3 DEF TypeOK, LockTables, OnlyMoves
  <1>4. CASE Dispatch(c)
    BY <1>4 DEF TypeOK, Dispatch, OnlyMoves
  <1>5. CASE ApplyBegin(c)
    <2>1. CASE Finish(c)
      BY <2>1, EndTxMovesOne DEF Finish
    <2>2. CASE ~Finish(c)
      BY <1>5, <2>2 DEF TypeOK, ApplyBegin, OnlyMoves
    <2> QED BY <2>1, <2>2
  <1>6. CASE PersistRefused(c)
    BY <1>6, EndTxMovesOne DEF PersistRefused, Finish
  <1>7. CASE PreviewEnd(c) \/ ApplyDrift(c)
    BY <1>7, EndTxMovesOne DEF PreviewEnd, ApplyDrift
  <1>8. CASE \/ Persist(c) \/ DispatchRaises(c) \/ ApplyCommit(c) \/ UndoCommit(c)
             \/ UndoRefused(c) \/ CommitWrite(c) \/ Abort(c)
    BY <1>8, EndTxMovesOne DEF Persist, DispatchRaises, ApplyCommit, UndoCommit,
       UndoRefused, CommitWrite, Abort, Finish
  <1> QED BY <1>1, <1>2, <1>3, <1>4, <1>5, <1>6, <1>7, <1>8 DEF Step

-----------------------------------------------------------------------------
(* The control flow of the requests.                                         *)

(* A set that is applied or undone has a journal, and keeps it.              *)
Journalled == \A s \in Sets : cs[s].status \in {"applied", "undone"} => journal[s] # None
JournalsKept == \A s \in Sets : journal[s] # None => journal'[s] # None

LEMMA CommitJournals ==
    ASSUME Typed, NEW c \in Clients, ApplyCommit(c) \/ UndoCommit(c)
    PROVE  Journalled' /\ JournalsKept
  <1>1. job[c].set \in Sets /\ Journalled
    BY DEF Typed, Shape, JobFits, ApplyCommit, Applied, UndoCommit, Journalled
  <1>2. CASE ApplyCommit(c)
    <2> DEFINE entry == [before |-> before[c],
                         after |-> Snapshot(Visible(c), ScopeRows(job[c].cmds))]
    <2>1. entry \in [before : States, after : States]
      BY SnapshotType, VisibleType DEF Typed, TypeOK
    <2>2. entry # None
      BY <2>1, NoneAssumption
    <2>3. journal' = [journal EXCEPT ![job[c].set] = entry]
          /\ cs' = [cs EXCEPT ![job[c].set].status = "applied"]
      BY <1>2 DEF ApplyCommit
    <2> HIDE DEF entry
    <2> QED BY <1>1, <2>2, <2>3 DEF Typed, TypeOK, SetRow, Journalled, JournalsKept
  <1>3. CASE UndoCommit(c)
    BY <1>1, <1>3 DEF Typed, TypeOK, SetRow, Journalled, JournalsKept, UndoCommit,
       Shape, JobFits
  <1> QED BY <1>2, <1>3

LEMMA OthersJournalled ==
    ASSUME Typed, \A s \in Sets : cs'[s].status = cs[s].status \/
                      cs'[s].status \in {"pending", "discarded"},
           UNCHANGED journal
    PROVE  Journalled' /\ JournalsKept
  BY DEF Typed, Shape, Journalled, JournalsKept

LEMMA PersistStatus ==
    ASSUME Typed, NEW c \in Clients, Persist(c)
    PROVE  \A s \in Sets : cs'[s].status = cs[s].status
  <1>1. job[c].set \in Sets
    BY DEF Typed, Shape, JobFits, Persist, Previewing
  <1>2. Persisted(job[c].set, job[c]).status = cs[job[c].set].status
    BY <1>1 DEF Typed, TypeOK, SetRow, Persisted
  <1> QED BY <1>1, <1>2 DEF Typed, TypeOK, Persist

LEMMA NextJournals == ASSUME Typed, Next PROVE Journalled' /\ JournalsKept
  <1>1. CASE \E c \in Clients : ApplyCommit(c) \/ UndoCommit(c)
    BY <1>1, CommitJournals
  <1>2. CASE \E c \in Clients : Persist(c)
    BY <1>2, PersistStatus, OthersJournalled DEF Persist, Database
  <1>3. CASE \E s \in Sets : Create(s) \/ Discard(s) \/ Expire(s)
    <2>1. PICK t \in Sets : Create(t) \/ Discard(t) \/ Expire(t)
      BY <1>3
    <2>2. UNCHANGED journal
      BY <2>1 DEF Create, Discard, Expire, Database
    <2>3. \A s \in Sets \ {t} : cs'[s] = cs[s]
      BY <2>1 DEF Typed, TypeOK, Create, Discard, Expire
    <2>4. cs'[t].status = cs[t].status \/ cs'[t].status \in {"pending", "discarded"}
      <3>1. cs \in [Sets -> SetRow] /\ cs[t] \in SetRow
        BY DEF Typed, TypeOK
      <3>2. CASE Create(t)
        BY <3>1, <3>2 DEF Create, SetRow
      <3>3. CASE Discard(t)
        BY <3>1, <3>3 DEF Discard, SetRow
      <3>4. CASE Expire(t)
        BY <3>1, <3>4 DEF Expire, SetRow
      <3> QED BY <2>1, <3>2, <3>3, <3>4
    <2> QED BY <2>2, <2>3, <2>4, OthersJournalled
  <1>4. CASE UNCHANGED <<cs, journal>>
    BY <1>4, OthersJournalled
  <1>5. \A c \in Clients : Request(c) => UNCHANGED <<cs, journal>>
    BY DEF Request, Stage, Apply, UndoBegin, Write, Import, Metadata, Database
  <1>6. \A c \in Clients : Step(c) =>
          ApplyCommit(c) \/ UndoCommit(c) \/ Persist(c) \/ UNCHANGED <<cs, journal>>
    BY DEF Step, Read, PreviewEnd, PersistRefused, LockScopes, LockTables, Dispatch,
       DispatchRaises, ApplyBegin, ApplyDrift, UndoRefused, CommitWrite, Abort,
       Metadata, Database
  <1>7. \A r \in Named : Bump(r) => UNCHANGED <<cs, journal>>
    BY DEF Bump
  <1> QED BY <1>1, <1>2, <1>3, <1>4, <1>5, <1>6, <1>7 DEF Next

(* A request that is where it was still fits; one that has moved fits when   *)
(* what it carries suits the new place.                                      *)
LEMMA OthersFit ==
    ASSUME Typed, JournalsKept, NEW d \in Clients,
           pc'[d] = pc[d], job'[d] = job[d], before'[d] = before[d]
    PROVE  JobFits(d)'
  <1>1. JobFits(d)
    BY DEF Typed, Shape
  <1>2. job[d].op = "undo" => journal'[job[d].set] # None
    BY <1>1 DEF JobFits, JournalsKept
  <1> QED BY <1>1, <1>2 DEF JobFits, Snapped, Previewing

Carries(j) ==
    /\ j.op \in {"stage", "refresh", "apply", "undo"} => j.set \in Sets
    /\ j.op = "stage" => j.cmds # <<>> /\ j.call \in Calls
    /\ j.op = "apply" => j.hash # None
    /\ j.op = "undo" => journal'[j.set] # None

LEMMA MovedFits ==
    ASSUME NEW c \in Clients, Carries(job'[c]),
           \/ pc'[c] = "idle"
           \/ pc'[c] = "request" /\ job'[c].op \in {"stage", "refresh", "apply"}
           \/ pc'[c] = "lock" /\ job'[c].op \notin {"none", "import"}
           \/ pc'[c] = "tables" /\ job'[c].op \in {"apply", "undo"}
           \/ pc'[c] = "dispatch" /\ job'[c].op \in {"write", "import"}
           \/ pc'[c] = "persist" /\ job'[c].op \in {"stage", "refresh"}
                                /\ job'[c].hash # None
    PROVE  JobFits(c)'
  BY DEF JobFits, Snapped, Carries, Previewing

LEMMA FinishFits ==
    ASSUME Typed, NEW c \in Clients, Finish(c)
    PROVE  JobFits(c)'
  <1>1. pc'[c] = "idle" /\ job'[c] = NoJob
    BY EndTxMovesOne DEF Typed, Finish
  <1> QED BY <1>1, MovedFits DEF NoJob, Carries

LEMMA ReadSetFits ==
    ASSUME Typed, NEW c \in Clients, NEW j \in Job, j.set \in Sets,
           j.op \in {"stage", "refresh"}, j.op = "stage" => j.call \in Calls /\ j.cmds # <<>>,
           ReadSet(c, j)
    PROVE  JobFits(c)'
  <1>1. CASE Finish(c)
    BY <1>1, FinishFits
  <1>2. CASE ~Finish(c)
    <2> DEFINE cmds == IF j.op = "stage"
                       THEN Append(ItemCmds(j.set), j.cmds[Len(j.cmds)])
                       ELSE ItemCmds(j.set)
               base == cs[j.set].rev
               k == [j EXCEPT !.base = base, !.cmds = cmds]
    <2>1. pc' = [pc EXCEPT ![c] = "lock"] /\ job' = [job EXCEPT ![c] = k]
      BY <1>2 DEF ReadSet
    <2>2. pc'[c] = "lock" /\ job'[c] = k
      BY <2>1 DEF Typed, TypeOK
    <2>3. j.op = "stage" => cmds # <<>>
      <3>1. ItemCmds(j.set) \in Seq(Command)
        BY ItemCmdsType DEF Typed
      <3>2. j.op = "stage" => j.cmds[Len(j.cmds)] \in Command
        BY EmptySeq, LenProperties, ElementOfSeq DEF Job
      <3> QED BY <3>1, <3>2
    <2>4. k.op = j.op /\ k.set = j.set /\ k.call = j.call /\ k.cmds = cmds
      <3> HIDE DEF cmds, base
      <3> QED BY DEF Job
    <2> HIDE DEF k, cmds
    <2> QED BY <2>2, <2>3, <2>4, MovedFits DEF Carries
  <1> QED BY <1>1, <1>2

LEMMA RequestFits ==
    ASSUME Typed, JournalsKept, Journalled, NEW c \in Clients, Request(c)
    PROVE  JobFits(c)'
  <1>1. ASSUME NEW s \in Sets, NEW m \in Commands, NEW k \in Calls, Stage(c, s, m, k)
        PROVE  JobFits(c)'
    <2> DEFINE j == [NoJob EXCEPT !.op = "stage", !.set = s, !.cmds = <<m>>, !.call = k]
    <2>1. <<m>> \in Seq(Command) /\ <<m>> # <<>>
      BY CommandsAssumption
    <2>2. j \in Job /\ j.set = s /\ j.op = "stage" /\ j.cmds = <<m>> /\ j.call = k
      BY <2>1, NoJobType DEF Job
    <2>3. ReadSet(c, j)
      BY <1>1 DEF Stage
    <2> HIDE DEF j
    <2> QED BY <2>1, <2>2, <2>3, ReadSetFits
  <1>2. ASSUME NEW s \in Sets, NEW ack \in BOOLEAN, Apply(c, s, ack) PROVE JobFits(c)'
    <2> DEFINE h == cs[s].hash
               j == [NoJob EXCEPT !.op = "apply", !.set = s, !.hash = h, !.ack = ack]
    <2>1. pc'[c] = "request" /\ job'[c] = j /\ h # None
      BY <1>2 DEF Typed, TypeOK, Apply
    <2>2. j.op = "apply" /\ j.set = s /\ j.hash = h
      BY DEF NoJob
    <2> HIDE DEF j, h
    <2> QED BY <2>1, <2>2, MovedFits DEF Carries
  <1>3. ASSUME NEW s \in Sets, UndoBegin(c, s) PROVE JobFits(c)'
    <2> DEFINE j == [NoJob EXCEPT !.op = "undo", !.set = s, !.cmds = ItemCmds(s)]
    <2>1. pc'[c] = "lock" /\ job'[c] = j
      BY <1>3 DEF Typed, TypeOK, UndoBegin
    <2>2. journal'[s] # None
      BY <1>3 DEF Journalled, JournalsKept, UndoBegin
    <2>3. j.op = "undo" /\ j.set = s
      BY DEF NoJob
    <2> HIDE DEF j
    <2> QED BY <2>1, <2>2, <2>3, MovedFits DEF Carries
  <1>4. ASSUME NEW m \in Edits, NEW loaded, Write(c, m, loaded) PROVE JobFits(c)'
    <2> DEFINE j == [NoJob EXCEPT !.op = "write", !.cmds = <<m>>, !.loaded = loaded]
    <2>1. pc'[c] = "lock" /\ job'[c] = j
      BY <1>4 DEF Typed, TypeOK, Write
    <2>2. j.op = "write"
      BY DEF NoJob
    <2> HIDE DEF j
    <2> QED BY <2>1, <2>2, MovedFits DEF Carries
  <1>5. ASSUME NEW m \in Loads, Import(c, m) PROVE JobFits(c)'
    <2> DEFINE j == [NoJob EXCEPT !.op = "import", !.cmds = <<m>>]
    <2>1. pc'[c] = "dispatch" /\ job'[c] = j
      BY <1>5 DEF Typed, TypeOK, Import
    <2>2. j.op = "import"
      BY DEF NoJob
    <2> HIDE DEF j
    <2> QED BY <2>1, <2>2, MovedFits DEF Carries
  <1> QED BY <1>1, <1>2, <1>3, <1>4, <1>5 DEF Request

(* Where an exact or a preview snapshot is taken, it covers just its scopes. *)
LEMMA LockScopesFits ==
    ASSUME Typed, JournalsKept, NEW c \in Clients, LockScopes(c) PROVE JobFits(c)'
  <1>1. pc'[c] = AfterLock(job[c].op) /\ job' = job /\ job[c].op \notin {"none", "import"}
    BY DEF Typed, TypeOK, Shape, JobFits, LockScopes
  <1>2. JobFits(c)
    BY DEF Typed, Shape
  <1>3. Carries(job'[c])
    BY <1>1, <1>2 DEF Carries, JobFits, JournalsKept
  <1>4. CASE job[c].op \in {"apply", "undo"}
    BY <1>1, <1>3, <1>4, MovedFits DEF AfterLock
  <1>5. CASE job[c].op = "write"
    BY <1>1, <1>3, <1>5, MovedFits DEF AfterLock
  <1>6. CASE Previewing(c)
    <2>1. before'[c] = Snapshot(db, ScopeRows(job[c].cmds))
      BY <1>6 DEF Typed, TypeOK, LockScopes
    <2>2. \A r \in Rows : before'[c][r] # None <=> r \in ScopeRows(job[c].cmds)
      BY <2>1, SnapshotType DEF Typed, TypeOK
    <2>3. pc'[c] = "dispatch"
      BY <1>1, <1>6 DEF AfterLock, Previewing
    <2> QED BY <1>1, <1>2, <1>3, <1>6, <2>2, <2>3
            DEF JobFits, Snapped, Previewing, Carries
  <1>7. job[c].op \in {"stage", "refresh", "apply", "undo", "write"}
    BY <1>1 DEF Typed, TypeOK, Job
  <1> QED BY <1>4, <1>5, <1>6, <1>7 DEF Previewing

LEMMA LockTablesFits ==
    ASSUME Typed, JournalsKept, NEW c \in Clients, LockTables(c) PROVE JobFits(c)'
  <1>1. /\ pc'[c] = IF job[c].op = "undo" THEN "restore" ELSE "dispatch"
        /\ before'[c] = Snapshot(db, ScopeRows(job[c].cmds))
        /\ job' = job /\ job[c].op \in {"apply", "undo"}
    BY DEF Typed, TypeOK, Shape, JobFits, LockTables
  <1>2. JobFits(c)
    BY DEF Typed, Shape
  <1>3. \A r \in Rows : before'[c][r] # None <=> r \in ScopeRows(job[c].cmds)
    BY SMTT(30), <1>1, SnapshotType DEF Typed, TypeOK
  <1>4. Carries(job'[c])
    BY <1>1, <1>2 DEF Carries, JobFits, JournalsKept
  <1>5. CASE job[c].op = "undo"
    BY <1>1, <1>3, <1>4, <1>5 DEF JobFits, Snapped, Carries, Previewing
  <1>6. CASE job[c].op = "apply"
    BY <1>1, <1>3, <1>4, <1>6 DEF JobFits, Snapped, Carries, Previewing
  <1> QED BY <1>1, <1>5, <1>6

LEMMA StepFits ==
    ASSUME Typed, JournalsKept, NEW c \in Clients, Step(c) PROVE JobFits(c)'
  <1>0. JobFits(c) /\ job[c] \in Job
    BY DEF Typed, TypeOK, Shape
  <1>1. CASE Read(c)
    <2>1. /\ job[c].set \in Sets /\ job[c].op \in {"stage", "refresh"}
          /\ job[c].op = "stage" => job[c].call \in Calls /\ job[c].cmds # <<>>
      BY <1>0, <1>1 DEF JobFits, Read, Previewing
    <2> QED BY <1>0, <1>1, <2>1, ReadSetFits DEF Read
  <1>2. CASE PreviewEnd(c)
    <2> DEFINE h == Digest(job[c].base + 1, job[c].cmds,
                           Diff(before[c], Snapshot(Visible(c), ScopeRows(job[c].cmds))))
               k == [job[c] EXCEPT !.hash = h]
    <2>1. pc'[c] = "persist" /\ job'[c] = k
      BY <1>2, EndTxMovesOne DEF PreviewEnd, Typed
    <2>2. Snapped(c) /\ job[c].base + 1 \in Nat
      BY <1>0, <1>2 DEF PreviewEnd, Previewing, Snapped, Job
    <2>3. h \in Hash
      BY <2>2, DigestType
    <2>4. h # None
      BY <2>3, NoneAssumption
    <2>5. k.op = job[c].op /\ k.set = job[c].set /\ k.cmds = job[c].cmds
          /\ k.call = job[c].call /\ k.hash = h
      <3> HIDE DEF h
      <3> QED BY <1>0 DEF Job
    <2> HIDE DEF h, k
    <2> QED BY <1>0, <1>2, <2>1, <2>4, <2>5, MovedFits
            DEF JobFits, Carries, PreviewEnd, Previewing
  <1>3. CASE PersistRefused(c)
    <2>1. CASE Finish(c)
      BY <2>1, FinishFits
    <2>2. CASE ~Finish(c)
      <3> DEFINE n == job[c].tries + 1
                 k == [job[c] EXCEPT !.tries = n, !.hash = None]
      <3>1. EndTx(c, "request", k)
        BY <1>3, <2>2 DEF PersistRefused
      <3>2. pc'[c] = "request" /\ job'[c] = k
        BY <3>1, EndTxMovesOne DEF Typed
      <3>3. k.op = job[c].op /\ k.set = job[c].set /\ k.cmds = job[c].cmds
            /\ k.call = job[c].call
        <4> HIDE DEF n
        <4> QED BY <1>0 DEF Job
      <3>4. job[c].op \in {"stage", "refresh"}
        BY <1>0, <1>3 DEF PersistRefused, JobFits, Previewing
      <3> HIDE DEF k
      <3> QED BY <1>0, <3>2, <3>3, <3>4, MovedFits DEF JobFits, Carries
    <2> QED BY <2>1, <2>2
  <1>4. CASE LockScopes(c) \/ LockTables(c)
    BY <1>4, LockScopesFits, LockTablesFits
  <1>5. CASE Dispatch(c)
    <2>1. pc' = pc /\ job' = job /\ before' = before
      BY <1>5 DEF Dispatch
    <2> QED BY <2>1, OthersFit
  <1>6. CASE ApplyBegin(c)
    <2>1. CASE Finish(c)
      BY <2>1, FinishFits
    <2>2. CASE ~Finish(c)
      <3> DEFINE q == ItemCmds(job[c].set)
                 k == [job[c] EXCEPT !.cmds = q]
      <3>1. pc'[c] = "lock" /\ job'[c] = k
        BY <1>6, <2>2 DEF ApplyBegin, Typed, TypeOK
      <3>2. k.op = job[c].op /\ k.set = job[c].set /\ k.hash = job[c].hash
        <4> HIDE DEF q
        <4> QED BY <1>0 DEF Job
      <3>3. job[c].op = "apply"
        BY <1>6 DEF ApplyBegin
      <3> HIDE DEF k
      <3> QED BY <1>0, <3>1, <3>2, <3>3, MovedFits DEF JobFits, Carries
    <2> QED BY <2>1, <2>2
  <1>7. CASE ApplyDrift(c)
    <2> DEFINE k == [NoJob EXCEPT !.op = "refresh", !.set = job[c].set]
    <2>1. pc'[c] = "request" /\ job'[c] = k
      BY <1>7, EndTxMovesOne DEF ApplyDrift, Typed
    <2>2. k.op = "refresh" /\ k.set = job[c].set
      BY DEF NoJob
    <2>3. job[c].set \in Sets
      BY <1>0, <1>7 DEF ApplyDrift, Applied, JobFits
    <2> HIDE DEF k
    <2> QED BY <2>1, <2>2, <2>3, MovedFits DEF Carries
  <1>8. CASE \/ Persist(c) \/ DispatchRaises(c) \/ ApplyCommit(c) \/ UndoCommit(c)
             \/ UndoRefused(c) \/ CommitWrite(c) \/ Abort(c)
    BY <1>8, FinishFits DEF Persist, DispatchRaises, ApplyCommit, UndoCommit,
       UndoRefused, CommitWrite, Abort
  <1> QED BY <1>1, <1>2, <1>3, <1>4, <1>5, <1>6, <1>7, <1>8 DEF Step

LEMMA NextShape == ASSUME Typed, [Next]_vars PROVE Shape'
  <1>1. CASE UNCHANGED vars
    BY <1>1 DEF Typed, Shape, JobFits, Snapped, Previewing, vars, tx
  <1>2. CASE Next
    <2>1. Journalled' /\ JournalsKept
      BY <1>2, NextJournals
    <2>2. Journalled
      BY DEF Typed, Shape, Journalled
    <2>3. ASSUME NEW c \in Clients, Request(c) \/ Step(c)
          PROVE  \A d \in Clients : JobFits(d)'
      <3>1. JobFits(c)'
        BY <2>1, <2>2, <2>3, RequestFits, StepFits
      <3>2. OnlyMoves(c)
        BY <2>3, RequestMovesOne, StepMovesOne DEF Typed
      <3>3. ASSUME NEW d \in Clients, d # c PROVE JobFits(d)'
        BY <2>1, <3>2, <3>3, OthersFit DEF OnlyMoves
      <3> QED BY <3>1, <3>3
    <2>4. ASSUME UNCHANGED tx PROVE \A d \in Clients : JobFits(d)'
      BY <2>1, <2>4, OthersFit DEF tx
    <2>5. (\E s \in Sets : Create(s) \/ Discard(s) \/ Expire(s)) \/ (\E r \in Named : Bump(r))
             => UNCHANGED tx
      BY DEF Create, Discard, Expire, Bump
    <2>6. \A d \in Clients : JobFits(d)'
      BY <1>2, <2>3, <2>4, <2>5 DEF Next
    <2> QED BY <2>1, <2>6 DEF Shape, Journalled
  <1> QED BY <1>1, <1>2

LEMMA InitTyped == Init => Typed
  <1> SUFFICES ASSUME Init PROVE Typed
    OBVIOUS
  <1>1. db \in [Rows -> Row]
    BY StartAssumption DEF Init, Row, Vals
  <1>2. \A s \in Sets : NewSet \in SetRow
    BY EmptySeq DEF NewSet, SetRow
  <1>3. TypeOK
    BY <1>1, <1>2, NoJobType, NoRowsType DEF Init, TypeOK, Place
  <1>4. Shape
    BY DEF Init, Shape, JobFits, Snapped, Previewing, NewSet, NoJob
  <1> QED BY <1>3, <1>4 DEF Typed

(* Every variable keeps its type in every reachable state, whatever the      *)
(* rows, scopes, commands and clients; requests keep the shape of the        *)
(* handlers that serve them.                                                 *)
THEOREM TypeCorrect == Spec => []TypeOK
  <1>1. Init => Typed
    BY InitTyped
  <1>2. Typed /\ [Next]_vars => Typed'
    BY NextTyped, NextShape DEF Typed
  <1>3. Typed => TypeOK
    BY DEF Typed
  <1> QED BY <1>1, <1>2, <1>3, PTL DEF Spec

(* The typing and the shape of every transaction always hold: the invariant  *)
(* the theorems below start from.                                            *)
THEOREM AlwaysTyped == Spec => []Typed
  <1>1. Init => Typed
    BY InitTyped
  <1>2. Typed /\ [Next]_vars => Typed'
    BY NextTyped, NextShape DEF Typed
  <1> QED BY <1>1, <1>2, PTL DEF Spec

-----------------------------------------------------------------------------
(* Scope locks.  Two lists of commands that cover a common row ask for a     *)
(* common lock, whether they name the row itself or its whole store: that is *)
(* what the ancestor locks of lock_scopes are for.                           *)

LEMMA CommonRowCommonLock ==
    ASSUME NEW p, NEW q, NEW r \in ScopeRows(p) \cap ScopeRows(q)
    PROVE  LockSet(AllScopes(p)) \cap LockSet(AllScopes(q)) # {}
  <1>1. PICK s \in AllScopes(p) : r \in RowsOf(s)
    BY DEF ScopeRows
  <1>2. PICK t \in AllScopes(q) : r \in RowsOf(t)
    BY DEF ScopeRows
  <1>3. CASE r \in AsgRows
    <2>1. StoreScope(StoreOf[r]) \in LockSet(AllScopes(p))
      BY <1>1, <1>3 DEF RowsOf, LockSet, OwnScopes
    <2>2. StoreScope(StoreOf[r]) \in LockSet(AllScopes(q))
      BY <1>2, <1>3 DEF RowsOf, LockSet, OwnScopes
    <2> QED BY <2>1, <2>2
  <1>4. CASE r \notin AsgRows
    <2>1. s = RowScope(r) /\ t = RowScope(r)
      BY <1>1, <1>2, <1>4 DEF RowsOf
    <2> QED BY <1>1, <1>2, <2>1 DEF LockSet
  <1> QED BY <1>3, <1>4

(* What makes the exclusion inductive: no advisory lock has two holders, and *)
(* a transaction past lock_scopes still has every lock it asked for.         *)
Locked(c) == Covering(c) => held[c] = LockSet(AllScopes(job[c].cmds))
OneHolder == \A c, d \in Clients : c # d => held[c] \cap held[d] = {}
LocksKept == OneHolder /\ \A c \in Clients : Locked(c)

LEMMA LocksExclude == LocksKept => CooperatingWritersExclude
  BY CommonRowCommonLock DEF LocksKept, OneHolder, Locked, CooperatingWritersExclude

LEMMA InitLocks == Init => LocksKept
  BY DEF Init, LocksKept, OneHolder, Locked, Covering

(* An action after which a client covers nothing new and holds no more locks *)
(* than it did.                                                              *)
LEMMA NoNewLocks ==
    ASSUME Typed, LocksKept, NEW c \in Clients, OnlyMoves(c),
           held'[c] \subseteq held[c], ~Covering(c)'
    PROVE  LocksKept'
  <1>1. \A d \in Clients \ {c} : held'[d] = held[d] /\ (Covering(d)' <=> Covering(d))
                               /\ job'[d] = job[d]
    BY DEF OnlyMoves, Covering
  <1>2. OneHolder'
    BY <1>1 DEF LocksKept, OneHolder
  <1>3. \A d \in Clients : Locked(d)'
    BY <1>1 DEF LocksKept, Locked
  <1> QED BY <1>2, <1>3 DEF LocksKept

LEMMA EndTxLocks ==
    ASSUME Typed, LocksKept, NEW c \in Clients, NEW j,
           NEW p \in {"idle", "request", "persist"}, EndTx(c, p, j)
    PROVE  LocksKept'
  <1>1. OnlyMoves(c) /\ held'[c] = {} /\ pc'[c] = p
    BY EndTxMovesOne DEF Typed
  <1> QED BY <1>1, NoNewLocks DEF Covering

LEMMA ReadSetLocks ==
    ASSUME Typed, LocksKept, NEW c \in Clients, NEW j, ReadSet(c, j)
    PROVE  LocksKept'
  <1>1. CASE Finish(c)
    BY <1>1, EndTxLocks DEF Finish
  <1>2. CASE ~Finish(c)
    <2>1. pc'[c] = "lock" /\ held'[c] = held[c]
      BY <1>2 DEF ReadSet, Typed, TypeOK
    <2> QED BY <2>1, ReadSetMovesOne, NoNewLocks DEF Covering, Typed
  <1> QED BY <1>1, <1>2

LEMMA RequestLocks ==
    ASSUME Typed, LocksKept, NEW c \in Clients, Request(c) PROVE LocksKept'
  <1>1. CASE \E s \in Sets, m \in Commands, k \in Calls : Stage(c, s, m, k)
    BY <1>1, ReadSetLocks DEF Stage
  <1>2. CASE ~\E s \in Sets, m \in Commands, k \in Calls : Stage(c, s, m, k)
    <2>1. held' = held
      BY <1>2 DEF Request, Apply, UndoBegin, Write, Import
    <2>2. ~Covering(c)'
      <3>1. CASE \E s \in Sets, ack \in BOOLEAN : Apply(c, s, ack)
        BY <3>1 DEF Apply, Typed, TypeOK, Covering
      <3>2. CASE \E s \in Sets : UndoBegin(c, s)
        BY <3>2 DEF UndoBegin, Typed, TypeOK, Covering
      <3>3. CASE \E m \in Edits, loaded \in {Gone} \cup {db[r] : r \in Rows} :
                    Write(c, m, loaded)
        BY <3>3 DEF Write, Typed, TypeOK, Covering
      <3>4. CASE \E m \in Loads : Import(c, m)
        BY <3>4 DEF Import, Typed, TypeOK, Covering, NoJob
      <3> QED BY <1>2, <3>1, <3>2, <3>3, <3>4 DEF Request
    <2> QED BY <2>1, <2>2, RequestMovesOne, NoNewLocks DEF Typed
  <1> QED BY <1>1, <1>2

LEMMA LockScopesLocks ==
    ASSUME Typed, LocksKept, NEW c \in Clients, LockScopes(c) PROVE LocksKept'
  <1> DEFINE want == LockSet(AllScopes(job[c].cmds))
  <1>1. held' = [held EXCEPT ![c] = want] /\ job' = job /\ CanLock(c, want)
    BY DEF LockScopes
  <1>2. OnlyMoves(c) /\ held'[c] = want
    BY <1>1, StepMovesOne DEF Step, Typed, TypeOK
  <1>3. \A d \in Clients \ {c} : held'[d] = held[d] /\ held[d] \cap want = {}
    BY <1>1, <1>2 DEF CanLock, OnlyMoves
  <1>4. OneHolder'
    <2> HIDE DEF want
    <2> QED BY <1>2, <1>3 DEF LocksKept, OneHolder
  <1>5. \A d \in Clients : Locked(d)'
    <2>1. Locked(c)'
      BY <1>1, <1>2 DEF Locked
    <2>2. \A d \in Clients \ {c} : Locked(d)'
      BY <1>2 DEF OnlyMoves, LocksKept, Locked, Covering
    <2> QED BY <2>1, <2>2
  <1> QED BY <1>4, <1>5 DEF LocksKept

LEMMA StepLocks ==
    ASSUME Typed, LocksKept, NEW c \in Clients, Step(c) PROVE LocksKept'
  <1>1. CASE Read(c)
    BY <1>1, ReadSetLocks DEF Read
  <1>2. CASE LockScopes(c)
    BY <1>2, LockScopesLocks
  <1>3. CASE LockTables(c) \/ Dispatch(c)
    <2>1. held' = held /\ job' = job /\ OnlyMoves(c)
      BY <1>3, StepMovesOne DEF LockTables, Dispatch, Step, Typed
    <2>2. Covering(c)' => Covering(c)
      <3>1. CASE LockTables(c)
        BY <3>1 DEF LockTables, Covering
      <3>2. CASE Dispatch(c)
        BY <3>2 DEF Dispatch, Covering
      <3> QED BY <1>3, <3>1, <3>2
    <2>3. \A d \in Clients : Locked(d)'
      BY <2>1, <2>2 DEF OnlyMoves, LocksKept, Locked, Covering
    <2> QED BY <2>1, <2>3 DEF LocksKept, OneHolder
  <1>4. CASE ApplyBegin(c)
    <2>1. CASE Finish(c)
      BY <2>1, EndTxLocks DEF Finish
    <2>2. CASE ~Finish(c)
      <3>1. held' = held /\ pc'[c] = "lock"
        BY <1>4, <2>2 DEF ApplyBegin, Typed, TypeOK
      <3> QED BY <1>4, <3>1, StepMovesOne, NoNewLocks DEF Covering, Step, Typed
    <2> QED BY <2>1, <2>2
  <1>5. CASE PersistRefused(c)
    BY <1>5, EndTxLocks DEF PersistRefused, Finish
  <1>6. CASE PreviewEnd(c) \/ ApplyDrift(c)
    BY <1>6, EndTxLocks DEF PreviewEnd, ApplyDrift
  <1>7. CASE \/ Persist(c) \/ DispatchRaises(c) \/ ApplyCommit(c) \/ UndoCommit(c)
             \/ UndoRefused(c) \/ CommitWrite(c) \/ Abort(c)
    BY <1>7, EndTxLocks DEF Persist, DispatchRaises, ApplyCommit, UndoCommit,
       UndoRefused, CommitWrite, Abort, Finish
  <1> QED BY <1>1, <1>2, <1>3, <1>4, <1>5, <1>6, <1>7 DEF Step

LEMMA NextLocks == ASSUME Typed, LocksKept, [Next]_vars PROVE LocksKept'
  <1>1. CASE UNCHANGED tx
    BY <1>1 DEF tx, LocksKept, OneHolder, Locked, Covering
  <1>2. CASE \E c \in Clients : Request(c) \/ Step(c)
    BY <1>2, RequestLocks, StepLocks
  <1> QED BY <1>1, <1>2 DEF Next, vars, Create, Discard, Expire, Bump

(* No two transactions that take scope locks ever cover a common row, for    *)
(* any rows, stores, commands and number of connections.                     *)
THEOREM WritersExclude == Spec => []CooperatingWritersExclude
  <1>1. Typed /\ LocksKept /\ [Next]_vars => LocksKept'
    BY NextLocks
  <1> QED BY <1>1, InitLocks, LocksExclude, AlwaysTyped, PTL DEF Spec

-----------------------------------------------------------------------------
(* The change-set row lock.  What apply and undo read under FOR UPDATE holds *)
(* until they end, because one of them at a time holds the row and every     *)
(* other writer of the row waits for it.                                     *)

Holds(c) == HoldsSet(c, job[c].set)
OneReviewer == \A c, d \in Clients :
    c # d /\ Holds(c) /\ Holds(d) => job[c].set # job[d].set
Reviewed(c) == Holds(c) =>
    LET s == job[c].set
    IN /\ job[c].cmds = ItemCmds(s)
       /\ job[c].op = "apply" => cs[s].status = "pending" /\ cs[s].hash = job[c].hash
       /\ job[c].op = "undo" => cs[s].status = "applied"
Reviewing == OneReviewer /\ \A c \in Clients : Reviewed(c)

(* The parts of a set's row a review depends on.                             *)
RowKept(s) ==
    cs'[s].status = cs[s].status /\ cs'[s].items = cs[s].items /\ cs'[s].hash = cs[s].hash

LEMMA InitReviewing == Init => Reviewing
  BY DEF Init, Reviewing, OneReviewer, Reviewed, Holds, HoldsSet, NoJob

LEMMA HolderSet ==
    ASSUME Typed, NEW c \in Clients, Holds(c)
    PROVE  job[c].set \in Sets
  BY DEF Typed, Shape, JobFits, Holds, HoldsSet

(* The holders of a set other than c still stand when c leaves their row.    *)
LEMMA OthersReviewed ==
    ASSUME Typed, Reviewing, NEW c \in Clients, OnlyMoves(c),
           \A d \in Clients \ {c} : Holds(d) => RowKept(job[d].set)
    PROVE  \A d \in Clients \ {c} : (Holds(d)' <=> Holds(d)) /\ Reviewed(d)'
  <1> TAKE d \in Clients \ {c}
  <1>1. job'[d] = job[d] /\ pc'[d] = pc[d]
    BY DEF OnlyMoves
  <1>2. Holds(d)' <=> Holds(d)
    BY <1>1 DEF Holds, HoldsSet
  <1>3. CASE Holds(d)
    <2>1. RowKept(job[d].set) /\ Reviewed(d)
      BY <1>3 DEF Reviewing
    <2>2. ItemCmds(job[d].set)' = ItemCmds(job[d].set)
      BY <1>1, <2>1 DEF ItemCmds, RowKept
    <2> QED BY <1>1, <1>2, <1>3, <2>1, <2>2 DEF Reviewed, RowKept
  <1> QED BY <1>2, <1>3 DEF Reviewed

(* c holds no set afterwards.                                                *)
LEMMA NoNewReview ==
    ASSUME Typed, Reviewing, NEW c \in Clients, OnlyMoves(c), ~Holds(c)',
           \A d \in Clients \ {c} : Holds(d) => RowKept(job[d].set)
    PROVE  Reviewing'
  <1>1. \A d \in Clients \ {c} : (Holds(d)' <=> Holds(d)) /\ Reviewed(d)' /\ job'[d] = job[d]
    BY OthersReviewed DEF OnlyMoves
  <1>2. OneReviewer'
    BY <1>1 DEF Reviewing, OneReviewer
  <1>3. \A d \in Clients : Reviewed(d)'
    BY <1>1 DEF Reviewed
  <1> QED BY <1>2, <1>3 DEF Reviewing

(* c has just taken the row of a free set.                                   *)
LEMMA NewReview ==
    ASSUME Typed, Reviewing, NEW c \in Clients, OnlyMoves(c), UNCHANGED cs,
           SetFree(job'[c].set), Reviewed(c)'
    PROVE  Reviewing'
  <1>1. \A d \in Clients \ {c} : (Holds(d)' <=> Holds(d)) /\ Reviewed(d)' /\ job'[d] = job[d]
    BY OthersReviewed DEF OnlyMoves, RowKept
  <1>2. \A d \in Clients \ {c} : Holds(d) => job[d].set # job'[c].set
    BY DEF SetFree, Holds
  <1>3. OneReviewer'
    BY <1>1, <1>2 DEF Reviewing, OneReviewer
  <1>4. \A d \in Clients : Reviewed(d)'
    BY <1>1
  <1> QED BY <1>3, <1>4 DEF Reviewing

(* The end of a transaction that changed no row of a set, or only one that   *)
(* nobody else holds.                                                        *)
LEMMA EndTxReviewing ==
    ASSUME Typed, Reviewing, NEW c \in Clients, NEW j,
           NEW p \in {"idle", "request", "persist"}, EndTx(c, p, j),
           \A d \in Clients \ {c} : Holds(d) => RowKept(job[d].set)
    PROVE  Reviewing'
  <1>1. OnlyMoves(c) /\ pc'[c] = p
    BY EndTxMovesOne DEF Typed
  <1> QED BY <1>1, NoNewReview DEF Holds, HoldsSet

LEMMA ReadSetReviewing ==
    ASSUME Typed, Reviewing, NEW c \in Clients, NEW j \in Job,
           j.op \in {"stage", "refresh"}, ReadSet(c, j), UNCHANGED cs
    PROVE  Reviewing'
  <1>1. CASE Finish(c)
    BY <1>1, EndTxReviewing DEF Finish, RowKept
  <1>2. CASE ~Finish(c)
    <2> DEFINE cmds == IF j.op = "stage"
                       THEN Append(ItemCmds(j.set), j.cmds[Len(j.cmds)])
                       ELSE ItemCmds(j.set)
               base == cs[j.set].rev
               k == [j EXCEPT !.base = base, !.cmds = cmds]
    <2>1. job'[c] = k
      BY <1>2 DEF ReadSet, Typed, TypeOK
    <2>2. k.op = j.op
      <3> HIDE DEF cmds, base
      <3> QED BY DEF Job
    <2> HIDE DEF k
    <2> QED BY <2>1, <2>2, ReadSetMovesOne, NoNewReview DEF Holds, HoldsSet, RowKept, Typed
  <1> QED BY <1>1, <1>2

LEMMA RequestReviewing ==
    ASSUME Typed, Reviewing, NEW c \in Clients, Request(c) PROVE Reviewing'
  <1>0. OnlyMoves(c) /\ cs' = cs
    BY RequestMovesOne DEF Typed, Request, Stage, Apply, UndoBegin, Write, Import, Metadata
  <1>1. ASSUME NEW s \in Sets, NEW m \in Commands, NEW k \in Calls, Stage(c, s, m, k)
        PROVE  Reviewing'
    <2> DEFINE j == [NoJob EXCEPT !.op = "stage", !.set = s, !.cmds = <<m>>, !.call = k]
    <2>1. <<m>> \in Seq(Command)
      BY CommandsAssumption
    <2>2. j \in Job /\ j.op = "stage"
      BY <2>1, NoJobType DEF Job
    <2>3. ReadSet(c, j)
      BY <1>1 DEF Stage
    <2> HIDE DEF j
    <2> QED BY <1>0, <2>2, <2>3, ReadSetReviewing
  <1>2. ASSUME NEW s \in Sets, NEW ack \in BOOLEAN, Apply(c, s, ack) PROVE Reviewing'
    <2>1. pc'[c] = "request"
      BY <1>2 DEF Apply, Typed, TypeOK
    <2> QED BY <1>0, <2>1, NoNewReview DEF Holds, HoldsSet, RowKept
  <1>3. ASSUME NEW s \in Sets, UndoBegin(c, s) PROVE Reviewing'
    <2> DEFINE q == ItemCmds(s)
               j == [NoJob EXCEPT !.op = "undo", !.set = s, !.cmds = q]
    <2>1. job'[c] = j /\ SetFree(s) /\ cs[s].status = "applied"
      BY <1>3 DEF UndoBegin, Typed, TypeOK
    <2>2. j.op = "undo" /\ j.set = s /\ j.cmds = q
      <3> HIDE DEF q
      <3> QED BY DEF NoJob
    <2>3. ItemCmds(s)' = q
      BY <1>0 DEF ItemCmds
    <2> HIDE DEF j, q
    <2>4. Reviewed(c)'
      BY <1>0, <2>1, <2>2, <2>3 DEF Reviewed
    <2> QED BY <1>0, <2>1, <2>2, <2>4, NewReview
  <1>4. ASSUME NEW m \in Edits, NEW loaded, Write(c, m, loaded) PROVE Reviewing'
    <2>1. job'[c].op = "write"
      BY <1>4 DEF Write, Typed, TypeOK, NoJob
    <2> QED BY <1>0, <2>1, NoNewReview DEF Holds, HoldsSet, RowKept
  <1>5. ASSUME NEW m \in Loads, Import(c, m) PROVE Reviewing'
    <2>1. job'[c].op = "import"
      BY <1>5 DEF Import, Typed, TypeOK, NoJob
    <2> QED BY <1>0, <2>1, NoNewReview DEF Holds, HoldsSet, RowKept
  <1> QED BY <1>1, <1>2, <1>3, <1>4, <1>5 DEF Request

(* A commit by the holder of one set keeps the rows of the other sets.       *)
LEMMA CommitReviewing ==
    ASSUME Typed, Reviewing, NEW c \in Clients, ApplyCommit(c) \/ UndoCommit(c)
    PROVE  Reviewing'
  <1>1. Holds(c) /\ job[c].set \in Sets
    BY DEF Typed, Shape, JobFits, ApplyCommit, Applied, UndoCommit, Holds, HoldsSet
  <1>2. \A s \in Sets \ {job[c].set} : RowKept(s)
    BY <1>1 DEF ApplyCommit, UndoCommit, RowKept, Typed, TypeOK
  <1>3. \A d \in Clients \ {c} : Holds(d) => RowKept(job[d].set)
    BY <1>1, <1>2, HolderSet DEF Reviewing, OneReviewer
  <1> QED BY <1>3, EndTxReviewing DEF ApplyCommit, UndoCommit, Finish

LEMMA PersistReviewing ==
    ASSUME Typed, Reviewing, NEW c \in Clients, Persist(c) PROVE Reviewing'
  <1>1. job[c].set \in Sets /\ SetFree(job[c].set)
    BY DEF Typed, Shape, JobFits, Persist, Previewing
  <1>2. \A s \in Sets \ {job[c].set} : RowKept(s)
    BY <1>1 DEF Persist, RowKept, Typed, TypeOK
  <1>3. \A d \in Clients \ {c} : Holds(d) => RowKept(job[d].set)
    BY <1>1, <1>2, HolderSet DEF SetFree, Holds
  <1> QED BY <1>3, EndTxReviewing DEF Persist, Finish

LEMMA StepReviewing ==
    ASSUME Typed, Reviewing, NEW c \in Clients, Step(c) PROVE Reviewing'
  <1>0. OnlyMoves(c)
    BY StepMovesOne DEF Typed
  <1>1. CASE Read(c)
    <2>1. job[c] \in Job /\ job[c].op \in {"stage", "refresh"} /\ cs' = cs
      BY <1>1 DEF Read, Previewing, Typed, TypeOK, Metadata
    <2> QED BY <1>1, <2>1, ReadSetReviewing DEF Read
  <1>2. CASE LockScopes(c) \/ LockTables(c) \/ Dispatch(c)
    <2>1. job' = job /\ cs' = cs
      BY <1>2 DEF LockScopes, LockTables, Dispatch, Metadata
    <2>2. Holds(c)' => Holds(c)
      <3>1. CASE LockScopes(c)
        BY <2>1, <3>1 DEF LockScopes, Holds, HoldsSet
      <3>2. CASE LockTables(c)
        BY <2>1, <3>2 DEF LockTables, Holds, HoldsSet
      <3>3. CASE Dispatch(c)
        BY <2>1, <3>3 DEF Dispatch, Holds, HoldsSet
      <3> QED BY <1>2, <3>1, <3>2, <3>3
    <2>3. \A d \in Clients \ {c} : (Holds(d)' <=> Holds(d)) /\ Reviewed(d)'
      BY <1>0, <2>1, OthersReviewed DEF RowKept
    <2>4. Reviewed(c)'
      BY <2>1, <2>2 DEF Reviewing, Reviewed, ItemCmds
    <2> QED BY <2>1, <2>2, <2>3, <2>4 DEF Reviewing, OneReviewer
  <1>3. CASE ApplyBegin(c)
    <2>1. CASE Finish(c)
      BY <1>3, <2>1, EndTxReviewing DEF Finish, ApplyBegin, Metadata, RowKept
    <2>2. CASE ~Finish(c)
      <3> DEFINE q == ItemCmds(job[c].set)
                 k == [job[c] EXCEPT !.cmds = q]
      <3>1. job'[c] = k /\ cs' = cs /\ SetFree(job[c].set) /\ Confirmed(job[c].set, job[c])
            /\ job[c].op = "apply"
        BY <1>3, <2>2 DEF ApplyBegin, Metadata, Typed, TypeOK
      <3>2. k.op = "apply" /\ k.set = job[c].set /\ k.cmds = q /\ k.hash = job[c].hash
        <4> HIDE DEF q
        <4> QED BY <3>1 DEF Typed, TypeOK, Job
      <3>3. ItemCmds(job[c].set)' = q
        BY <3>1, <3>2 DEF ItemCmds
      <3> HIDE DEF q, k
      <3>4. Reviewed(c)'
        BY <3>1, <3>2, <3>3 DEF Reviewed, Confirmed, Open
      <3> QED BY <1>0, <3>1, <3>2, <3>4, NewReview
    <2> QED BY <2>1, <2>2
  <1>4. CASE PersistRefused(c)
    BY <1>4, EndTxReviewing DEF PersistRefused, Finish, Metadata, RowKept
  <1>5. CASE PreviewEnd(c) \/ ApplyDrift(c)
    BY <1>5, EndTxReviewing DEF PreviewEnd, ApplyDrift, Metadata, RowKept
  <1>6. CASE \/ DispatchRaises(c) \/ UndoRefused(c) \/ CommitWrite(c) \/ Abort(c)
    BY <1>6, EndTxReviewing DEF DispatchRaises, UndoRefused, CommitWrite, Abort,
       Finish, Metadata, RowKept
  <1>7. CASE Persist(c)
    BY <1>7, PersistReviewing
  <1>8. CASE ApplyCommit(c) \/ UndoCommit(c)
    BY <1>8, CommitReviewing
  <1> QED BY <1>1, <1>2, <1>3, <1>4, <1>5, <1>6, <1>7, <1>8 DEF Step

(* Users and maintenance write the row of a set only while it is free.       *)
LEMMA SetActionReviewing ==
    ASSUME Typed, Reviewing, NEW s \in Sets, Create(s) \/ Discard(s) \/ Expire(s)
    PROVE  Reviewing'
  <1>1. tx' = tx /\ \A t \in Sets \ {s} : cs'[t] = cs[t]
    BY DEF Create, Discard, Expire, Typed, TypeOK
  <1>2. \A d \in Clients : Holds(d) => RowKept(job[d].set)
    <2> TAKE d \in Clients
    <2> HAVE Holds(d)
    <2>1. job[d].set \in Sets /\ Reviewed(d) /\ job[d].op \in {"apply", "undo"}
      BY HolderSet DEF Reviewing, Holds, HoldsSet
    <2>2. CASE Create(s) \/ Discard(s)
      <3>1. job[d].set # s
        BY <2>1, <2>2 DEF Create, Discard, SetFree, Holds, Reviewed
      <3> QED BY <1>1, <2>1, <3>1 DEF RowKept
    <2>3. CASE Expire(s)
      BY <2>1, <2>3 DEF Expire, RowKept, Typed, TypeOK, SetRow
    <2> QED BY <2>2, <2>3
  <1>3. ASSUME NEW d \in Clients PROVE (Holds(d)' <=> Holds(d)) /\ Reviewed(d)'
    <2>1. (Holds(d)' <=> Holds(d)) /\ job' = job
      BY <1>1 DEF tx, Holds, HoldsSet
    <2>2. CASE Holds(d)
      <3>1. ItemCmds(job[d].set)' = ItemCmds(job[d].set)
        BY <1>2, <2>1, <2>2 DEF ItemCmds, RowKept
      <3> QED BY <1>2, <2>1, <2>2, <3>1 DEF Reviewing, Reviewed, RowKept
    <2> QED BY <2>1, <2>2 DEF Reviewed
  <1> QED BY <1>1, <1>3 DEF Reviewing, OneReviewer, tx

LEMMA NextReviewing == ASSUME Typed, Reviewing, [Next]_vars PROVE Reviewing'
  <1>1. CASE UNCHANGED <<cs, tx>>
    BY <1>1 DEF tx, Reviewing, OneReviewer, Reviewed, Holds, HoldsSet, ItemCmds
  <1>2. CASE \E c \in Clients : Request(c) \/ Step(c)
    BY <1>2, RequestReviewing, StepReviewing
  <1>3. CASE \E s \in Sets : Create(s) \/ Discard(s) \/ Expire(s)
    BY <1>3, SetActionReviewing
  <1> QED BY <1>1, <1>2, <1>3 DEF Next, vars, Bump

(* What apply and undo have read from a change set under its row lock still  *)
(* stands at every later step of theirs, whatever runs beside them.          *)
THEOREM ReviewAlwaysStands == Spec => []ReviewStands
  <1>1. Typed /\ Reviewing /\ [Next]_vars => Reviewing'
    BY NextReviewing
  <1>2. Reviewing => ReviewStands
    BY DEF Reviewing, Reviewed, Holds, ReviewStands
  <1> QED BY <1>1, <1>2, InitReviewing, AlwaysTyped, PTL DEF Spec

-----------------------------------------------------------------------------
(* The revision fence.  A preview is made of the items it read, and stored   *)
(* only if the revision is still the one it read; items change only when a   *)
(* preview is stored, and then the revision moves.                           *)

(* The commands a stage or a refresh previews, given those of the items.     *)
Proposal(q, j) == IF j.op = "stage" THEN Append(q, j.cmds[Len(j.cmds)]) ELSE q

InPreview(c) == Previewing(c) /\ pc[c] \in {"lock", "dispatch", "persist"}
Based(c) == InPreview(c) =>
    LET j == job[c]
        s == j.set
    IN /\ j.base <= cs[s].rev
       /\ j.base = cs[s].rev => j.cmds = Proposal(ItemCmds(s), j)
       /\ pc[c] = "persist" => j.hash.cmds = j.cmds /\ j.hash.rev = j.base + 1
Previewed == PreviewIsOfItems /\ \A c \in Clients : Based(c)

(* The parts of a set's row a preview depends on.                            *)
SetKept(s) ==
    cs'[s].rev = cs[s].rev /\ cs'[s].items = cs[s].items /\ cs'[s].hash = cs[s].hash

LEMMA InitPreviewed == Init => Previewed
  BY DEF Init, Previewed, PreviewIsOfItems, Based, InPreview, Previewing, NewSet, NoJob

LEMMA PreviewSet ==
    ASSUME Typed, NEW c \in Clients, Previewing(c)
    PROVE  job[c].set \in Sets
  BY DEF Typed, Shape, JobFits, Previewing

LEMMA SetsKeptPreviewed ==
    ASSUME PreviewIsOfItems, \A s \in Sets : SetKept(s)
    PROVE  PreviewIsOfItems'
  <1> SUFFICES ASSUME NEW s \in Sets, cs'[s].hash # None
               PROVE  cs'[s].hash.cmds = ItemCmds(s)' /\ cs'[s].hash.rev = cs'[s].rev
    BY DEF PreviewIsOfItems
  <1>1. ItemCmds(s)' = ItemCmds(s)
    BY DEF SetKept, ItemCmds
  <1> QED BY <1>1 DEF PreviewIsOfItems, SetKept

(* A client that stays where it is, over a set that is kept, is based still. *)
LEMMA OtherBased ==
    ASSUME Typed, NEW d \in Clients, Based(d), pc'[d] = pc[d], job'[d] = job[d],
           Previewing(d) => SetKept(job[d].set)
    PROVE  Based(d)'
  <1>1. CASE InPreview(d)
    <2>1. SetKept(job[d].set)
      BY <1>1 DEF InPreview
    <2>2. ItemCmds(job[d].set)' = ItemCmds(job[d].set)
      BY <2>1 DEF SetKept, ItemCmds
    <2> QED BY <1>1, <2>1, <2>2 DEF Based, SetKept, Proposal
  <1>2. CASE ~InPreview(d)
    BY <1>2 DEF Based, InPreview, Previewing
  <1> QED BY <1>1, <1>2

(* A client moves and no set changes: only its own preview is in question.   *)
LEMMA ClientPreviewed ==
    ASSUME Typed, Previewed, NEW c \in Clients, OnlyMoves(c), \A s \in Sets : SetKept(s),
           Based(c)'
    PROVE  Previewed'
  <1>1. \A d \in Clients \ {c} : Based(d)'
    BY OtherBased, PreviewSet DEF Previewed, OnlyMoves
  <1> QED BY <1>1, SetsKeptPreviewed DEF Previewed

LEMMA EndTxPreviewed ==
    ASSUME Typed, Previewed, NEW c \in Clients, NEW j, NEW p \in {"idle", "request"},
           EndTx(c, p, j), \A s \in Sets : SetKept(s)
    PROVE  Previewed'
  <1>1. OnlyMoves(c) /\ pc'[c] = p
    BY EndTxMovesOne DEF Typed
  <1>2. Based(c)'
    BY <1>1 DEF Based, InPreview
  <1> QED BY <1>1, <1>2, ClientPreviewed

(* What a preview reads is of the revision it reads.                         *)
LEMMA ReadSetPreviewed ==
    ASSUME Typed, Previewed, NEW c \in Clients, NEW j \in Job, j.set \in Sets,
           j.op \in {"stage", "refresh"}, j.op = "stage" => j.cmds # <<>>,
           ReadSet(c, j), UNCHANGED cs
    PROVE  Previewed'
  <1>0. \A s \in Sets : SetKept(s)
    BY DEF SetKept
  <1>1. CASE Finish(c)
    BY <1>0, <1>1, EndTxPreviewed DEF Finish
  <1>2. CASE ~Finish(c)
    <2> DEFINE q == ItemCmds(j.set)
               m == j.cmds[Len(j.cmds)]
               cmds == IF j.op = "stage" THEN Append(q, m) ELSE q
               base == cs[j.set].rev
               k == [j EXCEPT !.base = base, !.cmds = cmds]
    <2>1. job'[c] = k /\ pc'[c] = "lock"
      BY <1>2 DEF ReadSet, Typed, TypeOK
    <2>2. q \in Seq(Command) /\ base \in Nat
      BY ItemCmdsType DEF Typed, TypeOK, SetRow
    <2>3. j.op = "stage" => m \in Command
      BY EmptySeq, LenProperties, ElementOfSeq DEF Job
    <2>4. ItemCmds(j.set)' = q
      BY DEF ItemCmds
    <2>5. j.op = "stage" => cmds[Len(cmds)] = m
      <3> HIDE DEF q, m
      <3> QED BY <2>2, <2>3, AppendProperties
    <2> HIDE DEF q, m, base
    <2>6. k.op = j.op /\ k.set = j.set /\ k.base = base /\ k.cmds = cmds
      <3> HIDE DEF cmds
      <3> QED BY DEF Job
    <2> HIDE DEF k
    <2>7. cmds = Proposal(q, k)
      <3>1. CASE j.op = "stage"
        <4>1. cmds = Append(q, m)
          BY <3>1
        <4> HIDE DEF cmds
        <4> QED BY <2>5, <2>6, <3>1, <4>1 DEF Proposal
      <3>2. CASE j.op # "stage"
        <4>1. cmds = q
          BY <3>2
        <4> HIDE DEF cmds
        <4> QED BY <2>6, <3>2, <4>1 DEF Proposal
      <3> QED BY <3>1, <3>2
    <2> HIDE DEF cmds
    <2>8. base = cs'[j.set].rev
      BY DEF base
    <2>9. job'[c].set = j.set /\ job'[c].base = base /\ job'[c].cmds = Proposal(q, job'[c])
      BY <2>1, <2>6, <2>7
    <2>10. Based(c)'
      BY <2>1, <2>2, <2>4, <2>8, <2>9 DEF Based
    <2>11. OnlyMoves(c)
      BY ReadSetMovesOne DEF Typed
    <2> QED BY <1>0, <2>10, <2>11, ClientPreviewed
  <1> QED BY <1>1, <1>2

LEMMA RequestPreviewed ==
    ASSUME Typed, Previewed, NEW c \in Clients, Request(c) PROVE Previewed'
  <1>0. OnlyMoves(c) /\ cs' = cs
    BY RequestMovesOne DEF Typed, Request, Stage, Apply, UndoBegin, Write, Import, Metadata
  <1>1. \A s \in Sets : SetKept(s)
    BY <1>0 DEF SetKept
  <1>2. ASSUME NEW s \in Sets, NEW m \in Commands, NEW k \in Calls, Stage(c, s, m, k)
        PROVE  Previewed'
    <2> DEFINE j == [NoJob EXCEPT !.op = "stage", !.set = s, !.cmds = <<m>>, !.call = k]
    <2>1. <<m>> \in Seq(Command) /\ <<m>> # <<>>
      BY CommandsAssumption
    <2>2. j \in Job /\ j.op = "stage" /\ j.set = s /\ j.cmds # <<>>
      BY <2>1, NoJobType DEF Job
    <2>3. ReadSet(c, j)
      BY <1>2 DEF Stage
    <2> HIDE DEF j
    <2> QED BY <1>0, <2>2, <2>3, ReadSetPreviewed
  <1>3. ASSUME NEW s \in Sets, NEW ack \in BOOLEAN, Apply(c, s, ack) PROVE Previewed'
    <2>1. pc'[c] = "request"
      BY <1>3 DEF Apply, Typed, TypeOK
    <2>2. Based(c)'
      BY <2>1 DEF Based, InPreview
    <2> QED BY <1>0, <1>1, <2>2, ClientPreviewed
  <1>4. ASSUME NEW s \in Sets, UndoBegin(c, s) PROVE Previewed'
    <2> DEFINE q == ItemCmds(s)
    <2>1. job'[c] = [NoJob EXCEPT !.op = "undo", !.set = s, !.cmds = q]
      BY <1>4 DEF UndoBegin, Typed, TypeOK
    <2>2. job'[c].op = "undo"
      <3> HIDE DEF q
      <3> QED BY <2>1 DEF NoJob
    <2>3. Based(c)'
      BY <2>2 DEF Based, InPreview, Previewing
    <2> QED BY <1>0, <1>1, <2>3, ClientPreviewed
  <1>5. ASSUME NEW m \in Edits, NEW loaded, Write(c, m, loaded) PROVE Previewed'
    <2>1. job'[c].op = "write"
      BY <1>5 DEF Write, Typed, TypeOK, NoJob
    <2>2. Based(c)'
      BY <2>1 DEF Based, InPreview, Previewing
    <2> QED BY <1>0, <1>1, <2>2, ClientPreviewed
  <1>6. ASSUME NEW m \in Loads, Import(c, m) PROVE Previewed'
    <2>1. job'[c].op = "import"
      BY <1>6 DEF Import, Typed, TypeOK, NoJob
    <2>2. Based(c)'
      BY <2>1 DEF Based, InPreview, Previewing
    <2> QED BY <1>0, <1>1, <2>2, ClientPreviewed
  <1> QED BY <1>2, <1>3, <1>4, <1>5, <1>6 DEF Request

(* The hash of a preview is of the commands it was made of.                  *)
LEMMA PreviewEndPreviewed ==
    ASSUME Typed, Previewed, NEW c \in Clients, PreviewEnd(c) PROVE Previewed'
  <1>1. PICK j \in Job : j = job[c]
    BY DEF Typed, TypeOK
  <1>2. PICK diff : EndTx(c, "persist", [j EXCEPT !.hash = Digest(j.base + 1, j.cmds, diff)])
    BY <1>1 DEF PreviewEnd
  <1> DEFINE h == Digest(j.base + 1, j.cmds, diff)
             k == [j EXCEPT !.hash = h]
  <1>3. InPreview(c) /\ cs' = cs
    BY DEF PreviewEnd, InPreview, Metadata
  <1>4. OnlyMoves(c) /\ pc'[c] = "persist" /\ job'[c] = k
    BY <1>2, EndTxMovesOne DEF Typed
  <1>5. h.cmds = j.cmds /\ h.rev = j.base + 1
    BY DEF Digest
  <1> HIDE DEF h
  <1>6. k.op = j.op /\ k.set = j.set /\ k.base = j.base /\ k.cmds = j.cmds /\ k.hash = h
    BY DEF Job
  <1> HIDE DEF k
  <1>7. \A s \in Sets : SetKept(s)
    BY <1>3 DEF SetKept
  <1>8. ItemCmds(j.set)' = ItemCmds(j.set)
    BY <1>3 DEF ItemCmds
  <1>9. /\ j.base <= cs[j.set].rev
        /\ j.base = cs[j.set].rev => j.cmds = Proposal(ItemCmds(j.set), j)
    BY <1>1, <1>3 DEF Previewed, Based
  <1>10. Proposal(ItemCmds(j.set), k) = Proposal(ItemCmds(j.set), j)
    BY <1>6 DEF Proposal
  <1>11. Based(c)'
    BY <1>3, <1>4, <1>5, <1>6, <1>8, <1>9, <1>10 DEF Based
  <1> QED BY <1>4, <1>7, <1>11, ClientPreviewed

(* What a stored preview says of the set it is stored in; and of everybody   *)
(* else's preview of that set the revision has moved past the base.          *)
LEMMA PersistPreviewed ==
    ASSUME Typed, Previewed, NEW c \in Clients, Persist(c) PROVE Previewed'
  <1>0. PICK j \in Job, s \in Sets : j = job[c] /\ s = job[c].set
    BY DEF Persist, Typed, TypeOK, Shape, JobFits, Previewing
  <1> DEFINE item == [call |-> j.call, cmd |-> j.cmds[Len(j.cmds)]]
  <1>1. /\ pc[c] = "persist" /\ Previewing(c) /\ s = j.set
        /\ cs[s] \in SetRow /\ cs[s].rev = j.base
    <2>1. pc[c] = "persist" /\ cs[s].rev = j.base
      BY <1>0 DEF Persist, Current
    <2> QED BY <1>0, <2>1 DEF Typed, TypeOK, Shape, JobFits
  <1>2. j.cmds = Proposal(ItemCmds(s), j) /\ j.hash.cmds = j.cmds /\ j.hash.rev = j.base + 1
    BY <1>0, <1>1 DEF Previewed, Based, InPreview, Job
  <1>3. /\ cs'[s] = Persisted(s, j)
        /\ \A t \in Sets \ {s} : cs'[t] = cs[t]
    BY <1>0 DEF Persist, Typed, TypeOK
  <1>4. cs'[s].rev = j.base + 1 /\ cs'[s].hash = j.hash
    BY <1>1, <1>3 DEF Persisted, SetRow
  <1>5. cs'[s].items = IF j.op = "stage" THEN Append(cs[s].items, item) ELSE cs[s].items
    BY <1>1, <1>3 DEF Persisted, SetRow
  <1>6. ItemCmds(s)' = j.cmds
    <2>1. CASE j.op = "stage"
      <3> DEFINE old == cs[s].items
                 new == Append(old, item)
                 q == ItemCmds(s)
      <3>1. old \in Seq(Item) /\ DOMAIN old = 1 .. Len(old) /\ Len(old) \in Nat
        BY <1>1, LenProperties DEF SetRow
      <3>2. q \in Seq(Command) /\ Len(q) = Len(old)
        BY <1>1, ItemCmdsType DEF Typed
      <3>3. j.cmds[Len(j.cmds)] \in Command
        BY <1>0, <1>1, <2>1, EmptySeq, LenProperties, ElementOfSeq DEF Typed, Shape, JobFits, Job
      <3>4. item.cmd = j.cmds[Len(j.cmds)] /\ item \in Item
        BY <1>0, <1>1, <2>1, <3>3 DEF Typed, Shape, JobFits, Item
      <3> HIDE DEF item
      <3>5. /\ new \in Seq(Item) /\ Len(new) = Len(old) + 1
            /\ DOMAIN new = 1 .. Len(old) + 1
            /\ \A i \in 1 .. Len(old) : new[i] = old[i]
            /\ new[Len(old) + 1] = item
        BY <3>1, <3>4, AppendProperties, LenProperties
      <3> DEFINE want == Append(q, item.cmd)
      <3>6. /\ DOMAIN want = 1 .. Len(old) + 1
            /\ \A i \in 1 .. Len(old) : want[i] = q[i]
            /\ want[Len(old) + 1] = item.cmd
            /\ want \in Seq(Command) /\ Len(want) = Len(old) + 1
        BY <3>1, <3>2, <3>3, <3>4, AppendProperties, LenProperties
      <3>7. \A i \in 1 .. Len(old) : q[i] = old[i].cmd
        BY <3>1 DEF ItemCmds
      <3>8. cs'[s].items = new
        BY <1>5, <2>1
      <3>9. j.cmds = want
        BY <1>2, <2>1, <3>4 DEF Proposal
      <3> HIDE DEF new, want, q, old
      <3>10. ItemCmds(s)' = [i \in DOMAIN new |-> new[i].cmd]
        BY <3>8 DEF ItemCmds
      <3>11. \A i \in 1 .. Len(old) + 1 : new[i].cmd = want[i]
        BY <3>1, <3>5, <3>6, <3>7
      <3>12. want = [i \in 1 .. Len(old) + 1 |-> want[i]]
        BY <3>6, LenProperties, SeqDef
      <3> QED BY <3>5, <3>9, <3>10, <3>11, <3>12
    <2>2. CASE j.op # "stage"
      <3>1. cs'[s].items = cs[s].items
        BY <1>5, <2>2
      <3>2. ItemCmds(s)' = ItemCmds(s)
        BY <3>1 DEF ItemCmds
      <3> QED BY <1>2, <2>2, <3>2 DEF Proposal
    <2> QED BY <2>1, <2>2
  <1>7. PreviewIsOfItems'
    <2> SUFFICES ASSUME NEW t \in Sets, cs'[t].hash # None
                 PROVE  cs'[t].hash.cmds = ItemCmds(t)' /\ cs'[t].hash.rev = cs'[t].rev
      BY DEF PreviewIsOfItems
    <2>1. CASE t = s
      BY <1>2, <1>4, <1>6, <2>1
    <2>2. CASE t # s
      <3>1. ItemCmds(t)' = ItemCmds(t)
        BY <1>3, <2>2 DEF ItemCmds
      <3> QED BY <1>3, <2>2, <3>1 DEF Previewed, PreviewIsOfItems
    <2> QED BY <2>1, <2>2
  <1>8. OnlyMoves(c) /\ pc'[c] = "idle"
    BY EndTxMovesOne DEF Persist, Finish, Typed
  <1>9. \A d \in Clients : Based(d)'
    <2> TAKE d \in Clients
    <2>1. CASE d = c
      BY <1>8, <2>1 DEF Based, InPreview
    <2>2. CASE d # c /\ job[d].set # s
      BY <1>3, <1>8, <2>2, OtherBased, PreviewSet DEF Previewed, OnlyMoves, SetKept
    <2>3. CASE d # c /\ job[d].set = s
      <3>1. pc'[d] = pc[d] /\ job'[d] = job[d] /\ job[d] \in Job
        BY <1>0, <1>8, <2>3 DEF OnlyMoves, Typed, TypeOK
      <3>2. CASE InPreview(d)
        <4>1. job[d].base <= j.base /\ job[d].base \in Nat /\ j.base \in Nat
          BY <1>0, <1>1, <2>3, <3>1, <3>2 DEF Previewed, Based, Job
        <4>2. job[d].base # cs'[s].rev /\ job[d].base <= cs'[s].rev
          BY <1>4, <4>1
        <4> QED BY <2>3, <3>1, <3>2, <4>2 DEF Previewed, Based
      <3>3. CASE ~InPreview(d)
        BY <3>1, <3>3 DEF Based, InPreview, Previewing
      <3> QED BY <3>2, <3>3
    <2> QED BY <2>1, <2>2, <2>3
  <1> QED BY <1>7, <1>9 DEF Previewed

(* A status or an expiry changes nothing a preview depends on.               *)
LEMMA SetActionKeeps ==
    ASSUME Typed, NEW s \in Sets, Create(s) \/ Discard(s) \/ Expire(s)
    PROVE  \A t \in Sets : SetKept(t)
  <1>1. cs[s] \in SetRow /\ \A t \in Sets \ {s} : cs'[t] = cs[t]
    BY DEF Create, Discard, Expire, Typed, TypeOK
  <1>2. \/ cs'[s] = [cs[s] EXCEPT !.status = "pending"]
        \/ cs'[s] = [cs[s] EXCEPT !.status = "discarded"]
        \/ cs'[s] = [cs[s] EXCEPT !.expired = TRUE]
    BY DEF Create, Discard, Expire, Typed, TypeOK
  <1>3. SetKept(s)
    BY <1>1, <1>2 DEF SetRow, SetKept
  <1> QED BY <1>1, <1>3 DEF SetKept

LEMMA CommitKeeps ==
    ASSUME Typed, NEW c \in Clients, ApplyCommit(c) \/ UndoCommit(c)
    PROVE  \A t \in Sets : SetKept(t)
  <1>1. PICK s \in Sets : s = job[c].set
    BY DEF ApplyCommit, Applied, UndoCommit, Typed, Shape, JobFits
  <1>2. cs[s] \in SetRow /\ \A t \in Sets \ {s} : cs'[t] = cs[t]
    BY <1>1 DEF ApplyCommit, UndoCommit, Typed, TypeOK
  <1>3. \/ cs'[s] = [cs[s] EXCEPT !.status = "applied"]
        \/ cs'[s] = [cs[s] EXCEPT !.status = "undone"]
    BY <1>1 DEF ApplyCommit, UndoCommit, Typed, TypeOK
  <1>4. SetKept(s)
    BY <1>2, <1>3 DEF SetRow, SetKept
  <1> QED BY <1>2, <1>4 DEF SetKept

LEMMA StepPreviewed ==
    ASSUME Typed, Previewed, NEW c \in Clients, Step(c) PROVE Previewed'
  <1>0. OnlyMoves(c)
    BY StepMovesOne DEF Typed
  <1>a. cs' = cs => \A s \in Sets : SetKept(s)
    BY DEF SetKept
  <1>1. CASE Read(c)
    <2>1. /\ job[c] \in Job /\ job[c].op \in {"stage", "refresh"} /\ cs' = cs
          /\ job[c].set \in Sets /\ (job[c].op = "stage" => job[c].cmds # <<>>)
      BY <1>1 DEF Read, Previewing, Typed, TypeOK, Shape, JobFits, Metadata
    <2> QED BY <1>1, <2>1, ReadSetPreviewed DEF Read
  <1>2. CASE LockScopes(c) \/ LockTables(c) \/ Dispatch(c)
    <2>1. job' = job /\ cs' = cs
      BY <1>2 DEF LockScopes, LockTables, Dispatch, Metadata
    <2>2. InPreview(c)' => InPreview(c) /\ pc'[c] # "persist"
      <3>1. CASE LockScopes(c)
        BY <2>1, <3>1 DEF LockScopes, AfterLock, InPreview, Previewing, Typed, TypeOK
      <3>2. CASE LockTables(c)
        BY <2>1, <3>2 DEF LockTables, InPreview, Previewing, Typed, Shape, JobFits
      <3>3. CASE Dispatch(c)
        BY <2>1, <3>3 DEF Dispatch, InPreview, Previewing
      <3> QED BY <1>2, <3>1, <3>2, <3>3
    <2>3. ItemCmds(job[c].set)' = ItemCmds(job[c].set)
      BY <2>1 DEF ItemCmds
    <2>4. Based(c)'
      BY <2>1, <2>2, <2>3 DEF Previewed, Based, Proposal
    <2> QED BY <1>0, <1>a, <2>1, <2>4, ClientPreviewed
  <1>3. CASE ApplyBegin(c)
    <2>1. CASE Finish(c)
      BY <1>3, <1>a, <2>1, EndTxPreviewed DEF Finish, ApplyBegin, Metadata
    <2>2. CASE ~Finish(c)
      <3> DEFINE q == ItemCmds(job[c].set)
      <3>1. job'[c] = [job[c] EXCEPT !.cmds = q] /\ cs' = cs /\ job[c].op = "apply"
        BY <1>3, <2>2 DEF ApplyBegin, Metadata, Typed, TypeOK
      <3>2. job'[c].op = "apply"
        <4> HIDE DEF q
        <4> QED BY <3>1 DEF Typed, TypeOK, Job
      <3>3. Based(c)'
        BY <3>2 DEF Based, InPreview, Previewing
      <3> QED BY <1>0, <1>a, <3>1, <3>3, ClientPreviewed
    <2> QED BY <2>1, <2>2
  <1>4. CASE PersistRefused(c)
    BY <1>4, <1>a, EndTxPreviewed DEF PersistRefused, Finish, Metadata
  <1>5. CASE PreviewEnd(c)
    BY <1>5, PreviewEndPreviewed
  <1>6. CASE \/ ApplyDrift(c) \/ DispatchRaises(c) \/ UndoRefused(c) \/ CommitWrite(c) \/ Abort(c)
    BY <1>6, <1>a, EndTxPreviewed DEF ApplyDrift, DispatchRaises, UndoRefused, CommitWrite,
       Abort, Finish, Metadata
  <1>7. CASE Persist(c)
    BY <1>7, PersistPreviewed
  <1>8. CASE ApplyCommit(c) \/ UndoCommit(c)
    BY <1>8, CommitKeeps, EndTxPreviewed DEF ApplyCommit, UndoCommit, Finish
  <1> QED BY <1>1, <1>2, <1>3, <1>4, <1>5, <1>6, <1>7, <1>8 DEF Step

LEMMA NextPreviewed == ASSUME Typed, Previewed, [Next]_vars PROVE Previewed'
  <1>1. ASSUME UNCHANGED tx, \A s \in Sets : SetKept(s) PROVE Previewed'
    <2>1. \A d \in Clients : Based(d)'
      BY <1>1, OtherBased, PreviewSet DEF Previewed, tx
    <2> QED BY <1>1, <2>1, SetsKeptPreviewed DEF Previewed
  <1>2. CASE UNCHANGED <<cs, tx>>
    BY <1>1, <1>2 DEF SetKept
  <1>3. CASE \E c \in Clients : Request(c) \/ Step(c)
    BY <1>3, RequestPreviewed, StepPreviewed
  <1>4. CASE \E s \in Sets : Create(s) \/ Discard(s) \/ Expire(s)
    BY <1>1, <1>4, SetActionKeeps DEF Create, Discard, Expire
  <1> QED BY <1>2, <1>3, <1>4 DEF Next, vars, Bump

(* The hash a user confirms always describes the commands that are staged,   *)
(* at the stored revision: of two previews of one set made at a time, the    *)
(* fence lets only one in.                                                   *)
THEOREM PreviewsMatch == Spec => []PreviewIsOfItems
  <1>1. Typed /\ Previewed /\ [Next]_vars => Previewed'
    BY NextPreviewed
  <1>2. Previewed => PreviewIsOfItems
    BY DEF Previewed
  <1> QED BY <1>1, <1>2, InitPreviewed, AlwaysTyped, PTL DEF Spec

-----------------------------------------------------------------------------
(* The table locks.  While a transaction holds them nobody else has written  *)
(* a row of these tables, and nobody writes one until it ends.               *)

Apart == \A c, d \in Clients : c # d =>
    tabs[c] \cap tabs[d] = {} /\ \A r \in Dirty(d) : TableOf[r] \notin tabs[c]
Guarded(c) == Exact(c) =>
    /\ tabs[c] = ScopeTables(job[c].cmds)
    /\ before[c] = Snapshot(db, ScopeRows(job[c].cmds))

(* The journal of an applied set covers just the rows of its scopes.         *)
JournalScoped == \A s \in Sets : cs[s].status = "applied" =>
    \A r \in Rows : journal[s].before[r] # None <=> r \in ScopeRows(ItemCmds(s))
Steady == Apart /\ JournalScoped /\ \A c \in Clients : Guarded(c)

(* Rows that c alone may change.                                             *)
OutOfReach(c) == \A r \in Rows : db'[r] # db[r] =>
    \A d \in Clients \ {c} : TableOf[r] \notin tabs[d]

LEMMA InitSteady == Init => Steady
  BY DEF Init, Steady, Apart, JournalScoped, Guarded, Exact, NewSet, Dirty, NoRows, NoJob

LEMMA ScopeTable ==
    ASSUME NEW cmds, NEW r \in ScopeRows(cmds)
    PROVE  TableOf[r] \in ScopeTables(cmds)
  BY DEF ScopeTables

(* A database that differs only in other tables has the same snapshot.       *)
LEMMA SnapshotKept ==
    ASSUME NEW cmds, \A r \in ScopeRows(cmds) \cap Rows : db'[r] = db[r]
    PROVE  Snapshot(db', ScopeRows(cmds)) = Snapshot(db, ScopeRows(cmds))
  BY DEF Snapshot

LEMMA StaysGuarded ==
    ASSUME NEW d \in Clients, Guarded(d),
           pc'[d] = pc[d], job'[d] = job[d], tabs'[d] = tabs[d], before'[d] = before[d],
           \A r \in Rows : db'[r] # db[r] => TableOf[r] \notin tabs[d]
    PROVE  Guarded(d)'
  <1> SUFFICES ASSUME Exact(d) PROVE Guarded(d)'
    BY DEF Guarded, Exact
  <1>1. PICK cmds : cmds = job[d].cmds
    OBVIOUS
  <1>2. tabs[d] = ScopeTables(cmds) /\ before[d] = Snapshot(db, ScopeRows(cmds))
    BY <1>1 DEF Guarded
  <1>3. \A r \in ScopeRows(cmds) \cap Rows : db'[r] = db[r]
    BY <1>2, ScopeTable
  <1>4. Snapshot(db', ScopeRows(cmds)) = Snapshot(db, ScopeRows(cmds))
    BY <1>3, SnapshotKept
  <1> QED BY <1>1, <1>2, <1>4 DEF Guarded

(* A client moves: it keeps its locks, lets them go or takes free ones, and  *)
(* changes no row of a table that another holds.                             *)
LEMMA MoveSteady ==
    ASSUME Steady, NEW c \in Clients, OnlyMoves(c), Guarded(c)', JournalScoped',
           OutOfReach(c),
           \A d \in Clients \ {c} :
               /\ tabs'[c] \cap tabs[d] = {}
               /\ \A r \in Dirty(c)' : TableOf[r] \notin tabs[d]
               /\ \A r \in Dirty(d) : TableOf[r] \notin tabs'[c]
    PROVE  Steady'
  <1>1. \A d \in Clients \ {c} : Guarded(d)'
    BY StaysGuarded DEF Steady, OnlyMoves, OutOfReach
  <1>2. \A d \in Clients \ {c} : Dirty(d)' = Dirty(d)
    BY DEF OnlyMoves, Dirty
  <1>3. Apart'
    BY <1>2 DEF Steady, Apart, OnlyMoves
  <1> QED BY <1>1, <1>3 DEF Steady

(* A client that keeps its locks, or lets them go, and writes nothing new.   *)
LEMMA QuietSteady ==
    ASSUME Steady, NEW c \in Clients, OnlyMoves(c), Guarded(c)', JournalScoped',
           OutOfReach(c),
           tabs'[c] \in {tabs[c], {}}, Dirty(c)' \subseteq Dirty(c)
    PROVE  Steady'
  BY MoveSteady DEF Steady, Apart

LEMMA JournalStays ==
    ASSUME Steady, UNCHANGED journal,
           \A s \in Sets : cs'[s].status = "applied" =>
               cs[s].status = "applied" /\ cs'[s].items = cs[s].items
    PROVE  JournalScoped'
  <1> SUFFICES ASSUME NEW s \in Sets, cs'[s].status = "applied"
               PROVE  \A r \in Rows : journal'[s].before[r] # None <=> r \in ScopeRows(ItemCmds(s)')
    BY DEF JournalScoped, ScopeRows, RowsOf, RowScope, StoreScope, AllScopes, CompactScopes,
       Contained, AffectedScope
  <1>1. ItemCmds(s)' = ItemCmds(s)
    BY DEF ItemCmds
  <1> QED BY <1>1 DEF Steady, JournalScoped

LEMMA EndTxSteady ==
    ASSUME Typed, Steady, NEW c \in Clients, NEW j, NEW p \in {"idle", "request", "persist"},
           EndTx(c, p, j), OutOfReach(c), JournalScoped'
    PROVE  Steady'
  <1>1. OnlyMoves(c) /\ pc'[c] = p /\ tabs'[c] = {} /\ work'[c] = NoRows
    BY EndTxMovesOne DEF Typed
  <1>2. Guarded(c)' /\ Dirty(c)' = {}
    BY <1>1 DEF Guarded, Exact, Dirty, NoRows
  <1> QED BY <1>1, <1>2, QuietSteady

(* The rows a commit changes are those the transaction has written.          *)
LEMMA VisibleReach ==
    ASSUME Steady, NEW c \in Clients, db' = Visible(c)
    PROVE  OutOfReach(c)
  BY DEF Steady, Apart, OutOfReach, Visible

LEMMA ApplyJournal ==
    ASSUME Typed, Reviewing, Steady, NEW c \in Clients, ApplyCommit(c)
    PROVE  JournalScoped'
  <1>1. PICK s \in Sets : s = job[c].set
    BY DEF ApplyCommit, Applied, Typed, Shape, JobFits
  <1>2. PICK cmds : cmds = job[c].cmds
    OBVIOUS
  <1>3. cmds = ItemCmds(s) /\ \A r \in Rows : before[c][r] # None <=> r \in ScopeRows(cmds)
    BY <1>1, <1>2 DEF ApplyCommit, Applied, Reviewing, Reviewed, Holds, HoldsSet,
       Typed, Shape, JobFits, Snapped
  <1>4. /\ cs' = [cs EXCEPT ![s].status = "applied"]
        /\ journal'[s].before = before[c]
        /\ \A t \in Sets \ {s} : journal'[t] = journal[t]
    <2> DEFINE entry == [before |-> before[c], after |-> Snapshot(Visible(c), ScopeRows(cmds))]
    <2>1. journal' = [journal EXCEPT ![s] = entry] /\ cs' = [cs EXCEPT ![s].status = "applied"]
      BY <1>1, <1>2 DEF ApplyCommit
    <2>2. entry.before = before[c]
      OBVIOUS
    <2> HIDE DEF entry
    <2> QED BY <2>1, <2>2 DEF Typed, TypeOK
  <1>5. \A t \in Sets : cs'[t].items = cs[t].items /\ ItemCmds(t)' = ItemCmds(t)
    BY <1>4 DEF Typed, TypeOK, SetRow, ItemCmds
  <1>6. \A t \in Sets \ {s} : cs'[t].status = cs[t].status
    BY <1>4 DEF Typed, TypeOK
  <1>7. ASSUME NEW t \in Sets, cs'[t].status = "applied"
        PROVE  \A r \in Rows : journal'[t].before[r] # None <=> r \in ScopeRows(ItemCmds(t))
    BY <1>3, <1>4, <1>6, <1>7 DEF Steady, JournalScoped
  <1> QED BY <1>5, <1>7 DEF JournalScoped

LEMMA UndoReach ==
    ASSUME Typed, Reviewing, Steady, NEW c \in Clients, UndoCommit(c)
    PROVE  OutOfReach(c)
  <1>1. PICK s \in Sets : s = job[c].set
    BY DEF UndoCommit, Typed, Shape, JobFits
  <1>2. Exact(c) /\ Holds(c)
    BY DEF UndoCommit, Exact, Holds, HoldsSet, Typed, Shape, JobFits
  <1>3. cs[s].status = "applied" /\ job[c].cmds = ItemCmds(s)
    BY <1>1, <1>2 DEF Reviewing, Reviewed, UndoCommit, Typed, Shape, JobFits
  <1>4. tabs[c] = ScopeTables(ItemCmds(s))
    BY <1>2, <1>3 DEF Steady, Guarded
  <1>5. \A r \in Rows : db'[r] # db[r] => journal[s].before[r] # None
    BY <1>1 DEF UndoCommit, CommitRows, Restored
  <1>6. \A r \in Rows : db'[r] # db[r] => TableOf[r] \in tabs[c]
    BY <1>3, <1>4, <1>5, ScopeTable DEF Steady, JournalScoped
  <1> QED BY <1>6 DEF Steady, Apart, OutOfReach

LEMMA CommitSteady ==
    ASSUME Typed, Reviewing, Steady, NEW c \in Clients,
           ApplyCommit(c) \/ UndoCommit(c) \/ CommitWrite(c)
    PROVE  Steady'
  <1>1. CASE ApplyCommit(c)
    BY <1>1, ApplyJournal, VisibleReach, EndTxSteady DEF ApplyCommit, CommitRows, Finish
  <1>2. CASE UndoCommit(c)
    <2>1. PICK s \in Sets : s = job[c].set
      BY <1>2 DEF UndoCommit, Typed, Shape, JobFits
    <2>2. cs' = [cs EXCEPT ![s].status = "undone"] /\ journal' = journal
      BY <1>2, <2>1 DEF UndoCommit
    <2>3. cs \in [Sets -> SetRow]
      BY DEF Typed, TypeOK
    <2>4. \A t \in Sets : cs'[t].status = "applied" =>
              cs[t].status = "applied" /\ cs'[t].items = cs[t].items
      BY <2>2, <2>3 DEF SetRow
    <2> QED BY <1>2, <2>2, <2>4, UndoReach, JournalStays, EndTxSteady DEF UndoCommit, Finish
  <1>3. CASE CommitWrite(c)
    <2>1. JournalScoped'
      BY <1>3, JournalStays DEF CommitWrite
    <2> QED BY <1>3, <2>1, VisibleReach, EndTxSteady DEF CommitWrite, CommitRows, Finish
  <1> QED BY <1>1, <1>2, <1>3

(* A request that changes nothing in the database and begins no snapshot.    *)
LEMMA RequestSteady ==
    ASSUME Typed, Steady, NEW c \in Clients, Request(c) PROVE Steady'
  <1>1. OnlyMoves(c) /\ UNCHANGED <<cs, journal, db>>
    BY RequestMovesOne DEF Typed, Request, Stage, Apply, UndoBegin, Write, Import, Metadata,
       Database
  <1>2. JournalScoped' /\ OutOfReach(c)
    BY <1>1, JournalStays DEF OutOfReach
  <1>3. ASSUME NEW s \in Sets, NEW m \in Commands, NEW k \in Calls, Stage(c, s, m, k)
        PROVE  Steady'
    <2> DEFINE j == [NoJob EXCEPT !.op = "stage", !.set = s, !.cmds = <<m>>, !.call = k]
    <2>1. ReadSet(c, j)
      BY <1>3 DEF Stage
    <2> HIDE DEF j
    <2>2. CASE Finish(c)
      BY <1>2, <2>2, EndTxSteady DEF Finish
    <2>3. CASE ~Finish(c)
      <3>1. pc'[c] = "lock" /\ UNCHANGED <<tabs, work>>
        BY <2>1, <2>3 DEF ReadSet, Typed, TypeOK
      <3>2. Guarded(c)' /\ Dirty(c)' = Dirty(c)
        BY <3>1 DEF Guarded, Exact, Dirty
      <3> QED BY <1>1, <1>2, <3>1, <3>2, QuietSteady
    <2> QED BY <2>2, <2>3
  <1>4. ASSUME UNCHANGED <<tabs, work>>, ~Exact(c)' PROVE Steady'
    <2>1. Guarded(c)' /\ Dirty(c)' = Dirty(c)
      BY <1>4 DEF Guarded, Dirty
    <2> QED BY <1>1, <1>2, <1>4, <2>1, QuietSteady
  <1>5. ASSUME NEW s \in Sets, NEW ack \in BOOLEAN, Apply(c, s, ack) PROVE Steady'
    BY <1>4, <1>5 DEF Apply, Exact, Typed, TypeOK
  <1>6. ASSUME NEW s \in Sets, UndoBegin(c, s) PROVE Steady'
    BY <1>4, <1>6 DEF UndoBegin, Exact, Typed, TypeOK
  <1>7. ASSUME NEW m \in Edits, NEW loaded, Write(c, m, loaded) PROVE Steady'
    BY <1>4, <1>7 DEF Write, Exact, Typed, TypeOK
  <1>8. ASSUME NEW m \in Loads, Import(c, m) PROVE Steady'
    <2>1. job'[c].op = "import" /\ pc'[c] = "dispatch"
      BY <1>8 DEF Import, Typed, TypeOK, NoJob
    <2> QED BY <1>4, <1>8, <2>1 DEF Import, Exact
  <1> QED BY <1>3, <1>5, <1>6, <1>7, <1>8 DEF Request

(* LOCK TABLE waits for every open write and every other holder; the         *)
(* snapshot is taken under it.                                               *)
LEMMA LockTablesSteady ==
    ASSUME Typed, Steady, NEW c \in Clients, LockTables(c) PROVE Steady'
  <1>1. OnlyMoves(c) /\ UNCHANGED <<cs, journal, db, job, work>>
    BY StepMovesOne DEF Typed, Step, LockTables, Metadata, Database
  <1>2. JournalScoped' /\ OutOfReach(c)
    BY <1>1, JournalStays DEF OutOfReach
  <1>3. PICK cmds : cmds = job[c].cmds
    OBVIOUS
  <1>4. /\ tabs'[c] = ScopeTables(cmds) /\ before'[c] = Snapshot(db, ScopeRows(cmds))
        /\ CanLockTables(c, ScopeTables(cmds))
    BY <1>3 DEF LockTables, Typed, TypeOK
  <1>5. Guarded(c)'
    BY <1>1, <1>3, <1>4 DEF Guarded
  <1>6. Dirty(c)' = Dirty(c)
    BY <1>1 DEF Dirty
  <1> QED BY <1>1, <1>2, <1>4, <1>5, <1>6, MoveSteady DEF CanLockTables, Steady, Apart

(* A write waits for the holders of its table.                               *)
LEMMA DispatchSteady ==
    ASSUME Typed, Steady, NEW c \in Clients, Dispatch(c) PROVE Steady'
  <1>1. OnlyMoves(c) /\ UNCHANGED <<cs, journal, db, pc, job, tabs, before>>
    BY StepMovesOne DEF Typed, Step, Dispatch, Metadata, Database
  <1>2. JournalScoped' /\ OutOfReach(c)
    BY <1>1, JournalStays DEF OutOfReach
  <1>3. Guarded(c)'
    BY <1>1, StaysGuarded DEF Steady
  <1>4. PICK rows : CanWrite(c, rows) /\ Dirty(c)' \subseteq Dirty(c) \cup rows
    <2> DEFINE m == job[c].cmds[done[c] + 1]
               rows == Written(m, Visible(c))
    <2>1. /\ CanWrite(c, rows)
          /\ \A r \in Rows : r \notin rows => work'[c][r] = work[c][r]
      BY DEF Dispatch, Typed, TypeOK
    <2> HIDE DEF rows
    <2> QED BY <2>1 DEF Dirty
  <1> QED BY <1>1, <1>2, <1>3, <1>4, MoveSteady DEF CanWrite, Steady, Apart

LEMMA PersistSteady ==
    ASSUME Typed, Steady, NEW c \in Clients, Persist(c) PROVE Steady'
  <1>1. PICK s \in Sets : s = job[c].set
    BY DEF Persist, Typed, Shape, JobFits, Previewing
  <1>2. /\ cs[s].status = "pending" /\ UNCHANGED <<db, journal>>
        /\ \A t \in Sets \ {s} : cs'[t] = cs[t]
    BY <1>1 DEF Persist, Current, Open, Database, Typed, TypeOK
  <1>3. cs'[s].status = "pending"
    BY <1>2, PersistStatus
  <1>4. JournalScoped' /\ OutOfReach(c)
    BY <1>2, <1>3, JournalStays DEF OutOfReach
  <1> QED BY <1>4, EndTxSteady DEF Persist, Finish

LEMMA StepSteady ==
    ASSUME Typed, Reviewing, Steady, NEW c \in Clients, Step(c) PROVE Steady'
  <1>0. OnlyMoves(c)
    BY StepMovesOne DEF Typed
  <1>a. ASSUME UNCHANGED Metadata PROVE JournalScoped' /\ OutOfReach(c)
    BY <1>a, JournalStays DEF OutOfReach, Metadata, Database
  <1>b. ASSUME UNCHANGED <<tabs, work, Metadata>>, ~Exact(c)' PROVE Steady'
    <2>1. Guarded(c)' /\ Dirty(c)' = Dirty(c)
      BY <1>b DEF Guarded, Dirty
    <2> QED BY <1>0, <1>a, <1>b, <2>1, QuietSteady
  <1>1. CASE Read(c)
    <2>1. CASE Finish(c)
      BY <1>1, <1>a, <2>1, EndTxSteady DEF Read, Finish
    <2>2. CASE ~Finish(c)
      BY <1>1, <1>b, <2>2 DEF Read, ReadSet, Exact, Typed, TypeOK
    <2> QED BY <2>1, <2>2
  <1>2. CASE LockScopes(c)
    BY <1>2, <1>b DEF LockScopes, AfterLock, Exact, Typed, TypeOK
  <1>3. CASE LockTables(c)
    BY <1>3, LockTablesSteady
  <1>4. CASE Dispatch(c)
    BY <1>4, DispatchSteady
  <1>5. CASE ApplyBegin(c)
    <2>1. CASE Finish(c)
      BY <1>5, <1>a, <2>1, EndTxSteady DEF ApplyBegin, Finish
    <2>2. CASE ~Finish(c)
      BY <1>5, <1>b, <2>2 DEF ApplyBegin, Exact, Typed, TypeOK
    <2> QED BY <2>1, <2>2
  <1>6. CASE PersistRefused(c)
    BY <1>6, <1>a, EndTxSteady DEF PersistRefused, Finish
  <1>7. CASE PreviewEnd(c) \/ ApplyDrift(c)
    BY <1>7, <1>a, EndTxSteady DEF PreviewEnd, ApplyDrift
  <1>8. CASE DispatchRaises(c) \/ UndoRefused(c) \/ Abort(c)
    BY <1>8, <1>a, EndTxSteady DEF DispatchRaises, UndoRefused, Abort, Finish
  <1>9. CASE Persist(c)
    BY <1>9, PersistSteady
  <1>10. CASE ApplyCommit(c) \/ UndoCommit(c) \/ CommitWrite(c)
    BY <1>10, CommitSteady
  <1> QED BY <1>1, <1>2, <1>3, <1>4, <1>5, <1>6, <1>7, <1>8, <1>9, <1>10 DEF Step

LEMMA SetActionSteady ==
    ASSUME Typed, Steady, NEW s \in Sets, Create(s) \/ Discard(s) \/ Expire(s)
    PROVE  Steady'
  <1>1. UNCHANGED <<db, journal, tx>> /\ cs[s] \in SetRow
        /\ \A t \in Sets \ {s} : cs'[t] = cs[t]
    BY DEF Create, Discard, Expire, Database, Typed, TypeOK
  <1>2. \/ cs'[s] = [cs[s] EXCEPT !.status = "pending"]
        \/ cs'[s] = [cs[s] EXCEPT !.status = "discarded"]
        \/ cs'[s] = [cs[s] EXCEPT !.expired = TRUE]
    BY DEF Create, Discard, Expire, Typed, TypeOK
  <1>3. cs'[s].status = "applied" => cs[s].status = "applied" /\ cs'[s].items = cs[s].items
    BY <1>1, <1>2 DEF SetRow
  <1>4. JournalScoped'
    BY <1>1, <1>3, JournalStays
  <1>5. Apart' /\ \A c \in Clients : Guarded(c)'
    BY <1>1, StaysGuarded DEF tx, Steady, Apart, Dirty
  <1> QED BY <1>4, <1>5 DEF Steady

LEMMA BumpSteady == ASSUME Typed, Steady, NEW r \in Named, Bump(r) PROVE Steady'
  <1>1. UNCHANGED <<cs, journal, tx>> /\ \A q \in Rows \ {r} : db'[q] = db[q]
    BY DEF Bump, Typed, TypeOK
  <1>2. \A d \in Clients : TableOf[r] \notin tabs[d]
    BY DEF Bump
  <1>3. JournalScoped'
    BY <1>1, JournalStays
  <1>4. Apart' /\ \A c \in Clients : Guarded(c)'
    BY <1>1, <1>2, StaysGuarded DEF tx, Steady, Apart, Dirty
  <1> QED BY <1>3, <1>4 DEF Steady

LEMMA NextSteady == ASSUME Typed, Reviewing, Steady, [Next]_vars PROVE Steady'
  <1>1. CASE UNCHANGED vars
    <2>1. JournalScoped'
      BY <1>1, JournalStays DEF vars
    <2>2. Apart' /\ \A c \in Clients : Guarded(c)'
      BY <1>1, StaysGuarded DEF vars, tx, Steady, Apart, Dirty
    <2> QED BY <2>1, <2>2 DEF Steady
  <1>2. CASE Next
    BY <1>2, RequestSteady, StepSteady, SetActionSteady, BumpSteady DEF Next
  <1> QED BY <1>1, <1>2

LEMMA AlwaysReviewing == Spec => []Reviewing
  BY NextReviewing, InitReviewing, AlwaysTyped, PTL DEF Spec

LEMMA AlwaysSteady == Spec => []Steady
  BY NextSteady, InitSteady, AlwaysTyped, AlwaysReviewing, PTL DEF Spec

(* The snapshot on which apply and undo decide is the committed state until  *)
(* they end: no editor, import, load or version bump gets between.           *)
THEOREM SnapshotsStayCurrent == Spec => []SnapshotIsCurrent
  <1>1. Steady => SnapshotIsCurrent
    BY DEF Steady, Guarded, SnapshotIsCurrent
  <1> QED BY <1>1, AlwaysSteady, PTL


-----------------------------------------------------------------------------
(* A transaction writes only rows its commands have in scope, and only while *)
(* it dispatches them.                                                       *)

Scoped(c) == \A r \in Dirty(c) : pc[c] = "dispatch" /\ r \in ScopeRows(job[c].cmds)
AllScoped == \A c \in Clients : Scoped(c)

(* Leaving out the scopes a whole-store scope contains loses no row.         *)
LEMMA WrittenInScope ==
    ASSUME NEW cmds, NEW i \in DOMAIN cmds, cmds[i] \in Command, NEW view
    PROVE  Written(cmds[i], view) \subseteq ScopeRows(cmds)
  <1> DEFINE m == cmds[i]
             S == {AffectedScope(cmds[k]) : k \in DOMAIN cmds}
  <1>1. AffectedScope(m) \in S
    OBVIOUS
  <1>2. \A s \in CompactScopes(S) : RowsOf(s) \subseteq ScopeRows(cmds)
    BY DEF ScopeRows, AllScopes
  <1>3. m.row \in Rows
    BY DEF Command
  <1> HIDE DEF m, S
  <1>4. \A x : StoreScope(x) \in S => StoreScope(x) \in CompactScopes(S)
    BY DEF CompactScopes, Contained, RowScope, StoreScope
  <1>5. CASE m.kind = "fill"
    <2>1. StoreScope(StoreOf[m.row]) \in CompactScopes(S)
      BY <1>1, <1>4, <1>5 DEF AffectedScope
    <2>2. Written(m, view) \subseteq RowsOf(StoreScope(StoreOf[m.row]))
      BY <1>5 DEF Written
    <2> QED BY <1>2, <2>1, <2>2 DEF m
  <1>6. CASE m.kind # "fill"
    <2>1. RowScope(m.row) \in S /\ Written(m, view) = {m.row}
      BY <1>1, <1>6 DEF AffectedScope, Written
    <2>2. CASE Contained(RowScope(m.row), S)
      <3>1. PICK r \in AsgRows : RowScope(m.row) = RowScope(r) /\ StoreScope(StoreOf[r]) \in S
        BY <2>2 DEF Contained
      <3>2. r = m.row
        BY <3>1 DEF RowScope
      <3>3. m.row \in RowsOf(StoreScope(StoreOf[r]))
        BY <1>3, <3>1, <3>2 DEF RowsOf
      <3> QED BY <1>2, <1>4, <2>1, <3>1, <3>3 DEF m
    <2>3. CASE ~Contained(RowScope(m.row), S)
      <3>1. RowScope(m.row) \in CompactScopes(S)
        BY <2>1, <2>3 DEF CompactScopes
      <3>2. m.row \in RowsOf(RowScope(m.row))
        BY <1>3 DEF RowsOf
      <3> QED BY <1>2, <2>1, <3>1, <3>2 DEF m
    <2> QED BY <2>2, <2>3
  <1> QED BY <1>5, <1>6

LEMMA InitScoped == Init => AllScoped
  BY DEF Init, AllScoped, Scoped, Dirty, NoRows

LEMMA EndTxScoped ==
    ASSUME Typed, AllScoped, NEW c \in Clients, NEW p, NEW j, EndTx(c, p, j)
    PROVE  AllScoped'
  <1>1. OnlyMoves(c) /\ work'[c] = NoRows
    BY EndTxMovesOne DEF Typed
  <1>2. Scoped(c)'
    BY <1>1 DEF Scoped, Dirty, NoRows
  <1>3. \A d \in Clients \ {c} : Scoped(d)'
    BY <1>1 DEF AllScoped, Scoped, Dirty, OnlyMoves
  <1> QED BY <1>2, <1>3 DEF AllScoped

(* A client that has written nothing moves on.                               *)
LEMMA CleanScoped ==
    ASSUME AllScoped, NEW c \in Clients, OnlyMoves(c), UNCHANGED work, pc[c] # "dispatch"
    PROVE  AllScoped'
  BY DEF AllScoped, Scoped, Dirty, OnlyMoves

LEMMA DispatchScoped ==
    ASSUME Typed, AllScoped, NEW c \in Clients, Dispatch(c) PROVE AllScoped'
  <1>1. OnlyMoves(c) /\ UNCHANGED <<pc, job>> /\ pc[c] = "dispatch"
    BY StepMovesOne DEF Typed, Step, Dispatch
  <1>2. PICK cmds : cmds = job[c].cmds
    OBVIOUS
  <1>3. PICK n : n = done[c] + 1
    OBVIOUS
  <1>4. cmds \in Seq(Command) /\ n \in 1 .. Len(cmds)
    BY <1>2, <1>3 DEF Dispatch, Typed, TypeOK, Job
  <1>5. n \in DOMAIN cmds /\ cmds[n] \in Command
    BY <1>4, LenProperties, ElementOfSeq
  <1>6. PICK rows : rows = Written(cmds[n], Visible(c))
    OBVIOUS
  <1>7. \A r \in Rows \ rows : work'[c][r] = work[c][r]
    BY <1>2, <1>3, <1>6 DEF Dispatch, Typed, TypeOK
  <1>8. rows \subseteq ScopeRows(cmds)
    BY <1>5, <1>6, WrittenInScope
  <1>9. \A r \in Dirty(c)' : r \in ScopeRows(cmds)
    BY <1>2, <1>7, <1>8 DEF AllScoped, Scoped, Dirty
  <1>10. Scoped(c)'
    BY <1>1, <1>2, <1>9 DEF Scoped
  <1>11. \A d \in Clients \ {c} : Scoped(d)'
    BY <1>1 DEF AllScoped, Scoped, Dirty, OnlyMoves
  <1> QED BY <1>10, <1>11 DEF AllScoped

LEMMA ReadSetScoped ==
    ASSUME Typed, AllScoped, NEW c \in Clients, NEW j, ReadSet(c, j), pc[c] # "dispatch"
    PROVE  AllScoped'
  <1>1. CASE Finish(c)
    BY <1>1, EndTxScoped DEF Finish
  <1>2. CASE ~Finish(c)
    BY <1>2, ReadSetMovesOne, CleanScoped DEF ReadSet, Typed
  <1> QED BY <1>1, <1>2

LEMMA RequestScoped ==
    ASSUME Typed, AllScoped, NEW c \in Clients, Request(c) PROVE AllScoped'
  <1>1. CASE \E s \in Sets, m \in Commands, k \in Calls : Stage(c, s, m, k)
    BY <1>1, ReadSetScoped DEF Stage
  <1>2. CASE ~ \E s \in Sets, m \in Commands, k \in Calls : Stage(c, s, m, k)
    <2>1. pc[c] = "idle" /\ UNCHANGED work
      BY <1>2 DEF Request, Apply, UndoBegin, Write, Import
    <2> QED BY <2>1, RequestMovesOne, CleanScoped DEF Typed
  <1> QED BY <1>1, <1>2

LEMMA StepScoped ==
    ASSUME Typed, AllScoped, NEW c \in Clients, Step(c) PROVE AllScoped'
  <1>0. OnlyMoves(c)
    BY StepMovesOne DEF Typed
  <1>1. CASE Read(c)
    BY <1>1, ReadSetScoped DEF Read
  <1>2. CASE LockScopes(c) \/ LockTables(c)
    BY <1>0, <1>2, CleanScoped DEF LockScopes, LockTables
  <1>3. CASE Dispatch(c)
    BY <1>3, DispatchScoped
  <1>4. CASE ApplyBegin(c)
    <2>1. CASE Finish(c)
      BY <2>1, EndTxScoped DEF Finish
    <2>2. CASE ~Finish(c)
      BY <1>0, <1>4, <2>2, CleanScoped DEF ApplyBegin
    <2> QED BY <2>1, <2>2
  <1>5. CASE PersistRefused(c)
    BY <1>5, EndTxScoped DEF PersistRefused, Finish
  <1>6. CASE PreviewEnd(c) \/ ApplyDrift(c)
    BY <1>6, EndTxScoped DEF PreviewEnd, ApplyDrift
  <1>7. CASE \/ Persist(c) \/ DispatchRaises(c) \/ ApplyCommit(c) \/ UndoCommit(c)
             \/ UndoRefused(c) \/ CommitWrite(c) \/ Abort(c)
    BY <1>7, EndTxScoped DEF Persist, DispatchRaises, ApplyCommit, UndoCommit,
       UndoRefused, CommitWrite, Abort, Finish
  <1> QED BY <1>1, <1>2, <1>3, <1>4, <1>5, <1>6, <1>7 DEF Step

LEMMA NextScoped == ASSUME Typed, AllScoped, [Next]_vars PROVE AllScoped'
  <1>1. CASE UNCHANGED tx
    BY <1>1 DEF tx, AllScoped, Scoped, Dirty
  <1>2. CASE \E c \in Clients : Request(c) \/ Step(c)
    BY <1>2, RequestScoped, StepScoped
  <1> QED BY <1>1, <1>2 DEF Next, vars, Create, Discard, Expire, Bump

LEMMA AlwaysScoped == Spec => []AllScoped
  BY NextScoped, InitScoped, AlwaysTyped, PTL DEF Spec
-----------------------------------------------------------------------------
(* What the two commits of a review do, in terms of its set.                 *)

AppliedHere(c, s) ==
    LET rows == ScopeRows(ItemCmds(s))
    IN /\ cs[s].status = "pending" /\ cs[s].hash = job[c].hash
       /\ cs' = [cs EXCEPT ![s].status = "applied"]
       /\ journal' = [journal EXCEPT ![s] =
             [before |-> Snapshot(db, rows), after |-> Snapshot(db', rows)]]
       /\ db' = Visible(c) /\ OthersKept(rows)
UndoneHere(c, s) ==
    LET rows == ScopeRows(ItemCmds(s))
    IN /\ cs[s].status = "applied"
       /\ cs' = [cs EXCEPT ![s].status = "undone"]
       /\ UNCHANGED journal
       /\ StatesEqual(Snapshot(db, rows), journal[s].after)
       /\ \A r \in Rows : journal[s].before[r] # None <=> r \in rows
       /\ db' = Restored(c) /\ OthersKept(rows)

LEMMA ApplyEffect ==
    ASSUME Typed, Reviewing, Steady, AllScoped, NEW c \in Clients, ApplyCommit(c)
    PROVE  job[c].set \in Sets /\ AppliedHere(c, job[c].set)
  <1>1. PICK s \in Sets : s = job[c].set
    BY DEF ApplyCommit, Applied, Typed, Shape, JobFits
  <1>2. /\ job[c].cmds = ItemCmds(s) /\ cs[s].status = "pending" /\ cs[s].hash = job[c].hash
        /\ Exact(c)
    BY <1>1 DEF ApplyCommit, Applied, Exact, Reviewing, Reviewed, Holds, HoldsSet
  <1>3. PICK rows : rows = ScopeRows(ItemCmds(s))
    OBVIOUS
  <1>4. before[c] = Snapshot(db, rows)
    BY <1>2, <1>3 DEF Steady, Guarded
  <1>5. db' = Visible(c) /\ OthersKept(rows)
    BY <1>2, <1>3 DEF ApplyCommit, CommitRows, Visible, OthersKept, AllScoped, Scoped
  <1>6. /\ cs' = [cs EXCEPT ![s].status = "applied"]
        /\ journal' = [journal EXCEPT ![s] =
             [before |-> Snapshot(db, rows), after |-> Snapshot(db', rows)]]
    BY <1>1, <1>2, <1>3, <1>4, <1>5 DEF ApplyCommit
  <1> QED BY <1>1, <1>2, <1>3, <1>5, <1>6 DEF AppliedHere

LEMMA UndoEffect ==
    ASSUME Typed, Reviewing, Steady, NEW c \in Clients, UndoCommit(c)
    PROVE  job[c].set \in Sets /\ UndoneHere(c, job[c].set)
  <1>1. PICK s \in Sets : s = job[c].set
    BY DEF UndoCommit, Typed, Shape, JobFits
  <1>2. job[c].cmds = ItemCmds(s) /\ cs[s].status = "applied" /\ Exact(c)
    BY <1>1 DEF UndoCommit, Exact, Reviewing, Reviewed, Holds, HoldsSet, Typed, Shape, JobFits
  <1>3. PICK rows : rows = ScopeRows(ItemCmds(s))
    OBVIOUS
  <1>4. before[c] = Snapshot(db, rows)
    BY <1>2, <1>3 DEF Steady, Guarded
  <1>5. \A r \in Rows : journal[s].before[r] # None <=> r \in rows
    BY <1>2, <1>3 DEF Steady, JournalScoped
  <1>6. db' = Restored(c) /\ OthersKept(rows)
    BY <1>1, <1>5 DEF UndoCommit, CommitRows, Restored, OthersKept
  <1>7. StatesEqual(Snapshot(db, rows), journal[s].after)
    BY <1>1, <1>4 DEF UndoCommit, CanUndo
  <1> QED BY <1>1, <1>2, <1>3, <1>5, <1>6, <1>7 DEF UndoneHere, UndoCommit

-----------------------------------------------------------------------------
(* A row that does not exist has no stamp either, in the tables and in every *)
(* "before" image, so that what undo leaves out of them compares equal.      *)

Blank(x) == x.val = Absent => x.stamp = 0
BlankRows == \A r \in Rows : Blank(db[r])
BlankJournals == \A s \in Sets : journal[s] # None =>
    \A r \in Rows : journal[s].before[r] # None => Blank(journal[s].before[r])
Blanks == BlankRows /\ BlankJournals

LEMMA InitBlanks == Init => Blanks
  BY DEF Init, Blanks, BlankRows, BlankJournals, Blank

LEMMA VisibleBlank ==
    ASSUME BlankRows, NEW c \in Clients, db' = Visible(c) PROVE BlankRows'
  BY DEF BlankRows, Blank, Visible, NewRow, RowWith, Gone

LEMMA RestoredBlank ==
    ASSUME BlankRows, NEW c \in Clients, db' = Restored(c) PROVE BlankRows'
  BY DEF BlankRows, Blank, Restored, RowWith, Gone

LEMMA ApplyBlanks ==
    ASSUME Typed, Blanks, NEW c \in Clients, NEW s \in Sets, AppliedHere(c, s) PROVE Blanks'
  <1>1. BlankRows'
    BY VisibleBlank DEF Blanks, AppliedHere
  <1>2. PICK rows : rows = ScopeRows(ItemCmds(s))
    OBVIOUS
  <1>3. /\ journal'[s].before = Snapshot(db, rows)
        /\ \A t \in Sets \ {s} : journal'[t] = journal[t]
    <2> DEFINE entry == [before |-> Snapshot(db, rows), after |-> Snapshot(db', rows)]
    <2>1. journal' = [journal EXCEPT ![s] = entry]
      BY <1>2 DEF AppliedHere
    <2>2. entry.before = Snapshot(db, rows)
      OBVIOUS
    <2> HIDE DEF entry
    <2> QED BY <2>1, <2>2 DEF Typed, TypeOK
  <1>4. \A r \in Rows : journal'[s].before[r] # None => Blank(journal'[s].before[r])
    BY <1>3 DEF Snapshot, Blanks, BlankRows
  <1>5. BlankJournals'
    BY <1>3, <1>4 DEF Blanks, BlankJournals, Blank
  <1> QED BY <1>1, <1>5 DEF Blanks

(* The actions that write the database or the journal.                       *)
LEMMA Writers ==
    ASSUME Next
    PROVE  \/ \E c \in Clients : ApplyCommit(c) \/ UndoCommit(c) \/ CommitWrite(c)
           \/ \E r \in Named : Bump(r)
           \/ \E c \in Clients : Persist(c)
           \/ \E s \in Sets : Create(s) \/ Discard(s) \/ Expire(s)
           \/ UNCHANGED Metadata
  <1>1. \A c \in Clients : Request(c) => UNCHANGED Metadata
    BY DEF Request, Stage, Apply, UndoBegin, Write, Import
  <1>2. \A c \in Clients : Step(c) =>
          \/ ApplyCommit(c) \/ UndoCommit(c) \/ CommitWrite(c) \/ Persist(c)
          \/ UNCHANGED Metadata
    BY DEF Step, Read, PreviewEnd, PersistRefused, LockScopes, LockTables, Dispatch,
       DispatchRaises, ApplyBegin, ApplyDrift, UndoRefused, Abort
  <1> QED BY <1>1, <1>2 DEF Next

LEMMA NextBlanks ==
    ASSUME Typed, Reviewing, Steady, AllScoped, Blanks, [Next]_vars PROVE Blanks'
  <1>1. ASSUME UNCHANGED <<db, journal>> PROVE Blanks'
    BY <1>1 DEF Blanks, BlankRows, BlankJournals
  <1>2. ASSUME NEW c \in Clients, ApplyCommit(c) PROVE Blanks'
    BY <1>2, ApplyEffect, ApplyBlanks
  <1>3. ASSUME NEW c \in Clients, UndoCommit(c) PROVE Blanks'
    BY <1>3, RestoredBlank DEF UndoCommit, CommitRows, Blanks, BlankJournals
  <1>4. ASSUME NEW c \in Clients, CommitWrite(c) PROVE Blanks'
    BY <1>4, VisibleBlank DEF CommitWrite, CommitRows, Blanks, BlankJournals
  <1>5. ASSUME NEW r \in Named, Bump(r) PROVE Blanks'
    <2>1. \A q \in Rows : db'[q].val = db[q].val /\ db'[q].stamp = db[q].stamp
      BY <1>5 DEF Bump, Typed, TypeOK, Row
    <2> QED BY <1>5, <2>1 DEF Bump, Blanks, BlankRows, BlankJournals, Blank
  <1>6. CASE Next
    BY <1>1, <1>2, <1>3, <1>4, <1>5, <1>6, Writers
       DEF Metadata, Database, Persist, Create, Discard, Expire
  <1> QED BY <1>1, <1>6 DEF vars

LEMMA AlwaysBlank == Spec => []Blanks
  BY NextBlanks, InitBlanks, AlwaysTyped, AlwaysReviewing, AlwaysSteady, AlwaysScoped, PTL DEF Spec
-----------------------------------------------------------------------------
(* The journal is the change.                                                *)

ChangeOf(s) ==
    LET rows == ScopeRows(ItemCmds(s))
    IN /\ StatusStep(s, "pending", "applied") =>
             /\ journal'[s].before = Snapshot(db, rows)
             /\ journal'[s].after = Snapshot(db', rows)
             /\ OthersKept(rows)
       /\ StatusStep(s, "applied", "undone") =>
             /\ StatesEqual(Snapshot(db, rows), journal[s].after)
             /\ StatesEqual(Snapshot(db', rows), journal[s].before)
             /\ OthersKept(rows)

(* A step that neither applies nor undoes the set.                           *)
StatusKept(s) ==
    /\ cs'[s].status = "applied" => cs[s].status = "applied"
    /\ cs'[s].status = "undone" => cs[s].status = "undone"

LEMMA OtherSets ==
    ASSUME Typed, NEW t \in Sets, NEW x, cs' = [cs EXCEPT ![t].status = x]
    PROVE  \A s \in Sets \ {t} : cs'[s] = cs[s]
  BY DEF Typed, TypeOK

LEMMA NewStatus ==
    ASSUME Typed, NEW t \in Sets, NEW x, cs' = [cs EXCEPT ![t].status = x]
    PROVE  cs'[t].status = x
  BY DEF Typed, TypeOK, SetRow

LEMMA ApplyIsChange ==
    ASSUME Typed, NEW c \in Clients, NEW t \in Sets, AppliedHere(c, t)
    PROVE  \A s \in Sets : ChangeOf(s)
  <1>1. PICK rows : rows = ScopeRows(ItemCmds(t))
    OBVIOUS
  <1>2. cs' = [cs EXCEPT ![t].status = "applied"] /\ OthersKept(rows)
    BY <1>1 DEF AppliedHere
  <1>3. journal'[t].before = Snapshot(db, rows) /\ journal'[t].after = Snapshot(db', rows)
    <2> DEFINE entry == [before |-> Snapshot(db, rows), after |-> Snapshot(db', rows)]
    <2>1. journal' = [journal EXCEPT ![t] = entry]
      BY <1>1 DEF AppliedHere
    <2>2. entry.before = Snapshot(db, rows) /\ entry.after = Snapshot(db', rows)
      OBVIOUS
    <2> HIDE DEF entry
    <2> QED BY <2>1, <2>2 DEF Typed, TypeOK
  <1>4. ChangeOf(t)
    BY <1>1, <1>2, <1>3, NewStatus DEF ChangeOf, StatusStep
  <1>5. \A s \in Sets \ {t} : ChangeOf(s)
    BY <1>2, OtherSets DEF ChangeOf, StatusStep
  <1> QED BY <1>4, <1>5

(* What undo inserts again has the contents and stamps of the journal.       *)
LEMMA RestoredSame ==
    ASSUME Typed, Blanks, NEW c \in Clients, NEW s \in Sets, s = job[c].set,
           journal[s] # None, db' = Restored(c), NEW rows,
           \A r \in Rows : journal[s].before[r] # None <=> r \in rows
    PROVE  StatesEqual(Snapshot(db', rows), journal[s].before)
  <1> SUFFICES ASSUME NEW r \in Rows
               PROVE  Same(Snapshot(db', rows)[r], journal[s].before[r])
    BY DEF StatesEqual
  <1>1. CASE r \notin rows
    BY <1>1 DEF Snapshot, Same
  <1>2. CASE r \in rows
    <2>1. PICK old : old = journal[s].before[r]
      OBVIOUS
    <2>2. old # None /\ Blank(old) /\ old \in Row
      BY <1>2, <2>1 DEF Blanks, BlankJournals, Typed, TypeOK, States
    <2>3. db'[r] = IF old.val = Absent THEN Gone ELSE RowWith(old.val, old.stamp)
      BY <2>1, <2>2 DEF Restored
    <2>4. db'[r].val = old.val /\ db'[r].stamp = old.stamp
      BY <2>2, <2>3 DEF Blank, Gone, RowWith
    <2>5. db'[r] \in Row
      BY <2>2, <2>3 DEF Gone, RowWith, Row, Typed, TypeOK, Vals
    <2> QED BY <1>2, <2>1, <2>2, <2>4, <2>5, NoneAssumption DEF Snapshot, Same
  <1> QED BY <1>1, <1>2

LEMMA UndoIsChange ==
    ASSUME Typed, Blanks, NEW c \in Clients, NEW t \in Sets, t = job[c].set, UndoneHere(c, t)
    PROVE  \A s \in Sets : ChangeOf(s)
  <1>1. PICK rows : rows = ScopeRows(ItemCmds(t))
    OBVIOUS
  <1>2. /\ cs' = [cs EXCEPT ![t].status = "undone"] /\ OthersKept(rows)
        /\ StatesEqual(Snapshot(db, rows), journal[t].after)
        /\ \A r \in Rows : journal[t].before[r] # None <=> r \in rows
        /\ db' = Restored(c) /\ cs[t].status = "applied"
    BY <1>1 DEF UndoneHere
  <1>3. StatesEqual(Snapshot(db', rows), journal[t].before)
    BY <1>2, RestoredSame DEF Typed, Shape
  <1>4. ChangeOf(t)
    BY <1>1, <1>2, <1>3 DEF ChangeOf, StatusStep
  <1>5. \A s \in Sets \ {t} : ChangeOf(s)
    BY <1>2, OtherSets DEF ChangeOf, StatusStep
  <1> QED BY <1>4, <1>5

LEMMA KeptIsChange ==
    ASSUME \A s \in Sets : StatusKept(s) PROVE \A s \in Sets : ChangeOf(s)
  BY DEF ChangeOf, StatusStep, StatusKept

LEMMA SetActionStatus ==
    ASSUME Typed, NEW t \in Sets, Create(t) \/ Discard(t) \/ Expire(t)
    PROVE  \A s \in Sets : StatusKept(s)
  <1>1. cs[t] \in SetRow /\ \A s \in Sets \ {t} : cs'[s] = cs[s]
    BY DEF Create, Discard, Expire, Typed, TypeOK
  <1>2. \/ cs'[t] = [cs[t] EXCEPT !.status = "pending"]
        \/ cs'[t] = [cs[t] EXCEPT !.status = "discarded"]
        \/ cs'[t] = [cs[t] EXCEPT !.expired = TRUE]
    BY DEF Create, Discard, Expire, Typed, TypeOK
  <1>3. StatusKept(t)
    BY <1>1, <1>2 DEF SetRow, StatusKept
  <1> QED BY <1>1, <1>3 DEF StatusKept

LEMMA StepIsChange ==
    ASSUME Typed, Reviewing, Steady, AllScoped, Blanks, Next
    PROVE  \A s \in Sets : ChangeOf(s)
  <1>1. ASSUME NEW c \in Clients, ApplyCommit(c) PROVE \A s \in Sets : ChangeOf(s)
    BY <1>1, ApplyEffect, ApplyIsChange
  <1>2. ASSUME NEW c \in Clients, UndoCommit(c) PROVE \A s \in Sets : ChangeOf(s)
    BY <1>2, UndoEffect, UndoIsChange
  <1>3. ASSUME UNCHANGED cs PROVE \A s \in Sets : ChangeOf(s)
    BY <1>3, KeptIsChange DEF StatusKept
  <1>4. ASSUME NEW c \in Clients, Persist(c) PROVE \A s \in Sets : ChangeOf(s)
    BY <1>4, PersistStatus, KeptIsChange DEF StatusKept
  <1>5. ASSUME NEW s \in Sets, Create(s) \/ Discard(s) \/ Expire(s)
        PROVE  \A t \in Sets : ChangeOf(t)
    BY <1>5, SetActionStatus, KeptIsChange
  <1> QED BY <1>1, <1>2, <1>3, <1>4, <1>5, Writers DEF Metadata, CommitWrite, Bump

(* An apply turns exactly the "before" image into the "after" image, an undo *)
(* turns it back up to row versions, and neither touches another row:        *)
(* whatever commits between the preview, the apply and the undo.             *)
THEOREM JournalIsExact == Spec => JournalIsTheChange
  <1>1. Typed /\ Reviewing /\ Steady /\ AllScoped /\ Blanks /\ [Next]_vars
        => [\A s \in Sets : ChangeOf(s)]_vars
    BY StepIsChange
  <1>2. Spec => [][\A s \in Sets : ChangeOf(s)]_vars
    BY <1>1, AlwaysTyped, AlwaysReviewing, AlwaysSteady, AlwaysScoped, AlwaysBlank, PTL DEF Spec
  <1> QED BY <1>2 DEF JournalIsTheChange, ChangeOf
-----------------------------------------------------------------------------
(* While no row of an applied set has been written, its rows are what the    *)
(* apply left, up to the row versions the feed triggers move.                *)

Untouched(s) == cs[s].status = "applied" /\ ~touched[s] =>
    StatesEqual(Snapshot(db, ScopeRows(ItemCmds(s))), journal[s].after)
AllUntouched == \A s \in Sets : Untouched(s)

LEMMA InitUntouched == Init => AllUntouched
  BY DEF Init, AllUntouched, Untouched, NewSet

(* A set that stays applied with its items, over rows with their contents    *)
(* and stamps.                                                               *)
LEMMA StaysUntouched ==
    ASSUME Typed, NEW s \in Sets, Untouched(s), journal'[s] = journal[s],
           cs'[s].status = "applied" =>
               cs[s].status = "applied" /\ cs'[s].items = cs[s].items,
           cs[s].status = "applied" /\ ~touched'[s] =>
               /\ ~touched[s]
               /\ \A r \in Rows \cap ScopeRows(ItemCmds(s)) :
                     db'[r].val = db[r].val /\ db'[r].stamp = db[r].stamp,
           db' \in [Rows -> Row]
    PROVE  Untouched(s)'
  <1> SUFFICES ASSUME cs'[s].status = "applied", ~touched'[s] PROVE Untouched(s)'
    BY DEF Untouched
  <1>1. ItemCmds(s)' = ItemCmds(s)
    BY DEF ItemCmds
  <1>2. PICK rows : rows = ScopeRows(ItemCmds(s))
    OBVIOUS
  <1>3. StatesEqual(Snapshot(db, rows), journal[s].after)
    BY <1>2 DEF Untouched
  <1>4. db \in [Rows -> Row]
    BY DEF Typed, TypeOK
  <1>5. StatesEqual(Snapshot(db', rows), journal[s].after)
    BY <1>2, <1>3, <1>4, NoneAssumption DEF StatesEqual, Snapshot, Same
  <1> QED BY <1>1, <1>2, <1>5 DEF Untouched

(* A commit of new rows marks every applied set it writes a row of.          *)
LEMMA CommitTouches ==
    ASSUME Typed, NEW new, NEW own, CommitRows(new, own), NEW s \in Sets, s # own,
           cs[s].status = "applied", ~touched'[s]
    PROVE  ~touched[s] /\ \A r \in Rows \cap ScopeRows(ItemCmds(s)) : db'[r] = db[r]
  BY DEF CommitRows

LEMMA OthersUntouched ==
    ASSUME Typed, AllUntouched, NEW new, NEW own, CommitRows(new, own), db' \in [Rows -> Row],
           NEW s \in Sets, s # own, journal'[s] = journal[s], cs'[s] = cs[s]
    PROVE  Untouched(s)'
  <1>1. cs[s].status = "applied" /\ ~touched'[s] =>
            /\ ~touched[s]
            /\ \A r \in Rows \cap ScopeRows(ItemCmds(s)) :
                  db'[r].val = db[r].val /\ db'[r].stamp = db[r].stamp
    BY CommitTouches
  <1> QED BY <1>1, StaysUntouched DEF AllUntouched

LEMMA ApplyUntouched ==
    ASSUME Typed, AllUntouched, NEW c \in Clients, NEW t \in Sets, t = job[c].set,
           ApplyCommit(c), AppliedHere(c, t), TypeOK'
    PROVE  AllUntouched'
  <1>1. PICK rows : rows = ScopeRows(ItemCmds(t))
    OBVIOUS
  <1>2. /\ cs' = [cs EXCEPT ![t].status = "applied"]
        /\ journal' = [journal EXCEPT ![t] =
              [before |-> Snapshot(db, rows), after |-> Snapshot(db', rows)]]
        /\ CommitRows(Visible(c), t) /\ db' \in [Rows -> Row]
    BY <1>1 DEF AppliedHere, ApplyCommit, TypeOK
  <1>3. ASSUME NEW s \in Sets \ {t} PROVE Untouched(s)'
    <2>1. journal'[s] = journal[s] /\ cs'[s] = cs[s]
      BY <1>2, OtherSets DEF Typed, TypeOK
    <2> QED BY <1>2, <2>1, OthersUntouched
  <1>4. Untouched(t)'
    <2>1. ItemCmds(t)' = ItemCmds(t)
      BY <1>2 DEF ItemCmds, Typed, TypeOK, SetRow
    <2>2. journal'[t].after = Snapshot(db', rows)
      <3> DEFINE entry == [before |-> Snapshot(db, rows), after |-> Snapshot(db', rows)]
      <3>1. entry.after = Snapshot(db', rows) /\ journal' = [journal EXCEPT ![t] = entry]
        BY <1>2
      <3> HIDE DEF entry
      <3> QED BY <3>1 DEF Typed, TypeOK
    <2>3. StatesEqual(Snapshot(db', rows), Snapshot(db', rows))
      BY DEF StatesEqual, Same
    <2> QED BY <1>1, <2>1, <2>2, <2>3 DEF Untouched
  <1> QED BY <1>3, <1>4 DEF AllUntouched

LEMMA UndoUntouched ==
    ASSUME Typed, AllUntouched, NEW c \in Clients, NEW t \in Sets, t = job[c].set,
           UndoCommit(c), TypeOK'
    PROVE  AllUntouched'
  <1>1. /\ cs' = [cs EXCEPT ![t].status = "undone"] /\ UNCHANGED journal
        /\ CommitRows(Restored(c), t) /\ db' \in [Rows -> Row]
    BY DEF UndoCommit, TypeOK
  <1>2. \A s \in Sets \ {t} : Untouched(s)'
    BY <1>1, OtherSets, OthersUntouched
  <1>3. Untouched(t)'
    BY <1>1, NewStatus DEF Untouched
  <1> QED BY <1>2, <1>3 DEF AllUntouched

LEMMA WriteUntouched ==
    ASSUME Typed, AllUntouched, NEW c \in Clients, CommitWrite(c), TypeOK'
    PROVE  AllUntouched'
  <1>1. UNCHANGED <<cs, journal>> /\ CommitRows(Visible(c), None) /\ db' \in [Rows -> Row]
    BY DEF CommitWrite, TypeOK
  <1>2. None \notin Sets
    BY NoneAssumption
  <1> QED BY <1>1, <1>2, OthersUntouched DEF AllUntouched

LEMMA BumpUntouched ==
    ASSUME Typed, AllUntouched, NEW q \in Named, Bump(q), TypeOK' PROVE AllUntouched'
  <1>1. UNCHANGED <<cs, journal, touched>> /\ db' \in [Rows -> Row]
    BY DEF Bump, TypeOK
  <1>2. \A r \in Rows : db'[r].val = db[r].val /\ db'[r].stamp = db[r].stamp
    BY DEF Bump, Typed, TypeOK, Row
  <1> QED BY <1>1, <1>2, StaysUntouched DEF AllUntouched

(* The actions on a set that change neither rows nor journal.                *)
LEMMA SetUntouched ==
    ASSUME Typed, AllUntouched, UNCHANGED Database,
           \A s \in Sets : cs'[s].status = "applied" =>
               cs[s].status = "applied" /\ cs'[s].items = cs[s].items
    PROVE  AllUntouched'
  <1>1. UNCHANGED <<db, journal, touched>> /\ db \in [Rows -> Row]
    BY DEF Database, Typed, TypeOK
  <1> QED BY <1>1, StaysUntouched DEF AllUntouched

LEMMA NextUntouched ==
    ASSUME Typed, Reviewing, Steady, AllScoped, AllUntouched, [Next]_vars, TypeOK'
    PROVE  AllUntouched'
  <1>1. ASSUME NEW c \in Clients, ApplyCommit(c) PROVE AllUntouched'
    BY <1>1, ApplyEffect, ApplyUntouched
  <1>2. ASSUME NEW c \in Clients, UndoCommit(c) PROVE AllUntouched'
    BY <1>2, UndoEffect, UndoUntouched
  <1>3. ASSUME NEW c \in Clients, Persist(c) PROVE AllUntouched'
    <2>1. PICK t \in Sets : t = job[c].set
      BY <1>3 DEF Persist, Typed, Shape, JobFits, Previewing
    <2>2. cs[t].status = "pending" /\ \A s \in Sets \ {t} : cs'[s] = cs[s]
      BY <1>3, <2>1 DEF Persist, Current, Open, Typed, TypeOK
    <2>3. cs'[t].status = "pending"
      BY <1>3, <2>2, PersistStatus
    <2> QED BY <1>3, <2>2, <2>3, SetUntouched DEF Persist
  <1>4. ASSUME NEW t \in Sets, Create(t) \/ Discard(t) \/ Expire(t) PROVE AllUntouched'
    <2>1. cs[t] \in SetRow /\ UNCHANGED Database /\ \A s \in Sets \ {t} : cs'[s] = cs[s]
      BY <1>4 DEF Create, Discard, Expire, Typed, TypeOK
    <2>2. \/ cs'[t] = [cs[t] EXCEPT !.status = "pending"]
          \/ cs'[t] = [cs[t] EXCEPT !.status = "discarded"]
          \/ cs'[t] = [cs[t] EXCEPT !.expired = TRUE]
      BY <1>4 DEF Create, Discard, Expire, Typed, TypeOK
    <2>3. cs'[t].status = "applied" => cs[t].status = "applied" /\ cs'[t].items = cs[t].items
      BY <2>1, <2>2 DEF SetRow
    <2> QED BY <2>1, <2>3, SetUntouched
  <1>5. ASSUME UNCHANGED Metadata PROVE AllUntouched'
    BY <1>5, SetUntouched DEF Metadata
  <1>6. CASE Next
    BY <1>1, <1>2, <1>3, <1>4, <1>5, <1>6, Writers, WriteUntouched, BumpUntouched
  <1> QED BY <1>5, <1>6 DEF vars, Metadata, Database

LEMMA UntouchedUndone ==
    Typed /\ Reviewing /\ Steady /\ AllUntouched => RefusedOnlyIfTouched
  <1> SUFFICES ASSUME Typed, Reviewing, Steady, AllUntouched,
                      NEW c \in Clients, pc[c] = "restore", ~touched[job[c].set]
               PROVE  CanUndo(c)
    BY DEF RefusedOnlyIfTouched
  <1>1. PICK s \in Sets : s = job[c].set
    BY DEF Typed, Shape, JobFits
  <1>2. job[c].cmds = ItemCmds(s) /\ cs[s].status = "applied" /\ Exact(c)
    BY <1>1 DEF Exact, Reviewing, Reviewed, Holds, HoldsSet, Typed, Shape, JobFits
  <1>3. before[c] = Snapshot(db, ScopeRows(ItemCmds(s)))
    BY <1>2 DEF Steady, Guarded
  <1> QED BY <1>1, <1>2, <1>3 DEF AllUntouched, Untouched, CanUndo

(* Undo refuses only when a row of the set was really written since its      *)
(* apply: the versions that name and cost changes move never count.          *)
THEOREM UndoRefusalsAreReal == Spec => []RefusedOnlyIfTouched
  <1>1. Typed /\ Typed' /\ Reviewing /\ Steady /\ AllScoped /\ AllUntouched /\ [Next]_vars
        => AllUntouched'
    BY NextUntouched DEF Typed
  <1>2. Spec => []AllUntouched
    BY <1>1, InitUntouched, AlwaysTyped, AlwaysReviewing, AlwaysSteady, AlwaysScoped, PTL DEF Spec
  <1> QED BY <1>2, UntouchedUndone, AlwaysTyped, AlwaysReviewing, AlwaysSteady, PTL

-----------------------------------------------------------------------------
(* The plan of an applied set is the difference its journal records.         *)

Listed(s) == cs[s].status = "applied" =>
    cs[s].hash # None /\ cs[s].hash.diff = Diff(journal[s].before, journal[s].after)
AllListed == \A s \in Sets : Listed(s)

LEMMA InitListed == Init => AllListed
  BY DEF Init, AllListed, Listed, NewSet

LEMMA StaysListed ==
    ASSUME NEW s \in Sets, Listed(s), journal'[s] = journal[s],
           cs'[s].status = "applied" => cs[s].status = "applied" /\ cs'[s].hash = cs[s].hash
    PROVE  Listed(s)'
  BY DEF Listed, Diff

(* What apply has confirmed: the plan is the change it makes.                *)
LEMMA ApplyPlan ==
    ASSUME Typed, Reviewing, Steady, NEW c \in Clients, ApplyCommit(c),
           NEW s \in Sets, s = job[c].set, AppliedHere(c, s)
    PROVE  LET rows == ScopeRows(ItemCmds(s))
           IN  /\ cs[s].hash # None
               /\ cs[s].hash.diff = Diff(Snapshot(db, rows), Snapshot(db', rows))
  <1>1. /\ job[c].cmds = ItemCmds(s) /\ cs[s].hash = job[c].hash /\ job[c].hash # None
        /\ Exact(c)
    BY DEF ApplyCommit, Applied, Exact, Reviewing, Reviewed, Holds, HoldsSet,
       Typed, Shape, JobFits
  <1>2. PICK rows : rows = ScopeRows(ItemCmds(s))
    OBVIOUS
  <1>3. before[c] = Snapshot(db, rows)
    BY <1>1, <1>2 DEF Steady, Guarded
  <1>4. db' = Visible(c)
    BY DEF AppliedHere
  <1>5. PICK diff : diff = Diff(Snapshot(db, rows), Snapshot(db', rows))
    OBVIOUS
  <1>6. job[c].hash = Digest(job[c].hash.rev, job[c].cmds, diff)
    BY <1>1, <1>2, <1>3, <1>4, <1>5 DEF ApplyCommit, ActualDigest
  <1>7. job[c].hash.diff = diff
    BY <1>6 DEF Digest
  <1> QED BY <1>1, <1>2, <1>5, <1>7

LEMMA NextListed ==
    ASSUME Typed, Reviewing, Steady, AllScoped, AllListed, [Next]_vars PROVE AllListed'
  <1>1. ASSUME NEW c \in Clients, ApplyCommit(c) PROVE AllListed'
    <2>1. PICK t \in Sets : t = job[c].set /\ AppliedHere(c, t)
      BY <1>1, ApplyEffect
    <2>2. PICK rows : rows = ScopeRows(ItemCmds(t))
      OBVIOUS
    <2>3. cs' = [cs EXCEPT ![t].status = "applied"]
      BY <2>1 DEF AppliedHere
    <2>4. /\ journal'[t].before = Snapshot(db, rows) /\ journal'[t].after = Snapshot(db', rows)
          /\ \A s \in Sets \ {t} : journal'[s] = journal[s]
      <3> DEFINE entry == [before |-> Snapshot(db, rows), after |-> Snapshot(db', rows)]
      <3>1. journal' = [journal EXCEPT ![t] = entry]
        BY <2>1, <2>2 DEF AppliedHere
      <3>2. entry.before = Snapshot(db, rows) /\ entry.after = Snapshot(db', rows)
        OBVIOUS
      <3> HIDE DEF entry
      <3> QED BY <3>1, <3>2 DEF Typed, TypeOK
    <2>5. cs'[t].hash = cs[t].hash
      BY <2>3 DEF Typed, TypeOK, SetRow
    <2>6. cs[t].hash # None /\ cs[t].hash.diff = Diff(Snapshot(db, rows), Snapshot(db', rows))
      BY <1>1, <2>1, <2>2, ApplyPlan
    <2>7. Listed(t)'
      BY <2>4, <2>5, <2>6 DEF Listed, Diff
    <2>8. \A s \in Sets \ {t} : Listed(s)'
      BY <2>3, <2>4, OtherSets, StaysListed DEF AllListed
    <2> QED BY <2>7, <2>8 DEF AllListed
  <1>2. ASSUME NEW c \in Clients, UndoCommit(c) PROVE AllListed'
    <2>1. PICK t \in Sets : t = job[c].set
      BY <1>2 DEF UndoCommit, Typed, Shape, JobFits
    <2>2. cs' = [cs EXCEPT ![t].status = "undone"] /\ UNCHANGED journal
      BY <1>2, <2>1 DEF UndoCommit
    <2>3. Listed(t)'
      BY <2>2, NewStatus DEF Listed
    <2>4. \A s \in Sets \ {t} : Listed(s)'
      BY <2>2, OtherSets, StaysListed DEF AllListed
    <2> QED BY <2>3, <2>4 DEF AllListed
  <1>3. ASSUME NEW c \in Clients, Persist(c) PROVE AllListed'
    <2>1. PICK t \in Sets : t = job[c].set
      BY <1>3 DEF Persist, Typed, Shape, JobFits, Previewing
    <2>2. /\ cs[t].status = "pending" /\ UNCHANGED journal
          /\ \A s \in Sets \ {t} : cs'[s] = cs[s]
      BY <1>3, <2>1 DEF Persist, Current, Open, Database, Typed, TypeOK
    <2>3. cs'[t].status = "pending"
      BY <1>3, <2>2, PersistStatus
    <2> QED BY <2>2, <2>3, StaysListed DEF AllListed
  <1>4. ASSUME NEW t \in Sets, Create(t) \/ Discard(t) \/ Expire(t) PROVE AllListed'
    <2>1. cs[t] \in SetRow /\ UNCHANGED journal /\ \A s \in Sets \ {t} : cs'[s] = cs[s]
      BY <1>4 DEF Create, Discard, Expire, Database, Typed, TypeOK
    <2>2. \/ cs'[t] = [cs[t] EXCEPT !.status = "pending"]
          \/ cs'[t] = [cs[t] EXCEPT !.status = "discarded"]
          \/ cs'[t] = [cs[t] EXCEPT !.expired = TRUE]
      BY <1>4 DEF Create, Discard, Expire, Typed, TypeOK
    <2>3. cs'[t].status = "applied" => cs[t].status = "applied" /\ cs'[t].hash = cs[t].hash
      BY <2>1, <2>2 DEF SetRow
    <2> QED BY <2>1, <2>3, StaysListed DEF AllListed
  <1>5. ASSUME UNCHANGED <<cs, journal>> PROVE AllListed'
    BY <1>5, StaysListed DEF AllListed
  <1>6. CASE Next
    BY <1>1, <1>2, <1>3, <1>4, <1>5, <1>6, Writers DEF Metadata, Database, CommitWrite, Bump
  <1> QED BY <1>5, <1>6 DEF vars

LEMMA AlwaysListed == Spec => []AllListed
  BY NextListed, InitListed, AlwaysTyped, AlwaysReviewing, AlwaysSteady, AlwaysScoped, PTL DEF Spec
-----------------------------------------------------------------------------
(* The refinement mapping of KeepsPromise.                                   *)

Data == [r \in Rows |-> db[r].val]
Phase == [s \in Sets |-> cs[s].status]
Plan == [s \in Sets |-> IF cs[s].hash = None THEN None ELSE cs[s].hash.diff]

LEMMA MapsTo ==
    /\ Promise!Init <=>
          /\ Data \in [Rows -> Vals]
          /\ Phase = [s \in Sets |-> "none"] /\ Plan = [s \in Sets |-> None]
    /\ Promise!vars = <<Data, Phase, Plan>>
  BY DEF Promise!Init, Promise!vars, Data, Phase, Plan

LEMMA InitPromised == Init => Promise!Init
  <1> SUFFICES ASSUME Init PROVE Promise!Init
    OBVIOUS
  <1>1. Data \in [Rows -> Vals]
    BY StartAssumption DEF Init, Data, Vals
  <1>2. \A s \in Sets : cs[s].status = "none" /\ cs[s].hash = None
    BY DEF Init, NewSet
  <1> QED BY <1>1, <1>2, MapsTo DEF Phase, Plan

(* A step that leaves the sets alone is a stutter or a write of others.      *)
LEMMA OutsidePromised ==
    ASSUME TypeOK', UNCHANGED cs PROVE [Promise!Next]_(Promise!vars)
  <1>1. Data' \in [Rows -> Vals]
    BY DEF TypeOK, Data, Row
  <1>2. UNCHANGED <<Phase, Plan>>
    BY DEF Phase, Plan
  <1>3. Promise!Outside
    BY <1>1, <1>2 DEF Promise!Outside, Data, Phase, Plan
  <1> QED BY <1>3 DEF Promise!Next

(* An expiry is a stutter: the promise does not say when a set may close.    *)
LEMMA SetPromised ==
    ASSUME Typed, NEW s \in Sets, Create(s) \/ Discard(s) \/ Expire(s)
    PROVE  [Promise!Next]_(Promise!vars)
  <1>1. UNCHANGED Data /\ cs \in [Sets -> SetRow] /\ cs[s] \in SetRow
    BY DEF Create, Discard, Expire, Database, Data, Typed, TypeOK
  <1>a. /\ \A t \in Sets \ {s} : cs'[t] = cs[t]
        /\ \/ cs'[s] = [cs[s] EXCEPT !.status = "pending"]
           \/ cs'[s] = [cs[s] EXCEPT !.status = "discarded"]
           \/ cs'[s] = [cs[s] EXCEPT !.expired = TRUE]
    BY <1>1 DEF Create, Discard, Expire
  <1>b. cs'[s].hash = cs[s].hash
    BY <1>1, <1>a DEF SetRow
  <1>2. UNCHANGED Plan
    BY <1>a, <1>b DEF Plan
  <1>3. CASE Create(s)
    <2>1. Phase[s] = "none" /\ Phase' = [Phase EXCEPT ![s] = "pending"]
      BY <1>1, <1>3 DEF Create, Phase, SetRow
    <2>2. Promise!Create(s)
      BY <1>1, <1>2, <2>1 DEF Promise!Create, Data, Phase, Plan
    <2> QED BY <2>2 DEF Promise!Next
  <1>4. CASE Discard(s)
    <2>1. Phase[s] = "pending" /\ Phase' = [Phase EXCEPT ![s] = "discarded"]
      BY <1>1, <1>4 DEF Discard, Phase, SetRow
    <2>2. Promise!Discard(s)
      BY <1>1, <1>2, <2>1 DEF Promise!Discard, Data, Phase, Plan
    <2> QED BY <2>2 DEF Promise!Next
  <1>5. CASE Expire(s)
    <2>1. cs'[s] = [cs[s] EXCEPT !.expired = TRUE]
      BY <1>1, <1>5 DEF Expire
    <2>2. cs'[s].status = cs[s].status
      BY <1>1, <2>1 DEF SetRow
    <2>3. UNCHANGED Phase
      BY <1>a, <2>2 DEF Phase
    <2>4. UNCHANGED <<Data, Phase, Plan>>
      BY <1>1, <1>2, <2>3
    <2> QED BY <2>4 DEF Promise!vars, Data, Phase, Plan
  <1> QED BY <1>3, <1>4, <1>5

(* Rows move as planned when each planned row does and no other one.         *)
LEMMA PromisedMove ==
    ASSUME NEW s \in Sets, NEW from, NEW to,
           \A r \in Rows : Plan[s][r] # None =>
               Data[r] = Plan[s][r][from] /\ Data'[r] = Plan[s][r][to],
           \A r \in Rows : Plan[s][r] = None => Data'[r] = Data[r]
    PROVE  Promise!Move(s, from, to)
  <1>1. Data' = [r \in Rows |-> IF Plan[s][r] # None THEN Plan[s][r][to] ELSE Data[r]]
    BY DEF Data
  <1>2. Promise!Planned(s) = {r \in Rows : Plan[s][r] # None}
    BY DEF Promise!Planned, Plan
  <1> HIDE DEF Promise!Planned
  <1> QED BY <1>1, <1>2 DEF Promise!Move, Data, Plan

(* A stored preview is a new offer of a set that is still pending.           *)
LEMMA PersistPromised ==
    ASSUME Typed, NEW c \in Clients, Persist(c)
    PROVE  [Promise!Next]_(Promise!vars)
  <1>1. PICK s \in Sets : s = job[c].set
    BY DEF Persist, Typed, Shape, JobFits, Previewing
  <1>2. cs[s].status = "pending" /\ UNCHANGED db /\ \A t \in Sets \ {s} : cs'[t] = cs[t]
    BY <1>1 DEF Persist, Current, Open, Database, Typed, TypeOK
  <1>3. job[c].hash \in Hash /\ job[c] \in Job
    BY DEF Persist, Typed, TypeOK, Shape, JobFits, Job
  <1>4. cs'[s].hash = job[c].hash
    <2>1. Persisted(s, job[c]).hash = job[c].hash
      BY <1>3 DEF Persisted, Typed, TypeOK, SetRow
    <2> QED BY <1>1, <2>1 DEF Persist, Typed, TypeOK
  <1>5. UNCHANGED <<Data, Phase>>
    BY <1>2, PersistStatus DEF Data, Phase
  <1>6. Plan'[s] \in Diffs /\ \A t \in Sets \ {s} : Plan'[t] = Plan[t]
    <2>1. cs'[s].hash # None
      BY <1>3, <1>4, NoneAssumption
    <2>2. Plan'[s] = job[c].hash.diff
      BY <1>4, <2>1 DEF Plan
    <2>3. job[c].hash.diff \in Diffs
      BY <1>3 DEF Hash
    <2> QED BY <1>2, <2>2, <2>3 DEF Plan
  <1>7. Plan' = [Plan EXCEPT ![s] = Plan'[s]]
    BY <1>6 DEF Plan
  <1>8. Phase[s] = "pending"
    BY <1>2 DEF Phase
  <1>9. Promise!Offer(s)
    BY <1>5, <1>6, <1>7, <1>8
       DEF Promise!Offer, Promise!Plans, Diffs, Data, Phase, Plan
  <1> QED BY <1>9 DEF Promise!Next
(* Apply takes the rows of the plan from their old to their new contents.    *)
LEMMA ApplyPromised ==
    ASSUME Typed, TypeOK', Reviewing, Steady, AllScoped, NEW c \in Clients, ApplyCommit(c)
    PROVE  [Promise!Next]_(Promise!vars)
  <1>1. PICK s \in Sets : s = job[c].set /\ AppliedHere(c, s)
    BY ApplyEffect
  <1>2. PICK rows : rows = ScopeRows(ItemCmds(s))
    OBVIOUS
  <1>3. cs[s].hash # None /\ cs[s].hash.diff = Diff(Snapshot(db, rows), Snapshot(db', rows))
    BY <1>1, <1>2, ApplyPlan
  <1>4. /\ cs[s].status = "pending" /\ cs' = [cs EXCEPT ![s].status = "applied"]
        /\ OthersKept(rows) /\ db \in [Rows -> Row] /\ cs \in [Sets -> SetRow]
    BY <1>1, <1>2 DEF AppliedHere, Typed, TypeOK
  <1>5. /\ Phase[s] = "pending" /\ Plan[s] # None
        /\ Phase' = [Phase EXCEPT ![s] = "applied"]
    <2>1. cs[s].hash.diff # None
      BY <1>3, <1>4, DiffAssumption DEF SetRow, Hash
    <2>2. cs'[s].status = "applied" /\ \A t \in Sets \ {s} : cs'[t] = cs[t]
      BY <1>4, NewStatus, OtherSets
    <2> QED BY <1>3, <1>4, <2>1, <2>2 DEF Phase, Plan
  <1>6. UNCHANGED Plan
    <2>1. cs[s] \in SetRow /\ cs'[s] = [cs[s] EXCEPT !.status = "applied"]
      BY <1>4
    <2>2. cs'[s].hash = cs[s].hash
      BY <2>1 DEF SetRow
    <2>3. \A t \in Sets \ {s} : cs'[t] = cs[t]
      BY <1>4
    <2> QED BY <2>2, <2>3 DEF Plan
  <1>7. \A r \in Rows : Plan[s][r] = IF r \in rows /\ db[r].val # db'[r].val
                                     THEN <<db[r].val, db'[r].val>> ELSE None
    BY <1>3, <1>4, NoneAssumption DEF Plan, Diff, Snapshot
  <1>8. Promise!Move(s, 1, 2)
    <2>1. \A r \in Rows : Plan[s][r] # None => Data[r] = Plan[s][r][1] /\ Data'[r] = Plan[s][r][2]
      <3> SUFFICES ASSUME NEW r \in Rows, Plan[s][r] # None
                   PROVE  Data[r] = Plan[s][r][1] /\ Data'[r] = Plan[s][r][2]
        OBVIOUS
      <3>1. PICK p : p = Plan[s][r]
        OBVIOUS
      <3>2. p = <<db[r].val, db'[r].val>>
        BY <1>7, <3>1
      <3>3. p[1] = db[r].val /\ p[2] = db'[r].val
        BY <3>2
      <3> QED BY <3>1, <3>3 DEF Data
    <2>2. \A r \in Rows : Plan[s][r] = None => Data'[r] = Data[r]
      <3> SUFFICES ASSUME NEW r \in Rows, Plan[s][r] = None PROVE db'[r].val = db[r].val
        BY DEF Data
      <3>1. <<db[r].val, db'[r].val>> # None
        BY <1>4, DiffAssumption DEF TypeOK, Row
      <3> QED BY <1>4, <1>7, <3>1 DEF OthersKept
    <2> QED BY <2>1, <2>2, PromisedMove
  <1>9. Promise!Apply(s)
    BY <1>5, <1>6, <1>8 DEF Promise!Apply, Data, Phase, Plan
  <1> QED BY <1>9 DEF Promise!Next
(* The states two snapshots of the same rows compare equal to.               *)
LEMMA SameContents ==
    ASSUME NEW view \in [Rows -> Row], NEW rows, NEW x,
           StatesEqual(Snapshot(view, rows), x)
    PROVE  \A r \in Rows : /\ r \in rows => x[r] # None /\ x[r].val = view[r].val
                           /\ r \notin rows => x[r] = None
  BY NoneAssumption DEF StatesEqual, Snapshot, Same

(* Undo takes them back.                                                     *)
LEMMA UndoPromised ==
    ASSUME Typed, TypeOK', Reviewing, Steady, AllScoped, Blanks, AllListed,
           NEW c \in Clients, UndoCommit(c)
    PROVE  [Promise!Next]_(Promise!vars)
  <1>1. PICK s \in Sets : s = job[c].set /\ UndoneHere(c, s)
    BY UndoEffect
  <1>2. PICK rows : rows = ScopeRows(ItemCmds(s))
    OBVIOUS
  <1>3. PICK old, new : old = journal[s].before /\ new = journal[s].after
    OBVIOUS
  <1>4. /\ cs[s].status = "applied" /\ cs' = [cs EXCEPT ![s].status = "undone"]
        /\ db' = Restored(c) /\ OthersKept(rows) /\ journal[s] # None
        /\ db \in [Rows -> Row] /\ db' \in [Rows -> Row] /\ cs \in [Sets -> SetRow]
        /\ \A r \in Rows : old[r] # None <=> r \in rows
    BY <1>1, <1>2, <1>3 DEF UndoneHere, Typed, TypeOK, Shape
  <1>5. \A r \in Rows : /\ r \in rows => new[r] # None /\ new[r].val = db[r].val
                        /\ r \notin rows => new[r] = None
    BY <1>1, <1>2, <1>3, <1>4, SameContents DEF UndoneHere
  <1>6. \A r \in Rows : r \in rows => old[r] # None /\ old[r].val = db'[r].val
    <2>1. StatesEqual(Snapshot(db', rows), old)
      BY <1>1, <1>3, <1>4, RestoredSame
    <2> QED BY <1>4, <2>1, SameContents
  <1>7. cs[s].hash # None /\ cs[s].hash.diff = Diff(old, new)
    BY <1>3, <1>4 DEF AllListed, Listed
  <1>8. \A r \in Rows : Plan[s][r] = IF r \in rows /\ db'[r].val # db[r].val
                                     THEN <<db'[r].val, db[r].val>> ELSE None
    BY <1>4, <1>5, <1>6, <1>7 DEF Plan, Diff
  <1>9. /\ Phase[s] = "applied" /\ Phase' = [Phase EXCEPT ![s] = "undone"]
    <2>1. cs'[s].status = "undone" /\ \A t \in Sets \ {s} : cs'[t] = cs[t]
      BY <1>4, NewStatus, OtherSets
    <2> QED BY <1>4, <2>1 DEF Phase
  <1>10. UNCHANGED Plan
    <2>1. cs[s] \in SetRow /\ cs'[s] = [cs[s] EXCEPT !.status = "undone"]
      BY <1>4
    <2>2. cs'[s].hash = cs[s].hash
      BY <2>1 DEF SetRow
    <2>3. \A t \in Sets \ {s} : cs'[t] = cs[t]
      BY <1>4
    <2> QED BY <2>2, <2>3 DEF Plan
  <1>11. Promise!Move(s, 2, 1)
    <2>1. \A r \in Rows : Plan[s][r] # None => Data[r] = Plan[s][r][2] /\ Data'[r] = Plan[s][r][1]
      <3> SUFFICES ASSUME NEW r \in Rows, Plan[s][r] # None
                   PROVE  Data[r] = Plan[s][r][2] /\ Data'[r] = Plan[s][r][1]
        OBVIOUS
      <3>1. PICK p : p = Plan[s][r]
        OBVIOUS
      <3>2. p = <<db'[r].val, db[r].val>>
        BY <1>8, <3>1
      <3>3. p[2] = db[r].val /\ p[1] = db'[r].val
        BY <3>2
      <3> QED BY <3>1, <3>3 DEF Data
    <2>2. \A r \in Rows : Plan[s][r] = None => Data'[r] = Data[r]
      <3> SUFFICES ASSUME NEW r \in Rows, Plan[s][r] = None PROVE db'[r].val = db[r].val
        BY DEF Data
      <3>1. <<db'[r].val, db[r].val>> # None
        BY <1>4, DiffAssumption DEF Row
      <3> QED BY <1>4, <1>8, <3>1 DEF OthersKept
    <2> QED BY <2>1, <2>2, PromisedMove
  <1>12. Promise!Undo(s)
    BY <1>9, <1>10, <1>11 DEF Promise!Undo, Data, Phase, Plan
  <1> QED BY <1>12 DEF Promise!Next

LEMMA NextPromised ==
    ASSUME Typed, TypeOK', Reviewing, Steady, AllScoped, Blanks, AllListed, [Next]_vars
    PROVE  [Promise!Next]_(Promise!vars)
  <1>1. ASSUME NEW c \in Clients, ApplyCommit(c) \/ UndoCommit(c) \/ Persist(c)
        PROVE  [Promise!Next]_(Promise!vars)
    BY <1>1, ApplyPromised, UndoPromised, PersistPromised
  <1>2. CASE UNCHANGED cs
    BY <1>2, OutsidePromised
  <1>3. CASE Next
    BY <1>1, <1>2, <1>3, Writers, SetPromised DEF Metadata, CommitWrite, Bump
  <1> QED BY <1>2, <1>3 DEF vars

(* The protocol with its locks, retries, crashes and foreign writers is a    *)
(* ReviewedChange: sets close once, apply makes the reviewed change and no   *)
(* other, undo takes it back.                                                *)
THEOREM ImplementsReviewedChange == Spec => KeepsPromise
  <1>1. Typed /\ Typed' /\ Reviewing /\ Steady /\ AllScoped /\ Blanks /\ AllListed /\ [Next]_vars
        => [Promise!Next]_(Promise!vars)
    BY NextPromised DEF Typed
  <1> QED BY <1>1, InitPromised, AlwaysTyped, AlwaysReviewing, AlwaysSteady, AlwaysScoped,
             AlwaysBlank, AlwaysListed, PTL DEF Spec, KeepsPromise, Promise!Spec

-----------------------------------------------------------------------------
(* The flag of a set covers every staged command, not just the last one.     *)

Flagged(s) == Destructive(ItemCmds(s)) => cs[s].hardDelete
AllFlagged == \A s \in Sets : Flagged(s)

LEMMA InitFlagged == Init => AllFlagged
  BY DEF Init, AllFlagged, Flagged, Destructive, ItemCmds, NewSet

LEMMA StaysFlagged ==
    ASSUME NEW s \in Sets, Flagged(s), cs'[s].items = cs[s].items,
           cs'[s].hardDelete = cs[s].hardDelete
    PROVE  Flagged(s)'
  <1>1. ItemCmds(s)' = ItemCmds(s)
    BY DEF ItemCmds
  <1> QED BY <1>1 DEF Flagged, Destructive

LEMMA PersistFlagged ==
    ASSUME Typed, Previewed, AllFlagged, NEW c \in Clients, Persist(c) PROVE AllFlagged'
  <1>1. PICK s \in Sets, j \in Job : s = job[c].set /\ j = job[c]
    BY DEF Persist, Typed, TypeOK, Shape, JobFits, Previewing
  <1>2. /\ cs'[s] = Persisted(s, j) /\ cs[s] \in SetRow
        /\ \A t \in Sets \ {s} : cs'[t] = cs[t]
    BY <1>1 DEF Persist, Typed, TypeOK
  <1>3. /\ pc[c] = "persist" /\ Previewing(c) /\ j.hash # None
    BY <1>1 DEF Persist, Typed, Shape, JobFits
  <1>4. cs'[s].hash = j.hash
    BY <1>2 DEF Persisted, SetRow
  <1>5. j.hash.cmds = j.cmds
    BY <1>1, <1>3 DEF Previewed, Based, InPreview
  <1>6. PICK cmds : cmds = ItemCmds(s)'
    OBVIOUS
  <1>7. cmds = j.cmds
    BY <1>3, <1>4, <1>5, <1>6, PersistPreviewed DEF Previewed, PreviewIsOfItems
  <1>8. CASE j.op = "stage"
    <2>1. cs'[s].hardDelete = Destructive(j.cmds)
      BY <1>2, <1>8 DEF Persisted, SetRow
    <2>2. Flagged(s)'
      BY <1>6, <1>7, <2>1 DEF Flagged, Destructive
    <2> QED BY <1>2, <2>2, StaysFlagged DEF AllFlagged
  <1>9. CASE j.op # "stage"
    <2>1. cs'[s].items = cs[s].items /\ cs'[s].hardDelete = cs[s].hardDelete
      BY <1>2, <1>9 DEF Persisted, SetRow
    <2> QED BY <1>2, <2>1, StaysFlagged DEF AllFlagged
  <1> QED BY <1>8, <1>9

LEMMA SetFlagged ==
    ASSUME Typed, AllFlagged, NEW s \in Sets, cs' \in [Sets -> SetRow],
           \/ cs' = [cs EXCEPT ![s].status = "pending"]
           \/ cs' = [cs EXCEPT ![s].status = "applied"]
           \/ cs' = [cs EXCEPT ![s].status = "undone"]
           \/ cs' = [cs EXCEPT ![s].status = "discarded"]
           \/ cs' = [cs EXCEPT ![s].expired = TRUE]
    PROVE  AllFlagged'
  <1>1. cs[s] \in SetRow /\ \A t \in Sets \ {s} : cs'[t] = cs[t]
    BY DEF Typed, TypeOK
  <1>2. \/ \E x : cs'[s] = [cs[s] EXCEPT !.status = x]
        \/ cs'[s] = [cs[s] EXCEPT !.expired = TRUE]
    BY DEF Typed, TypeOK
  <1>3. cs'[s].items = cs[s].items /\ cs'[s].hardDelete = cs[s].hardDelete
    BY <1>1, <1>2 DEF SetRow
  <1> QED BY <1>1, <1>3, StaysFlagged DEF AllFlagged

LEMMA NextFlagged ==
    ASSUME Typed, TypeOK', Previewed, AllFlagged, [Next]_vars PROVE AllFlagged'
  <1>0. cs' \in [Sets -> SetRow]
    BY DEF TypeOK
  <1>1. ASSUME UNCHANGED cs PROVE AllFlagged'
    BY <1>1, StaysFlagged DEF AllFlagged
  <1>2. ASSUME NEW c \in Clients, ApplyCommit(c) \/ UndoCommit(c) PROVE AllFlagged'
    <2>1. PICK s \in Sets : s = job[c].set
      BY <1>2 DEF ApplyCommit, Applied, UndoCommit, Typed, Shape, JobFits
    <2> QED BY <1>0, <1>2, <2>1, SetFlagged DEF ApplyCommit, UndoCommit
  <1>3. ASSUME NEW s \in Sets, Create(s) \/ Discard(s) \/ Expire(s) PROVE AllFlagged'
    BY <1>0, <1>3, SetFlagged DEF Create, Discard, Expire
  <1>4. CASE Next
    BY <1>1, <1>2, <1>3, <1>4, Writers, PersistFlagged DEF Metadata, CommitWrite, Bump
  <1> QED BY <1>1, <1>4 DEF vars

LEMMA AlwaysPreviewed == Spec => []Previewed
  BY NextPreviewed, InitPreviewed, AlwaysTyped, PTL DEF Spec

LEMMA AlwaysFlagged == Spec => []AllFlagged
  <1>1. Typed /\ Typed' /\ Previewed /\ AllFlagged /\ [Next]_vars => AllFlagged'
    BY NextFlagged DEF Typed
  <1> QED BY <1>1, InitFlagged, AlwaysTyped, AlwaysPreviewed, PTL DEF Spec

-----------------------------------------------------------------------------
(* A transaction leaves an assignment row absent only by a delete among its  *)
(* commands, and an apply that has one carries the acknowledgement.          *)

Deletes(c) == \A r \in Dirty(c) \cap AsgRows :
    work[c][r] = Absent => Destructive(job[c].cmds)
Acked(c) == job[c].op = "apply" /\ pc[c] \in {"lock", "tables", "dispatch"} =>
    (Destructive(job[c].cmds) => job[c].ack)
Acknowledged(c) == Deletes(c) /\ Acked(c)
AllAcknowledged == \A c \in Clients : Acknowledged(c)

LEMMA InitAcknowledged == Init => AllAcknowledged
  BY DEF Init, AllAcknowledged, Acknowledged, Deletes, Acked, Dirty, NoRows, NoJob

LEMMA MoveAcknowledged ==
    ASSUME AllAcknowledged, NEW c \in Clients, OnlyMoves(c), Acknowledged(c)'
    PROVE  AllAcknowledged'
  <1>1. \A d \in Clients \ {c} : Acknowledged(d)'
    BY DEF AllAcknowledged, Acknowledged, Deletes, Acked, Dirty, OnlyMoves
  <1> QED BY <1>1 DEF AllAcknowledged

LEMMA EndTxAcknowledged ==
    ASSUME Typed, AllAcknowledged, NEW c \in Clients, NEW j,
           NEW p \in {"idle", "request", "persist"}, EndTx(c, p, j)
    PROVE  AllAcknowledged'
  <1>1. OnlyMoves(c) /\ work'[c] = NoRows /\ pc'[c] = p
    BY EndTxMovesOne DEF Typed
  <1>2. Deletes(c)' /\ Acked(c)'
    BY <1>1 DEF Deletes, Acked, Dirty, NoRows
  <1> QED BY <1>1, <1>2, MoveAcknowledged DEF Acknowledged

(* A client that has written nothing starts something other than an apply.   *)
LEMMA CleanAcknowledged ==
    ASSUME AllScoped, AllAcknowledged, NEW c \in Clients, OnlyMoves(c), UNCHANGED work,
           pc[c] # "dispatch", Acked(c)'
    PROVE  AllAcknowledged'
  <1>1. Dirty(c)' = {}
    BY DEF AllScoped, Scoped, Dirty
  <1>2. Deletes(c)'
    BY <1>1 DEF Deletes
  <1> QED BY <1>2, MoveAcknowledged DEF Acknowledged

LEMMA ReadSetAcknowledged ==
    ASSUME Typed, AllScoped, AllAcknowledged, NEW c \in Clients, NEW j \in Job,
           j.op \in {"stage", "refresh"}, ReadSet(c, j), pc[c] # "dispatch"
    PROVE  AllAcknowledged'
  <1>1. CASE Finish(c)
    BY <1>1, EndTxAcknowledged DEF Finish
  <1>2. CASE ~Finish(c)
    <2> DEFINE cmds == IF j.op = "stage"
                       THEN Append(ItemCmds(j.set), j.cmds[Len(j.cmds)])
                       ELSE ItemCmds(j.set)
               base == cs[j.set].rev
    <2>1. job'[c] = [j EXCEPT !.base = base, !.cmds = cmds]
      BY <1>2 DEF ReadSet, Typed, TypeOK
    <2>2. job'[c].op = j.op
      <3> HIDE DEF cmds, base
      <3> QED BY <2>1 DEF Job
    <2> HIDE DEF cmds, base
    <2>3. Acked(c)'
      BY <2>2 DEF Acked
    <2> QED BY <1>2, <2>3, ReadSetMovesOne, CleanAcknowledged DEF ReadSet, Typed
  <1> QED BY <1>1, <1>2

LEMMA RequestAcknowledged ==
    ASSUME Typed, AllScoped, AllAcknowledged, NEW c \in Clients, Request(c)
    PROVE  AllAcknowledged'
  <1>0. OnlyMoves(c)
    BY RequestMovesOne DEF Typed
  <1>1. ASSUME NEW s \in Sets, NEW m \in Commands, NEW k \in Calls, Stage(c, s, m, k)
        PROVE  AllAcknowledged'
    <2> DEFINE j == [NoJob EXCEPT !.op = "stage", !.set = s, !.cmds = <<m>>, !.call = k]
    <2>1. <<m>> \in Seq(Command)
      BY CommandsAssumption
    <2>2. j \in Job /\ j.op = "stage"
      BY <2>1, NoJobType DEF Job
    <2>3. ReadSet(c, j) /\ pc[c] = "idle"
      BY <1>1 DEF Stage
    <2> HIDE DEF j
    <2> QED BY <2>2, <2>3, ReadSetAcknowledged
  <1>2. ASSUME NEW s \in Sets, NEW ack \in BOOLEAN, Apply(c, s, ack) PROVE AllAcknowledged'
    <2>1. pc[c] = "idle" /\ pc'[c] = "request" /\ UNCHANGED work
      BY <1>2 DEF Apply, Typed, TypeOK
    <2> QED BY <1>0, <2>1, CleanAcknowledged DEF Acked
  <1>3. ASSUME pc[c] = "idle", UNCHANGED work, job'[c].op # "apply" PROVE AllAcknowledged'
    BY <1>0, <1>3, CleanAcknowledged DEF Acked
  <1>4. ASSUME NEW s \in Sets, UndoBegin(c, s) PROVE AllAcknowledged'
    <2>1. PICK q : job'[c] = [NoJob EXCEPT !.op = "undo", !.set = s, !.cmds = q]
      BY <1>4 DEF UndoBegin, Typed, TypeOK
    <2>2. job'[c].op = "undo"
      BY <2>1 DEF NoJob
    <2> QED BY <1>3, <1>4, <2>2 DEF UndoBegin
  <1>5. ASSUME NEW m \in Edits, NEW loaded, Write(c, m, loaded) PROVE AllAcknowledged'
    <2>1. job'[c].op = "write"
      BY <1>5 DEF Write, Typed, TypeOK, NoJob
    <2> QED BY <1>3, <1>5, <2>1 DEF Write
  <1>6. ASSUME NEW m \in Loads, Import(c, m) PROVE AllAcknowledged'
    <2>1. job'[c].op = "import"
      BY <1>6 DEF Import, Typed, TypeOK, NoJob
    <2> QED BY <1>3, <1>6, <2>1 DEF Import
  <1> QED BY <1>1, <1>2, <1>4, <1>5, <1>6 DEF Request

(* Only a delete empties an assignment row: the source of a copy exists when *)
(* it is read, and a clear is of a row of another table.                     *)
LEMMA DispatchAcknowledged ==
    ASSUME Typed, AllAcknowledged, NEW c \in Clients, Dispatch(c) PROVE AllAcknowledged'
  <1>1. OnlyMoves(c) /\ UNCHANGED <<pc, job>>
    BY StepMovesOne DEF Typed, Step, Dispatch
  <1>2. PICK cmds, n, view : cmds = job[c].cmds /\ n = done[c] + 1 /\ view = Visible(c)
    OBVIOUS
  <1>3. cmds \in Seq(Command) /\ n \in 1 .. Len(cmds)
    BY <1>2 DEF Dispatch, Typed, TypeOK, Job
  <1>4. n \in DOMAIN cmds /\ cmds[n] \in Command
    BY <1>3, LenProperties, ElementOfSeq
  <1>5. PICK m : m = cmds[n]
    OBVIOUS
  <1>6. PICK rows : rows = Written(m, view)
    OBVIOUS
  <1>7. /\ Valid(m, view)
        /\ \A r \in Rows : work'[c][r] = IF r \in rows THEN NewVal(m, view) ELSE work[c][r]
    BY <1>2, <1>5, <1>6 DEF Dispatch, Typed, TypeOK
  <1>8. \A r \in AsgRows \cap rows : NewVal(m, view) = Absent => m.kind = "delete"
    <2>1. m \in Command /\ m.val # Absent
      BY <1>4, <1>5, ValuesAssumption DEF Command
    <2>2. NewVal(m, view) = Absent => m.kind \in {"delete", "clear"}
      BY <1>7, <2>1 DEF Valid, NewVal
    <2>3. m.kind = "clear" => AsgRows \cap rows = {}
      BY <1>6, <2>1 DEF Command, Written
    <2> QED BY <2>2, <2>3
  <1>9. m.kind = "delete" => Destructive(cmds)
    BY <1>4, <1>5 DEF Destructive
  <1>10. \A r \in Dirty(c)' \cap AsgRows : work'[c][r] = Absent => Destructive(cmds)
    BY <1>2, <1>7, <1>8, <1>9 DEF AllAcknowledged, Acknowledged, Deletes, Dirty
  <1>11. Deletes(c)' /\ Acked(c)'
    BY <1>1, <1>2, <1>10 DEF Deletes, AllAcknowledged, Acknowledged, Acked
  <1> QED BY <1>1, <1>11, MoveAcknowledged DEF Acknowledged

LEMMA ApplyBeginAcknowledged ==
    ASSUME Typed, AllScoped, AllFlagged, AllAcknowledged, NEW c \in Clients, ApplyBegin(c)
    PROVE  AllAcknowledged'
  <1>1. CASE Finish(c)
    BY <1>1, EndTxAcknowledged DEF Finish
  <1>2. CASE ~Finish(c)
    <2>1. PICK s \in Sets : s = job[c].set
      BY DEF ApplyBegin, Typed, Shape, JobFits
    <2>2. PICK cmds : cmds = ItemCmds(s)
      OBVIOUS
    <2>3. /\ cs[s].hardDelete => job[c].ack
          /\ job' = [job EXCEPT ![c].cmds = cmds] /\ UNCHANGED work /\ pc[c] = "request"
      BY <1>2, <2>1, <2>2 DEF ApplyBegin, Confirmed
    <2>4. job'[c].cmds = cmds /\ job'[c].ack = job[c].ack
      <3>1. job[c] \in Job /\ job'[c] = [job[c] EXCEPT !.cmds = cmds]
        BY <2>3 DEF Typed, TypeOK
      <3> QED BY <3>1 DEF Job
    <2>5. Destructive(cmds) => job[c].ack
      BY <2>2, <2>3 DEF AllFlagged, Flagged
    <2>6. Acked(c)'
      BY <2>4, <2>5 DEF Acked, Destructive
    <2>7. OnlyMoves(c)
      BY StepMovesOne DEF Typed, Step
    <2> QED BY <2>3, <2>6, <2>7, CleanAcknowledged
  <1> QED BY <1>1, <1>2

LEMMA StepAcknowledged ==
    ASSUME Typed, AllScoped, AllFlagged, AllAcknowledged, NEW c \in Clients, Step(c)
    PROVE  AllAcknowledged'
  <1>0. OnlyMoves(c)
    BY StepMovesOne DEF Typed
  <1>1. CASE Read(c)
    <2>1. job[c] \in Job /\ job[c].op \in {"stage", "refresh"} /\ pc[c] = "request"
      BY <1>1 DEF Read, Previewing, Typed, TypeOK
    <2> QED BY <1>1, <2>1, ReadSetAcknowledged DEF Read
  <1>2. CASE LockScopes(c) \/ LockTables(c)
    <2>1. /\ pc[c] \in {"lock", "tables"} /\ UNCHANGED <<job, work>>
          /\ job[c].op = "apply" => pc[c] \in {"lock", "tables"}
      BY <1>2 DEF LockScopes, LockTables
    <2>2. Acked(c)'
      BY <2>1 DEF AllAcknowledged, Acknowledged, Acked
    <2> QED BY <1>0, <2>1, <2>2, CleanAcknowledged
  <1>3. CASE Dispatch(c)
    BY <1>3, DispatchAcknowledged
  <1>4. CASE ApplyBegin(c)
    BY <1>4, ApplyBeginAcknowledged
  <1>5. CASE PersistRefused(c)
    BY <1>5, EndTxAcknowledged DEF PersistRefused, Finish
  <1>6. CASE PreviewEnd(c) \/ ApplyDrift(c)
    BY <1>6, EndTxAcknowledged DEF PreviewEnd, ApplyDrift
  <1>7. CASE \/ Persist(c) \/ DispatchRaises(c) \/ ApplyCommit(c) \/ UndoCommit(c)
             \/ UndoRefused(c) \/ CommitWrite(c) \/ Abort(c)
    BY <1>7, EndTxAcknowledged DEF Persist, DispatchRaises, ApplyCommit, UndoCommit,
       UndoRefused, CommitWrite, Abort, Finish
  <1> QED BY <1>1, <1>2, <1>3, <1>4, <1>5, <1>6, <1>7 DEF Step

LEMMA NextAcknowledged ==
    ASSUME Typed, AllScoped, AllFlagged, AllAcknowledged, [Next]_vars PROVE AllAcknowledged'
  <1>1. CASE UNCHANGED tx
    BY <1>1 DEF tx, AllAcknowledged, Acknowledged, Deletes, Acked, Dirty
  <1>2. CASE \E c \in Clients : Request(c) \/ Step(c)
    BY <1>2, RequestAcknowledged, StepAcknowledged
  <1> QED BY <1>1, <1>2 DEF Next, vars, Create, Discard, Expire, Bump

LEMMA AlwaysAcknowledged == Spec => []AllAcknowledged
  BY NextAcknowledged, InitAcknowledged, AlwaysTyped, AlwaysScoped, AlwaysFlagged, PTL DEF Spec

-----------------------------------------------------------------------------
DeletesOf(s) == StatusStep(s, "pending", "applied") =>
    \A r \in AsgRows : db[r].val # Absent /\ db'[r].val = Absent =>
        \E c \in Clients : job[c].op = "apply" /\ job[c].set = s /\ job[c].ack

LEMMA ApplyDeletes ==
    ASSUME Typed, AllAcknowledged, NEW c \in Clients, ApplyCommit(c)
    PROVE  \A s \in Sets : DeletesOf(s)
  <1>1. PICK t \in Sets : t = job[c].set
    BY DEF ApplyCommit, Applied, Typed, Shape, JobFits
  <1>2. job[c].op = "apply" /\ (Destructive(job[c].cmds) => job[c].ack)
    BY DEF ApplyCommit, Applied, AllAcknowledged, Acknowledged, Acked
  <1>3. ASSUME NEW r \in AsgRows, db[r].val # Absent, db'[r].val = Absent
        PROVE  job[c].ack
    <2>0. r \in Rows
      BY RowsAssumption
    <2>1. db' = Visible(c)
      BY DEF ApplyCommit, CommitRows
    <2>2. r \in Dirty(c) /\ db'[r] = NewRow(work[c][r])
      BY <1>3, <2>0, <2>1 DEF Visible, Dirty
    <2>3. work[c][r] = Absent
      BY <1>3, <2>2 DEF NewRow, RowWith, Gone
    <2> QED BY <1>2, <2>2, <2>3 DEF AllAcknowledged, Acknowledged, Deletes
  <1>4. DeletesOf(t)
    BY <1>1, <1>2, <1>3 DEF DeletesOf
  <1>5. \A s \in Sets \ {t} : DeletesOf(s)
    BY <1>1, OtherSets DEF DeletesOf, StatusStep, ApplyCommit
  <1> QED BY <1>4, <1>5

LEMMA StepDeletes ==
    ASSUME Typed, AllAcknowledged, Next PROVE \A s \in Sets : DeletesOf(s)
  <1>1. ASSUME \A s \in Sets : StatusKept(s) PROVE \A s \in Sets : DeletesOf(s)
    BY <1>1 DEF DeletesOf, StatusStep, StatusKept
  <1>2. ASSUME UNCHANGED cs PROVE \A s \in Sets : DeletesOf(s)
    BY <1>1, <1>2 DEF StatusKept
  <1>3. ASSUME NEW c \in Clients, Persist(c) PROVE \A s \in Sets : DeletesOf(s)
    BY <1>1, <1>3, PersistStatus DEF StatusKept
  <1>4. ASSUME NEW c \in Clients, UndoCommit(c) PROVE \A s \in Sets : DeletesOf(s)
    <2>1. PICK t \in Sets : t = job[c].set /\ cs' = [cs EXCEPT ![t].status = "undone"]
      BY <1>4 DEF UndoCommit, Typed, Shape, JobFits
    <2> QED BY <2>1, NewStatus, OtherSets DEF DeletesOf, StatusStep
  <1>5. ASSUME NEW s \in Sets, Create(s) \/ Discard(s) \/ Expire(s)
        PROVE  \A t \in Sets : DeletesOf(t)
    BY <1>1, <1>5, SetActionStatus
  <1> QED BY <1>2, <1>3, <1>4, <1>5, ApplyDeletes, Writers DEF Metadata, CommitWrite, Bump

(* No apply removes an assignment row unless the user who sent it            *)
(* acknowledged a hard delete, whatever was staged beside or after it.       *)
THEOREM DeletesAreAcknowledged == Spec => HardDeletesAcknowledged
  <1>1. Typed /\ AllAcknowledged /\ [Next]_vars => [\A s \in Sets : DeletesOf(s)]_vars
    BY StepDeletes
  <1>2. Spec => [][\A s \in Sets : DeletesOf(s)]_vars
    BY <1>1, AlwaysTyped, AlwaysAcknowledged, PTL DEF Spec
  <1> QED BY <1>2 DEF HardDeletesAcknowledged, DeletesOf

-----------------------------------------------------------------------------
(* No row is written by two open transactions.                               *)

Exclusive == \A c, d \in Clients : c # d => Dirty(c) \cap Dirty(d) = {}

LEMMA InitExclusive == Init => Exclusive
  BY DEF Init, Exclusive, Dirty, NoRows

LEMMA ShrinkExclusive ==
    ASSUME Exclusive, NEW c \in Clients, OnlyMoves(c), Dirty(c)' \subseteq Dirty(c)
    PROVE  Exclusive'
  <1>1. \A d \in Clients \ {c} : Dirty(d)' = Dirty(d)
    BY DEF OnlyMoves, Dirty
  <1> QED BY <1>1 DEF Exclusive

LEMMA DispatchExclusive ==
    ASSUME Typed, Exclusive, NEW c \in Clients, Dispatch(c) PROVE Exclusive'
  <1>1. \A d \in Clients \ {c} : Dirty(d)' = Dirty(d)
    BY StepMovesOne DEF Typed, Step, OnlyMoves, Dirty
  <1>2. PICK rows : CanWrite(c, rows) /\ Dirty(c)' \subseteq Dirty(c) \cup rows
    <2> DEFINE m == job[c].cmds[done[c] + 1]
               rows == Written(m, Visible(c))
    <2>1. /\ CanWrite(c, rows)
          /\ \A r \in Rows : r \notin rows => work'[c][r] = work[c][r]
      BY DEF Dispatch, Typed, TypeOK
    <2> HIDE DEF rows
    <2> QED BY <2>1 DEF Dirty
  <1> QED BY <1>1, <1>2 DEF Exclusive, CanWrite

LEMMA NextExclusive == ASSUME Typed, Exclusive, [Next]_vars PROVE Exclusive'
  <1>1. CASE UNCHANGED work
    BY <1>1 DEF Exclusive, Dirty
  <1>2. ASSUME NEW c \in Clients, Request(c) \/ Step(c), work'[c] \in {work[c], NoRows}
        PROVE  Exclusive'
    <2>1. Dirty(c)' \subseteq Dirty(c)
      BY <1>2 DEF Dirty, NoRows
    <2> QED BY <1>2, <2>1, RequestMovesOne, StepMovesOne, ShrinkExclusive DEF Typed
  <1>3. ASSUME NEW c \in Clients, NEW p, NEW j, EndTx(c, p, j)
        PROVE  work'[c] = NoRows
    BY <1>3, EndTxMovesOne DEF Typed
  <1>4. ASSUME NEW c \in Clients, NEW j, ReadSet(c, j) PROVE work'[c] \in {work[c], NoRows}
    BY <1>3, <1>4 DEF ReadSet, Finish
  <1>5. ASSUME NEW c \in Clients, Request(c) PROVE Exclusive'
    <2>1. work'[c] \in {work[c], NoRows}
      BY <1>4, <1>5 DEF Request, Stage, Apply, UndoBegin, Write, Import
    <2> QED BY <1>2, <1>5, <2>1
  <1>6. ASSUME NEW c \in Clients, Step(c) PROVE Exclusive'
    <2>1. CASE Dispatch(c)
      BY <2>1, DispatchExclusive
    <2>2. CASE ~Dispatch(c)
      <3>1. CASE Read(c) \/ LockScopes(c) \/ LockTables(c) \/ ApplyBegin(c)
        BY <1>2, <1>3, <1>4, <1>6, <3>1 DEF Read, LockScopes, LockTables, ApplyBegin, Finish
      <3>2. CASE PreviewEnd(c) \/ ApplyDrift(c) \/ PersistRefused(c)
        BY <1>2, <1>3, <1>6, <3>2 DEF PreviewEnd, ApplyDrift, PersistRefused, Finish
      <3>3. CASE \/ Persist(c) \/ DispatchRaises(c) \/ ApplyCommit(c) \/ UndoCommit(c)
                 \/ UndoRefused(c) \/ CommitWrite(c) \/ Abort(c)
        BY <1>2, <1>3, <1>6, <3>3 DEF Persist, DispatchRaises, ApplyCommit, UndoCommit,
           UndoRefused, CommitWrite, Abort, Finish
      <3> QED BY <1>6, <2>2, <3>1, <3>2, <3>3 DEF Step
    <2> QED BY <2>1, <2>2
  <1> QED BY <1>1, <1>5, <1>6 DEF Next, vars, tx, Create, Discard, Expire, Bump

LEMMA AlwaysExclusive == Spec => []Exclusive
  BY NextExclusive, InitExclusive, AlwaysTyped, PTL DEF Spec

-----------------------------------------------------------------------------
(* Editors.  What one carries is a single set of the row it loaded, and a    *)
(* client that serves something else has no loaded row.                      *)

CarriesRow(c) == Expecting(c) => job[c].cmds[1].kind = "set" /\ job[c].cmds[1].row \in Rows
                              /\ job[c].loaded.val # Absent
AllCarry == \A c \in Clients : CarriesRow(c)
KeepsJob(c) == job'[c] = job[c] \/ job'[c].op # "write"

LEMMA NoJobOp == NoJob.op = "none"
  BY DEF NoJob

LEMMA EndTxKeepsJob ==
    ASSUME Typed, NEW c \in Clients, NEW p, NEW j, EndTx(c, p, j), j.op # "write"
    PROVE  KeepsJob(c)
  BY EndTxMovesOne DEF Typed, KeepsJob

LEMMA FinishKeepsJob ==
    ASSUME Typed, NEW c \in Clients, Finish(c) PROVE KeepsJob(c)
  BY EndTxKeepsJob, NoJobOp DEF Finish

LEMMA ReadSetKeepsJob ==
    ASSUME Typed, NEW c \in Clients, NEW j \in Job, j.op # "write", ReadSet(c, j)
    PROVE  KeepsJob(c)
  <1>1. CASE Finish(c)
    BY <1>1, FinishKeepsJob
  <1>2. CASE ~Finish(c)
    <2> DEFINE cmds == IF j.op = "stage"
                       THEN Append(ItemCmds(j.set), j.cmds[Len(j.cmds)])
                       ELSE ItemCmds(j.set)
               base == cs[j.set].rev
    <2>1. job'[c] = [j EXCEPT !.base = base, !.cmds = cmds]
      BY <1>2 DEF ReadSet, Typed, TypeOK
    <2>2. job'[c].op = j.op
      <3> HIDE DEF cmds, base
      <3> QED BY <2>1 DEF Job
    <2> QED BY <2>2 DEF KeepsJob
  <1> QED BY <1>1, <1>2

LEMMA StepKeepsJob ==
    ASSUME Typed, NEW c \in Clients, Step(c) PROVE KeepsJob(c)
  <1>1. CASE Read(c)
    <2>1. job[c] \in Job /\ job[c].op # "write"
      BY <1>1 DEF Read, Previewing, Typed, TypeOK
    <2> QED BY <1>1, <2>1, ReadSetKeepsJob DEF Read
  <1>2. CASE LockScopes(c) \/ LockTables(c) \/ Dispatch(c)
    BY <1>2 DEF LockScopes, LockTables, Dispatch, KeepsJob
  <1>3. CASE ApplyBegin(c)
    <2>1. CASE Finish(c)
      BY <2>1, FinishKeepsJob
    <2>2. CASE ~Finish(c)
      <3> DEFINE q == ItemCmds(job[c].set)
      <3>1. job'[c] = [job[c] EXCEPT !.cmds = q] /\ job[c] \in Job /\ job[c].op = "apply"
        BY <1>3, <2>2 DEF ApplyBegin, Typed, TypeOK
      <3> HIDE DEF q
      <3> QED BY <3>1 DEF Job, KeepsJob
    <2> QED BY <2>1, <2>2
  <1>4. CASE PersistRefused(c)
    <2>1. CASE Finish(c)
      BY <2>1, FinishKeepsJob
    <2>2. CASE ~Finish(c)
      <3>1. PICK j \in Job : j = job[c] /\ j.op # "write"
        BY <1>4 DEF PersistRefused, Typed, TypeOK, Shape, JobFits, Previewing
      <3>2. EndTx(c, "request", [j EXCEPT !.tries = j.tries + 1, !.hash = None])
        BY <1>4, <2>2, <3>1 DEF PersistRefused
      <3>3. [j EXCEPT !.tries = j.tries + 1, !.hash = None].op = j.op
        BY DEF Job
      <3> QED BY <3>1, <3>2, <3>3, EndTxKeepsJob
    <2> QED BY <2>1, <2>2
  <1>5. CASE PreviewEnd(c)
    <2>1. PICK j \in Job : j = job[c] /\ j.op # "write"
      BY <1>5 DEF PreviewEnd, Previewing, Typed, TypeOK
    <2>2. PICK h : EndTx(c, "persist", [j EXCEPT !.hash = h])
      BY <1>5, <2>1 DEF PreviewEnd
    <2>3. [j EXCEPT !.hash = h].op = j.op
      BY DEF Job
    <2> QED BY <2>1, <2>2, <2>3, EndTxKeepsJob
  <1>6. CASE ApplyDrift(c)
    <2>1. PICK s : EndTx(c, "request", [NoJob EXCEPT !.op = "refresh", !.set = s])
      BY <1>6 DEF ApplyDrift
    <2>2. [NoJob EXCEPT !.op = "refresh", !.set = s].op = "refresh"
      BY DEF NoJob
    <2> QED BY <2>1, <2>2, EndTxKeepsJob
  <1>7. CASE \/ Persist(c) \/ DispatchRaises(c) \/ ApplyCommit(c) \/ UndoCommit(c)
             \/ UndoRefused(c) \/ CommitWrite(c) \/ Abort(c)
    BY <1>7, FinishKeepsJob DEF Persist, DispatchRaises, ApplyCommit, UndoCommit,
       UndoRefused, CommitWrite, Abort
  <1> QED BY <1>1, <1>2, <1>3, <1>4, <1>5, <1>6, <1>7 DEF Step

(* Only the start of an editor's request loads a row: the present one.       *)
LEMMA RequestLoads ==
    ASSUME Typed, NEW c \in Clients, Request(c)
    PROVE  \/ KeepsJob(c)
           \/ \E m \in Edits : /\ job'[c].cmds = <<m>>
                               /\ job'[c].loaded # Gone =>
                                     m.kind = "set" /\ job'[c].loaded = db[m.row]
  <1>1. ASSUME NEW s \in Sets, NEW m \in Commands, NEW k \in Calls, Stage(c, s, m, k)
        PROVE  KeepsJob(c)
    <2> DEFINE j == [NoJob EXCEPT !.op = "stage", !.set = s, !.cmds = <<m>>, !.call = k]
    <2>1. <<m>> \in Seq(Command)
      BY CommandsAssumption
    <2>2. j \in Job /\ j.op = "stage"
      BY <2>1, NoJobType DEF Job
    <2>3. ReadSet(c, j)
      BY <1>1 DEF Stage
    <2> HIDE DEF j
    <2> QED BY <2>2, <2>3, ReadSetKeepsJob
  <1>2. ASSUME NEW s \in Sets, NEW ack \in BOOLEAN, Apply(c, s, ack) PROVE KeepsJob(c)
    <2>1. job'[c].op = "apply"
      BY <1>2 DEF Apply, Typed, TypeOK, NoJob
    <2> QED BY <2>1 DEF KeepsJob
  <1>3. ASSUME NEW s \in Sets, UndoBegin(c, s) PROVE KeepsJob(c)
    <2>1. PICK q : job'[c] = [NoJob EXCEPT !.op = "undo", !.set = s, !.cmds = q]
      BY <1>3 DEF UndoBegin, Typed, TypeOK
    <2>2. job'[c].op = "undo"
      BY <2>1 DEF NoJob
    <2> QED BY <2>2 DEF KeepsJob
  <1>4. ASSUME NEW m \in Loads, Import(c, m) PROVE KeepsJob(c)
    <2>1. job'[c].op = "import"
      BY <1>4 DEF Import, Typed, TypeOK, NoJob
    <2> QED BY <2>1 DEF KeepsJob
  <1>5. ASSUME NEW m \in Edits, NEW loaded, Write(c, m, loaded)
        PROVE  /\ job'[c].cmds = <<m>>
               /\ job'[c].loaded # Gone => m.kind = "set" /\ job'[c].loaded = db[m.row]
    <2>1. job'[c].cmds = <<m>> /\ job'[c].loaded = loaded
      BY <1>5 DEF Write, Typed, TypeOK, NoJob
    <2> QED BY <1>5, <2>1 DEF Write
  <1> QED BY <1>1, <1>2, <1>3, <1>4, <1>5 DEF Request
-----------------------------------------------------------------------------
(* Stamps tell contents apart.  Of one row, the table, the images of the     *)
(* journals and what editors have loaded agree wherever their stamps do:     *)
(* a new stamp is later than all of them, and undo inserts an old stamp only *)
(* with the contents it belongs to.                                          *)

Loading(c, r) == Expecting(c) /\ job[c].cmds[1].row = r
Known(r, x) ==
    \/ x = db[r]
    \/ \E s \in Sets : journal[s] # None /\ journal[s].before[r] = x /\ x # None
    \/ \E c \in Clients : Loading(c, r) /\ x = job[c].loaded

Telling(x, y) == x.stamp = y.stamp /\ x.val # Absent /\ y.val # Absent => x.val = y.val
Told == \A r \in Rows : \A x, y \in Row : Known(r, x) /\ Known(r, y) =>
            Telling(x, y) /\ x.stamp <= clock
AbsentIsGone == \A r \in Rows : db[r].val = Absent => db[r] = Gone
Truthful == Told /\ AbsentIsGone /\ AllCarry

(* A content the row already had, or a stamp it never had.                   *)
Seen(r, x) == \E y \in Row : Known(r, y) /\ y.stamp = x.stamp /\ y.val = x.val
Fresh(x) == x = Gone \/ (x.stamp = clock + 1 /\ clock' = clock + 1)

LEMMA InitTruthful == Init => Truthful
  <1> SUFFICES ASSUME Init PROVE Truthful
    OBVIOUS
  <1>1. \A c \in Clients : ~Expecting(c)
    BY DEF Init, Expecting, NoJob
  <1>2. \A r \in Rows : \A x : Known(r, x) => x = db[r] /\ x.stamp = 0
    BY <1>1 DEF Init, Known, Loading
  <1>3. Told
    BY <1>2 DEF Told, Telling, Init
  <1>4. AbsentIsGone
    BY DEF Init, AbsentIsGone, Gone
  <1> QED BY <1>1, <1>3, <1>4 DEF Truthful, AllCarry, CarriesRow

LEMMA StillTold ==
    ASSUME Typed, Told, clock' \in Nat, clock <= clock',
           \A r \in Rows : \A x \in Row : Known(r, x)' => Seen(r, x) \/ (x = db'[r] /\ Fresh(x))
    PROVE  Told'
  <1> SUFFICES ASSUME NEW r \in Rows, NEW x \in Row, NEW y \in Row, Known(r, x)', Known(r, y)'
               PROVE  Telling(x, y) /\ x.stamp <= clock'
    BY DEF Told, Telling
  <1>0. x.stamp \in Nat /\ y.stamp \in Nat /\ clock \in Nat
    BY DEF Row, Typed, TypeOK
  <1>1. \A z \in Row : Seen(r, z) => z.stamp <= clock
    BY DEF Told, Seen
  <1>2. Gone.stamp = 0 /\ Gone.val = Absent
    BY DEF Gone
  <1>3. x.stamp <= clock'
    BY <1>0, <1>1, <1>2 DEF Fresh
  <1>4. Telling(x, y)
    <2>1. CASE Seen(r, x) /\ Seen(r, y)
      BY <2>1 DEF Seen, Told, Telling
    <2>2. CASE Seen(r, x) /\ Fresh(y)
      BY <1>0, <1>1, <1>2, <2>2 DEF Fresh, Telling
    <2>3. CASE Fresh(x) /\ Seen(r, y)
      BY <1>0, <1>1, <1>2, <2>3 DEF Fresh, Telling
    <2>4. CASE x = db'[r] /\ y = db'[r]
      BY <2>4 DEF Telling
    <2> QED BY <2>1, <2>2, <2>3, <2>4
  <1> QED BY <1>3, <1>4

(* What a client's step does to what is known of a row.                      *)
LEMMA OldJobs ==
    ASSUME Typed, NEW c \in Clients, OnlyMoves(c), KeepsJob(c),
           NEW r \in Rows, NEW d \in Clients, Loading(d, r)'
    PROVE  Loading(d, r) /\ job'[d] = job[d]
  BY DEF OnlyMoves, KeepsJob, Loading, Expecting

LEMMA StillCarry ==
    ASSUME AllCarry, NEW c \in Clients, OnlyMoves(c), KeepsJob(c) PROVE AllCarry'
  BY DEF AllCarry, CarriesRow, OnlyMoves, KeepsJob, Expecting

(* A commit of what the transaction sees.                                    *)
LEMMA VisibleFresh ==
    ASSUME Typed, NEW c \in Clients, CommitRows(Visible(c), None) \/ \E s \in Sets : CommitRows(Visible(c), s),
           NEW r \in Rows
    PROVE  db'[r] = db[r] \/ Fresh(db'[r])
  <1>1. db' = Visible(c) /\ clock' = clock + 1
    BY DEF CommitRows
  <1> QED BY <1>1 DEF Visible, NewRow, RowWith, Fresh

LEMMA VisibleAbsent ==
    ASSUME AbsentIsGone, NEW c \in Clients, db' = Visible(c) PROVE AbsentIsGone'
  BY DEF AbsentIsGone, Visible, NewRow, RowWith, Gone

LEMMA SeenNow ==
    ASSUME Typed, NEW r \in Rows PROVE \A x \in Row : Known(r, x) => Seen(r, x)
  BY DEF Seen

LEMMA ApplyTruthful ==
    ASSUME Typed, TypeOK', Truthful, NEW c \in Clients, NEW s \in Sets, ApplyCommit(c),
           s = job[c].set, AppliedHere(c, s)
    PROVE  Truthful'
  <1>0. OnlyMoves(c) /\ KeepsJob(c) /\ clock' = clock + 1
    BY StepMovesOne, StepKeepsJob DEF Typed, Step, ApplyCommit, CommitRows
  <1>1. PICK rows : rows = ScopeRows(ItemCmds(s))
    OBVIOUS
  <1>2. /\ journal'[s].before = Snapshot(db, rows)
        /\ \A t \in Sets \ {s} : journal'[t] = journal[t]
    <2> DEFINE entry == [before |-> Snapshot(db, rows), after |-> Snapshot(db', rows)]
    <2>1. journal' = [journal EXCEPT ![s] = entry]
      BY <1>1 DEF AppliedHere
    <2>2. entry.before = Snapshot(db, rows)
      OBVIOUS
    <2> HIDE DEF entry
    <2> QED BY <2>1, <2>2 DEF Typed, TypeOK
  <1>3. ASSUME NEW r \in Rows, NEW x \in Row, Known(r, x)'
        PROVE  Seen(r, x) \/ (x = db'[r] /\ Fresh(x))
    <2>1. CASE x = db'[r]
      <3>1. db'[r] = db[r] \/ Fresh(db'[r])
        BY VisibleFresh DEF ApplyCommit
      <3> QED BY <1>3, <2>1, <3>1, SeenNow DEF Known
    <2>2. ASSUME NEW t \in Sets, journal'[t] # None, journal'[t].before[r] = x, x # None
          PROVE  Seen(r, x)
      <3>1. CASE t = s
        BY <1>2, <1>3, <2>2, <3>1, SeenNow DEF Snapshot, Known
      <3>2. CASE t # s
        BY <1>2, <1>3, <2>2, <3>2, SeenNow DEF Known
      <3> QED BY <3>1, <3>2
    <2>3. ASSUME NEW d \in Clients, Loading(d, r)', x = job'[d].loaded PROVE Seen(r, x)
      BY <1>0, <1>3, <2>3, OldJobs, SeenNow DEF Known
    <2> QED BY <1>3, <2>1, <2>2, <2>3 DEF Known
  <1>4. clock \in Nat
    BY DEF Typed, TypeOK
  <1>5. Told'
    BY <1>0, <1>3, <1>4, StillTold DEF Truthful
  <1>6. AbsentIsGone'
    BY VisibleAbsent DEF Truthful, AppliedHere
  <1> QED BY <1>0, <1>5, <1>6, StillCarry DEF Truthful

(* A change of rows that leaves the journals alone.                          *)
LEMMA RowsTruthful ==
    ASSUME Typed, Truthful, UNCHANGED journal, clock' \in Nat, clock <= clock',
           AbsentIsGone', AllCarry',
           \A r \in Rows : \A d \in Clients : Loading(d, r)' => Loading(d, r) /\ job'[d] = job[d],
           \A r \in Rows : Seen(r, db'[r]) \/ Fresh(db'[r])
    PROVE  Truthful'
  <1>1. ASSUME NEW r \in Rows, NEW x \in Row, Known(r, x)'
        PROVE  Seen(r, x) \/ (x = db'[r] /\ Fresh(x))
    BY <1>1, SeenNow DEF Known
  <1>2. Told'
    BY <1>1, StillTold DEF Truthful
  <1> QED BY <1>2 DEF Truthful

LEMMA WriteTruthful ==
    ASSUME Typed, Truthful, NEW c \in Clients, CommitWrite(c) PROVE Truthful'
  <1>0. OnlyMoves(c) /\ KeepsJob(c) /\ UNCHANGED journal /\ clock' = clock + 1 /\ clock \in Nat
    BY StepMovesOne, StepKeepsJob DEF Typed, TypeOK, Step, CommitWrite, CommitRows
  <1>1. \A r \in Rows : db'[r] = db[r] \/ Fresh(db'[r])
    BY VisibleFresh DEF CommitWrite
  <1>2. \A r \in Rows : db[r] \in Row /\ Seen(r, db[r])
    BY SeenNow DEF Typed, TypeOK, Known
  <1>3. AbsentIsGone' /\ AllCarry'
    BY <1>0, VisibleAbsent, StillCarry DEF Truthful, CommitWrite, CommitRows
  <1> QED BY <1>0, <1>1, <1>2, <1>3, OldJobs, RowsTruthful

LEMMA UndoTruthful ==
    ASSUME Typed, Truthful, NEW c \in Clients, UndoCommit(c) PROVE Truthful'
  <1>0. OnlyMoves(c) /\ KeepsJob(c) /\ UNCHANGED journal /\ clock' = clock + 1 /\ clock \in Nat
        /\ db' = Restored(c)
    BY StepMovesOne, StepKeepsJob DEF Typed, TypeOK, Step, UndoCommit, CommitRows
  <1>1. PICK s \in Sets : s = job[c].set /\ journal[s] # None
    BY DEF UndoCommit, Typed, Shape, JobFits
  <1>2. ASSUME NEW r \in Rows PROVE Seen(r, db'[r]) \/ Fresh(db'[r])
    <2>1. PICK old : old = journal[s].before[r]
      OBVIOUS
    <2>2. CASE old = None
      <3>1. db'[r] = db[r] /\ db[r] \in Row
        BY <1>0, <1>1, <2>1, <2>2 DEF Restored, Typed, TypeOK
      <3> QED BY <3>1, SeenNow DEF Known
    <2>3. CASE old # None /\ old.val = Absent
      BY <1>0, <1>1, <2>1, <2>3 DEF Restored, Fresh
    <2>4. CASE old # None /\ old.val # Absent
      <3>1. db'[r] = RowWith(old.val, old.stamp)
        BY <1>0, <1>1, <2>1, <2>4 DEF Restored
      <3>2. db'[r].val = old.val /\ db'[r].stamp = old.stamp
        BY <3>1 DEF RowWith
      <3>3. old \in Row /\ Known(r, old)
        BY <1>1, <2>1, <2>4 DEF Known, Typed, TypeOK, States
      <3> QED BY <3>2, <3>3 DEF Seen
    <2> QED BY <2>2, <2>3, <2>4
  <1>3. AbsentIsGone'
    BY <1>0 DEF Truthful, AbsentIsGone, Restored, RowWith, Gone
  <1>4. AllCarry'
    BY <1>0, StillCarry DEF Truthful
  <1> QED BY <1>0, <1>2, <1>3, <1>4, OldJobs, RowsTruthful

LEMMA BumpTruthful == ASSUME Typed, TypeOK', Truthful, NEW q \in Named, Bump(q) PROVE Truthful'
  <1>0. UNCHANGED <<journal, job, pc>> /\ clock' = clock + 1 /\ clock \in Nat
    BY DEF Bump, tx, Typed, TypeOK
  <1>1. \A r \in Rows : /\ db[r] \in Row /\ db'[r].val = db[r].val
                        /\ db'[r].stamp = db[r].stamp
                        /\ r # q => db'[r] = db[r]
    BY DEF Bump, Typed, TypeOK, Row
  <1>2. \A r \in Rows : Seen(r, db'[r])
    BY <1>1 DEF Seen, Known
  <1>3. db'[q].val # Absent
    BY <1>1, RowsAssumption DEF Bump, AsgRows
  <1>4. AbsentIsGone'
    BY <1>1, <1>3 DEF Truthful, AbsentIsGone
  <1>5. AllCarry' /\ \A r \in Rows : \A d \in Clients : Loading(d, r)' => Loading(d, r)
    BY <1>0 DEF Truthful, AllCarry, CarriesRow, Expecting, Loading
  <1> QED BY <1>0, <1>2, <1>4, <1>5, RowsTruthful
(* Steps that write no row and no journal.                                   *)
LEMMA QuietTruthful ==
    ASSUME Typed, Truthful, UNCHANGED <<db, clock, journal>>, AllCarry',
           \A r \in Rows : \A d \in Clients : Loading(d, r)' => Loading(d, r) /\ job'[d] = job[d]
    PROVE  Truthful'
  <1>1. clock \in Nat /\ AbsentIsGone' /\ \A r \in Rows : db[r] \in Row /\ Seen(r, db'[r])
    BY SeenNow DEF Typed, TypeOK, Truthful, AbsentIsGone, Known
  <1> QED BY <1>1, RowsTruthful

LEMMA ClientTruthful ==
    ASSUME Typed, Truthful, NEW c \in Clients, OnlyMoves(c), KeepsJob(c),
           UNCHANGED <<db, clock, journal>>
    PROVE  Truthful'
  BY QuietTruthful, OldJobs, StillCarry DEF Truthful

(* An editor loads what the table holds.                                     *)
LEMMA LoadTruthful ==
    ASSUME Typed, Truthful, NEW c \in Clients, OnlyMoves(c), UNCHANGED <<db, clock, journal>>,
           NEW m \in Edits, job'[c].cmds = <<m>>,
           job'[c].loaded # Gone => m.kind = "set" /\ job'[c].loaded = db[m.row]
    PROVE  Truthful'
  <1>1. m.row \in Rows /\ job'[c].cmds[1] = m
    BY CommandsAssumption DEF Command
  <1>2. CarriesRow(c)'
    BY <1>1 DEF CarriesRow, Expecting, Truthful, AbsentIsGone
  <1>3. AllCarry'
    BY <1>2 DEF Truthful, AllCarry, CarriesRow, Expecting, OnlyMoves
  <1>4. ASSUME NEW r \in Rows, NEW x \in Row, Known(r, x)' PROVE Seen(r, x)
    <2>1. ASSUME NEW d \in Clients, Loading(d, r)', x = job'[d].loaded PROVE Seen(r, x)
      <3>1. CASE d = c
        BY <1>1, <1>4, <2>1, <3>1, SeenNow DEF Known, Loading, Expecting
      <3>2. CASE d # c
        BY <1>4, <2>1, <3>2, SeenNow DEF Known, Loading, Expecting, OnlyMoves
      <3> QED BY <3>1, <3>2
    <2> QED BY <1>4, <2>1, SeenNow DEF Known
  <1>5. clock \in Nat
    BY DEF Typed, TypeOK
  <1>6. Told'
    BY <1>4, <1>5, StillTold DEF Truthful
  <1> QED BY <1>3, <1>6 DEF Truthful, AbsentIsGone

LEMMA NextTruthful ==
    ASSUME Typed, TypeOK', Reviewing, Steady, AllScoped, Truthful, [Next]_vars
    PROVE  Truthful'
  <1>1. CASE UNCHANGED <<db, clock, journal, tx>>
    BY <1>1, QuietTruthful DEF Truthful, AllCarry, CarriesRow, Expecting, Loading, tx
  <1>2. ASSUME NEW c \in Clients, ApplyCommit(c) \/ UndoCommit(c) \/ CommitWrite(c)
        PROVE  Truthful'
    BY <1>2, ApplyEffect, ApplyTruthful, UndoTruthful, WriteTruthful
  <1>3. ASSUME NEW c \in Clients, Request(c) PROVE Truthful'
    <2>1. OnlyMoves(c) /\ UNCHANGED <<db, clock, journal>>
      BY <1>3, RequestMovesOne DEF Typed, Request, Stage, Apply, UndoBegin, Write, Import,
         Metadata, Database
    <2> QED BY <1>3, <2>1, RequestLoads, ClientTruthful, LoadTruthful
  <1>4. ASSUME NEW c \in Clients, Step(c) PROVE Truthful'
    <2>1. OnlyMoves(c) /\ KeepsJob(c)
      BY <1>4, StepMovesOne, StepKeepsJob DEF Typed
    <2>2. \/ ApplyCommit(c) \/ UndoCommit(c) \/ CommitWrite(c)
          \/ UNCHANGED <<db, clock, journal>>
      BY <1>4 DEF Step, Read, PreviewEnd, Persist, PersistRefused, LockScopes, LockTables,
         Dispatch, DispatchRaises, ApplyBegin, ApplyDrift, UndoRefused, Abort, Metadata, Database
    <2> QED BY <1>2, <2>1, <2>2, ClientTruthful
  <1> QED BY <1>1, <1>3, <1>4, BumpTruthful DEF Next, vars, Create, Discard, Expire, Database

LEMMA AlwaysTruthful == Spec => []Truthful
  <1>1. Typed /\ Typed' /\ Reviewing /\ Steady /\ AllScoped /\ Truthful /\ [Next]_vars
        => Truthful'
    BY NextTruthful DEF Typed
  <1> QED BY <1>1, InitTruthful, AlwaysTyped, AlwaysReviewing, AlwaysSteady, AlwaysScoped,
             PTL DEF Spec

-----------------------------------------------------------------------------
(* From its stamp check to its commit an editor owns the row.                *)

Saves(c) ==
    /\ pc[c] # "dispatch" => done[c] = 0
    /\ pc[c] = "dispatch" /\ Expecting(c) /\ done[c] = 1 =>
          LET r == job[c].cmds[1].row
          IN r \in Dirty(c) /\ db[r].val = job[c].loaded.val
AllSave == \A c \in Clients : Saves(c)

LEMMA InitSave == Init => AllSave
  BY DEF Init, AllSave, Saves

(* Nobody commits over a row another transaction has written.                *)
LEMMA DirtyKept ==
    ASSUME Typed, Reviewing, Steady, AllScoped, Exclusive,
           NEW d \in Clients, Request(d) \/ Step(d),
           NEW c \in Clients \ {d}, NEW r \in Dirty(c)
    PROVE  db'[r] = db[r]
  <1>0. r \in Rows /\ r \notin Dirty(d) /\ TableOf[r] \notin tabs[d]
    BY DEF Exclusive, Steady, Apart, Dirty
  <1>1. CASE ApplyCommit(d) \/ CommitWrite(d)
    BY <1>0, <1>1 DEF ApplyCommit, CommitWrite, CommitRows, Visible
  <1>2. CASE UndoCommit(d)
    <2>1. PICK s \in Sets : s = job[d].set /\ UndoneHere(d, s)
      BY <1>2, UndoEffect
    <2>2. Exact(d) /\ job[d].cmds = ItemCmds(s)
      BY <1>2, <2>1 DEF UndoCommit, Exact, Reviewing, Reviewed, Holds, HoldsSet,
         Typed, Shape, JobFits
    <2>3. r \notin ScopeRows(ItemCmds(s))
      BY <1>0, <2>2, ScopeTable DEF Steady, Guarded
    <2> QED BY <1>0, <2>1, <2>3 DEF UndoneHere, OthersKept
  <1>3. \/ ApplyCommit(d) \/ UndoCommit(d) \/ CommitWrite(d) \/ UNCHANGED db
    BY DEF Request, Stage, Apply, UndoBegin, Write, Import, Step, Read, PreviewEnd, Persist,
       PersistRefused, LockScopes, LockTables, Dispatch, DispatchRaises, ApplyBegin,
       ApplyDrift, UndoRefused, Abort, Metadata, Database
  <1> QED BY <1>1, <1>2, <1>3

LEMMA EndTxSaves ==
    ASSUME Typed, NEW c \in Clients, NEW j, NEW p \in {"idle", "request", "persist"},
           EndTx(c, p, j)
    PROVE  Saves(c)'
  BY EndTxMovesOne DEF Typed, Saves

(* The check of the stamp, made when the row is locked for the write.        *)
LEMMA DispatchSaves ==
    ASSUME Typed, Truthful, AllSave, NEW c \in Clients, Dispatch(c) PROVE Saves(c)'
  <1>1. UNCHANGED <<pc, job, db>> /\ done'[c] = done[c] + 1 /\ pc[c] = "dispatch"
        /\ done[c] \in Nat
    BY DEF Dispatch, Metadata, Database, Typed, TypeOK
  <1> SUFFICES ASSUME Expecting(c), done'[c] = 1
               PROVE  LET r == job[c].cmds[1].row
                      IN r \in Dirty(c)' /\ db[r].val = job[c].loaded.val
    BY <1>1 DEF Saves, Expecting
  <1>2. done[c] = 0
    BY <1>1
  <1>3. PICK m, x : m = job[c].cmds[1] /\ x = job[c].loaded
    OBVIOUS
  <1>4. m.kind = "set" /\ m.row \in Rows /\ x.val # Absent /\ x \in Row
    BY <1>3 DEF Truthful, AllCarry, CarriesRow, Typed, TypeOK, Job
  <1>5. PICK view : view = Visible(c)
    OBVIOUS
  <1>6. /\ ~StaleLoad(c, m) /\ Valid(m, view)
        /\ \A r \in Rows : work'[c][r] =
              IF r \in Written(m, view) THEN NewVal(m, view) ELSE work[c][r]
    BY <1>2, <1>3, <1>5 DEF Dispatch, Typed, TypeOK
  <1>7. m.row \in Dirty(c)'
    <2>1. m \in Command
      <3>1. job[c].cmds \in Seq(Command) /\ 1 \in 1 .. Len(job[c].cmds)
        BY <1>2 DEF Dispatch, Typed, TypeOK, Job
      <3> QED BY <1>3, <3>1, ElementOfSeq
    <2>2. work'[c][m.row] = m.val
      BY <1>4, <1>6 DEF Written, NewVal
    <2>3. m.val # None
      BY <2>1, NoneAssumption DEF Command, Vals
    <2> QED BY <1>4, <2>2, <2>3 DEF Dirty
  <1>8. db[m.row].val = x.val
    <2>1. db[m.row] # Gone /\ db[m.row].stamp = x.stamp
      BY <1>3, <1>6 DEF StaleLoad
    <2>2. db[m.row].val # Absent /\ db[m.row] \in Row
      BY <1>4, <2>1 DEF Truthful, AbsentIsGone, Typed, TypeOK
    <2>3. Known(m.row, db[m.row]) /\ Known(m.row, x)
      BY <1>3 DEF Known, Loading
    <2> QED BY <1>4, <2>1, <2>2, <2>3 DEF Truthful, Told, Telling
  <1> QED BY <1>3, <1>7, <1>8

(* The other steps that keep a transaction open.                             *)
LEMMA CountKept ==
    ASSUME Typed, AllSave, NEW c \in Clients, pc[c] # "dispatch", UNCHANGED done
    PROVE  Saves(c)'
  BY DEF AllSave, Saves

LEMMA RequestSaves == ASSUME Typed, AllSave, NEW c \in Clients, Request(c) PROVE Saves(c)'
  <1>1. ASSUME NEW j, ReadSet(c, j), pc[c] # "dispatch" PROVE Saves(c)'
    BY <1>1, EndTxSaves, CountKept DEF ReadSet, Finish
  <1> QED BY <1>1, CountKept DEF Request, Stage, Apply, UndoBegin, Write, Import

LEMMA StepSaves ==
    ASSUME Typed, Truthful, AllSave, NEW c \in Clients, Step(c) PROVE Saves(c)'
  <1>1. CASE Dispatch(c)
    BY <1>1, DispatchSaves
  <1>2. ASSUME NEW j, ReadSet(c, j), pc[c] # "dispatch" PROVE Saves(c)'
    BY <1>2, EndTxSaves, CountKept DEF ReadSet, Finish
  <1>3. CASE Read(c) \/ LockScopes(c) \/ LockTables(c) \/ ApplyBegin(c)
    BY <1>2, <1>3, EndTxSaves, CountKept DEF Read, LockScopes, LockTables, ApplyBegin, Finish
  <1>4. CASE PersistRefused(c)
    BY <1>4, EndTxSaves DEF PersistRefused, Finish
  <1>5. CASE PreviewEnd(c) \/ ApplyDrift(c)
    BY <1>5, EndTxSaves DEF PreviewEnd, ApplyDrift
  <1>6. CASE \/ Persist(c) \/ DispatchRaises(c) \/ ApplyCommit(c) \/ UndoCommit(c)
             \/ UndoRefused(c) \/ CommitWrite(c) \/ Abort(c)
    BY <1>6, EndTxSaves DEF Persist, DispatchRaises, ApplyCommit, UndoCommit,
       UndoRefused, CommitWrite, Abort, Finish
  <1> QED BY <1>1, <1>3, <1>4, <1>5, <1>6 DEF Step

LEMMA StillSaves ==
    ASSUME AllSave, NEW c \in Clients, pc'[c] = pc[c], job'[c] = job[c], done'[c] = done[c],
           work'[c] = work[c], \A r \in Dirty(c) : db'[r].val = db[r].val
    PROVE  Saves(c)'
  BY DEF AllSave, Saves, Expecting, Dirty

LEMMA NextSave ==
    ASSUME Typed, Reviewing, Steady, AllScoped, Exclusive, Truthful, AllSave, [Next]_vars
    PROVE  AllSave'
  <1>1. CASE UNCHANGED <<db, tx>>
    BY <1>1, StillSaves DEF tx, AllSave
  <1>2. ASSUME NEW d \in Clients, Request(d) \/ Step(d) PROVE AllSave'
    <2>1. Saves(d)' /\ OnlyMoves(d)
      BY <1>2, RequestSaves, StepSaves, RequestMovesOne, StepMovesOne DEF Typed
    <2>2. \A c \in Clients \ {d} : Saves(c)'
      BY <1>2, <2>1, DirtyKept, StillSaves DEF OnlyMoves
    <2> QED BY <2>1, <2>2 DEF AllSave
  <1>3. ASSUME NEW q \in Named, Bump(q) PROVE AllSave'
    <2>1. UNCHANGED tx /\ \A r \in Rows : db'[r].val = db[r].val
      BY <1>3 DEF Bump, Typed, TypeOK, Row
    <2> QED BY <2>1, StillSaves DEF tx, AllSave, Dirty
  <1> QED BY <1>1, <1>2, <1>3 DEF Next, vars, Create, Discard, Expire, Database

(* An editor that sends the stamp it loaded overwrites nothing else: no      *)
(* apply, undo, import or other editor gets a change in between, and a stamp *)
(* an undo has put back never stands for other contents.                     *)
THEOREM SavesAreOfWhatWasLoaded == Spec => []SaveReplacesWhatWasLoaded
  <1>1. Typed /\ Reviewing /\ Steady /\ AllScoped /\ Exclusive /\ Truthful /\ AllSave
        /\ [Next]_vars => AllSave'
    BY NextSave
  <1>2. AllSave => SaveReplacesWhatWasLoaded
    BY DEF AllSave, Saves, SaveReplacesWhatWasLoaded
  <1> QED BY <1>1, <1>2, InitSave, AlwaysTyped, AlwaysReviewing, AlwaysSteady, AlwaysScoped,
             AlwaysExclusive, AlwaysTruthful, PTL DEF Spec

==============================================================================
