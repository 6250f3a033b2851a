------------------------------- MODULE BulkBatch ------------------------------
(* Journaled bulk writes of logo.assignment and their undo: bulk apply, the  *)
(* editor's paste, copy, swap and reorder batches, the same batches applied  *)
(* by the assistant (logo-admin/mutations.py, routes_api.py), and the        *)
(* writers that take no scope lock (image import, legacy import, bumps).     *)
(*                                                                           *)
(* A batch records each row before and after it writes it.  Its undo puts a  *)
(* row back only if the row still is, version included, what the batch left. *)
EXTENDS Integers, FiniteSets

CONSTANTS
    Keys, Vals, Batches, Conns, None,
    Plans,       \* what a batch may write: functions of keys to a value, or None to clear
    Outside,     \* values written without a scope lock
    MaxVersion   \* bound: numbers drawn from logo.assignment_version_seq

Row  == [val : Vals, at : Nat, ver : Nat]      \* at: updated_at
Gone == [val |-> None, at |-> 0, ver |-> 0]
Kinds == {"bulk", "editor"}
Journal == [before : Row \cup {None}, after : Row \cup {None}]
ASSUME BulkAssumption ==
    /\ MaxVersion \in Nat
    /\ Plans \subseteq UNION {[S -> Vals \cup {None}] : S \in SUBSET Keys}
    /\ None \notin Keys \cup Vals \cup Batches \cup Conns
    /\ None \notin Row \cup Journal \cup {Gone} \cup (Vals \X Nat)
NoTx == [op |-> "idle", b |-> None, plan |-> <<>>, todo |-> {}, keys |-> {}, read |-> None]

VARIABLES
    row, seq,      \* logo.assignment and its version sequence
    batch,         \* logo.bulk_batch: "new", "done", "undone"
    journal,       \* logo.bulk_batch_row, visible once its batch is done
    card,          \* the assistant's change set of a batch: "none", "applied", "undone"
    tx, work,      \* each connection's transaction and uncommitted rows
    lock,          \* row locks
    was, last, back  \* ghosts: content a batch wrote over, last batch to write a
                     \* row, how often each row of a batch was put back

data  == <<row, seq, batch, journal, card>>
ghost == <<was, last, back>>
vars  == <<data, tx, work, lock, ghost>>

Content(r) == IF r \in {None, Gone} THEN None ELSE <<r.val, r.at>>
Seen(c, k) == IF work[c][k] = None THEN row[k] ELSE IF work[c][k] = Gone THEN None ELSE work[c][k]
Idle(c) == tx[c].op = "idle"
RowFree(c, k) == lock[k] \in {None, c}
NoScopes(c, S) == TRUE                    \* fault: the route takes no scope locks
ScopesFree(c, S) == \A d \in Conns \ {c} : tx[d].keys \cap S = {}
Fresh(v) == [val |-> v, at |-> seq + 1, ver |-> seq + 1]
PutBack(b, S) == [back EXCEPT ![b] = [k \in Keys |-> IF k \in S THEN @[k] + 1 ELSE @[k]]]
Journaled(b) == {k \in Keys : journal[b][k] # None}

Init ==
    /\ row \in [Keys -> {None} \cup [val : Vals, at : {0}, ver : {0}]]
    /\ seq = 0
    /\ batch = [b \in Batches |-> "new"]
    /\ journal = [b \in Batches |-> [k \in Keys |-> None]]
    /\ card = [b \in Batches |-> "none"]
    /\ tx = [c \in Conns |-> NoTx]
    /\ work = [c \in Conns |-> [k \in Keys |-> None]]
    /\ lock = [k \in Keys |-> None]
    /\ was = [b \in Batches |-> [k \in Keys |-> None]]
    /\ last = [k \in Keys |-> None]
    /\ back = [b \in Batches |-> [k \in Keys |-> 0]]

-----------------------------------------------------------------------------
(* A batch.                                                                  *)

ExecuteBegin(c, b, kind, p) ==
    /\ Idle(c) /\ batch[b] = "new"
    /\ \A d \in Conns : tx[d].b # b
    /\ ScopesFree(c, DOMAIN p)
    /\ tx' = [tx EXCEPT ![c] = [op |-> kind, b |-> b, plan |-> p, todo |-> DOMAIN p,
                                keys |-> DOMAIN p, read |-> None]]
    /\ UNCHANGED <<data, work, lock, ghost>>

(* bulk_apply_execute reads the row without a lock; _journal_before reads it *)
(* FOR UPDATE, which locks nothing when there is no row.                     *)
BeforeImage(c, k) ==
    IF tx[c].plan[k] = None /\ Seen(c, k) = None THEN None
    ELSE [before |-> Seen(c, k), after |-> None]

JournalBefore(c, k) ==
    /\ tx[c].op \in Kinds /\ tx[c].read = None /\ k \in tx[c].todo
    /\ IF tx[c].op = "editor" /\ Seen(c, k) # None
       THEN RowFree(c, k) /\ lock' = [lock EXCEPT ![k] = c]
       ELSE UNCHANGED lock
    /\ journal' = [journal EXCEPT ![tx[c].b][k] = BeforeImage(c, k)]
    /\ tx' = [tx EXCEPT ![c].read = k]
    /\ UNCHANGED <<row, seq, batch, card, work, ghost>>

(* The row is written, or cleared, and its after image recorded.             *)
WriteRow(c) ==
    LET k == tx[c].read
        b == tx[c].b
        v == tx[c].plan[k]
        old == Seen(c, k)
    IN /\ k # None /\ RowFree(c, k)
       /\ lock' = [lock EXCEPT ![k] = c]
       /\ was' = [was EXCEPT ![b][k] = Content(old)]
       /\ IF v = None
          THEN /\ work' = [work EXCEPT ![c][k] = IF old = None THEN @ ELSE Gone]
               /\ UNCHANGED <<journal, seq>>
          ELSE /\ seq < MaxVersion /\ seq' = seq + 1
               /\ work' = [work EXCEPT ![c][k] = Fresh(v)]
               /\ journal' = [journal EXCEPT ![b][k].after = Fresh(v)]
       /\ tx' = [tx EXCEPT ![c].read = None, ![c].todo = @ \ {k}]
       /\ UNCHANGED <<row, batch, card, last, back>>

End(c) ==
    /\ tx' = [tx EXCEPT ![c] = NoTx]
    /\ work' = [work EXCEPT ![c] = [k \in Keys |-> None]]
    /\ lock' = [k \in Keys |-> IF lock[k] = c THEN None ELSE lock[k]]

ExecuteCommit(c) ==
    /\ tx[c].op \in Kinds /\ tx[c].todo = {}
    /\ row' = [k \in Keys |-> Seen(c, k)]
    /\ batch' = [batch EXCEPT ![tx[c].b] = "done"]
    /\ last' = [k \in Keys |-> IF work[c][k] = None THEN last[k] ELSE tx[c].b]
    /\ End(c)
    /\ UNCHANGED <<seq, journal, card, was, back>>

-----------------------------------------------------------------------------
(* Its undo.                                                                 *)

Undoable(b) == batch[b] = "done"

UndoBegin(c, b) ==
    /\ Idle(c) /\ Undoable(b)
    /\ ScopesFree(c, Journaled(b))
    /\ tx' = [tx EXCEPT ![c] = [op |-> "undo", b |-> b, plan |-> <<>>, todo |-> Journaled(b),
                                keys |-> Journaled(b), read |-> None]]
    /\ UNCHANGED <<data, work, lock, ghost>>

SameContent(r, j) == Content(r) # None /\ r.val = j.after.val  \* fault: compares the columns only
Untouched(r, j) == r = j.after
PutsBack(r, j) ==
    IF j.after = None THEN r = None /\ j.before # None ELSE Untouched(r, j)

UndoRow(c, k) ==
    LET j == journal[tx[c].b][k]
        r == Seen(c, k)
    IN /\ tx[c].op = "undo" /\ k \in tx[c].todo /\ RowFree(c, k)
       /\ lock' = IF r = None /\ ~PutsBack(r, j) THEN lock ELSE [lock EXCEPT ![k] = c]
       /\ IF PutsBack(r, j)
          THEN /\ seq < MaxVersion /\ seq' = seq + 1
               /\ work' = [work EXCEPT ![c][k] =
                     IF j.before = None THEN Gone ELSE [j.before EXCEPT !.ver = seq + 1]]
          ELSE UNCHANGED <<seq, work>>
       /\ tx' = [tx EXCEPT ![c].todo = @ \ {k}]
       /\ UNCHANGED <<row, batch, journal, card, ghost>>

UndoCommit(c) ==
    LET b == tx[c].b
        restored == {k \in Keys : work[c][k] # None}
    IN /\ tx[c].op = "undo" /\ tx[c].todo = {}
       /\ row' = [k \in Keys |-> Seen(c, k)]
       /\ batch' = [batch EXCEPT ![b] = "undone"]
       /\ last' = [k \in Keys |-> IF k \in restored THEN None ELSE last[k]]
       /\ back' = PutBack(b, restored)
       /\ End(c)
       /\ UNCHANGED <<seq, journal, card, was>>

UndoRefused(b) == batch[b] = "undone" /\ UNCHANGED vars   \* 409

(* Rolled back: the journal of an unfinished batch goes with it.             *)
Abort(c) ==
    /\ ~Idle(c)
    /\ journal' = IF tx[c].op \in Kinds
                  THEN [journal EXCEPT ![tx[c].b] = [k \in Keys |-> None]] ELSE journal
    /\ was' = IF tx[c].op \in Kinds
              THEN [was EXCEPT ![tx[c].b] = [k \in Keys |-> None]] ELSE was
    /\ End(c)
    /\ UNCHANGED <<row, seq, batch, card, last, back>>

-----------------------------------------------------------------------------
(* The assistant applies and undoes a batch under table locks that exclude   *)
(* every uncommitted write: one step each.                                   *)
TableFree(S) ==
    /\ \A c \in Conns : tx[c].keys \cap S = {} /\ work[c] = [k \in Keys |-> None]
    /\ \A k \in S : lock[k] = None

CardApply(b, p) ==
    /\ batch[b] = "new" /\ \A c \in Conns : tx[c].b # b
    /\ \A k \in DOMAIN p : p[k] # None
    /\ TableFree(DOMAIN p)
    /\ seq < MaxVersion /\ seq' = seq + 1
    /\ row' = [k \in Keys |-> IF k \in DOMAIN p THEN Fresh(p[k]) ELSE row[k]]
    /\ journal' = [journal EXCEPT ![b] = [k \in Keys |->
          IF k \in DOMAIN p THEN [before |-> row[k], after |-> Fresh(p[k])] ELSE None]]
    /\ batch' = [batch EXCEPT ![b] = "done"]
    /\ card' = [card EXCEPT ![b] = "applied"]
    /\ was' = [was EXCEPT ![b] = [k \in Keys |-> Content(row[k])]]
    /\ last' = [k \in Keys |-> IF k \in DOMAIN p THEN b ELSE last[k]]
    /\ UNCHANGED <<back, tx, work, lock>>

(* staging.undo_change_set compares without the version, and refuses all of  *)
(* the rows when one has changed.                                            *)
CardUndo(b) ==
    LET S == Journaled(b)
    IN /\ card[b] = "applied"
       /\ TableFree(S)
       /\ \A k \in S : Content(row[k]) = Content(journal[b][k].after)
       /\ seq < MaxVersion /\ seq' = seq + 1
       /\ row' = [k \in Keys |->
             IF k \notin S THEN row[k]
             ELSE IF journal[b][k].before = None THEN None
             ELSE [journal[b][k].before EXCEPT !.ver = seq + 1]]
       /\ card' = [card EXCEPT ![b] = "undone"]
       /\ last' = [k \in Keys |-> IF k \in S THEN None ELSE last[k]]
       /\ back' = PutBack(b, {k \in S : Content(row[k]) # Content(journal[b][k].before)})
       /\ UNCHANGED <<batch, journal, was, tx, work, lock>>

-----------------------------------------------------------------------------
(* Everyone else, in a transaction of one write.                             *)
Put(k, r) ==
    /\ lock[k] = None /\ row[k] # r
    /\ seq < MaxVersion /\ seq' = seq + 1
    /\ row' = [row EXCEPT ![k] = r]
    /\ UNCHANGED <<batch, journal, card, tx, work, lock, was, back>>

(* The image import route writes without asking for the row's scope.         *)
Unlocked(v) == v \in Outside

Edit(k) ==
    /\ \E v \in Vals \cup {None} :
          /\ ~Unlocked(v) => ScopesFree(None, {k})
          /\ Put(k, IF v = None THEN None ELSE Fresh(v))
    /\ last' = [last EXCEPT ![k] = None]

(* A dependency trigger touches the row: the version moves, nothing else.    *)
Bump(k) ==
    /\ row[k] # None
    /\ Put(k, [row[k] EXCEPT !.ver = seq + 1])
    /\ UNCHANGED last

Next ==
    \/ \E c \in Conns :
          \/ \E b \in Batches, kind \in Kinds, p \in Plans : ExecuteBegin(c, b, kind, p)
          \/ \E k \in Keys : JournalBefore(c, k) \/ UndoRow(c, k)
          \/ WriteRow(c) \/ ExecuteCommit(c) \/ UndoCommit(c) \/ Abort(c)
          \/ \E b \in Batches : UndoBegin(c, b)
    \/ \E b \in Batches : UndoRefused(b) \/ CardUndo(b) \/ \E p \in Plans : CardApply(b, p)
    \/ \E k \in Keys : Edit(k) \/ Bump(k)

Spec == Init /\ [][Next]_vars

-----------------------------------------------------------------------------
(* Properties.                                                               *)

(* Every variable keeps the shape of what it models, and a journal row says  *)
(* something: the batch found a row there, or left one.                      *)
TypeOK ==
    /\ row \in [Keys -> Row \cup {None}] /\ seq \in Nat
    /\ batch \in [Batches -> {"new", "done", "undone"}]
    /\ journal \in [Batches -> [Keys -> Journal \cup {None}]]
    /\ card \in [Batches -> {"none", "applied", "undone"}]
    /\ \A c \in Conns : tx[c].op \in Kinds \cup {"idle", "undo"} /\ tx[c].todo \subseteq tx[c].keys
    /\ work \in [Conns -> [Keys -> Row \cup {None, Gone}]]
    /\ lock \in [Keys -> Conns \cup {None}]
    /\ \A b \in Batches : \A k \in Journaled(b) : batch[b] # "new" =>
          journal[b][k].before # None \/ journal[b][k].after # None

(* c's undo has just dealt with row k, and put it back or left it.           *)
Decided(c, k) == tx[c].op = "undo" /\ k \in tx[c].todo /\ (tx')[c].op = "undo" /\ k \notin (tx')[c].todo
Entry(c, k) == journal[tx[c].b][k]

(* The undo of a batch never writes over somebody's later edit, not even one *)
(* that has put the same columns back.                                       *)
UndoLeavesEdits ==
    [][\A c \in Conns, k \in Keys :
         Decided(c, k) /\ (work')[c][k] # None /\ Entry(c, k).after # None
           => last[k] = tx[c].b]_vars

(* "Restores every assignment to its pre-batch state": a row that is put     *)
(* back is what it was just before the batch wrote it, and no row of a batch *)
(* is put back twice ("the editor's own batch undo and the assistant's undo  *)
(* each refuse rows the other already restored").                            *)
RestoresPreBatch ==
    /\ [](TypeOK /\ \A b \in Batches, k \in Keys : back[b][k] <= 1)
    /\ [][\A c \in Conns, k \in Keys :
            Decided(c, k) /\ (work')[c][k] # None
              => Content((work')[c][k]) = was[tx[c].b][k]]_vars

==============================================================================
