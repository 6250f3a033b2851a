------------------------------ MODULE BulkProofs ------------------------------
(* Theorems about BulkBatch: an undo leaves later edits alone, and puts back *)
(* what was there before the batch, once.                                    *)
EXTENDS BulkBatch, TLAPS

Executing(c) == tx[c].op \in Kinds
Undoing(c) == tx[c].op = "undo"
Afters(b) == {k \in Keys : journal[b][k] # None /\ journal[b][k].after # None}
Befores(b) == {k \in Keys : journal[b][k] # None /\ journal[b][k].before # None}

-----------------------------------------------------------------------------
(* Transactions, and what they have written.                                 *)
Tx == [op : Kinds \cup {"idle", "undo"}, b : Batches \cup {None}, plan : Plans \cup {<<>>},
       todo : SUBSET Keys, keys : SUBSET Keys, read : Keys \cup {None}]
Tables ==
    /\ row \in [Keys -> Row \cup {None}] /\ seq \in Nat
    /\ batch \in [Batches -> {"new", "done", "undone"}]
    /\ journal \in [Batches -> [Keys -> Journal \cup {None}]]
    /\ card \in [Batches -> {"none", "applied", "undone"}]
    /\ tx \in [Conns -> Tx]
    /\ work \in [Conns -> [Keys -> Row \cup {None, Gone}]]
    /\ lock \in [Keys -> Conns \cup {None}]
Ghosts ==
    /\ last \in [Keys -> Batches \cup {None}]
    /\ back \in [Batches -> [Keys -> Nat]]
    /\ was \in [Batches -> [Keys -> (Vals \X Nat) \cup {None}]]

At(c) ==
    /\ Idle(c) => tx[c] = NoTx
    /\ ~Idle(c) => tx[c].b \in Batches
    /\ Executing(c) => /\ batch[tx[c].b] = "new" /\ tx[c].plan \in Plans
                       /\ tx[c].keys = DOMAIN tx[c].plan
    /\ Undoing(c) => /\ batch[tx[c].b] # "new" /\ tx[c].keys = Journaled(tx[c].b)
                     /\ tx[c].keys # {} => batch[tx[c].b] = "done"
                     /\ tx[c].read = None
    /\ tx[c].todo \subseteq tx[c].keys
    /\ tx[c].read # None => tx[c].read \in tx[c].todo
    /\ \A k \in Keys : work[c][k] # None => k \in tx[c].keys \ tx[c].todo /\ lock[k] = c

Apart ==
    \A c, d \in Conns : c # d =>
        /\ tx[c].keys \cap tx[d].keys = {}
        /\ Executing(c) /\ Executing(d) => tx[c].b # tx[d].b
Unbegun ==
    \A b \in Batches : batch[b] = "new" /\ (\A c \in Conns : tx[c].b # b) =>
        \A k \in Keys : journal[b][k] = None

(* The journal of a batch in progress says what is written and what is read. *)
JournalOf(c) ==
    LET b == tx[c].b
        p == tx[c].plan
    IN \A k \in Keys :
        /\ journal[b][k] # None => k \in tx[c].keys
        /\ k \in tx[c].todo /\ journal[b][k] # None => k = tx[c].read /\ journal[b][k].after = None
        /\ k = tx[c].read /\ p[k] # None => journal[b][k] # None
        /\ k \in tx[c].keys \ tx[c].todo /\ p[k] # None =>
              work[c][k] \in Row /\ journal[b][k] # None /\ journal[b][k].after = work[c][k]
        /\ k \in tx[c].keys /\ p[k] = None =>
              /\ work[c][k] \in {None, Gone}
              /\ journal[b][k] # None => journal[b][k].after = None /\ journal[b][k].before # None
Journals ==
    /\ \A c \in Conns : Executing(c) => JournalOf(c)
    /\ \A b \in Batches : batch[b] # "new" => Journaled(b) \subseteq Afters(b) \cup Befores(b)

Drawn(r) == r.at <= r.ver /\ r.ver <= seq
Versions ==
    /\ \A k \in Keys : row[k] # None => Drawn(row[k])
    /\ \A c \in Conns, k \in Keys : work[c][k] # None => Drawn(work[c][k])
    /\ \A b \in Batches : \A k \in Befores(b) : Drawn(journal[b][k].before)
    /\ \A b \in Batches : \A k \in Afters(b) :
          Drawn(journal[b][k].after) /\ journal[b][k].after.at = journal[b][k].after.ver
          /\ journal[b][k].after.ver # 0

(* No version is drawn twice: not for two batches, nor for an undo.          *)
DrawnOnce ==
    /\ \A b, d \in Batches : \A k \in Afters(b) \cap Afters(d) :
          journal[b][k].after.ver = journal[d][k].after.ver => b = d
    /\ \A c \in Conns, b \in Batches : \A k \in Afters(b) :
          Undoing(c) /\ work[c][k] # None => work[c][k].ver # journal[b][k].after.ver
LastWrote ==
    \A b \in Batches : \A k \in Afters(b) :
        batch[b] # "new" /\ row[k] = journal[b][k].after => last[k] = b

BulkInv == Tables /\ Ghosts /\ (\A c \in Conns : At(c)) /\ Apart /\ Unbegun /\ Journals /\ Versions
           /\ DrawnOnce /\ LastWrote


-----------------------------------------------------------------------------
(* The before images.                                                        *)
Images(c) ==
    \A k \in Keys : Executing(c) /\ journal[tx[c].b][k] # None =>
        /\ Content(journal[tx[c].b][k].before) = Content(row[k])
        /\ k \notin tx[c].todo =>
              /\ Content(journal[tx[c].b][k].before) = was[tx[c].b][k]
              /\ tx[c].plan[k] = None => work[c][k] = Gone
ImageKept ==
    \A b \in Batches : \A k \in Journaled(b) :
        batch[b] # "new" => Content(journal[b][k].before) = was[b][k]

(* What an undo is about to commit.                                          *)
Pending(c) ==
    \A k \in Keys : Undoing(c) /\ work[c][k] # None =>
        /\ k \in Afters(tx[c].b) => row[k] = journal[tx[c].b][k].after
        /\ work[c][k] # Gone => /\ k \in Befores(tx[c].b)
                               /\ work[c][k].at = journal[tx[c].b][k].before.at
                               /\ work[c][k].ver # work[c][k].at

(* A row as it was inserted is in the before image of no batch that is done. *)
Untold ==
    /\ \A b \in Batches : \A k \in Befores(b) :
          batch[b] # "new" /\ row[k] # None /\ row[k].ver = row[k].at
            => journal[b][k].before.at # row[k].at
    /\ \A c \in Conns, b \in Batches : \A k \in Befores(b) :
          Executing(c) /\ work[c][k] \in Row => journal[b][k].before.at # work[c][k].at

(* Put back once.                                                            *)
Cards ==
    \A b \in Batches : card[b] # "none" => batch[b] # "new" /\ Journaled(b) = Afters(b)
NotYet ==
    \A b \in Batches, k \in Keys : back[b][k] # 0 =>
        /\ batch[b] = "undone" \/ (batch[b] = "done" /\ card[b] = "undone")
        /\ k \in Afters(b) /\ row[k] # None => row[k].ver # journal[b][k].after.ver
        /\ back[b][k] = 1

(* The stamps a row carries somewhere, and could come to carry again: what   *)
(* an undo has put back over is nowhere to be restored from.                 *)
Known(k, a) ==
    \/ row[k] # None /\ row[k].at = a
    \/ \E c \in Conns : work[c][k] # None /\ work[c][k].at = a
    \/ \E b \in Batches : k \in Befores(b) /\ journal[b][k].before.at = a
Dead ==
    \A b \in Batches, k \in Keys :
        batch[b] = "undone" /\ card[b] = "applied" /\ back[b][k] # 0 =>
            k \in Afters(b) /\ ~ Known(k, journal[b][k].after.at)

OnceInv == BulkInv /\ (\A c \in Conns : Images(c) /\ Pending(c)) /\ ImageKept /\ Untold /\ Cards
           /\ NotYet /\ Dead

-----------------------------------------------------------------------------
(* The rows that are written.                                                *)

LEMMA NoRow == /\ None \notin Row /\ Gone \notin Row /\ None # Gone /\ None \notin Journal
               /\ None \notin Keys \cup Vals \cup Batches \cup Conns
               /\ "idle" \notin Kinds /\ "undo" \notin Kinds
  <1>1. Gone \notin Row
    BY BulkAssumption DEF Gone, Row
  <1> QED BY <1>1, BulkAssumption DEF Kinds

LEMMA FreshIs ==
    ASSUME seq \in Nat, NEW v \in Vals
    PROVE  Fresh(v) \in Row /\ Fresh(v).at = seq + 1 /\ Fresh(v).ver = seq + 1
  BY DEF Fresh, Row

(* A row that is touched or put back has a new version, and the same content. *)
LEMMA StampedIs ==
    ASSUME seq \in Nat, NEW r \in Row
    PROVE  /\ [r EXCEPT !.ver = seq + 1] \in Row
           /\ [r EXCEPT !.ver = seq + 1].at = r.at /\ [r EXCEPT !.ver = seq + 1].ver = seq + 1
           /\ Content([r EXCEPT !.ver = seq + 1]) = Content(r)
  <1> DEFINE s == [r EXCEPT !.ver = seq + 1]
  <1>1. s \in Row /\ s.at = r.at /\ s.ver = seq + 1 /\ s.val = r.val
    BY DEF Row
  <1> HIDE DEF s
  <1>2. Content(s) = Content(r)
    BY <1>1, NoRow DEF Content
  <1> QED BY <1>1, <1>2 DEF s

LEMMA SeenIs ==
    ASSUME Tables, NEW c \in Conns, NEW k \in Keys
    PROVE  /\ Seen(c, k) \in Row \cup {None}
           /\ work[c][k] = None => Seen(c, k) = row[k]
           /\ work[c][k] = Gone => Seen(c, k) = None
           /\ work[c][k] \in Row => Seen(c, k) = work[c][k]
  <1>1. row[k] \in Row \cup {None} /\ work[c][k] \in Row \cup {None, Gone}
    BY DEF Tables
  <1> QED BY <1>1, NoRow DEF Seen

(* Contents are told apart from nothing.                                     *)
LEMMA ContentIs ==
    ASSUME NEW r \in Row PROVE Content(r) = <<r.val, r.at>> /\ Content(r) # None /\ Content(r) \in Vals \X Nat
  <1>1. Content(r) = <<r.val, r.at>>
    BY NoRow DEF Content
  <1>2. <<r.val, r.at>> \in Vals \X Nat
    BY DEF Row
  <1> QED BY <1>1, <1>2, BulkAssumption

LEMMA PlanIs ==
    ASSUME NEW p \in Plans PROVE DOMAIN p \in SUBSET Keys /\ \A k \in DOMAIN p : p[k] \in Vals \cup {None}
  <1>1. PICK S \in SUBSET Keys : p \in [S -> Vals \cup {None}]
    BY BulkAssumption
  <1> QED BY <1>1

-----------------------------------------------------------------------------
(* Types.                                                                    *)

LEMMA NoTxIs == NoTx \in Tx
  <1>1. <<>> \in Plans \cup {<<>>} /\ {} \in SUBSET Keys /\ None \in Batches \cup {None} /\ None \in Keys \cup {None}
    OBVIOUS
  <1> QED BY <1>1 DEF NoTx, Tx

LEMMA EndTypes ==
    ASSUME Tables, NEW c \in Conns, End(c)
    PROVE  tx' \in [Conns -> Tx] /\ work' \in [Conns -> [Keys -> Row \cup {None, Gone}]]
           /\ lock' \in [Keys -> Conns \cup {None}]
  BY NoTxIs DEF Tables, End

LEMMA BeginTypes ==
    ASSUME Tables, NEW c \in Conns, NEW b \in Batches,
           \/ \E kind \in Kinds, p \in Plans : ExecuteBegin(c, b, kind, p)
           \/ UndoBegin(c, b)
    PROVE  Tables'
  <1>1. PICK t \in Tx : tx' = [tx EXCEPT ![c] = t]
    <2>1. CASE UndoBegin(c, b)
      <3>1. Journaled(b) \in SUBSET Keys
        BY DEF Journaled
      <3> QED BY <2>1, <3>1 DEF UndoBegin, Tx
    <2>2. CASE \E kind \in Kinds, p \in Plans : ExecuteBegin(c, b, kind, p)
      <3>1. PICK kind \in Kinds, p \in Plans : ExecuteBegin(c, b, kind, p)
        BY <2>2
      <3> QED BY <3>1, PlanIs DEF ExecuteBegin, Tx
    <2> QED BY <2>1, <2>2
  <1>2. UNCHANGED <<data, work, lock>>
    BY DEF ExecuteBegin, UndoBegin
  <1> QED BY <1>1, <1>2 DEF Tables, data

(* What each step reads, and the parts it writes.                            *)
LEMMA AtExecuting ==
    ASSUME BulkInv, NEW c \in Conns, Executing(c)
    PROVE  /\ tx[c].b \in Batches /\ batch[tx[c].b] = "new" /\ tx[c].plan \in Plans
           /\ tx[c].keys = DOMAIN tx[c].plan /\ tx[c].keys \in SUBSET Keys
           /\ tx[c].todo \subseteq tx[c].keys /\ JournalOf(c)
  BY NoRow, PlanIs DEF BulkInv, At, Executing, Idle, Journals

LEMMA AtUndoing ==
    ASSUME BulkInv, NEW c \in Conns, Undoing(c)
    PROVE  /\ tx[c].b \in Batches /\ batch[tx[c].b] # "new" /\ tx[c].keys = Journaled(tx[c].b)
           /\ tx[c].keys # {} => batch[tx[c].b] = "done"
           /\ tx[c].read = None /\ tx[c].todo \subseteq tx[c].keys
  BY DEF BulkInv, At, Undoing, Idle

LEMMA WriterIs ==
    ASSUME BulkInv, NEW c \in Conns, WriteRow(c)
    PROVE  Executing(c) /\ tx[c].read \in Keys /\ tx[c].read \in tx[c].todo
  <1>1. tx[c].read # None /\ tx[c] \in Tx /\ At(c)
    BY DEF WriteRow, BulkInv, Tables
  <1>2. tx[c].op \in Kinds \cup {"idle", "undo"} /\ tx[c].read \in Keys /\ tx[c].read \in tx[c].todo
    BY <1>1 DEF Tx, At
  <1>3. tx[c] # NoTx
    BY <1>1 DEF NoTx
  <1> QED BY <1>1, <1>2, <1>3 DEF At, Idle, Undoing, Executing

LEMMA JournalBeforeDoes ==
    ASSUME BulkInv, NEW c \in Conns, NEW k \in Keys, JournalBefore(c, k)
    PROVE  /\ Executing(c) /\ k \in tx[c].todo /\ tx[c].read = None
           /\ \E img \in Journal \cup {None} :
                /\ journal' = [journal EXCEPT ![tx[c].b][k] = img]
                /\ img = None <=> tx[c].plan[k] = None /\ Seen(c, k) = None
                /\ img # None => img.before = Seen(c, k) /\ img.after = None
           /\ tx' = [tx EXCEPT ![c].read = k]
           /\ UNCHANGED <<row, seq, batch, card, work, ghost>>
           /\ \/ lock[k] \in {None, c} /\ lock' = [lock EXCEPT ![k] = c]
              \/ UNCHANGED lock
  <1>1. Tables
    BY DEF BulkInv
  <1>2. Seen(c, k) \in Row \cup {None}
    BY <1>1, SeenIs
  <1>3. BeforeImage(c, k) \in Journal \cup {None}
    BY <1>2 DEF BeforeImage, Journal
  <1>4. BeforeImage(c, k) = None <=> tx[c].plan[k] = None /\ Seen(c, k) = None
    BY <1>3, <1>2, NoRow DEF BeforeImage, Journal
  <1>5. BeforeImage(c, k) # None => BeforeImage(c, k).before = Seen(c, k) /\ BeforeImage(c, k).after = None
    BY DEF BeforeImage
  <1>6. \/ lock[k] \in {None, c} /\ lock' = [lock EXCEPT ![k] = c]
        \/ UNCHANGED lock
    BY DEF JournalBefore, RowFree
  <1> QED BY <1>3, <1>4, <1>5, <1>6 DEF JournalBefore, Executing

LEMMA WriteRowDoes ==
    ASSUME BulkInv, NEW c \in Conns, WriteRow(c)
    PROVE  LET k == tx[c].read
               b == tx[c].b
               v == tx[c].plan[k]
           IN /\ Executing(c) /\ k \in Keys /\ k \in tx[c].todo /\ lock[k] \in {None, c}
              /\ lock' = [lock EXCEPT ![k] = c]
              /\ was' = [was EXCEPT ![b][k] = Content(Seen(c, k))]
              /\ \/ /\ v = None /\ UNCHANGED <<journal, seq>>
                    /\ \E w \in {work[c][k], Gone} :
                          /\ work' = [work EXCEPT ![c][k] = w]
                          /\ Seen(c, k) # None => w = Gone
                 \/ /\ v \in Vals /\ seq' = seq + 1
                    /\ work' = [work EXCEPT ![c][k] = Fresh(v)]
                    /\ journal' = [journal EXCEPT ![b][k].after = Fresh(v)]
              /\ tx' = [tx EXCEPT ![c].read = None, ![c].todo = @ \ {k}]
              /\ UNCHANGED <<row, batch, card, last, back>>
  <1> DEFINE k == tx[c].read
             v == tx[c].plan[k]
  <1>1. Executing(c) /\ k \in Keys /\ k \in tx[c].todo
    BY WriterIs
  <1>2. v \in Vals \cup {None}
    BY <1>1, AtExecuting, PlanIs
  <1>3. CASE v = None
    BY <1>1, <1>3 DEF WriteRow, RowFree
  <1>4. CASE v # None
    BY <1>1, <1>2, <1>4 DEF WriteRow, RowFree
  <1> QED BY <1>3, <1>4

LEMMA UndoRowDoes ==
    ASSUME BulkInv, NEW c \in Conns, NEW k \in Keys, UndoRow(c, k)
    PROVE  /\ Undoing(c) /\ k \in tx[c].todo /\ journal[tx[c].b][k] \in Journal
           /\ work[c][k] = None /\ Seen(c, k) = row[k] /\ lock[k] \in {None, c}
           /\ \/ /\ ~ PutsBack(row[k], journal[tx[c].b][k])
                 /\ UNCHANGED <<seq, work>>
                 /\ \E h \in {lock[k], c} : lock' = [lock EXCEPT ![k] = h]
              \/ /\ PutsBack(row[k], journal[tx[c].b][k])
                 /\ seq' = seq + 1 /\ lock' = [lock EXCEPT ![k] = c]
                 /\ \/ /\ journal[tx[c].b][k].before = None
                       /\ work' = [work EXCEPT ![c][k] = Gone]
                    \/ /\ journal[tx[c].b][k].before \in Row
                       /\ work' = [work EXCEPT ![c][k] = [journal[tx[c].b][k].before EXCEPT !.ver = seq + 1]]
           /\ tx' = [tx EXCEPT ![c].todo = @ \ {k}]
           /\ UNCHANGED <<row, batch, journal, card, ghost>>
  <1>1. Undoing(c) /\ k \in tx[c].todo /\ Tables /\ At(c)
    BY DEF UndoRow, Undoing, BulkInv
  <1>2. journal[tx[c].b][k] \in Journal
    BY <1>1, AtUndoing DEF Journaled, Tables
  <1>3. work[c][k] = None /\ Seen(c, k) = row[k]
    BY <1>1, SeenIs DEF At
  <1>4. journal[tx[c].b][k].before \in Row \cup {None}
    BY <1>2 DEF Journal
  <1>5. lock \in [Keys -> Conns \cup {None}]
    BY <1>1 DEF Tables
  <1>6. CASE PutsBack(row[k], journal[tx[c].b][k])
    BY <1>1, <1>2, <1>3, <1>4, <1>6 DEF UndoRow, RowFree
  <1>7. CASE ~ PutsBack(row[k], journal[tx[c].b][k])
    <2>1. \E h \in {lock[k], c} : lock' = [lock EXCEPT ![k] = h]
      BY <1>3, <1>5, <1>7 DEF UndoRow
    <2> QED BY <1>1, <1>2, <1>3, <1>7, <2>1 DEF UndoRow, RowFree
  <1> QED BY <1>6, <1>7

(* A transaction goes on to another row.                                     *)
LEMMA TxGoesOn ==
    ASSUME NEW t \in Tx, NEW k \in Keys \cup {None}, NEW j
    PROVE  /\ [t EXCEPT !.read = k] \in Tx /\ [t EXCEPT !.todo = @ \ {j}] \in Tx
           /\ [t EXCEPT !.read = None, !.todo = @ \ {j}] \in Tx
  BY DEF Tx

LEMMA ExecuteTypes ==
    ASSUME BulkInv, NEW c \in Conns,
           (\E k \in Keys : JournalBefore(c, k)) \/ WriteRow(c)
    PROVE  Tables' /\ Ghosts'
  <1>1. Tables /\ Ghosts
    BY DEF BulkInv
  <1>2. CASE \E k \in Keys : JournalBefore(c, k)
    <2>1. PICK k \in Keys : JournalBefore(c, k)
      BY <1>2
    <2>2. tx' \in [Conns -> Tx]
      <3>1. tx' = [tx EXCEPT ![c].read = k]
        BY <2>1, JournalBeforeDoes
      <3>2. tx' = [tx EXCEPT ![c] = [tx[c] EXCEPT !.read = k]]
        BY <3>1
      <3> QED BY <1>1, <3>2, TxGoesOn DEF Tables
    <2>3. journal' \in [Batches -> [Keys -> Journal \cup {None}]] /\ lock' \in [Keys -> Conns \cup {None}]
      <3>1. tx[c].b \in Batches
        BY <2>1, JournalBeforeDoes, AtExecuting
      <3>2. PICK img \in Journal \cup {None} :
               /\ journal' = [journal EXCEPT ![tx[c].b][k] = img]
               /\ img = None <=> tx[c].plan[k] = None /\ Seen(c, k) = None
               /\ img # None => img.before = Seen(c, k) /\ img.after = None
        BY <2>1, JournalBeforeDoes
      <3>3. UNCHANGED lock \/ lock' = [lock EXCEPT ![k] = c]
        BY <2>1, JournalBeforeDoes
      <3>4. journal' \in [Batches -> [Keys -> Journal \cup {None}]]
        BY <1>1, <3>1, <3>2 DEF Tables
      <3>5. lock' \in [Keys -> Conns \cup {None}]
        BY <1>1, <3>3 DEF Tables
      <3> QED BY <3>4, <3>5
    <2>4. UNCHANGED <<row, seq, batch, card, work, ghost>>
      BY <2>1, JournalBeforeDoes
    <2> QED BY <1>1, <2>2, <2>3, <2>4 DEF Tables, Ghosts, ghost
  <1>3. CASE WriteRow(c)
    <2> DEFINE k == tx[c].read
               b == tx[c].b
               v == tx[c].plan[k]
    <2>1. Executing(c) /\ k \in Keys /\ b \in Batches
      BY <1>3, WriterIs, AtExecuting
    <2>2. tx' \in [Conns -> Tx]
      <3>1. tx' = [tx EXCEPT ![c].read = None, ![c].todo = @ \ {k}]
        BY <1>3, WriteRowDoes
      <3>2. tx' = [tx EXCEPT ![c] = [tx[c] EXCEPT !.read = None, !.todo = @ \ {k}]]
        BY <1>1, <3>1 DEF Tables
      <3> QED BY <1>1, <3>2, TxGoesOn DEF Tables
    <2>3. lock' \in [Keys -> Conns \cup {None}]
      <3>1. lock' = [lock EXCEPT ![k] = c]
        BY <1>3, WriteRowDoes
      <3> QED BY <1>1, <3>1 DEF Tables
    <2>4. Ghosts'
      <3>1. Seen(c, k) \in Row \cup {None}
        BY <1>1, <2>1, SeenIs
      <3>2. Content(Seen(c, k)) \in (Vals \X Nat) \cup {None}
        BY <3>1, ContentIs DEF Content
      <3>3. was' = [was EXCEPT ![b][k] = Content(Seen(c, k))] /\ UNCHANGED <<last, back>>
        BY <1>3, WriteRowDoes
      <3> QED BY <1>1, <2>1, <3>2, <3>3 DEF Ghosts
    <2>5. work' \in [Conns -> [Keys -> Row \cup {None, Gone}]] /\ seq' \in Nat
          /\ journal' \in [Batches -> [Keys -> Journal \cup {None}]]
      <3>1. CASE /\ v \in Vals /\ seq' = seq + 1
                 /\ work' = [work EXCEPT ![c][k] = Fresh(v)]
                 /\ journal' = [journal EXCEPT ![b][k].after = Fresh(v)]
        <4>1. Fresh(v) \in Row
          BY <1>1, <3>1, FreshIs DEF Tables
        <4>2. journal[b][k] \in Journal
          <5>1. v # None /\ JournalOf(c)
            BY <2>1, <3>1, NoRow, AtExecuting
          <5> QED BY <1>1, <2>1, <5>1 DEF JournalOf, Tables
        <4>3. [journal[b][k] EXCEPT !.after = Fresh(v)] \in Journal
          BY <4>1, <4>2 DEF Journal
        <4>4. journal' = [journal EXCEPT ![b][k] = [journal[b][k] EXCEPT !.after = Fresh(v)]]
          BY <1>1, <2>1, <3>1 DEF Tables
        <4> QED BY <1>1, <2>1, <3>1, <4>1, <4>3, <4>4 DEF Tables
      <3>2. CASE UNCHANGED <<journal, seq>> /\ \E w \in {work[c][k], Gone} : work' = [work EXCEPT ![c][k] = w]
        BY <1>1, <2>1, <3>2 DEF Tables
      <3> QED BY <1>3, <3>1, <3>2, WriteRowDoes
    <2>6. UNCHANGED <<row, batch, card>>
      BY <1>3, WriteRowDoes
    <2> QED BY <1>1, <2>2, <2>3, <2>4, <2>5, <2>6 DEF Tables
  <1> QED BY <1>2, <1>3

LEMMA UndoTypes ==
    ASSUME BulkInv, NEW c \in Conns, NEW k \in Keys, UndoRow(c, k) PROVE Tables' /\ Ghosts'
  <1>1. Tables /\ Ghosts /\ journal[tx[c].b][k] \in Journal
    BY UndoRowDoes DEF BulkInv
  <1>2. tx' \in [Conns -> Tx]
    <2>1. tx' = [tx EXCEPT ![c].todo = @ \ {k}]
      BY UndoRowDoes
    <2>2. tx' = [tx EXCEPT ![c] = [tx[c] EXCEPT !.todo = @ \ {k}]]
      BY <1>1, <2>1 DEF Tables
    <2> QED BY <1>1, <2>2, TxGoesOn DEF Tables
  <1>3. lock' \in [Keys -> Conns \cup {None}]
    <2>1. PICK h : h \in {lock[k], c} /\ lock' = [lock EXCEPT ![k] = h]
      BY UndoRowDoes
    <2> QED BY <1>1, <2>1 DEF Tables
  <1>4. work' \in [Conns -> [Keys -> Row \cup {None, Gone}]] /\ seq' \in Nat
    <2>1. CASE UNCHANGED <<seq, work>>
      BY <1>1, <2>1 DEF Tables
    <2>2. CASE seq' = seq + 1 /\ work' = [work EXCEPT ![c][k] = Gone]
      BY <1>1, <2>2 DEF Tables
    <2>3. CASE /\ seq' = seq + 1 /\ journal[tx[c].b][k].before \in Row
               /\ work' = [work EXCEPT ![c][k] = [journal[tx[c].b][k].before EXCEPT !.ver = seq + 1]]
      BY <1>1, <2>3, StampedIs DEF Tables
    <2> QED BY <2>1, <2>2, <2>3, UndoRowDoes
  <1> QED BY <1>1, <1>2, <1>3, <1>4, UndoRowDoes DEF Tables, Ghosts, ghost

LEMMA BackTypes ==
    ASSUME Ghosts, NEW b \in Batches, NEW S
    PROVE  /\ PutBack(b, S) \in [Batches -> [Keys -> Nat]]
           /\ \A d \in Batches, k \in Keys :
                 PutBack(b, S)[d][k] = IF d = b /\ k \in S THEN back[d][k] + 1 ELSE back[d][k]
  <1>1. back \in [Batches -> [Keys -> Nat]]
    BY DEF Ghosts
  <1> DEFINE f == [k \in Keys |-> IF k \in S THEN back[b][k] + 1 ELSE back[b][k]]
  <1>2. PutBack(b, S) = [back EXCEPT ![b] = f]
    BY DEF PutBack
  <1>3. f \in [Keys -> Nat] /\ \A k \in Keys : f[k] = IF k \in S THEN back[b][k] + 1 ELSE back[b][k]
    BY <1>1
  <1> HIDE DEF f
  <1>4. [back EXCEPT ![b] = f] \in [Batches -> [Keys -> Nat]]
    BY <1>1, <1>3
  <1>5. \A d \in Batches : [back EXCEPT ![b] = f][d] = IF d = b THEN f ELSE back[d]
    BY <1>1
  <1> QED BY <1>2, <1>3, <1>4, <1>5

LEMMA EndingTypes ==
    ASSUME BulkInv, NEW c \in Conns, ExecuteCommit(c) \/ UndoCommit(c) \/ Abort(c)
    PROVE  Tables' /\ Ghosts'
  <1>1. Tables /\ Ghosts /\ End(c)
    BY DEF BulkInv, ExecuteCommit, UndoCommit, Abort
  <1>2. tx' \in [Conns -> Tx] /\ work' \in [Conns -> [Keys -> Row \cup {None, Gone}]]
        /\ lock' \in [Keys -> Conns \cup {None}]
    BY <1>1, EndTypes
  <1>3. \A k \in Keys : Seen(c, k) \in Row \cup {None}
    BY <1>1, SeenIs
  <1>4. CASE ExecuteCommit(c)
    <2>1. tx[c].b \in Batches
      BY <1>4, AtExecuting DEF ExecuteCommit, Executing
    <2>2. row' \in [Keys -> Row \cup {None}] /\ batch' \in [Batches -> {"new", "done", "undone"}]
      BY <1>1, <1>3, <1>4 DEF ExecuteCommit, Tables
    <2>3. last' \in [Keys -> Batches \cup {None}] /\ UNCHANGED <<seq, journal, card, was, back>>
      BY <1>1, <1>4, <2>1 DEF ExecuteCommit, Ghosts
    <2> QED BY <1>1, <1>2, <2>2, <2>3 DEF Tables, Ghosts
  <1>5. CASE UndoCommit(c)
    <2>2. row' \in [Keys -> Row \cup {None}] /\ batch' \in [Batches -> {"new", "done", "undone"}]
      BY <1>1, <1>3, <1>5 DEF UndoCommit, Tables
    <2>3. last' \in [Keys -> Batches \cup {None}] /\ back' \in [Batches -> [Keys -> Nat]]
          /\ UNCHANGED <<seq, journal, card, was>>
      <3>1. last' \in [Keys -> Batches \cup {None}]
        BY <1>1, <1>5 DEF UndoCommit, Ghosts
      <3>2. PICK S : back' = PutBack(tx[c].b, S)
        BY <1>5 DEF UndoCommit
      <3>3. tx[c].b \in Batches
        BY <1>5, AtUndoing DEF UndoCommit, Undoing
      <3> QED BY <1>1, <1>5, <3>1, <3>2, <3>3, BackTypes DEF UndoCommit, Ghosts
    <2> QED BY <1>1, <1>2, <2>2, <2>3 DEF Tables, Ghosts
  <1>6. CASE Abort(c)
    <2>1. journal' \in [Batches -> [Keys -> Journal \cup {None}]]
      BY <1>1, <1>6 DEF Abort, Tables
    <2>2. was' \in [Batches -> [Keys -> (Vals \X Nat) \cup {None}]] /\ UNCHANGED <<row, seq, batch, card, last, back>>
      BY <1>1, <1>6 DEF Abort, Ghosts
    <2> QED BY <1>1, <1>2, <2>1, <2>2 DEF Tables, Ghosts
  <1> QED BY <1>4, <1>5, <1>6

LEMMA CardTypes ==
    ASSUME BulkInv, NEW b \in Batches, CardUndo(b) \/ \E p \in Plans : CardApply(b, p)
    PROVE  Tables' /\ Ghosts'
  <1>1. Tables /\ Ghosts
    BY DEF BulkInv
  <1>2. CASE CardUndo(b)
    <2>1. \A k \in Journaled(b) : journal[b][k].before \in Row \cup {None}
      BY <1>1 DEF Journaled, Tables, Journal
    <2>2. row' \in [Keys -> Row \cup {None}]
      BY <1>1, <1>2, <2>1, StampedIs DEF CardUndo, Tables
    <2>3. seq' \in Nat /\ card' \in [Batches -> {"none", "applied", "undone"}]
          /\ UNCHANGED <<batch, journal, was, tx, work, lock>>
      BY <1>1, <1>2 DEF CardUndo, Tables
    <2>4. last' \in [Keys -> Batches \cup {None}] /\ back' \in [Batches -> [Keys -> Nat]]
      BY <1>1, <1>2, BackTypes DEF CardUndo, Ghosts
    <2> QED BY <1>1, <2>2, <2>3, <2>4 DEF Tables, Ghosts
  <1>3. CASE \E p \in Plans : CardApply(b, p)
    <2>1. PICK p \in Plans : CardApply(b, p)
      BY <1>3
    <2>2. \A k \in DOMAIN p : p[k] \in Vals /\ Fresh(p[k]) \in Row
      BY <1>1, <2>1, PlanIs, FreshIs DEF CardApply, Tables
    <2>3. row' \in [Keys -> Row \cup {None}]
      BY <1>1, <2>1, <2>2 DEF CardApply, Tables
    <2>4. journal' \in [Batches -> [Keys -> Journal \cup {None}]]
      <3>1. \A k \in Keys : k \in DOMAIN p => [before |-> row[k], after |-> Fresh(p[k])] \in Journal
        BY <1>1, <2>2 DEF Tables, Journal
      <3>2. \A k \in Keys :
               (IF k \in DOMAIN p THEN [before |-> row[k], after |-> Fresh(p[k])] ELSE None) \in Journal \cup {None}
        BY <3>1
      <3> QED BY <1>1, <2>1, <3>2 DEF CardApply, Tables
    <2>5. batch' \in [Batches -> {"new", "done", "undone"}] /\ card' \in [Batches -> {"none", "applied", "undone"}]
          /\ seq' \in Nat /\ UNCHANGED <<back, tx, work, lock>>
      BY <1>1, <2>1 DEF CardApply, Tables
    <2>6. was' \in [Batches -> [Keys -> (Vals \X Nat) \cup {None}]]
      <3>1. \A k \in Keys : Content(row[k]) \in (Vals \X Nat) \cup {None}
        BY <1>1, ContentIs DEF Tables, Content
      <3> QED BY <1>1, <2>1, <3>1 DEF CardApply, Ghosts
    <2>7. last' \in [Keys -> Batches \cup {None}]
      BY <1>1, <2>1 DEF CardApply, Ghosts
    <2> QED BY <1>1, <2>3, <2>4, <2>5, <2>6, <2>7 DEF Tables, Ghosts
  <1> QED BY <1>2, <1>3

(* A write of somebody else puts nothing, or a row of a new version.         *)
LEMMA OtherWrites ==
    ASSUME BulkInv, NEW k \in Keys, Edit(k) \/ Bump(k)
    PROVE  /\ lock[k] = None /\ seq' = seq + 1
           /\ \E r \in Row \cup {None} :
                /\ row' = [row EXCEPT ![k] = r] /\ (r # None => r.ver = seq + 1 /\ r.at <= seq + 1)
                /\ \/ /\ last' = [last EXCEPT ![k] = None] /\ (r # None => r.at = seq + 1)
                      /\ Outside = {} => ScopesFree(None, {k})
                   \/ /\ UNCHANGED last /\ r # None /\ row[k] # None /\ r.at = row[k].at /\ r.at <= seq
                      /\ Content(r) = Content(row[k])
           /\ UNCHANGED <<batch, journal, card, tx, work, lock, was, back>>
  <1>1. Tables /\ Versions /\ seq \in Nat
    BY DEF BulkInv, Tables
  <1>2. CASE Edit(k)
    <2>1. PICK v \in Vals \cup {None} :
             /\ ~ Unlocked(v) => ScopesFree(None, {k})
             /\ Put(k, IF v = None THEN None ELSE Fresh(v))
      BY <1>2 DEF Edit
    <2>2. v # None => Fresh(v) \in Row /\ Fresh(v).at = seq + 1 /\ Fresh(v).ver = seq + 1
      BY <1>1, FreshIs
    <2>3. Outside = {} => ScopesFree(None, {k})
      BY <2>1 DEF Unlocked
    <2>4. last' = [last EXCEPT ![k] = None]
      BY <1>2 DEF Edit
    <2> DEFINE r == IF v = None THEN None ELSE Fresh(v)
    <2>5. r \in Row \cup {None} /\ (r # None => r.ver = seq + 1 /\ r.at = seq + 1)
      BY <2>2
    <2>6. /\ lock[k] = None /\ seq' = seq + 1 /\ row' = [row EXCEPT ![k] = r]
          /\ UNCHANGED <<batch, journal, card, tx, work, lock, was, back>>
      BY <2>1 DEF Put
    <2> HIDE DEF r
    <2>7. r # None => r.ver = seq + 1 /\ r.at <= seq + 1
      BY <1>1, <2>5
    <2> QED BY <2>3, <2>4, <2>5, <2>6, <2>7
  <1>3. CASE Bump(k)
    <2> DEFINE r == [row[k] EXCEPT !.ver = seq + 1]
    <2>1. row[k] \in Row /\ Drawn(row[k])
      BY <1>1, <1>3 DEF Bump, Tables, Versions
    <2>2. r \in Row /\ r.at = row[k].at /\ r.ver = seq + 1 /\ Content(r) = Content(row[k])
      BY <1>1, <2>1, StampedIs
    <2>3. r.at <= seq
      BY <1>1, <2>1, <2>2 DEF Drawn, Row
    <2>4. Put(k, r) /\ UNCHANGED last
      BY <1>3 DEF Bump
    <2> HIDE DEF r
    <2>5. r # None /\ row[k] # None
      BY <1>3, <2>2, NoRow DEF Bump
    <2>6. /\ lock[k] = None /\ seq' = seq + 1 /\ row' = [row EXCEPT ![k] = r]
          /\ UNCHANGED <<batch, journal, card, tx, work, lock, was, back, last>>
      BY <2>4 DEF Put
    <2>7. r.at <= seq + 1
      BY <1>1, <2>3, <2>2 DEF Row
    <2> QED BY <2>2, <2>3, <2>5, <2>6, <2>7
  <1> QED BY <1>2, <1>3

LEMMA BulkTypes == ASSUME BulkInv, [Next]_vars PROVE Tables' /\ Ghosts'
  <1>1. Tables /\ Ghosts
    BY DEF BulkInv
  <1>2. CASE \E c \in Conns, b \in Batches : UndoBegin(c, b) \/ \E kind \in Kinds, p \in Plans : ExecuteBegin(c, b, kind, p)
    <2>1. Tables'
      BY <1>1, <1>2, BeginTypes
    <2>2. UNCHANGED ghost
      BY <1>2 DEF ExecuteBegin, UndoBegin
    <2> QED BY <1>1, <2>1, <2>2 DEF Ghosts, ghost
  <1>3. CASE \E k \in Keys : Edit(k) \/ Bump(k)
    <2>1. PICK k \in Keys : Edit(k) \/ Bump(k)
      BY <1>3
    <2>2. PICK r \in Row \cup {None} : row' = [row EXCEPT ![k] = r]
                                      /\ (last' = [last EXCEPT ![k] = None] \/ UNCHANGED last)
      BY <2>1, OtherWrites
    <2>3. seq' = seq + 1 /\ UNCHANGED <<batch, journal, card, tx, work, lock, was, back>>
      BY <2>1, OtherWrites
    <2>4. row' \in [Keys -> Row \cup {None}] /\ seq' \in Nat
      BY <1>1, <2>2, <2>3 DEF Tables
    <2>5. last' \in [Keys -> Batches \cup {None}]
      BY <1>1, <2>2 DEF Ghosts
    <2> QED BY <1>1, <2>3, <2>4, <2>5 DEF Tables, Ghosts
  <1>4. CASE UNCHANGED vars \/ \E b \in Batches : UndoRefused(b)
    BY <1>1, <1>4 DEF UndoRefused, vars, data, ghost, Tables, Ghosts
  <1> QED BY <1>2, <1>3, <1>4, ExecuteTypes, UndoTypes, EndingTypes, CardTypes DEF Next

-----------------------------------------------------------------------------
(* Transactions keep to their own.                                           *)

OthersSame(c) ==
    \A d \in Conns \ {c} : /\ tx'[d] = tx[d] /\ work'[d] = work[d]
                           /\ \A k \in Keys : lock[k] = d => lock'[k] = d
OwnBatch(c) ==
    /\ Idle(c) => UNCHANGED <<batch, journal>>
    /\ ~Idle(c) => \A b \in Batches \ {tx[c].b} : batch'[b] = batch[b] /\ journal'[b] = journal[b]
    /\ Undoing(c) => UNCHANGED journal /\ batch'[tx[c].b] \in {batch[tx[c].b], "undone"}

LEMMA AtKept ==
    ASSUME BulkInv, NEW d \in Conns, tx'[d] = tx[d], work'[d] = work[d],
           \A k \in Keys : lock[k] = d => lock'[k] = d,
           Executing(d) => batch'[tx[d].b] = "new" /\ journal'[tx[d].b] = journal[tx[d].b],
           Undoing(d) => /\ batch'[tx[d].b] # "new" /\ journal'[tx[d].b] = journal[tx[d].b]
                         /\ tx[d].keys # {} => batch'[tx[d].b] = "done"
    PROVE  At(d)' /\ (Executing(d)' => JournalOf(d)')
  <1>1. At(d) /\ (Executing(d) => JournalOf(d))
    BY DEF BulkInv, Journals
  <1>2. (Executing(d)' <=> Executing(d)) /\ (Undoing(d)' <=> Undoing(d)) /\ (Idle(d)' <=> Idle(d))
    BY DEF Executing, Undoing, Idle
  <1>3. Undoing(d) => Journaled(tx[d].b)' = Journaled(tx[d].b)
    BY DEF Journaled
  <1>4. At(d)'
    BY <1>1, <1>2, <1>3 DEF At
  <1>5. Executing(d) => JournalOf(d)'
    BY <1>1 DEF JournalOf
  <1> QED BY <1>2, <1>4, <1>5

LEMMA OthersStand ==
    ASSUME BulkInv, NEW c \in Conns, OthersSame(c), OwnBatch(c), NEW d \in Conns \ {c}
    PROVE  At(d)' /\ (Executing(d)' => JournalOf(d)')
  <1>1. tx'[d] = tx[d] /\ work'[d] = work[d] /\ \A k \in Keys : lock[k] = d => lock'[k] = d
    BY DEF OthersSame
  <1>2. Apart /\ tx \in [Conns -> Tx] /\ tx[c].op \in Kinds \cup {"idle", "undo"}
    BY DEF BulkInv, Tables, Tx
  <1>3. Idle(c) \/ Executing(c) \/ Undoing(c)
    BY <1>2 DEF Idle, Executing, Undoing
  <1>4. ASSUME Executing(d) PROVE batch'[tx[d].b] = "new" /\ journal'[tx[d].b] = journal[tx[d].b]
    <2>1. tx[d].b \in Batches /\ batch[tx[d].b] = "new"
      BY <1>4, AtExecuting
    <2>2. ~ Idle(c) => tx[c].b # tx[d].b
      BY <1>2, <1>3, <1>4, <2>1, AtUndoing DEF Apart
    <2> QED BY <2>1, <2>2 DEF OwnBatch
  <1>5. ASSUME Undoing(d)
        PROVE  /\ batch'[tx[d].b] # "new" /\ journal'[tx[d].b] = journal[tx[d].b]
               /\ tx[d].keys # {} => batch'[tx[d].b] = "done"
    <2>1. /\ tx[d].b \in Batches /\ batch[tx[d].b] # "new" /\ tx[d].keys = Journaled(tx[d].b)
          /\ tx[d].keys # {} => batch[tx[d].b] = "done"
      BY <1>5, AtUndoing
    <2>2. CASE Idle(c) \/ tx[c].b # tx[d].b
      BY <2>1, <2>2 DEF OwnBatch
    <2>3. CASE ~ Idle(c) /\ tx[c].b = tx[d].b
      <3>1. Undoing(c)
        BY <1>3, <2>1, <2>3, AtExecuting
      <3>2. tx[c].keys = tx[d].keys
        BY <2>1, <2>3, <3>1, AtUndoing
      <3>3. tx[d].keys = {}
        BY <1>2, <3>2 DEF Apart
      <3> QED BY <2>1, <2>3, <3>1, <3>3 DEF OwnBatch
    <2> QED BY <2>2, <2>3
  <1> QED BY <1>1, <1>4, <1>5, AtKept

LEMMA ApartKept ==
    ASSUME BulkInv, NEW c \in Conns, OthersSame(c), tx'[c].keys \subseteq tx[c].keys,
           Executing(c)' => Executing(c) /\ tx'[c].b = tx[c].b
    PROVE  Apart'
  <1>1. Apart
    BY DEF BulkInv
  <1>2. \A d \in Conns : tx'[d].keys \subseteq tx[d].keys /\ (Executing(d)' => Executing(d) /\ tx'[d].b = tx[d].b)
    BY DEF OthersSame, Executing
  <1> QED BY <1>1, <1>2 DEF Apart

(* A step in the middle of a transaction.                                    *)
LEMMA RowStepFrames ==
    ASSUME BulkInv, NEW c \in Conns,
           (\E k \in Keys : JournalBefore(c, k) \/ UndoRow(c, k)) \/ WriteRow(c)
    PROVE  /\ OthersSame(c) /\ OwnBatch(c) /\ ~ Idle(c)
           /\ tx'[c].op = tx[c].op /\ tx'[c].b = tx[c].b /\ tx'[c].keys = tx[c].keys
           /\ tx'[c].plan = tx[c].plan
  <1>1. Tables
    BY DEF BulkInv
  <1>2. CASE \E k \in Keys : JournalBefore(c, k)
    <2>1. PICK k \in Keys : JournalBefore(c, k)
      BY <1>2
    <2>2. Executing(c) /\ tx[c].b \in Batches
      BY <2>1, JournalBeforeDoes, AtExecuting
    <2>3. tx' = [tx EXCEPT ![c].read = k] /\ UNCHANGED <<row, seq, batch, card, work, ghost>>
      BY <2>1, JournalBeforeDoes
    <2>4. PICK img \in Journal \cup {None} :
             /\ journal' = [journal EXCEPT ![tx[c].b][k] = img]
             /\ img = None <=> tx[c].plan[k] = None /\ Seen(c, k) = None
             /\ img # None => img.before = Seen(c, k) /\ img.after = None
      BY <2>1, JournalBeforeDoes
    <2>5. \A j \in Keys : \A d \in Conns \ {c} : lock[j] = d => lock'[j] = d
      BY <1>1, <2>1, NoRow DEF JournalBefore, RowFree, Tables
    <2>6. /\ tx'[c].op = tx[c].op /\ tx'[c].b = tx[c].b /\ tx'[c].keys = tx[c].keys
          /\ tx'[c].plan = tx[c].plan /\ \A d \in Conns \ {c} : tx'[d] = tx[d]
      BY <1>1, <2>3 DEF Tables, Tx
    <2>7. \A b \in Batches \ {tx[c].b} : journal'[b] = journal[b]
      BY <1>1, <2>4 DEF Tables
    <2>8. ~ Idle(c) /\ ~ Undoing(c)
      BY <2>2, NoRow DEF Executing, Idle, Undoing
    <2> QED BY <2>3, <2>5, <2>6, <2>7, <2>8 DEF OthersSame, OwnBatch
  <1>3. CASE WriteRow(c)
    <2> DEFINE k == tx[c].read
               v == tx[c].plan[k]
    <2>1. Executing(c) /\ k \in Keys /\ tx[c].b \in Batches
      BY <1>3, WriterIs, AtExecuting
    <2>2. /\ tx' = [tx EXCEPT ![c].read = None, ![c].todo = @ \ {k}]
          /\ lock[k] \in {None, c} /\ lock' = [lock EXCEPT ![k] = c] /\ UNCHANGED <<row, batch, card, last, back>>
      BY <1>3, WriteRowDoes
    <2>3. /\ \A d \in Conns \ {c} : work'[d] = work[d]
          /\ \A b \in Batches \ {tx[c].b} : journal'[b] = journal[b]
      BY <1>1, <1>3 DEF WriteRow, Tables
    <2>5. \A j \in Keys : \A d \in Conns \ {c} : lock[j] = d => lock'[j] = d
      BY <1>1, <2>2, NoRow DEF Tables
    <2>6. /\ tx'[c].op = tx[c].op /\ tx'[c].b = tx[c].b /\ tx'[c].keys = tx[c].keys
          /\ tx'[c].plan = tx[c].plan /\ \A d \in Conns \ {c} : tx'[d] = tx[d]
      BY <1>1, <2>2 DEF Tables, Tx
    <2>8. ~ Idle(c) /\ ~ Undoing(c)
      BY <2>1, NoRow DEF Executing, Idle, Undoing
    <2> QED BY <2>2, <2>3, <2>5, <2>6, <2>8 DEF OthersSame, OwnBatch
  <1>4. CASE \E k \in Keys : UndoRow(c, k)
    <2>1. PICK k \in Keys : UndoRow(c, k)
      BY <1>4
    <2>2. Undoing(c) /\ lock[k] \in {None, c}
      BY <2>1, UndoRowDoes
    <2>3. tx' = [tx EXCEPT ![c].todo = @ \ {k}] /\ UNCHANGED <<row, batch, journal, card, ghost>>
      BY <2>1, UndoRowDoes
    <2>4. \A d \in Conns \ {c} : work'[d] = work[d]
      BY <1>1, <2>1 DEF UndoRow, Tables
    <2>5. \A j \in Keys : \A d \in Conns \ {c} : lock[j] = d => lock'[j] = d
      BY <1>1, <2>1, <2>2, NoRow DEF UndoRow, Tables
    <2>6. /\ tx'[c].op = tx[c].op /\ tx'[c].b = tx[c].b /\ tx'[c].keys = tx[c].keys
          /\ tx'[c].plan = tx[c].plan /\ \A d \in Conns \ {c} : tx'[d] = tx[d]
      BY <1>1, <2>3 DEF Tables, Tx
    <2>8. ~ Idle(c)
      BY <2>2 DEF Idle, Undoing
    <2> QED BY <2>2, <2>3, <2>4, <2>5, <2>6, <2>8 DEF OthersSame, OwnBatch
  <1> QED BY <1>2, <1>3, <1>4

(* The end of one.                                                           *)
LEMMA EndFrames ==
    ASSUME BulkInv, NEW c \in Conns, ExecuteCommit(c) \/ UndoCommit(c) \/ Abort(c)
    PROVE  /\ OthersSame(c) /\ OwnBatch(c) /\ ~ Idle(c)
           /\ tx'[c] = NoTx /\ \A k \in Keys : work'[c][k] = None
           /\ tx[c].b \in Batches
  <1>1. Tables /\ End(c)
    BY DEF BulkInv, ExecuteCommit, UndoCommit, Abort
  <1>2. /\ OthersSame(c) /\ tx'[c] = NoTx /\ \A k \in Keys : work'[c][k] = None
    BY <1>1, NoRow DEF End, Tables, OthersSame
  <1>3. CASE ExecuteCommit(c)
    <2>1. Executing(c) /\ ~ Idle(c) /\ ~ Undoing(c)
      BY <1>3, NoRow DEF ExecuteCommit, Executing, Idle, Undoing
    <2> QED BY <1>1, <1>2, <1>3, <2>1, AtExecuting DEF ExecuteCommit, OwnBatch, Tables
  <1>4. CASE UndoCommit(c)
    <2>1. Undoing(c) /\ ~ Idle(c)
      BY <1>4 DEF UndoCommit, Undoing, Idle
    <2> QED BY <1>1, <1>2, <1>4, <2>1, AtUndoing DEF UndoCommit, OwnBatch, Tables
  <1>5. CASE Abort(c)
    <2>1. ~ Idle(c) /\ tx[c].b \in Batches
      BY <1>5 DEF Abort, BulkInv, At
    <2>2. Undoing(c) => ~ Executing(c)
      BY NoRow DEF Undoing, Executing
    <2>3. UNCHANGED batch /\ (~ Executing(c) => UNCHANGED journal)
          /\ \A b \in Batches \ {tx[c].b} : journal'[b] = journal[b]
      BY <1>1, <1>5 DEF Abort, Executing, Tables
    <2> QED BY <1>2, <2>1, <2>2, <2>3 DEF OwnBatch
  <1> QED BY <1>3, <1>4, <1>5

(* The transaction that makes the step.                                      *)
LEMMA JournalStep ==
    ASSUME BulkInv, NEW c \in Conns, NEW k \in Keys, JournalBefore(c, k)
    PROVE  At(c)' /\ JournalOf(c)'
  <1>1. Tables /\ At(c)
    BY DEF BulkInv
  <1>2. /\ Executing(c) /\ tx[c].b \in Batches /\ batch[tx[c].b] = "new" /\ tx[c].plan \in Plans
        /\ tx[c].keys = DOMAIN tx[c].plan /\ tx[c].keys \in SUBSET Keys
        /\ tx[c].todo \subseteq tx[c].keys /\ JournalOf(c) /\ k \in tx[c].todo /\ tx[c].read = None
    BY JournalBeforeDoes, AtExecuting
  <1>3. tx' = [tx EXCEPT ![c].read = k] /\ UNCHANGED <<row, seq, batch, card, work, ghost>>
    BY JournalBeforeDoes
  <1>4. PICK img \in Journal \cup {None} :
           /\ journal' = [journal EXCEPT ![tx[c].b][k] = img]
           /\ img = None <=> tx[c].plan[k] = None /\ Seen(c, k) = None
           /\ img # None => img.before = Seen(c, k) /\ img.after = None
    BY JournalBeforeDoes
  <1>5. /\ tx'[c].op = tx[c].op /\ tx'[c].b = tx[c].b /\ tx'[c].keys = tx[c].keys /\ tx'[c].read = k
        /\ tx'[c].plan = tx[c].plan /\ tx'[c].todo = tx[c].todo
    BY <1>1, <1>3 DEF Tables, Tx
  <1>6. \A j \in Keys : journal'[tx[c].b][j] = IF j = k THEN img ELSE journal[tx[c].b][j]
    BY <1>1, <1>2, <1>4 DEF Tables
  <1>7. \A j \in Keys : lock[j] = c => lock'[j] = c
    BY <1>1 DEF JournalBefore, Tables
  <1>8. At(c)'
    <2>1. (Executing(c))' /\ ~ Idle(c)' /\ ~ Undoing(c)'
      BY <1>2, <1>5, NoRow DEF Executing, Idle, Undoing
    <2>2. \A j \in Keys : work'[c][j] # None => j \in tx'[c].keys \ tx'[c].todo /\ lock'[j] = c
      BY <1>1, <1>3, <1>5, <1>7 DEF At
    <2> QED BY <1>2, <1>3, <1>5, <2>1, <2>2 DEF At
  <1>9. JournalOf(c)'
    <2>1. tx[c].plan[k] = None => img = None \/ (img.after = None /\ img.before # None)
      BY <1>4
    <2>2. tx[c].plan[k] # None => img # None
      BY <1>4
    <2>3. \A j \in Keys : j \in tx[c].todo => journal[tx[c].b][j] = None
      BY <1>2, NoRow DEF JournalOf
    <2> QED BY <1>2, <1>3, <1>4, <1>5, <1>6, <2>1, <2>2, <2>3, NoRow DEF JournalOf
  <1> QED BY <1>8, <1>9

LEMMA WriteStep ==
    ASSUME BulkInv, NEW c \in Conns, WriteRow(c)
    PROVE  At(c)' /\ JournalOf(c)'
  <1> DEFINE k == tx[c].read
             b == tx[c].b
             v == tx[c].plan[k]
  <1>1. Tables /\ At(c)
    BY DEF BulkInv
  <1>2. /\ Executing(c) /\ b \in Batches /\ batch[b] = "new" /\ tx[c].plan \in Plans
        /\ tx[c].keys = DOMAIN tx[c].plan /\ tx[c].keys \in SUBSET Keys
        /\ tx[c].todo \subseteq tx[c].keys /\ JournalOf(c) /\ k \in tx[c].todo /\ k \in Keys
    BY WriterIs, AtExecuting
  <1>3. /\ tx' = [tx EXCEPT ![c].read = None, ![c].todo = @ \ {k}]
        /\ lock' = [lock EXCEPT ![k] = c] /\ UNCHANGED <<row, batch, card, last, back>>
    BY WriteRowDoes
  <1>4. /\ tx'[c].op = tx[c].op /\ tx'[c].b = b /\ tx'[c].keys = tx[c].keys /\ tx'[c].read = None
        /\ tx'[c].plan = tx[c].plan /\ tx'[c].todo = tx[c].todo \ {k}
    BY <1>1, <1>3 DEF Tables, Tx
  <1>5. \A j \in Keys : lock'[j] = IF j = k THEN c ELSE lock[j]
    BY <1>1, <1>3 DEF Tables
  <1>6. /\ \A j \in Keys \ {k} : work'[c][j] = work[c][j] /\ journal'[b][j] = journal[b][j]
        /\ IF v = None
           THEN journal'[b][k] = journal[b][k] /\ work'[c][k] \in {work[c][k], Gone}
           ELSE /\ work'[c][k] \in Row /\ journal[b][k] # None /\ journal'[b][k] # None
                /\ journal'[b][k].after = work'[c][k]
    <2>1. CASE v = None
      <3>1. UNCHANGED journal
        BY <2>1 DEF WriteRow
      <3>2. PICK w \in {work[c][k], Gone} : work' = [work EXCEPT ![c][k] = w]
        BY <2>1 DEF WriteRow
      <3> QED BY <1>1, <1>2, <2>1, <3>1, <3>2 DEF Tables
    <2>2. CASE /\ v \in Vals /\ seq' = seq + 1
               /\ work' = [work EXCEPT ![c][k] = Fresh(v)]
               /\ journal' = [journal EXCEPT ![b][k].after = Fresh(v)]
      <3>1. Fresh(v) \in Row /\ v # None
        BY <1>1, <2>2, FreshIs, NoRow DEF Tables
      <3>2. journal[b][k] \in Journal
        BY <1>1, <1>2, <3>1 DEF JournalOf, Tables
      <3>3. journal' = [journal EXCEPT ![b][k] = [journal[b][k] EXCEPT !.after = Fresh(v)]]
        BY <1>1, <1>2, <2>2 DEF Tables
      <3>4. [journal[b][k] EXCEPT !.after = Fresh(v)] \in Journal /\ [journal[b][k] EXCEPT !.after = Fresh(v)].after = Fresh(v)
        BY <3>1, <3>2 DEF Journal
      <3> DEFINE j == [journal[b][k] EXCEPT !.after = Fresh(v)]
      <3>5. j \in Journal /\ j.after = Fresh(v) /\ journal' = [journal EXCEPT ![b][k] = j]
        BY <3>3, <3>4
      <3> HIDE DEF j
      <3>6. journal'[b][k] = j /\ \A i \in Keys \ {k} : journal'[b][i] = journal[b][i]
        BY <1>1, <1>2, <3>5 DEF Tables
      <3>7. work'[c][k] = Fresh(v) /\ \A i \in Keys \ {k} : work'[c][i] = work[c][i]
        BY <1>1, <1>2, <2>2 DEF Tables
      <3> QED BY <3>1, <3>2, <3>5, <3>6, <3>7, NoRow
    <2>3. \/ v = None
          \/ /\ v \in Vals /\ seq' = seq + 1
             /\ work' = [work EXCEPT ![c][k] = Fresh(v)]
             /\ journal' = [journal EXCEPT ![b][k].after = Fresh(v)]
      BY WriteRowDoes
    <2> QED BY <2>1, <2>2, <2>3
  <1>7. At(c)'
    <2>1. (Executing(c))' /\ ~ Idle(c)' /\ ~ Undoing(c)'
      BY <1>2, <1>4, NoRow DEF Executing, Idle, Undoing
    <2>2. \A j \in Keys : work'[c][j] # None => j \in tx'[c].keys \ tx'[c].todo /\ lock'[j] = c
      BY <1>1, <1>2, <1>4, <1>5, <1>6 DEF At
    <2> QED BY <1>2, <1>3, <1>4, <2>1, <2>2 DEF At
  <1>8. JournalOf(c)'
    <2>1. work[c][k] = None
      BY <1>1, <1>2 DEF At
    <2>2. v = None => work'[c][k] \in {None, Gone}
      BY <1>6, <2>1
    <2> HIDE DEF k, b
    <2>3. k \in tx[c].keys /\ (journal[b][k] # None => journal[b][k].after = None)
      BY <1>2 DEF JournalOf, b, k
    <2> USE DEF k, b
    <2>4. \A j \in Keys : j \in tx[c].todo \ {k} => journal[b][j] = None
      BY <1>2 DEF JournalOf
    <2>5. tx'[c].b = b /\ tx'[c].plan = tx[c].plan /\ tx'[c].keys = tx[c].keys
          /\ tx'[c].todo = tx[c].todo \ {k} /\ tx'[c].read = None
      BY <1>2, <1>4
    <2>6. \A j \in Keys :
            /\ journal'[b][j] # None => j \in tx[c].keys
            /\ j \in tx[c].todo \ {k} => journal'[b][j] = None
      BY <1>2, <1>6, <2>3, <2>4 DEF JournalOf
    <2>7. \A j \in Keys : j \in tx[c].keys \ (tx[c].todo \ {k}) /\ tx[c].plan[j] # None =>
            work'[c][j] \in Row /\ journal'[b][j] # None /\ journal'[b][j].after = work'[c][j]
      BY <1>2, <1>6 DEF JournalOf
    <2>8. \A j \in Keys : j \in tx[c].keys /\ tx[c].plan[j] = None =>
            /\ work'[c][j] \in {None, Gone}
            /\ journal'[b][j] # None => journal'[b][j].after = None /\ journal'[b][j].before # None
      BY <1>2, <1>6, <2>2 DEF JournalOf
    <2> QED BY <2>5, <2>6, <2>7, <2>8, NoRow DEF JournalOf
  <1> QED BY <1>7, <1>8

LEMMA UndoRowStep ==
    ASSUME BulkInv, NEW c \in Conns, NEW k \in Keys, UndoRow(c, k) PROVE At(c)' /\ ~ Executing(c)'
  <1>1. Tables /\ At(c)
    BY DEF BulkInv
  <1>2. /\ Undoing(c) /\ k \in tx[c].todo /\ tx[c].b \in Batches /\ batch[tx[c].b] # "new"
        /\ tx[c].keys = Journaled(tx[c].b) /\ tx[c].read = None /\ tx[c].todo \subseteq tx[c].keys
        /\ tx[c].keys # {} => batch[tx[c].b] = "done"
    BY UndoRowDoes, AtUndoing
  <1>3. tx' = [tx EXCEPT ![c].todo = @ \ {k}] /\ UNCHANGED <<row, batch, journal, card, ghost>>
    BY UndoRowDoes
  <1>4. /\ tx'[c].op = tx[c].op /\ tx'[c].b = tx[c].b /\ tx'[c].keys = tx[c].keys /\ tx'[c].read = None
        /\ tx'[c].todo = tx[c].todo \ {k}
    BY <1>1, <1>2, <1>3 DEF Tables, Tx
  <1>5. \A j \in Keys \ {k} : work'[c][j] = work[c][j] /\ lock'[j] = lock[j]
    BY <1>1 DEF UndoRow, Tables
  <1>6. work'[c][k] # None => lock'[k] = c
    <2>1. work[c][k] = None /\ Seen(c, k) = row[k]
      BY UndoRowDoes
    <2> QED BY <1>1, <2>1 DEF UndoRow, Tables
  <1>7. (Undoing(c))' /\ ~ Idle(c)' /\ ~ Executing(c)'
    BY <1>2, <1>4, NoRow DEF Executing, Idle, Undoing
  <1>8. Journaled(tx[c].b)' = Journaled(tx[c].b)
    BY <1>3 DEF Journaled
  <1>9. \A j \in Keys : work'[c][j] # None => j \in tx'[c].keys \ tx'[c].todo /\ lock'[j] = c
    BY <1>1, <1>2, <1>4, <1>5, <1>6 DEF At
  <1> QED BY <1>2, <1>3, <1>4, <1>7, <1>8, <1>9 DEF At, Journaled

LEMMA IdleIsAt ==
    ASSUME NEW c \in Conns, tx'[c] = NoTx, \A k \in Keys : work'[c][k] = None
    PROVE  At(c)' /\ ~ Executing(c)' /\ Idle(c)'
  BY NoRow DEF NoTx, At, Idle, Executing, Undoing

LEMMA BeginStep ==
    ASSUME BulkInv, NEW c \in Conns, NEW b \in Batches,
           \/ \E kind \in Kinds, p \in Plans : ExecuteBegin(c, b, kind, p)
           \/ UndoBegin(c, b)
    PROVE  At(c)' /\ (Executing(c)' => JournalOf(c)') /\ Apart' /\ OthersSame(c) /\ OwnBatch(c)
  <1>1. Tables /\ At(c) /\ Apart /\ Unbegun /\ Idle(c)
    BY DEF BulkInv, ExecuteBegin, UndoBegin
  <1>2. OthersSame(c) /\ OwnBatch(c) /\ UNCHANGED <<data, work, lock, ghost>>
    BY <1>1 DEF ExecuteBegin, UndoBegin, OthersSame, OwnBatch, Tables, data, Idle, Undoing
  <1>3. \A k \in Keys : work'[c][k] = None
    BY <1>1, <1>2 DEF At, Idle, NoTx
  <1>4. CASE UndoBegin(c, b)
    <2>1. /\ tx'[c].op = "undo" /\ tx'[c].b = b /\ tx'[c].todo = Journaled(b) /\ tx'[c].keys = Journaled(b)
          /\ tx'[c].read = None /\ batch[b] = "done" /\ ScopesFree(c, Journaled(b))
      BY <1>1, <1>4 DEF UndoBegin, Undoable, Tables
    <2>2. (Undoing(c))' /\ ~ Idle(c)' /\ ~ Executing(c)'
      BY <2>1, NoRow DEF Executing, Idle, Undoing
    <2>3. batch'[b] = "done" /\ Journaled(b)' = Journaled(b)
      BY <1>2, <2>1 DEF data, Journaled
    <2>4. At(c)'
      BY <1>3, <2>1, <2>2, <2>3 DEF At, Journaled
    <2>5. Apart'
      BY <1>1, <1>2, <2>1, <2>2 DEF Apart, OthersSame, ScopesFree, Executing
    <2> QED BY <1>2, <2>2, <2>4, <2>5
  <1>5. CASE \E kind \in Kinds, p \in Plans : ExecuteBegin(c, b, kind, p)
    <2>1. PICK kind \in Kinds, p \in Plans : ExecuteBegin(c, b, kind, p)
      BY <1>5
    <2>2. /\ tx'[c].op = kind /\ tx'[c].b = b /\ tx'[c].todo = DOMAIN p /\ tx'[c].keys = DOMAIN p
          /\ tx'[c].read = None /\ tx'[c].plan = p /\ batch[b] = "new" /\ ScopesFree(c, DOMAIN p)
          /\ \A d \in Conns : tx[d].b # b
      BY <1>1, <2>1 DEF ExecuteBegin, Tables
    <2>3. (Executing(c))' /\ ~ Idle(c)' /\ ~ Undoing(c)'
      BY <2>2, NoRow DEF Executing, Idle, Undoing
    <2>4. batch'[b] = "new" /\ \A k \in Keys : journal'[b][k] = None
      BY <1>1, <1>2, <2>2 DEF data, Unbegun
    <2>5. At(c)'
      BY <1>3, <2>2, <2>3, <2>4 DEF At
    <2>6. Apart'
      BY <1>1, <1>2, <2>2, <2>3 DEF Apart, OthersSame, ScopesFree, Executing
    <2>7. JournalOf(c)'
      BY <1>3, <2>2, <2>4, NoRow DEF JournalOf
    <2> QED BY <1>2, <2>5, <2>6, <2>7
  <1> QED BY <1>4, <1>5

(* Batches that nobody works on.                                             *)
LEMMA UnbegunKept ==
    ASSUME BulkInv, NEW c \in Conns, OthersSame(c), OwnBatch(c), ~ Idle(c) => tx'[c].b = tx[c].b
    PROVE  Unbegun'
  <1> SUFFICES ASSUME NEW b \in Batches, batch'[b] = "new", \A d \in Conns : tx'[d].b # b, NEW k \in Keys
               PROVE  journal'[b][k] = None
    BY DEF Unbegun
  <1>1. batch[b] = "new" /\ journal'[b] = journal[b]
    BY DEF OwnBatch
  <1>2. \A d \in Conns : tx[d].b # b
    <2>1. \A d \in Conns \ {c} : tx[d].b # b
      BY DEF OthersSame
    <2>2. tx[c].b # b
      BY NoRow DEF BulkInv, At, NoTx
    <2> QED BY <2>1, <2>2
  <1> QED BY <1>1, <1>2 DEF BulkInv, Unbegun

LEMMA RowStepShape ==
    ASSUME BulkInv, NEW c \in Conns,
           (\E k \in Keys : JournalBefore(c, k) \/ UndoRow(c, k)) \/ WriteRow(c)
    PROVE  (\A d \in Conns : At(d)') /\ Apart' /\ Unbegun' /\ Journals'
  <1>1. /\ OthersSame(c) /\ OwnBatch(c) /\ ~ Idle(c)
        /\ tx'[c].op = tx[c].op /\ tx'[c].b = tx[c].b /\ tx'[c].keys = tx[c].keys
    BY RowStepFrames
  <1>2. At(c)' /\ (Executing(c)' => JournalOf(c)')
    BY JournalStep, WriteStep, UndoRowStep
  <1>3. \A d \in Conns : At(d)' /\ (Executing(d)' => JournalOf(d)')
    BY <1>1, <1>2, OthersStand
  <1>4. Apart'
    BY <1>1, ApartKept DEF Executing
  <1>5. Unbegun'
    BY <1>1, UnbegunKept
  <1>6. UNCHANGED batch /\ \A b \in Batches : batch[b] # "new" => journal'[b] = journal[b]
    <2>1. UNCHANGED batch
      BY DEF JournalBefore, WriteRow, UndoRow
    <2>2. \/ Executing(c) /\ batch[tx[c].b] = "new"
          \/ Undoing(c)
      BY JournalBeforeDoes, UndoRowDoes, WriterIs, AtExecuting
    <2> QED BY <1>1, <2>1, <2>2 DEF OwnBatch
  <1>7. \A b \in Batches : batch'[b] # "new" => Journaled(b)' \subseteq Afters(b)' \cup Befores(b)'
    BY <1>6 DEF BulkInv, Journals, Journaled, Afters, Befores
  <1> QED BY <1>3, <1>4, <1>5, <1>7 DEF Journals

LEMMA EndShape ==
    ASSUME BulkInv, NEW c \in Conns, ExecuteCommit(c) \/ UndoCommit(c) \/ Abort(c)
    PROVE  (\A d \in Conns : At(d)') /\ Apart' /\ Unbegun' /\ Journals'
  <1>1. /\ OthersSame(c) /\ OwnBatch(c) /\ ~ Idle(c) /\ tx[c].b \in Batches
        /\ tx'[c] = NoTx /\ \A k \in Keys : work'[c][k] = None
    BY EndFrames
  <1>2. Tables /\ Unbegun /\ Journals
    BY DEF BulkInv
  <1>3. At(c)' /\ ~ Executing(c)'
    BY <1>1, IdleIsAt
  <1>4. \A d \in Conns : At(d)' /\ (Executing(d)' => JournalOf(d)')
    BY <1>1, <1>3, OthersStand
  <1>5. Apart'
    <2>1. tx'[c].keys = {}
      BY <1>1 DEF NoTx
    <2> QED BY <1>1, <1>3, <2>1, ApartKept
  <1>6. \A b \in Batches \ {tx[c].b} : batch'[b] = batch[b] /\ journal'[b] = journal[b]
    BY <1>1 DEF OwnBatch
  <1>7. Unbegun'
    <2> SUFFICES ASSUME NEW b \in Batches, batch'[b] = "new", \A d \in Conns : tx'[d].b # b, NEW k \in Keys
                 PROVE  journal'[b][k] = None
      BY DEF Unbegun
    <2>1. CASE b # tx[c].b
      <3>1. \A d \in Conns : tx[d].b # b
        BY <1>1, <2>1 DEF OthersSame
      <3> QED BY <1>2, <1>6, <2>1, <3>1 DEF Unbegun
    <2>2. CASE b = tx[c].b
      <3>1. Abort(c)
        BY <1>2, <2>2, AtUndoing DEF ExecuteCommit, UndoCommit, Undoing, Tables
      <3>2. Executing(c)
        <4>1. batch[b] = "new" /\ tx[c].op \in Kinds \cup {"idle", "undo"}
          BY <1>2, <3>1 DEF Abort, Tables, Tx
        <4> QED BY <1>1, <2>2, <4>1, AtUndoing DEF Undoing, Executing, Idle
      <3>3. journal' = [journal EXCEPT ![b] = [j \in Keys |-> None]]
        BY <2>2, <3>1, <3>2 DEF Abort, Executing
      <3> QED BY <1>2, <3>3 DEF Tables
    <2> QED BY <2>1, <2>2
  <1>8. \A b \in Batches : batch'[b] # "new" => Journaled(b)' \subseteq Afters(b)' \cup Befores(b)'
    <2> SUFFICES ASSUME NEW b \in Batches, batch'[b] # "new", NEW k \in Keys, journal'[b][k] # None
                 PROVE  journal'[b][k].after # None \/ journal'[b][k].before # None
      BY DEF Journaled, Afters, Befores
    <2>1. CASE batch[b] # "new"
      <3>1. journal'[b] = journal[b]
        <4>1. CASE Executing(c)
          BY <1>6, <2>1, <4>1, AtExecuting
        <4>2. CASE ~ Executing(c)
          BY <1>1, <4>2 DEF OwnBatch, Executing, BulkInv, ExecuteCommit, UndoCommit, Abort
        <4> QED BY <4>1, <4>2
      <3> QED BY <1>2, <2>1, <3>1 DEF Journals, Journaled, Afters, Befores
    <2>2. CASE batch[b] = "new"
      <3>1. b = tx[c].b /\ ExecuteCommit(c)
        <4>1. b = tx[c].b /\ ~ Abort(c)
          BY <1>6, <2>2 DEF Abort
        <4>2. ~ UndoCommit(c)
          BY <2>2, <4>1, AtUndoing DEF UndoCommit, Undoing
        <4> QED BY <4>1, <4>2
      <3>2. /\ Executing(c) /\ tx[c].todo = {} /\ journal'[b] = journal[b] /\ JournalOf(c)
        BY <3>1, AtExecuting DEF ExecuteCommit, Executing
      <3>3. CASE tx[c].plan[k] = None
        BY <3>1, <3>2, <3>3 DEF JournalOf
      <3>4. CASE tx[c].plan[k] # None
        BY <3>1, <3>2, <3>4, NoRow DEF JournalOf
      <3> QED BY <3>3, <3>4
    <2> QED BY <2>1, <2>2
  <1> QED BY <1>4, <1>5, <1>7, <1>8 DEF Journals

LEMMA BeginShape ==
    ASSUME BulkInv, NEW c \in Conns, NEW b \in Batches,
           \/ \E kind \in Kinds, p \in Plans : ExecuteBegin(c, b, kind, p)
           \/ UndoBegin(c, b)
    PROVE  (\A d \in Conns : At(d)') /\ Apart' /\ Unbegun' /\ Journals'
  <1>1. At(c)' /\ (Executing(c)' => JournalOf(c)') /\ Apart' /\ OthersSame(c) /\ OwnBatch(c) /\ Idle(c)
    BY BeginStep DEF ExecuteBegin, UndoBegin
  <1>2. \A d \in Conns : At(d)' /\ (Executing(d)' => JournalOf(d)')
    BY <1>1, OthersStand
  <1>3. Unbegun'
    BY <1>1, UnbegunKept
  <1>4. \A d \in Batches : batch'[d] # "new" => Journaled(d)' \subseteq Afters(d)' \cup Befores(d)'
    BY <1>1 DEF OwnBatch, BulkInv, Journals, Journaled, Afters, Befores
  <1> QED BY <1>1, <1>2, <1>3, <1>4 DEF Journals

(* Steps of nobody's transaction.                                            *)
LEMMA OutsideShape ==
    ASSUME BulkInv, UNCHANGED <<tx, work, lock>>,
           \A b \in Batches :
              \/ batch'[b] = batch[b] /\ journal'[b] = journal[b]
              \/ /\ batch'[b] # "new" /\ \A c \in Conns : tx[c].b # b
                 /\ \A k \in Keys : journal'[b][k] # None =>
                       journal'[b][k].after # None \/ journal'[b][k].before # None
    PROVE  (\A d \in Conns : At(d)') /\ Apart' /\ Unbegun' /\ Journals'
  <1>1. \A d \in Conns : At(d)' /\ (Executing(d)' => JournalOf(d)')
    <2> SUFFICES ASSUME NEW d \in Conns PROVE At(d)' /\ (Executing(d)' => JournalOf(d)')
      OBVIOUS
    <2>1. tx[d].b \in Batches => batch'[tx[d].b] = batch[tx[d].b] /\ journal'[tx[d].b] = journal[tx[d].b]
      OBVIOUS
    <2>2. Executing(d) => batch'[tx[d].b] = "new" /\ journal'[tx[d].b] = journal[tx[d].b]
      BY <2>1, AtExecuting
    <2>3. Undoing(d) => /\ batch'[tx[d].b] # "new" /\ journal'[tx[d].b] = journal[tx[d].b]
                        /\ tx[d].keys # {} => batch'[tx[d].b] = "done"
      BY <2>1, AtUndoing
    <2>4. tx'[d] = tx[d] /\ work'[d] = work[d] /\ lock' = lock
      OBVIOUS
    <2> QED BY <2>2, <2>3, <2>4, AtKept
  <1>2. Apart' /\ Unbegun'
    BY DEF BulkInv, Apart, Unbegun, Executing
  <1>3. \A b \in Batches : batch'[b] # "new" => Journaled(b)' \subseteq Afters(b)' \cup Befores(b)'
    <2> SUFFICES ASSUME NEW b \in Batches, batch'[b] # "new", NEW k \in Keys, journal'[b][k] # None
                 PROVE  journal'[b][k].after # None \/ journal'[b][k].before # None
      BY DEF Journaled, Afters, Befores
    <2> QED BY DEF BulkInv, Journals, Journaled, Afters, Befores
  <1> QED BY <1>1, <1>2, <1>3 DEF Journals

LEMMA CardShape ==
    ASSUME BulkInv, NEW b \in Batches, CardUndo(b) \/ \E p \in Plans : CardApply(b, p)
    PROVE  (\A d \in Conns : At(d)') /\ Apart' /\ Unbegun' /\ Journals'
  <1>1. CASE CardUndo(b)
    <2>1. UNCHANGED <<batch, journal, tx, work, lock>>
      BY <1>1 DEF CardUndo
    <2> QED BY <2>1, OutsideShape
  <1>2. CASE \E p \in Plans : CardApply(b, p)
    <2>1. PICK p \in Plans : CardApply(b, p)
      BY <1>2
    <2>2. Tables /\ UNCHANGED <<tx, work, lock>> /\ \A c \in Conns : tx[c].b # b
      BY <2>1 DEF BulkInv, CardApply
    <2>3. batch'[b] = "done" /\ \A d \in Batches \ {b} : batch'[d] = batch[d] /\ journal'[d] = journal[d]
      BY <2>1, <2>2 DEF CardApply, Tables
    <2>4. \A k \in Keys : journal'[b][k] # None => journal'[b][k].after # None
      <3>1. \A k \in Keys : k \in DOMAIN p => Fresh(p[k]) # None
        BY <2>1, <2>2, PlanIs, FreshIs, NoRow DEF CardApply, Tables
      <3>2. \A k \in Keys : journal'[b][k] = IF k \in DOMAIN p THEN [before |-> row[k], after |-> Fresh(p[k])] ELSE None
        BY <2>1, <2>2 DEF CardApply, Tables
      <3> SUFFICES ASSUME NEW k \in Keys, journal'[b][k] # None PROVE journal'[b][k].after # None
        OBVIOUS
      <3>3. k \in DOMAIN p /\ journal'[b][k] = [before |-> row[k], after |-> Fresh(p[k])]
        BY <3>2
      <3>4. journal'[b][k].after = Fresh(p[k])
        BY <3>3
      <3> QED BY <3>1, <3>3, <3>4
    <2> QED BY <2>2, <2>3, <2>4, OutsideShape
  <1> QED BY <1>1, <1>2

LEMMA BulkShape ==
    ASSUME BulkInv, [Next]_vars
    PROVE  (\A d \in Conns : At(d)') /\ Apart' /\ Unbegun' /\ Journals'
  <1>1. CASE \E k \in Keys : Edit(k) \/ Bump(k)
    <2>1. UNCHANGED <<batch, journal, tx, work, lock>>
      BY <1>1, OtherWrites
    <2> QED BY <2>1, OutsideShape
  <1>2. CASE UNCHANGED vars \/ \E b \in Batches : UndoRefused(b)
    <2>1. UNCHANGED <<batch, journal, tx, work, lock>>
      BY <1>2 DEF UndoRefused, vars, data
    <2> QED BY <2>1, OutsideShape
  <1> QED BY <1>1, <1>2, RowStepShape, EndShape, BeginShape, CardShape DEF Next

-----------------------------------------------------------------------------
(* Versions.                                                                 *)

(* A row that is drawn at this step.                                         *)
Now(r) == r.at <= seq + 1 /\ r.ver = seq + 1 /\ seq' = seq + 1

(* A row of a new version, whose stamp is new or was there before.           *)
Told(k, r) == Now(r) /\ (r.at = seq + 1 \/ Known(k, r.at))

(* Where the rows, the uncommitted ones and the images of a step come from.  *)
RowsFrom ==
    \A k \in Keys : \/ row'[k] \in {row[k], None} \/ Told(k, row'[k])
                    \/ \E c \in Conns : work[c][k] \in Row /\ row'[k] = work[c][k]
WorkFrom == \A c \in Conns, k \in Keys : work'[c][k] \in {work[c][k], None, Gone} \/ Told(k, work'[c][k])
ImageFrom(b, k) ==
    /\ journal'[b][k] # None /\ journal'[b][k].before # None =>
          \/ k \in Befores(b) /\ journal'[b][k].before = journal[b][k].before
          \/ row[k] # None /\ journal'[b][k].before = row[k]
          \/ \E c \in Conns : work[c][k] \in Row /\ journal'[b][k].before = work[c][k]
    /\ journal'[b][k] # None /\ journal'[b][k].after # None =>
          \/ k \in Afters(b) /\ journal'[b][k].after = journal[b][k].after
          \/ Now(journal'[b][k].after) /\ journal'[b][k].after.at = seq + 1
DrawnAlone ==
    /\ \A b, d \in Batches : \A k \in Keys :
          k \in Afters(b)' \cap Afters(d)' /\ Now(journal'[b][k].after) /\ Now(journal'[d][k].after) => b = d
    /\ \A c \in Conns : Undoing(c)' =>
          (\A k \in Keys : work'[c][k] = None) \/ (Undoing(c) /\ (work'[c] = work[c] \/ UNCHANGED journal))
Comes == seq' \in {seq, seq + 1} /\ RowsFrom /\ WorkFrom
         /\ (\A b \in Batches, k \in Keys : ImageFrom(b, k)) /\ DrawnAlone

LEMMA DrawnStays ==
    ASSUME seq \in Nat, seq' \in {seq, seq + 1}, NEW r \in Row \cup {Gone}, Drawn(r) \/ Now(r)
    PROVE  r.at <= r.ver /\ r.ver <= seq'
  BY DEF Drawn, Now, Row, Gone

LEMMA ImagesAre ==
    ASSUME Tables, NEW b \in Batches, NEW k \in Keys
    PROVE  /\ k \in Befores(b) => journal[b][k].before \in Row
           /\ k \in Afters(b) => journal[b][k].after \in Row
  BY DEF Tables, Befores, Afters, Journal

LEMMA VersionsKept == ASSUME BulkInv, Tables', Comes PROVE Versions'
  <1>1. Tables /\ Versions /\ seq \in Nat /\ seq' \in {seq, seq + 1} /\ RowsFrom /\ WorkFrom
    BY DEF BulkInv, Tables, Comes
  <1>2. \A b \in Batches, k \in Keys : ImageFrom(b, k)
    BY DEF Comes
  <1>3. ASSUME NEW k \in Keys, row'[k] # None PROVE row'[k].at <= row'[k].ver /\ row'[k].ver <= seq'
    <2>1. row'[k] \in Row
      BY <1>3 DEF Tables
    <2>2. Drawn(row'[k]) \/ Now(row'[k])
      BY <1>1, <1>3, NoRow DEF RowsFrom, Versions, Told
    <2> QED BY <1>1, <2>1, <2>2, DrawnStays
  <1>4. ASSUME NEW c \in Conns, NEW k \in Keys, work'[c][k] # None
        PROVE  work'[c][k].at <= work'[c][k].ver /\ work'[c][k].ver <= seq'
    <2>1. work'[c][k] \in Row \cup {Gone}
      BY <1>4 DEF Tables
    <2>2. Drawn(Gone)
      BY <1>1 DEF Drawn, Gone
    <2>3. Drawn(work'[c][k]) \/ Now(work'[c][k])
      BY <1>1, <1>4, <2>2 DEF WorkFrom, Versions, Told
    <2> QED BY <1>1, <2>1, <2>3, DrawnStays
  <1>5. ASSUME NEW b \in Batches, NEW k \in Befores(b)'
        PROVE  journal'[b][k].before.at <= journal'[b][k].before.ver /\ journal'[b][k].before.ver <= seq'
    <2>1. k \in Keys /\ journal'[b][k].before \in Row
      BY DEF Tables, Befores, Journal
    <2>2. Drawn(journal'[b][k].before)
      BY <1>1, <1>2, <2>1, NoRow DEF ImageFrom, Versions, Befores
    <2> QED BY <1>1, <2>1, <2>2, DrawnStays
  <1>6. ASSUME NEW b \in Batches, NEW k \in Afters(b)'
        PROVE  /\ journal'[b][k].after.at <= journal'[b][k].after.ver /\ journal'[b][k].after.ver <= seq'
               /\ journal'[b][k].after.at = journal'[b][k].after.ver /\ journal'[b][k].after.ver # 0
    <2>1. k \in Keys /\ journal'[b][k].after \in Row
      BY DEF Tables, Afters, Journal
    <2>2. CASE k \in Afters(b) /\ journal'[b][k].after = journal[b][k].after
      BY <1>1, <2>1, <2>2, DrawnStays DEF Versions
    <2>3. CASE Now(journal'[b][k].after) /\ journal'[b][k].after.at = seq + 1
      BY <1>1, <2>1, <2>3, DrawnStays DEF Now
    <2> QED BY <1>2, <2>1, <2>2, <2>3 DEF ImageFrom, Afters
  <1> QED BY <1>3, <1>4, <1>5, <1>6 DEF Versions, Drawn

LEMMA DrawnOnceKept == ASSUME BulkInv, Tables', Comes PROVE DrawnOnce'
  <1>1. /\ Tables /\ Versions /\ DrawnOnce /\ seq \in Nat /\ WorkFrom /\ DrawnAlone
        /\ \A b \in Batches, k \in Keys : ImageFrom(b, k)
    BY DEF BulkInv, Tables, Comes
  <1>2. \A b \in Batches : \A k \in Afters(b)' :
           /\ k \in Keys /\ journal'[b][k].after.ver \in Nat
           /\ k \in Afters(b) => journal[b][k].after.ver <= seq /\ journal[b][k].after.ver # 0
           /\ \/ k \in Afters(b) /\ journal'[b][k].after = journal[b][k].after
              \/ Now(journal'[b][k].after) /\ journal'[b][k].after.ver = seq + 1
    <2> SUFFICES ASSUME NEW b \in Batches, NEW k \in Afters(b)'
                 PROVE  /\ k \in Keys /\ journal'[b][k].after.ver \in Nat
                        /\ k \in Afters(b) => journal[b][k].after.ver <= seq /\ journal[b][k].after.ver # 0
                        /\ \/ k \in Afters(b) /\ journal'[b][k].after = journal[b][k].after
                           \/ Now(journal'[b][k].after) /\ journal'[b][k].after.ver = seq + 1
      OBVIOUS
    <2>1. k \in Keys /\ journal'[b][k].after \in Row
      BY DEF Tables, Afters, Journal
    <2>2. k \in Afters(b) => journal[b][k].after.ver <= seq /\ journal[b][k].after.ver # 0
      BY <1>1 DEF Versions, Drawn
    <2>3. ImageFrom(b, k)
      BY <1>1, <2>1
    <2> QED BY <2>1, <2>2, <2>3 DEF ImageFrom, Now, Row, Afters
  <1>3. ASSUME NEW b \in Batches, NEW d \in Batches, NEW k \in Afters(b)' \cap Afters(d)',
               journal'[b][k].after.ver = journal'[d][k].after.ver
        PROVE  b = d
    <2>1. CASE Now(journal'[b][k].after) /\ Now(journal'[d][k].after)
      BY <1>1, <1>2, <2>1 DEF DrawnAlone
    <2>2. CASE ~ (Now(journal'[b][k].after) /\ Now(journal'[d][k].after))
      <3>1. k \in Afters(b) /\ k \in Afters(d) /\ journal'[b][k].after = journal[b][k].after
            /\ journal'[d][k].after = journal[d][k].after
        BY <1>1, <1>2, <1>3, <2>2
      <3> QED BY <1>1, <1>3, <3>1 DEF DrawnOnce
    <2> QED BY <2>1, <2>2
  <1>4. ASSUME NEW c \in Conns, NEW b \in Batches, NEW k \in Afters(b)', Undoing(c)', work'[c][k] # None
        PROVE  work'[c][k].ver # journal'[b][k].after.ver
    <2>1. Undoing(c) /\ (work'[c] = work[c] \/ UNCHANGED journal) /\ k \in Keys
      BY <1>1, <1>2, <1>4 DEF DrawnAlone
    <2>2. CASE work'[c][k] = work[c][k]
      <3>1. work[c][k].ver <= seq /\ work[c][k].ver \in Nat
        <4>1. work[c][k] \in Row \cup {Gone} /\ Drawn(work[c][k])
          BY <1>1, <1>4, <2>1, <2>2 DEF Tables, Versions
        <4> QED BY <4>1 DEF Drawn, Row, Gone
      <3>2. k \in Afters(b) => work[c][k].ver # journal[b][k].after.ver
        BY <1>1, <1>4, <2>1, <2>2 DEF DrawnOnce
      <3> QED BY <1>1, <1>2, <2>2, <3>1, <3>2
    <2>3. CASE work'[c][k] # work[c][k]
      <3>1. UNCHANGED journal /\ k \in Afters(b)
        BY <2>1, <2>3 DEF Afters
      <3>2. work'[c][k] = Gone \/ Now(work'[c][k])
        BY <1>1, <1>4, <2>1, <2>3 DEF WorkFrom, Told
      <3>3. work'[c][k].ver \in {0, seq + 1}
        BY <3>2 DEF Now, Gone
      <3> QED BY <1>1, <1>2, <3>1, <3>3
    <2> QED BY <2>2, <2>3
  <1> QED BY <1>3, <1>4 DEF DrawnOnce

(* Each step draws what it says.                                             *)
LEMMA SameImages ==
    ASSUME BulkInv, NEW b \in Batches, NEW k \in Keys,
           journal'[b][k] = journal[b][k] \/ journal'[b][k] = None
    PROVE  ImageFrom(b, k) /\ (k \in Afters(b)' => ~ Now(journal'[b][k].after))
  <1>1. Versions /\ seq \in Nat /\ Tables
    BY DEF BulkInv, Tables
  <1>2. /\ k \in Befores(b)' => k \in Befores(b) /\ journal'[b][k].before = journal[b][k].before
        /\ k \in Afters(b)' => k \in Afters(b) /\ journal'[b][k].after = journal[b][k].after
    BY DEF Befores, Afters
  <1>3. k \in Afters(b) => journal[b][k].after.ver <= seq /\ journal[b][k].after.ver \in Nat
    <2>1. k \in Afters(b) => journal[b][k].after \in Row /\ Drawn(journal[b][k].after)
      BY <1>1, ImagesAre DEF Versions
    <2> QED BY <2>1 DEF Drawn, Row
  <1> QED BY <1>1, <1>2, <1>3 DEF ImageFrom, Now, Befores, Afters

(* The steps of a transaction that leave the journal, or take entries away.  *)
LEMMA NoneDrawn ==
    ASSUME BulkInv, \A b \in Batches, k \in Keys : journal'[b][k] = journal[b][k] \/ journal'[b][k] = None
    PROVE  /\ \A b \in Batches, k \in Keys : ImageFrom(b, k)
           /\ \A b \in Batches : \A k \in Afters(b)' : ~ Now(journal'[b][k].after)
  BY SameImages DEF Afters

LEMMA JournalComes ==
    ASSUME BulkInv, NEW c \in Conns, NEW k \in Keys, JournalBefore(c, k) PROVE Comes
  <1>1. Tables /\ seq \in Nat
    BY DEF BulkInv, Tables
  <1>2. /\ Executing(c) /\ k \in tx[c].todo /\ tx[c].read = None /\ UNCHANGED <<row, seq, work>>
        /\ tx' = [tx EXCEPT ![c].read = k]
    BY JournalBeforeDoes
  <1>3. tx[c].b \in Batches
    BY <1>2, AtExecuting
  <1>4. PICK img \in Journal \cup {None} :
           /\ journal' = [journal EXCEPT ![tx[c].b][k] = img]
           /\ img = None <=> tx[c].plan[k] = None /\ Seen(c, k) = None
           /\ img # None => img.before = Seen(c, k) /\ img.after = None
    BY JournalBeforeDoes
  <1>5. \A b \in Batches, j \in Keys :
           journal'[b][j] = IF b = tx[c].b /\ j = k THEN img ELSE journal[b][j]
    BY <1>1, <1>3, <1>4 DEF Tables
  <1>6. ASSUME NEW b \in Batches, NEW j \in Keys
        PROVE  ImageFrom(b, j) /\ (j \in Afters(b)' => ~ Now(journal'[b][j].after))
    <2>1. CASE journal'[b][j] = journal[b][j]
      BY <2>1, SameImages
    <2>2. CASE b = tx[c].b /\ j = k
      <3>1. j \in Befores(b)' => journal'[b][j].before = Seen(c, k)
        BY <1>4, <1>5, <2>2 DEF Befores
      <3>2. j \notin Afters(b)'
        BY <1>4, <1>5, <2>2 DEF Afters
      <3>3. j \in Befores(b)' => Seen(c, k) \in Row
        BY <1>1, <3>1, SeenIs DEF Befores
      <3>4. work[c][k] \in Row \cup {None, Gone}
        BY <1>1 DEF Tables
      <3>5. Seen(c, k) # None => (row[k] # None /\ Seen(c, k) = row[k]) \/ (work[c][k] \in Row /\ Seen(c, k) = work[c][k])
        BY <1>1, <3>4, SeenIs
      <3> QED BY <2>2, <3>1, <3>2, <3>5 DEF ImageFrom, Befores, Afters
    <2> QED BY <1>5, <2>1, <2>2
  <1>7. DrawnAlone
    <2>1. \A d \in Conns : Undoing(d)' => Undoing(d)
      BY <1>1, <1>2 DEF Undoing, Tables, Tx
    <2> QED BY <1>2, <1>6, <2>1 DEF DrawnAlone, Afters
  <1> QED BY <1>2, <1>6, <1>7 DEF Comes, RowsFrom, WorkFrom

LEMMA WriteComes == ASSUME BulkInv, NEW c \in Conns, WriteRow(c) PROVE Comes
  <1> DEFINE k == tx[c].read
             b == tx[c].b
             v == tx[c].plan[k]
  <1>1. Tables /\ seq \in Nat
    BY DEF BulkInv, Tables
  <1>2. /\ Executing(c) /\ k \in Keys /\ k \in tx[c].todo /\ UNCHANGED row
        /\ tx' = [tx EXCEPT ![c].read = None, ![c].todo = @ \ {k}]
    BY WriteRowDoes
  <1>3. b \in Batches /\ JournalOf(c)
    BY <1>2, AtExecuting
  <1>4. \A d \in Conns : Undoing(d)' => Undoing(d) /\ d # c
    BY <1>1, <1>2, NoRow DEF Undoing, Executing, Tables, Tx
  <1>5. CASE v = None /\ UNCHANGED <<journal, seq>> /\ \E w \in {work[c][k], Gone} : work' = [work EXCEPT ![c][k] = w]
    <2>1. \A d \in Conns, j \in Keys : work'[d][j] \in {work[d][j], Gone}
      BY <1>1, <1>5 DEF Tables
    <2>2. DrawnAlone
      BY <1>4, <1>5, NoneDrawn DEF DrawnAlone
    <2> QED BY <1>2, <1>5, <2>1, <2>2, NoneDrawn DEF Comes, RowsFrom, WorkFrom
  <1>6. CASE /\ v \in Vals /\ seq' = seq + 1
             /\ work' = [work EXCEPT ![c][k] = Fresh(v)]
             /\ journal' = [journal EXCEPT ![b][k].after = Fresh(v)]
    <2>1. Fresh(v) \in Row /\ Fresh(v).at = seq + 1 /\ Now(Fresh(v))
      BY <1>1, <1>6, FreshIs DEF Now
    <2>2. journal[b][k] \in Journal
      BY <1>1, <1>2, <1>3, <1>6, NoRow DEF JournalOf, Tables
    <2>3. journal' = [journal EXCEPT ![b][k] = [journal[b][k] EXCEPT !.after = Fresh(v)]]
      BY <1>1, <1>6 DEF Tables
    <2>4. \A d \in Batches, j \in Keys : d # b \/ j # k => journal'[d][j] = journal[d][j]
      BY <1>1, <1>3, <2>3 DEF Tables
    <2>5. journal'[b][k].before = journal[b][k].before /\ journal'[b][k].after = Fresh(v)
          /\ journal[b][k] # None
      BY <1>1, <1>2, <1>3, <2>2, <2>3, NoRow DEF Tables, Journal
    <2>6. ImageFrom(b, k)
      BY <1>2, <2>1, <2>5 DEF ImageFrom, Befores, Afters
    <2>7. \A d \in Conns, j \in Keys : work'[d][j] = work[d][j] \/ Told(j, work'[d][j])
      BY <1>1, <1>2, <1>6, <2>1 DEF Tables, Told
    <2>8. \A d \in Conns \ {c} : work'[d] = work[d]
      BY <1>1, <1>6 DEF Tables
    <2>9. \A d \in Batches, j \in Keys : d # b \/ j # k =>
             ImageFrom(d, j) /\ (j \in Afters(d)' => ~ Now(journal'[d][j].after))
      BY <2>4, SameImages
    <2>10. DrawnAlone
      BY <1>4, <2>8, <2>9 DEF DrawnAlone
    <2> QED BY <1>2, <1>6, <2>6, <2>7, <2>9, <2>10 DEF Comes, RowsFrom, WorkFrom
  <1> QED BY <1>5, <1>6, WriteRowDoes

LEMMA UndoComes == ASSUME BulkInv, NEW c \in Conns, NEW k \in Keys, UndoRow(c, k) PROVE Comes
  <1>1. Tables /\ seq \in Nat
    BY DEF BulkInv, Tables
  <1>2. Undoing(c) /\ UNCHANGED <<row, journal>> /\ tx' = [tx EXCEPT ![c].todo = @ \ {k}]
    BY UndoRowDoes
  <1>3. \A d \in Conns : Undoing(d)' => Undoing(d)
    BY <1>1, <1>2 DEF Undoing, Tables, Tx
  <1>4. DrawnAlone
    BY <1>2, <1>3, NoneDrawn DEF DrawnAlone
  <1>5. seq' \in {seq, seq + 1} /\ WorkFrom
    <2>1. CASE UNCHANGED <<seq, work>>
      BY <2>1 DEF WorkFrom
    <2>2. CASE seq' = seq + 1 /\ work' = [work EXCEPT ![c][k] = Gone]
      BY <1>1, <2>2 DEF WorkFrom, Tables
    <2>3. CASE /\ seq' = seq + 1 /\ journal[tx[c].b][k].before \in Row
               /\ work' = [work EXCEPT ![c][k] = [journal[tx[c].b][k].before EXCEPT !.ver = seq + 1]]
      <3> DEFINE r == journal[tx[c].b][k].before
                 s == [r EXCEPT !.ver = seq + 1]
      <3>1. s.at = r.at /\ s.ver = seq + 1 /\ r \in Row
        BY <1>1, <2>3, StampedIs
      <3>2. r.at <= seq + 1
        <4>1. tx[c].b \in Batches
          BY <1>2, AtUndoing
        <4>2. journal[tx[c].b][k] \in Journal
          BY UndoRowDoes
        <4>3. k \in Befores(tx[c].b)
          BY <2>3, <4>2, NoRow DEF Befores
        <4>4. Drawn(r)
          BY <4>1, <4>3 DEF BulkInv, Versions
        <4> QED BY <1>1, <3>1, <4>4 DEF Drawn, Row
      <3>3. Told(k, s)
        <4>1. tx[c].b \in Batches
          BY <1>2, AtUndoing
        <4>2. journal[tx[c].b][k] \in Journal
          BY UndoRowDoes
        <4>3. k \in Befores(tx[c].b)
          BY <2>3, <4>2, NoRow DEF Befores
        <4>4. Known(k, s.at)
          BY <3>1, <4>1, <4>3 DEF Known
        <4> QED BY <2>3, <3>1, <3>2, <4>4 DEF Now, Told
      <3> HIDE DEF s
      <3>4. \A d \in Conns, j \in Keys : work'[d][j] = work[d][j] \/ (j = k /\ work'[d][j] = s)
        BY <1>1, <2>3 DEF Tables, s
      <3> QED BY <2>3, <3>3, <3>4 DEF WorkFrom
    <2> QED BY <2>1, <2>2, <2>3, UndoRowDoes
  <1> QED BY <1>2, <1>4, <1>5, NoneDrawn DEF Comes, RowsFrom

LEMMA EndComes ==
    ASSUME BulkInv, NEW c \in Conns, ExecuteCommit(c) \/ UndoCommit(c) \/ Abort(c) PROVE Comes
  <1>1. Tables /\ End(c) /\ UNCHANGED seq
    BY DEF BulkInv, ExecuteCommit, UndoCommit, Abort
  <1>2. (\A d \in Conns \ {c} : tx'[d] = tx[d]) /\ tx'[c] = NoTx
    BY <1>1 DEF Tables, End
  <1>3. WorkFrom
    <2>1. \A d \in Conns, k \in Keys : work'[d][k] \in {work[d][k], None}
      BY <1>1 DEF Tables, End
    <2> QED BY <2>1 DEF WorkFrom
  <1>4. RowsFrom
    <2>1. UNCHANGED row \/ \A k \in Keys : row'[k] = Seen(c, k)
      BY DEF ExecuteCommit, UndoCommit, Abort
    <2>2. \A k \in Keys : work[c][k] \in Row \cup {None, Gone}
      BY <1>1 DEF Tables
    <2>3. \A k \in Keys : Seen(c, k) \in {row[k], None} \/ (work[c][k] \in Row /\ Seen(c, k) = work[c][k])
      BY <1>1, <2>2, SeenIs
    <2> QED BY <2>1, <2>3 DEF RowsFrom
  <1>5. \A b \in Batches, k \in Keys : journal'[b][k] = journal[b][k] \/ journal'[b][k] = None
    <2>1. CASE UNCHANGED journal
      BY <2>1
    <2>2. CASE journal' = [journal EXCEPT ![tx[c].b] = [k \in Keys |-> None]]
      BY <1>1, <2>2 DEF Tables
    <2> QED BY <2>1, <2>2 DEF ExecuteCommit, UndoCommit, Abort
  <1>6. DrawnAlone
    <2>1. \A d \in Conns : Undoing(d)' => d # c /\ Undoing(d) /\ work'[d] = work[d]
      <3>1. \A d \in Conns \ {c} : work'[d] = work[d]
        BY <1>1 DEF Tables, End
      <3> QED BY <1>2, <3>1 DEF Undoing, NoTx
    <2> QED BY <1>5, <2>1, NoneDrawn DEF DrawnAlone
  <1> QED BY <1>1, <1>3, <1>4, <1>5, <1>6, NoneDrawn DEF Comes

LEMMA StillComes ==
    ASSUME BulkInv, UNCHANGED <<work, journal>>, seq' \in {seq, seq + 1}, RowsFrom,
           \A c \in Conns : Undoing(c)' => Undoing(c) \/ \A k \in Keys : work[c][k] = None
    PROVE  Comes
  <1>1. WorkFrom
    BY DEF WorkFrom
  <1>2. DrawnAlone
    BY NoneDrawn DEF DrawnAlone
  <1> QED BY <1>1, <1>2, NoneDrawn DEF Comes

LEMMA BeginComes ==
    ASSUME BulkInv, NEW c \in Conns, NEW b \in Batches,
           \/ \E kind \in Kinds, p \in Plans : ExecuteBegin(c, b, kind, p)
           \/ UndoBegin(c, b)
    PROVE  Comes
  <1>1. Tables /\ At(c) /\ Idle(c) /\ UNCHANGED <<data, work>>
    BY DEF BulkInv, ExecuteBegin, UndoBegin
  <1>2. \A d \in Conns \ {c} : tx'[d] = tx[d]
    BY <1>1 DEF ExecuteBegin, UndoBegin, Tables
  <1>3. \A k \in Keys : work[c][k] = None
    BY <1>1 DEF At, NoTx, Idle
  <1>4. RowsFrom /\ UNCHANGED <<seq, journal>>
    BY <1>1 DEF RowsFrom, data
  <1>5. \A d \in Conns : Undoing(d)' => Undoing(d) \/ \A k \in Keys : work[d][k] = None
    BY <1>2, <1>3 DEF Undoing
  <1> QED BY <1>1, <1>4, <1>5, StillComes

LEMMA CardComes ==
    ASSUME BulkInv, NEW b \in Batches, CardUndo(b) \/ \E p \in Plans : CardApply(b, p)
    PROVE  Comes
  <1>1. Tables /\ seq \in Nat /\ UNCHANGED <<tx, work>> /\ seq' = seq + 1
    BY DEF BulkInv, Tables, CardUndo, CardApply
  <1>2. \A c \in Conns : Undoing(c)' => Undoing(c)
    BY <1>1 DEF Undoing
  <1>3. CASE CardUndo(b)
    <2>1. ASSUME NEW k \in Keys PROVE row'[k] \in {row[k], None} \/ Told(k, row'[k])
      <3>1. CASE k \notin Journaled(b) \/ journal[b][k].before = None
        BY <1>3, <3>1 DEF CardUndo
      <3>2. CASE k \in Journaled(b) /\ journal[b][k].before # None
        <4>1. journal[b][k].before \in Row /\ Drawn(journal[b][k].before) /\ Known(k, journal[b][k].before.at)
          <5>1. k \in Befores(b)
            BY <3>2 DEF Journaled, Befores
          <5> QED BY <1>1, <5>1, ImagesAre DEF BulkInv, Versions, Known
        <4>2. row'[k] = [journal[b][k].before EXCEPT !.ver = seq + 1]
          BY <1>3, <3>2 DEF CardUndo
        <4>3. row'[k].at = journal[b][k].before.at /\ row'[k].ver = seq + 1
          BY <1>1, <4>1, <4>2, StampedIs
        <4> QED BY <1>1, <4>1, <4>3 DEF Now, Told, Drawn, Row
      <3> QED BY <3>1, <3>2
    <2>2. RowsFrom /\ UNCHANGED journal
      BY <1>3, <2>1 DEF RowsFrom, CardUndo
    <2> QED BY <1>1, <1>2, <2>2, StillComes
  <1>4. CASE \E p \in Plans : CardApply(b, p)
    <2>1. PICK p \in Plans : CardApply(b, p)
      BY <1>4
    <2>2. \A k \in DOMAIN p : Now(Fresh(p[k])) /\ Fresh(p[k]).at = seq + 1
      BY <1>1, <2>1, PlanIs, FreshIs DEF CardApply, Now
    <2>3. RowsFrom
      <3>1. \A k \in Keys : row'[k] = row[k] \/ (k \in DOMAIN p /\ row'[k] = Fresh(p[k]))
        BY <2>1 DEF CardApply
      <3> QED BY <2>2, <3>1 DEF RowsFrom, Told
    <2>4. WorkFrom
      BY <1>1 DEF WorkFrom
    <2>5. \A d \in Batches, k \in Keys : d # b =>
             ImageFrom(d, k) /\ (k \in Afters(d)' => ~ Now(journal'[d][k].after))
      <3>1. \A d \in Batches : d # b => journal'[d] = journal[d]
        BY <1>1, <2>1 DEF CardApply, Tables
      <3> QED BY <3>1, SameImages
    <2>6. ASSUME NEW k \in Keys PROVE ImageFrom(b, k)
      <3>1. journal'[b][k] = IF k \in DOMAIN p THEN [before |-> row[k], after |-> Fresh(p[k])] ELSE None
        BY <1>1, <2>1 DEF CardApply, Tables
      <3>2. CASE k \in DOMAIN p
        <4>1. journal'[b][k].before = row[k] /\ journal'[b][k].after = Fresh(p[k])
          BY <3>1, <3>2
        <4> QED BY <2>2, <3>2, <4>1 DEF ImageFrom
      <3>3. CASE k \notin DOMAIN p
        BY <3>1, <3>3 DEF ImageFrom
      <3> QED BY <3>2, <3>3
    <2>7. DrawnAlone
      BY <1>1, <1>2, <2>5 DEF DrawnAlone
    <2>8. \A d \in Batches, k \in Keys : ImageFrom(d, k)
      BY <2>5, <2>6
    <2> QED BY <1>1, <2>3, <2>4, <2>7, <2>8 DEF Comes
  <1> QED BY <1>3, <1>4

LEMMA OtherComes == ASSUME BulkInv, NEW k \in Keys, Edit(k) \/ Bump(k) PROVE Comes
  <1>1. Tables /\ seq \in Nat /\ seq' = seq + 1 /\ UNCHANGED <<journal, tx, work>>
    BY OtherWrites DEF BulkInv, Tables
  <1>2. PICK r \in Row \cup {None} :
           /\ row' = [row EXCEPT ![k] = r] /\ (r # None => r.ver = seq + 1 /\ r.at <= seq + 1)
           /\ r # None => r.at = seq + 1 \/ (row[k] # None /\ r.at = row[k].at)
    BY OtherWrites
  <1>3. RowsFrom
    <2>1. r # None => Told(k, r)
      BY <1>1, <1>2 DEF Told, Now, Known
    <2>2. \A j \in Keys : row'[j] \in {row[j], None} \/ Told(j, row'[j])
      BY <1>1, <1>2, <2>1 DEF Tables
    <2> QED BY <2>2 DEF RowsFrom
  <1>4. \A d \in Conns : Undoing(d)' => Undoing(d)
    BY <1>1 DEF Undoing
  <1> QED BY <1>1, <1>3, <1>4, StillComes

LEMMA AllComes == ASSUME BulkInv, [Next]_vars PROVE Comes
  <1>1. CASE UNCHANGED vars \/ \E b \in Batches : UndoRefused(b)
    <2>1. UNCHANGED <<row, seq, journal, tx, work>>
      BY <1>1 DEF UndoRefused, vars, data
    <2>2. RowsFrom /\ \A c \in Conns : Undoing(c)' => Undoing(c)
      BY <2>1 DEF RowsFrom, Undoing
    <2> QED BY <2>1, <2>2, StillComes
  <1> QED BY <1>1, JournalComes, WriteComes, UndoComes, EndComes, BeginComes, CardComes, OtherComes DEF Next

-----------------------------------------------------------------------------
(* Whose a row is.                                                           *)

(* A row that is put back, touched or written by somebody else is of a new   *)
(* version, and so is what no batch left.                                    *)
LEMMA NewIsNobodys ==
    ASSUME BulkInv, NEW b \in Batches, NEW k \in Afters(b), NEW r, r.ver = seq + 1
    PROVE  r # journal[b][k].after
  <1>1. journal[b][k].after \in Row /\ Drawn(journal[b][k].after) /\ seq \in Nat
    BY ImagesAre DEF BulkInv, Versions, Tables, Afters
  <1> QED BY <1>1 DEF Drawn, Row

LEMMA RowStays ==
    ASSUME BulkInv, NEW b \in Batches, batch[b] # "new", journal'[b] = journal[b], NEW k \in Afters(b)',
           \/ row'[k] = row[k] /\ last'[k] = last[k]
           \/ row'[k] = None
           \/ row'[k].ver = seq + 1
    PROVE  row'[k] = journal'[b][k].after => last'[k] = b
  <1>1. k \in Keys /\ k \in Afters(b)
    BY DEF Afters
  <1>2. CASE row'[k] = row[k] /\ last'[k] = last[k]
    BY <1>1, <1>2 DEF BulkInv, LastWrote
  <1>3. CASE row'[k] = None
    BY <1>1, <1>3 DEF Afters
  <1>4. CASE row'[k].ver = seq + 1
    BY <1>1, <1>4, NewIsNobodys
  <1> QED BY <1>2, <1>3, <1>4

LEMMA FinishedStay ==
    ASSUME BulkInv, NEW c \in Conns,
           (\E k \in Keys : JournalBefore(c, k) \/ UndoRow(c, k)) \/ WriteRow(c) \/ Abort(c) \/ UndoCommit(c)
    PROVE  \A b \in Batches : /\ batch'[b] # "new" => batch[b] # "new"
                              /\ batch[b] # "new" => journal'[b] = journal[b]
  <1>1. CASE (\E k \in Keys : JournalBefore(c, k) \/ UndoRow(c, k)) \/ WriteRow(c)
    <2>1. OwnBatch(c) /\ ~ Idle(c)
      BY <1>1, RowStepFrames
    <2>2. UNCHANGED batch
      BY <1>1 DEF JournalBefore, WriteRow, UndoRow
    <2>3. (Executing(c) /\ batch[tx[c].b] = "new") \/ Undoing(c)
      BY <1>1, JournalBeforeDoes, UndoRowDoes, WriterIs, AtExecuting
    <2> QED BY <2>1, <2>2, <2>3 DEF OwnBatch
  <1>2. CASE Abort(c) \/ UndoCommit(c)
    <2>1. OwnBatch(c) /\ ~ Idle(c)
      BY <1>2, EndFrames
    <2>2. CASE Executing(c)
      <3>1. batch[tx[c].b] = "new" /\ Abort(c)
        BY <1>2, <2>2, AtExecuting, NoRow DEF UndoCommit, Executing
      <3> QED BY <2>1, <3>1 DEF OwnBatch, Abort
    <2>3. CASE ~ Executing(c)
      <3>1. Undoing(c)
        BY <2>1, <2>3 DEF BulkInv, Tables, Tx, Executing, Idle, Undoing
      <3> QED BY <2>1, <3>1, AtUndoing DEF OwnBatch
    <2> QED BY <2>2, <2>3
  <1> QED BY <1>1, <1>2

LEMMA LastAtStep ==
    ASSUME BulkInv, NEW c \in Conns,
           (\E k \in Keys : JournalBefore(c, k) \/ UndoRow(c, k)) \/ WriteRow(c) \/ Abort(c)
    PROVE  LastWrote'
  <1>1. UNCHANGED <<row, last>>
    BY JournalBeforeDoes, UndoRowDoes, WriteRowDoes DEF Abort, ghost
  <1> QED BY <1>1, FinishedStay, RowStays DEF LastWrote

(* What a commit makes of a row.                                             *)
LEMMA LastAtUndo == ASSUME BulkInv, NEW c \in Conns, UndoCommit(c) PROVE LastWrote'
  <1>1. Tables /\ DrawnOnce /\ Undoing(c)
    BY DEF BulkInv, UndoCommit, Undoing
  <1> SUFFICES ASSUME NEW b \in Batches, batch'[b] # "new", NEW k \in Afters(b)', row'[k] = journal'[b][k].after
               PROVE  last'[k] = b
    BY DEF LastWrote
  <1>2. batch[b] # "new" /\ journal'[b] = journal[b] /\ k \in Keys /\ k \in Afters(b)
    BY FinishedStay DEF Afters
  <1>3. row'[k] = Seen(c, k) /\ (work[c][k] = None => last'[k] = last[k])
    BY <1>2 DEF UndoCommit
  <1>4. CASE work[c][k] = None
    BY <1>1, <1>2, <1>3, <1>4, SeenIs, RowStays
  <1>5. CASE work[c][k] = Gone
    BY <1>1, <1>2, <1>3, <1>5, SeenIs DEF Afters
  <1>6. CASE work[c][k] \in Row
    <2>1. work[c][k].ver # journal[b][k].after.ver
      BY <1>1, <1>2, <1>6, NoRow DEF DrawnOnce
    <2> QED BY <1>1, <1>2, <1>3, <1>6, <2>1, SeenIs
  <1> QED BY <1>1, <1>2, <1>4, <1>5, <1>6 DEF Tables

LEMMA CommitMakes ==
    ASSUME BulkInv, NEW c \in Conns, ExecuteCommit(c)
    PROVE  /\ Executing(c) /\ tx[c].b \in Batches /\ batch[tx[c].b] = "new" /\ UNCHANGED journal
           /\ \A k \in Keys :
                 /\ work[c][k] \in Row => k \in Afters(tx[c].b) /\ journal[tx[c].b][k].after = work[c][k]
                 /\ k \in Afters(tx[c].b) => work[c][k] \in Row
                 /\ work[c][k] = None \/ last'[k] = tx[c].b
                 /\ work[c][k] = None => last'[k] = last[k]
                 /\ row'[k] = Seen(c, k)
           /\ \A b \in Batches : b # tx[c].b => batch'[b] = batch[b]
           /\ batch'[tx[c].b] = "done"
  <1>1. Tables /\ Executing(c) /\ tx[c].todo = {} /\ At(c)
    BY DEF BulkInv, ExecuteCommit, Executing
  <1>2. tx[c].b \in Batches /\ batch[tx[c].b] = "new" /\ JournalOf(c)
    BY <1>1, AtExecuting
  <1>3. ASSUME NEW k \in Keys
        PROVE  /\ work[c][k] \in Row => k \in Afters(tx[c].b) /\ journal[tx[c].b][k].after = work[c][k]
               /\ k \in Afters(tx[c].b) => work[c][k] \in Row
    <2>1. work[c][k] # None => k \in tx[c].keys
      BY <1>1 DEF At
    <2>2. k \in Afters(tx[c].b) => k \in tx[c].keys
      BY <1>2 DEF JournalOf, Afters
    <2>3. CASE tx[c].plan[k] = None
      BY <1>1, <1>2, <2>1, <2>2, <2>3, NoRow DEF JournalOf, Afters
    <2>4. CASE tx[c].plan[k] # None
      BY <1>1, <1>2, <2>1, <2>2, <2>4, NoRow DEF JournalOf, Afters
    <2> QED BY <2>3, <2>4
  <1>4. /\ \A k \in Keys : /\ work[c][k] = None \/ last'[k] = tx[c].b
                           /\ work[c][k] = None => last'[k] = last[k]
                           /\ row'[k] = Seen(c, k)
        /\ UNCHANGED journal
    BY DEF ExecuteCommit
  <1>5. (\A b \in Batches : b # tx[c].b => batch'[b] = batch[b]) /\ batch'[tx[c].b] = "done"
    BY <1>1, <1>2 DEF ExecuteCommit, Tables
  <1> QED BY <1>1, <1>2, <1>3, <1>4, <1>5

LEMMA LastAtCommit == ASSUME BulkInv, NEW c \in Conns, ExecuteCommit(c) PROVE LastWrote'
  <1>1. Tables /\ DrawnOnce
    BY DEF BulkInv
  <1>2. tx[c].b \in Batches /\ UNCHANGED journal /\ \A b \in Batches : b # tx[c].b => batch'[b] = batch[b]
    BY CommitMakes
  <1> SUFFICES ASSUME NEW b \in Batches, batch'[b] # "new", NEW k \in Afters(b)', row'[k] = journal'[b][k].after
               PROVE  last'[k] = b
    BY DEF LastWrote
  <1>3. k \in Keys /\ k \in Afters(b) /\ journal'[b] = journal[b]
    BY <1>2 DEF Afters
  <1>4. /\ work[c][k] \in Row => k \in Afters(tx[c].b) /\ journal[tx[c].b][k].after = work[c][k]
        /\ k \in Afters(tx[c].b) => work[c][k] \in Row
        /\ work[c][k] = None \/ last'[k] = tx[c].b
        /\ work[c][k] = None => last'[k] = last[k]
        /\ row'[k] = Seen(c, k)
    BY <1>3, CommitMakes
  <1>5. CASE work[c][k] = None
    <2>1. b # tx[c].b
      BY <1>3, <1>4, <1>5, NoRow
    <2> QED BY <1>1, <1>2, <1>3, <1>4, <1>5, <2>1, SeenIs, RowStays
  <1>6. CASE work[c][k] = Gone
    BY <1>1, <1>3, <1>4, <1>6, SeenIs DEF Afters
  <1>7. CASE work[c][k] \in Row
    <2>1. journal[b][k].after = journal[tx[c].b][k].after
      BY <1>1, <1>3, <1>4, <1>7, SeenIs
    <2> QED BY <1>1, <1>2, <1>3, <1>4, <1>7, <2>1, NoRow DEF DrawnOnce
  <1> QED BY <1>1, <1>3, <1>5, <1>6, <1>7 DEF Tables

LEMMA LastAtCard ==
    ASSUME BulkInv, NEW b \in Batches, CardUndo(b) \/ \E p \in Plans : CardApply(b, p)
    PROVE  LastWrote'
  <1>1. Tables /\ seq \in Nat
    BY DEF BulkInv, Tables
  <1> SUFFICES ASSUME NEW d \in Batches, batch'[d] # "new", NEW k \in Afters(d)'
               PROVE  row'[k] = journal'[d][k].after => last'[k] = d
    BY DEF LastWrote
  <1>2. k \in Keys
    BY DEF Afters
  <1>3. CASE CardUndo(b)
    <2>1. batch[d] # "new" /\ journal'[d] = journal[d]
      BY <1>3 DEF CardUndo
    <2>2. \/ row'[k] = row[k] /\ last'[k] = last[k]
          \/ row'[k] = None
          \/ row'[k].ver = seq + 1
      <3>1. k \in Journaled(b) /\ journal[b][k].before # None => journal[b][k].before \in Row
        BY <1>1 DEF Journaled, Tables, Journal
      <3> QED BY <1>1, <1>2, <1>3, <3>1, StampedIs DEF CardUndo
    <2> QED BY <2>1, <2>2, RowStays
  <1>4. CASE \E p \in Plans : CardApply(b, p)
    <2>1. PICK p \in Plans : CardApply(b, p)
      BY <1>4
    <2>2. \A j \in DOMAIN p : Fresh(p[j]).ver = seq + 1
      BY <1>1, <2>1, PlanIs, FreshIs DEF CardApply
    <2>3. CASE d = b
      <3>1. k \in DOMAIN p
        BY <1>1, <1>2, <2>1, <2>3 DEF CardApply, Tables, Afters
      <3> QED BY <1>2, <2>1, <2>3, <3>1 DEF CardApply
    <2>4. CASE d # b
      <3>1. batch[d] # "new" /\ journal'[d] = journal[d]
        BY <1>1, <2>1, <2>4 DEF CardApply, Tables
      <3>2. (row'[k] = row[k] /\ last'[k] = last[k]) \/ row'[k].ver = seq + 1
        BY <1>2, <2>1, <2>2 DEF CardApply
      <3> QED BY <3>1, <3>2, RowStays
    <2> QED BY <2>3, <2>4
  <1> QED BY <1>3, <1>4

LEMMA LastAtOther ==
    ASSUME BulkInv, (\E k \in Keys : Edit(k) \/ Bump(k)) \/ UNCHANGED vars \/ (\E b \in Batches : UndoRefused(b))
                    \/ \E c \in Conns, b \in Batches :
                          UndoBegin(c, b) \/ \E kind \in Kinds, p \in Plans : ExecuteBegin(c, b, kind, p)
    PROVE  LastWrote'
  <1>1. Tables
    BY DEF BulkInv
  <1>2. CASE \E k \in Keys : Edit(k) \/ Bump(k)
    <2>1. PICK k \in Keys : Edit(k) \/ Bump(k)
      BY <1>2
    <2>2. PICK r \in Row \cup {None} :
             /\ row' = [row EXCEPT ![k] = r] /\ (r # None => r.ver = seq + 1 /\ r.at <= seq + 1)
             /\ last' = [last EXCEPT ![k] = None] \/ UNCHANGED last
      BY <2>1, OtherWrites
    <2>3. UNCHANGED <<batch, journal>>
      BY <2>1, OtherWrites
    <2>4. \A j \in Keys : \/ row'[j] = row[j] /\ last'[j] = last[j]
                          \/ row'[j] = None
                          \/ row'[j].ver = seq + 1
      BY <1>1, <2>2 DEF Tables, BulkInv, Ghosts
    <2> QED BY <2>3, <2>4, RowStays DEF LastWrote, Afters
  <1>3. CASE UNCHANGED <<row, batch, journal, last>>
    BY <1>3, RowStays DEF LastWrote
  <1> QED BY <1>2, <1>3 DEF UndoRefused, UndoBegin, ExecuteBegin, vars, data, ghost

LEMMA BulkStep == BulkInv /\ [Next]_vars => BulkInv'
  <1> SUFFICES ASSUME BulkInv, [Next]_vars PROVE BulkInv'
    OBVIOUS
  <1>1. LastWrote'
    BY LastAtStep, LastAtUndo, LastAtCommit, LastAtCard, LastAtOther DEF Next
  <1>2. Tables' /\ Ghosts'
    BY BulkTypes
  <1>3. Versions' /\ DrawnOnce'
    BY <1>2, AllComes, VersionsKept, DrawnOnceKept
  <1> QED BY <1>1, <1>2, <1>3, BulkShape DEF BulkInv

LEMMA BulkInit == Init => BulkInv
  <1> SUFFICES ASSUME Init PROVE BulkInv
    OBVIOUS
  <1>1. Tables
    <2>1. row \in [Keys -> Row \cup {None}] /\ seq \in Nat
      BY DEF Init, Row
    <2>2. tx \in [Conns -> Tx]
      BY NoTxIs DEF Init
    <2> QED BY <2>1, <2>2 DEF Init, Tables
  <1>2. Ghosts
    BY DEF Init, Ghosts
  <1>3. \A c \in Conns : At(c) /\ ~ Executing(c) /\ tx[c].keys = {}
    BY NoRow DEF Init, At, NoTx, Idle, Executing, Undoing
  <1>4. \A b \in Batches, k \in Keys : journal[b][k] = None
    BY DEF Init
  <1>5. Apart /\ Unbegun /\ Journals
    BY <1>3, <1>4 DEF Apart, Unbegun, Journals, Journaled
  <1>6. \A b \in Batches : Afters(b) = {} /\ Befores(b) = {}
    BY <1>4 DEF Afters, Befores
  <1>7. Versions
    <2>1. \A k \in Keys : row[k] # None => row[k] \in [val : Vals, at : {0}, ver : {0}]
      BY DEF Init
    <2>2. (\A c \in Conns, k \in Keys : work[c][k] = None) /\ seq = 0
      BY DEF Init
    <2> QED BY <1>6, <2>1, <2>2 DEF Versions, Drawn
  <1>8. DrawnOnce /\ LastWrote
    BY <1>6 DEF DrawnOnce, LastWrote
  <1> QED BY <1>1, <1>2, <1>3, <1>5, <1>7, <1>8 DEF BulkInv

-----------------------------------------------------------------------------
(* Only the undo of a row decides about it.                                  *)
LEMMA DecidedIs ==
    ASSUME BulkInv, [Next]_vars, NEW c \in Conns, NEW k \in Keys, Decided(c, k)
    PROVE  UndoRow(c, k)
  <1>1. Tables /\ Undoing(c) /\ tx[c].op = "undo" /\ tx'[c].op = "undo" /\ k \in tx[c].todo /\ k \notin tx'[c].todo
    BY DEF Decided, Undoing, BulkInv
  <1>2. CASE \E d \in Conns : (\E j \in Keys : JournalBefore(d, j) \/ UndoRow(d, j)) \/ WriteRow(d)
    <2>1. PICK d \in Conns : (\E j \in Keys : JournalBefore(d, j) \/ UndoRow(d, j)) \/ WriteRow(d)
      BY <1>2
    <2>2. d = c
      BY <1>1, <2>1, RowStepFrames DEF OthersSame
    <2>3. PICK j \in Keys : UndoRow(c, j)
      BY <1>1, <2>1, <2>2, WriterIs, JournalBeforeDoes, NoRow DEF Executing
    <2>4. tx' = [tx EXCEPT ![c].todo = @ \ {j}]
      BY <2>3, UndoRowDoes
    <2>5. tx'[c].todo = tx[c].todo \ {j}
      BY <1>1, <2>4 DEF Tables, Tx
    <2> QED BY <1>1, <2>3, <2>5
  <1>3. CASE \E d \in Conns : ExecuteCommit(d) \/ UndoCommit(d) \/ Abort(d)
    <2>1. PICK d \in Conns : ExecuteCommit(d) \/ UndoCommit(d) \/ Abort(d)
      BY <1>3
    <2>2. OthersSame(d) /\ tx'[d] = NoTx
      BY <2>1, EndFrames
    <2> QED BY <1>1, <2>2 DEF OthersSame, NoTx
  <1>4. CASE \E d \in Conns, b \in Batches :
               UndoBegin(d, b) \/ \E kind \in Kinds, p \in Plans : ExecuteBegin(d, b, kind, p)
    <2>1. PICK d \in Conns, b \in Batches :
             UndoBegin(d, b) \/ \E kind \in Kinds, p \in Plans : ExecuteBegin(d, b, kind, p)
      BY <1>4
    <2>2. OthersSame(d) /\ Idle(d)
      BY <2>1, BeginStep DEF UndoBegin, ExecuteBegin
    <2> QED BY <1>1, <2>2 DEF OthersSame, Idle
  <1>5. CASE UNCHANGED tx
    BY <1>1, <1>5
  <1>6. ASSUME NEW j \in Keys, Edit(j) \/ Bump(j) PROVE UNCHANGED tx
    BY <1>6, OtherWrites
  <1> QED BY <1>2, <1>3, <1>4, <1>5, <1>6 DEF Next, vars, data, UndoRefused, CardUndo, CardApply

(* The undo of a batch never writes over somebody's later edit, not even one *)
(* that has put the same columns back (mutations._restore_rows compares the  *)
(* version with that of the after image).                                    *)
THEOREM EditsAreLeft == Spec => UndoLeavesEdits
  <1>1. BulkInv /\ [Next]_vars =>
           [\A c \in Conns, k \in Keys :
              Decided(c, k) /\ (work')[c][k] # None /\ Entry(c, k).after # None => last[k] = tx[c].b]_vars
    <2> SUFFICES ASSUME BulkInv, [Next]_vars, NEW c \in Conns, NEW k \in Keys,
                        Decided(c, k), work'[c][k] # None, Entry(c, k).after # None
                 PROVE  last[k] = tx[c].b
      OBVIOUS
    <2> DEFINE b == tx[c].b
    <2>1. UndoRow(c, k)
      BY DecidedIs
    <2>2. Undoing(c) /\ k \in tx[c].todo /\ journal[b][k] \in Journal /\ work[c][k] = None
      BY <2>1, UndoRowDoes
    <2>3. PutsBack(row[k], journal[b][k])
      BY <2>1, <2>2, UndoRowDoes
    <2>4. row[k] = journal[b][k].after /\ journal[b][k].after # None
      BY <2>3 DEF PutsBack, Untouched, Entry
    <2>5. b \in Batches /\ batch[b] # "new"
      BY <2>2, AtUndoing
    <2>6. k \in Afters(b)
      BY <2>2, <2>4, NoRow DEF Afters
    <2> QED BY <2>4, <2>5, <2>6 DEF BulkInv, LastWrote
  <1> QED BY <1>1, BulkInit, BulkStep, PTL DEF Spec, UndoLeavesEdits

-----------------------------------------------------------------------------
(* What was there before a batch.  No writer leaves the scope locks out.     *)

(* A stamp that is nowhere comes from nowhere.                               *)
LEMMA KnownStays ==
    ASSUME BulkInv, [Next]_vars, NEW k \in Keys, NEW a, a # 0, a # seq + 1, ~ Known(k, a)
    PROVE  ~ Known(k, a)'
  <1>1. Tables /\ Comes /\ Tables'
    BY AllComes, BulkTypes DEF BulkInv
  <1>2. ~ (row'[k] # None /\ row'[k].at = a)
    BY <1>1, NoRow DEF Comes, RowsFrom, Told, Known
  <1>3. \A c \in Conns : ~ (work'[c][k] # None /\ work'[c][k].at = a)
    BY <1>1 DEF Comes, WorkFrom, Told, Known, Gone
  <1>4. \A b \in Batches : ~ (k \in Befores(b)' /\ journal'[b][k].before.at = a)
    <2> SUFFICES ASSUME NEW b \in Batches, journal'[b][k] # None, journal'[b][k].before # None
                 PROVE  journal'[b][k].before.at # a
      BY DEF Befores
    <2>1. ImageFrom(b, k)
      BY <1>1 DEF Comes
    <2> QED BY <2>1, NoRow DEF ImageFrom, Known
  <1> QED BY <1>2, <1>3, <1>4 DEF Known

(* What is finished stays so, and what becomes of a batch in progress.       *)
LEMMA FinishedKept ==
    ASSUME BulkInv, [Next]_vars, NEW b \in Batches, batch[b] # "new"
    PROVE  /\ batch'[b] # "new" /\ (batch[b] = "undone" => batch'[b] = "undone")
           /\ journal'[b] = journal[b] /\ was'[b] = was[b]
  <1>1. Tables /\ Ghosts
    BY DEF BulkInv
  <1>2. ASSUME NEW c \in Conns, (\E k \in Keys : JournalBefore(c, k) \/ UndoRow(c, k)) \/ WriteRow(c) \/ Abort(c) \/ UndoCommit(c)
        PROVE  journal'[b] = journal[b] /\ was'[b] = was[b] /\ batch'[b] \in {batch[b], "undone"}
    <2>1. journal'[b] = journal[b]
      BY <1>2, FinishedStay
    <2>2. was'[b] = was[b]
      <3>1. CASE (\E k \in Keys : JournalBefore(c, k) \/ UndoRow(c, k)) \/ UndoCommit(c)
        BY <3>1, JournalBeforeDoes, UndoRowDoes DEF UndoCommit, ghost
      <3>2. CASE WriteRow(c)
        <4>1. b # tx[c].b
          BY <3>2, WriterIs, AtExecuting
        <4> QED BY <1>1, <3>2, <4>1 DEF WriteRow, Ghosts
      <3>3. CASE Abort(c)
        <4>1. Executing(c) => b # tx[c].b
          BY AtExecuting
        <4> QED BY <1>1, <3>3, <4>1 DEF Abort, Executing, Ghosts
      <3> QED BY <1>2, <3>1, <3>2, <3>3
    <2>3. batch'[b] \in {batch[b], "undone"}
      BY <1>1, <1>2 DEF Tables, JournalBefore, UndoRow, WriteRow, Abort, UndoCommit
    <2> QED BY <2>1, <2>2, <2>3
  <1>3. ASSUME NEW c \in Conns, ExecuteCommit(c) PROVE journal' = journal /\ was' = was /\ batch'[b] = batch[b]
    BY <1>3, CommitMakes DEF ExecuteCommit
  <1>4. ASSUME NEW d \in Batches, NEW p \in Plans, CardApply(d, p)
        PROVE  journal'[b] = journal[b] /\ was'[b] = was[b] /\ batch'[b] = batch[b]
    BY <1>1, <1>4 DEF CardApply, Tables, Ghosts
  <1>5. ASSUME NEW k \in Keys, Edit(k) \/ Bump(k) PROVE UNCHANGED <<batch, journal, was>>
    BY <1>5, OtherWrites
  <1>6. CASE UNCHANGED <<batch, journal, was>>
    BY <1>6
  <1> QED BY <1>2, <1>3, <1>4, <1>5, <1>6 DEF Next, vars, data, ghost, UndoRefused, CardUndo, UndoBegin, ExecuteBegin

LEMMA Finishes ==
    ASSUME BulkInv, [Next]_vars, NEW b \in Batches, batch[b] = "new", batch'[b] # "new"
    PROVE  /\ \/ \E c \in Conns : ExecuteCommit(c) /\ tx[c].b = b
              \/ \E p \in Plans : CardApply(b, p)
           /\ batch'[b] = "done"
  <1>1. Tables
    BY DEF BulkInv
  <1>2. ASSUME NEW c \in Conns, ExecuteCommit(c) PROVE tx[c].b = b /\ batch'[b] = "done"
    BY <1>2, CommitMakes
  <1>3. ASSUME NEW c \in Conns, UndoCommit(c) PROVE FALSE
    <2>1. Undoing(c) /\ batch' = [batch EXCEPT ![tx[c].b] = "undone"]
      BY <1>3 DEF UndoCommit, Undoing
    <2>2. b # tx[c].b
      BY <2>1, AtUndoing
    <2> QED BY <1>1, <2>1, <2>2 DEF Tables
  <1>4. ASSUME NEW d \in Batches, NEW p \in Plans, CardApply(d, p) PROVE d = b /\ batch'[b] = "done"
    BY <1>1, <1>4 DEF CardApply, Tables
  <1>5. ASSUME NEW k \in Keys, Edit(k) \/ Bump(k) PROVE FALSE
    BY <1>5, OtherWrites
  <1>6. ASSUME UNCHANGED batch PROVE FALSE
    BY <1>6
  <1>7. ASSUME NEW c \in Conns,
               \/ \E d \in Batches, kind \in Kinds, p \in Plans : ExecuteBegin(c, d, kind, p)
               \/ \E k \in Keys : JournalBefore(c, k) \/ UndoRow(c, k)
               \/ \E d \in Batches : UndoBegin(c, d)
               \/ WriteRow(c) \/ Abort(c)
        PROVE  UNCHANGED batch
    BY <1>7 DEF ExecuteBegin, JournalBefore, UndoRow, UndoBegin, WriteRow, Abort, data, vars
  <1>8. ASSUME NEW d \in Batches, UndoRefused(d) \/ CardUndo(d) PROVE UNCHANGED batch
    BY <1>8 DEF UndoRefused, CardUndo, vars, data
  <1> QED BY <1>2, <1>3, <1>4, <1>5, <1>6, <1>7, <1>8 DEF Next, vars, data

(* Nobody writes a row under a transaction that goes on; only its version    *)
(* may be moved before the transaction has locked it.                        *)
LEMMA Shielded ==
    ASSUME BulkInv, Outside = {}, [Next]_vars, NEW c \in Conns, ~ Idle(c)', NEW k \in Keys, k \in tx[c].keys
    PROVE  Content(row'[k]) = Content(row[k]) /\ (lock[k] = c => row'[k] = row[k])
  <1>1. Tables /\ Apart
    BY DEF BulkInv
  <1>2. ASSUME NEW d \in Conns, (\E j \in Keys : JournalBefore(d, j) \/ UndoRow(d, j)) \/ WriteRow(d)
        PROVE  UNCHANGED row
    BY <1>2, JournalBeforeDoes, UndoRowDoes, WriteRowDoes
  <1>3. ASSUME NEW d \in Conns, ExecuteCommit(d) \/ UndoCommit(d) \/ Abort(d) PROVE row'[k] = row[k]
    <2>1. d # c
      <3>1. tx'[d] = NoTx
        BY <1>3, EndFrames
      <3> QED BY <3>1 DEF NoTx, Idle
    <2>2. k \notin tx[d].keys
      BY <1>1, <2>1 DEF Apart
    <2>3. work[d][k] = None
      BY <2>2 DEF BulkInv, At
    <2>4. Seen(d, k) = row[k]
      BY <1>1, <2>3, SeenIs
    <2> QED BY <1>3, <2>4 DEF ExecuteCommit, UndoCommit, Abort
  <1>4. ASSUME NEW b \in Batches, CardUndo(b) \/ \E p \in Plans : CardApply(b, p) PROVE row'[k] = row[k]
    <2>1. CASE CardUndo(b)
      <3>1. k \notin Journaled(b)
        BY <2>1 DEF CardUndo, TableFree
      <3> QED BY <2>1, <3>1 DEF CardUndo
    <2>2. CASE \E p \in Plans : CardApply(b, p)
      <3>1. PICK p \in Plans : CardApply(b, p)
        BY <2>2
      <3>2. k \notin DOMAIN p
        BY <3>1 DEF CardApply, TableFree
      <3> QED BY <3>1, <3>2 DEF CardApply
    <2> QED BY <1>4, <2>1, <2>2
  <1>5. ASSUME NEW j \in Keys, Edit(j) \/ Bump(j) PROVE Content(row'[k]) = Content(row[k]) /\ (lock[k] = c => row'[k] = row[k])
    <2>1. PICK r \in Row \cup {None} :
             /\ row' = [row EXCEPT ![j] = r]
             /\ ScopesFree(None, {j}) \/ Content(r) = Content(row[j])
      BY <1>5, OtherWrites
    <2>2. lock[j] = None
      BY <1>5, OtherWrites
    <2>3. CASE j # k
      BY <1>1, <2>1, <2>3 DEF Tables
    <2>4. CASE j = k
      <3>1. ~ ScopesFree(None, {k})
        BY NoRow DEF ScopesFree
      <3>2. lock[k] # c
        BY <2>2, <2>4, NoRow
      <3> QED BY <1>1, <2>1, <2>4, <3>1, <3>2 DEF Tables
    <2> QED BY <2>3, <2>4
  <1>6. CASE UNCHANGED row
    BY <1>6
  <1> QED BY <1>2, <1>3, <1>4, <1>5, <1>6 DEF Next, vars, data, UndoRefused, UndoBegin, ExecuteBegin

(* A transaction that goes on makes this step, begins, or waits.             *)
Waits(d) ==
    /\ tx'[d] = tx[d] /\ work'[d] = work[d]
    /\ Executing(d) => journal'[tx[d].b] = journal[tx[d].b] /\ was'[tx[d].b] = was[tx[d].b]
Begins(d) == (\A k \in Keys : work'[d][k] = None)
             /\ (Executing(d)' => \A k \in Keys : journal'[tx'[d].b][k] = None)

LEMMA BeginIs ==
    ASSUME BulkInv, NEW d \in Conns, NEW b \in Batches,
           UndoBegin(d, b) \/ \E kind \in Kinds, p \in Plans : ExecuteBegin(d, b, kind, p)
    PROVE  Begins(d)
  <1>1. Tables /\ At(d) /\ Idle(d) /\ UNCHANGED <<work, journal>>
    BY DEF BulkInv, ExecuteBegin, UndoBegin, data
  <1>2. \A k \in Keys : work'[d][k] = None
    BY <1>1 DEF At, NoTx, Idle
  <1>3. CASE UndoBegin(d, b)
    <2>1. tx'[d].op = "undo"
      BY <1>1, <1>3 DEF UndoBegin, Tables
    <2> QED BY <1>2, <2>1, NoRow DEF Begins, Executing
  <1>4. CASE \E kind \in Kinds, p \in Plans : ExecuteBegin(d, b, kind, p)
    <2>1. tx'[d].b = b /\ batch[b] = "new" /\ \A c \in Conns : tx[c].b # b
      BY <1>1, <1>4 DEF ExecuteBegin, Tables
    <2> QED BY <1>1, <1>2, <2>1 DEF Begins, BulkInv, Unbegun
  <1> QED BY <1>3, <1>4

LEMMA Turn ==
    ASSUME BulkInv, [Next]_vars, NEW d \in Conns, ~ Idle(d)'
    PROVE  \/ (\E k \in Keys : JournalBefore(d, k) \/ UndoRow(d, k)) \/ WriteRow(d)
           \/ Begins(d)
           \/ Waits(d)
  <1>1. Tables /\ Ghosts /\ Apart
    BY DEF BulkInv
  <1>2. ASSUME NEW c \in Conns \ {d},
               \/ (\E k \in Keys : JournalBefore(c, k) \/ UndoRow(c, k)) \/ WriteRow(c)
               \/ ExecuteCommit(c) \/ UndoCommit(c) \/ Abort(c)
        PROVE  Waits(d)
    <2>1. OthersSame(c) /\ OwnBatch(c) /\ ~ Idle(c)
      BY <1>2, RowStepFrames, EndFrames
    <2>2. ASSUME Executing(d) PROVE journal'[tx[d].b] = journal[tx[d].b] /\ was'[tx[d].b] = was[tx[d].b]
      <3>1. tx[d].b \in Batches /\ batch[tx[d].b] = "new"
        BY <2>2, AtExecuting
      <3>2. Executing(c) \/ Undoing(c)
        BY <1>1, <2>1 DEF Tables, Tx, Executing, Undoing, Idle
      <3>3. tx[c].b # tx[d].b
        BY <1>1, <2>2, <3>1, <3>2, AtUndoing DEF Apart
      <3>4. was'[tx[d].b] = was[tx[d].b]
        <4>1. CASE WriteRow(c)
          BY <1>1, <3>1, <3>3, <4>1 DEF WriteRow, Ghosts
        <4>2. CASE Abort(c)
          BY <1>1, <3>1, <3>3, <4>2 DEF Abort, Ghosts
        <4>3. CASE (\E k \in Keys : JournalBefore(c, k) \/ UndoRow(c, k)) \/ ExecuteCommit(c) \/ UndoCommit(c)
          BY <4>3, JournalBeforeDoes, UndoRowDoes DEF ExecuteCommit, UndoCommit, ghost
        <4> QED BY <1>2, <4>1, <4>2, <4>3
      <3> QED BY <2>1, <3>1, <3>3, <3>4 DEF OwnBatch
    <2> QED BY <2>1, <2>2 DEF Waits, OthersSame
  <1>3. ASSUME NEW c \in Conns \ {d}, NEW b \in Batches,
               UndoBegin(c, b) \/ \E kind \in Kinds, p \in Plans : ExecuteBegin(c, b, kind, p)
        PROVE  Waits(d)
    <2>1. UNCHANGED <<work, journal, was>> /\ tx'[d] = tx[d]
      BY <1>1, <1>3 DEF UndoBegin, ExecuteBegin, data, ghost, Tables
    <2> QED BY <2>1 DEF Waits
  <1>4. ASSUME ExecuteCommit(d) \/ UndoCommit(d) \/ Abort(d) PROVE FALSE
    <2>1. tx'[d] = NoTx
      BY <1>4, EndFrames
    <2> QED BY <2>1 DEF NoTx, Idle
  <1>5. ASSUME NEW b \in Batches, NEW p \in Plans, CardApply(b, p) PROVE Waits(d)
    <2>1. UNCHANGED <<tx, work>> /\ tx[d].b # b
      BY <1>5 DEF CardApply
    <2>2. Executing(d) => tx[d].b \in Batches
      BY AtExecuting
    <2> QED BY <1>1, <1>5, <2>1, <2>2 DEF Waits, CardApply, Tables, Ghosts
  <1>6. ASSUME NEW k \in Keys, Edit(k) \/ Bump(k) PROVE UNCHANGED <<tx, work, journal, was>>
    BY <1>6, OtherWrites
  <1>7. CASE UNCHANGED <<tx, work, journal, was>>
    BY <1>7 DEF Waits
  <1>8. ASSUME NEW b \in Batches, CardUndo(b) \/ UndoRefused(b) PROVE UNCHANGED <<tx, work, journal, was>>
    BY <1>8 DEF CardUndo, UndoRefused, vars, data, ghost
  <1>9. CASE \E c \in Conns : \/ (\E k \in Keys : JournalBefore(c, k) \/ UndoRow(c, k)) \/ WriteRow(c)
                           \/ ExecuteCommit(c) \/ UndoCommit(c) \/ Abort(c)
    BY <1>2, <1>4, <1>9
  <1>10. CASE \E c \in Conns, b \in Batches :
                UndoBegin(c, b) \/ \E kind \in Kinds, p \in Plans : ExecuteBegin(c, b, kind, p)
    BY <1>3, <1>10, BeginIs
  <1>11. CASE \E b \in Batches : UndoRefused(b) \/ CardUndo(b) \/ \E p \in Plans : CardApply(b, p)
    BY <1>5, <1>7, <1>8, <1>11
  <1>12. CASE (\E k \in Keys : Edit(k) \/ Bump(k)) \/ UNCHANGED vars
    BY <1>6, <1>7, <1>12 DEF vars, data, ghost
  <1> QED BY <1>9, <1>10, <1>11, <1>12 DEF Next

-----------------------------------------------------------------------------
(* The before images are kept.                                               *)
LEMMA ImagesAtJournal ==
    ASSUME OnceInv, NEW c \in Conns, NEW k \in Keys, JournalBefore(c, k) PROVE Images(c)'
  <1>1. Tables /\ At(c) /\ Images(c)
    BY DEF OnceInv, BulkInv
  <1>2. /\ Executing(c) /\ tx[c].b \in Batches /\ k \in tx[c].todo /\ UNCHANGED <<row, work, was>>
        /\ tx' = [tx EXCEPT ![c].read = k]
    BY JournalBeforeDoes, AtExecuting DEF OnceInv, ghost
  <1>3. PICK img \in Journal \cup {None} :
           /\ journal' = [journal EXCEPT ![tx[c].b][k] = img]
           /\ img = None <=> tx[c].plan[k] = None /\ Seen(c, k) = None
           /\ img # None => img.before = Seen(c, k) /\ img.after = None
    BY JournalBeforeDoes DEF OnceInv
  <1>4. tx'[c].b = tx[c].b /\ tx'[c].todo = tx[c].todo /\ tx'[c].plan = tx[c].plan
    BY <1>1, <1>2 DEF Tables, Tx
  <1>5. \A j \in Keys : journal'[tx[c].b][j] = IF j = k THEN img ELSE journal[tx[c].b][j]
    BY <1>1, <1>2, <1>3 DEF Tables
  <1>6. Seen(c, k) = row[k]
    BY <1>1, <1>2, SeenIs DEF At
  <1> SUFFICES ASSUME NEW j \in Keys, journal'[tx'[c].b][j] # None
               PROVE  /\ Content(journal'[tx'[c].b][j].before) = Content(row'[j])
                      /\ j \notin tx'[c].todo =>
                            /\ Content(journal'[tx'[c].b][j].before) = was'[tx'[c].b][j]
                            /\ tx'[c].plan[j] = None => work'[c][j] = Gone
    BY DEF Images
  <1>7. CASE j = k
    BY <1>2, <1>3, <1>4, <1>5, <1>6, <1>7
  <1>8. CASE j # k
    BY <1>1, <1>2, <1>4, <1>5, <1>8 DEF Images
  <1> QED BY <1>7, <1>8

LEMMA ImagesAtWrite == ASSUME OnceInv, NEW c \in Conns, WriteRow(c) PROVE Images(c)'
  <1> DEFINE k == tx[c].read
             b == tx[c].b
             v == tx[c].plan[k]
  <1>1. Tables /\ Ghosts /\ At(c) /\ Images(c) /\ BulkInv
    BY DEF OnceInv, BulkInv
  <1>2. /\ Executing(c) /\ b \in Batches /\ k \in Keys /\ k \in tx[c].todo /\ UNCHANGED row
        /\ JournalOf(c) /\ tx[c].todo \subseteq tx[c].keys
        /\ tx' = [tx EXCEPT ![c].read = None, ![c].todo = @ \ {k}]
        /\ was' = [was EXCEPT ![b][k] = Content(Seen(c, k))]
    BY <1>1, WriteRowDoes, AtExecuting
  <1>3. tx'[c].b = b /\ tx'[c].todo = tx[c].todo \ {k} /\ tx'[c].plan = tx[c].plan
    BY <1>1, <1>2 DEF Tables, Tx
  <1>4. Seen(c, k) = row[k]
    BY <1>1, <1>2, SeenIs DEF At
  <1>5. \A j \in Keys : was'[b][j] = IF j = k THEN Content(row[k]) ELSE was[b][j]
    BY <1>1, <1>2, <1>4 DEF Ghosts
  <1>6. /\ \A j \in Keys : journal'[b][j] # None =>
              journal[b][j] # None /\ journal'[b][j].before = journal[b][j].before
        /\ \A j \in Keys : j # k => work'[c][j] = work[c][j]
        /\ v = None /\ row[k] # None => work'[c][k] = Gone
    <2>1. CASE v = None /\ UNCHANGED <<journal, seq>>
               /\ \E w \in {work[c][k], Gone} : /\ work' = [work EXCEPT ![c][k] = w]
                                                /\ Seen(c, k) # None => w = Gone
      BY <1>1, <1>2, <1>4, <2>1 DEF Tables
    <2>2. CASE /\ v \in Vals /\ seq' = seq + 1
               /\ work' = [work EXCEPT ![c][k] = Fresh(v)]
               /\ journal' = [journal EXCEPT ![b][k].after = Fresh(v)]
      <3>1. v # None /\ Fresh(v) \in Row
        BY <1>1, <2>2, FreshIs, NoRow DEF Tables
      <3>2. journal[b][k] \in Journal /\ journal[b][k] # None
        BY <1>1, <1>2, <3>1 DEF JournalOf, Tables
      <3>3. journal' = [journal EXCEPT ![b][k] = [journal[b][k] EXCEPT !.after = Fresh(v)]]
        BY <1>1, <2>2 DEF Tables
      <3>4. [journal[b][k] EXCEPT !.after = Fresh(v)].before = journal[b][k].before
        BY <3>2 DEF Journal
      <3> DEFINE j == [journal[b][k] EXCEPT !.after = Fresh(v)]
      <3>5. j.before = journal[b][k].before /\ journal' = [journal EXCEPT ![b][k] = j]
        BY <3>3, <3>4
      <3> HIDE DEF j
      <3>6. journal'[b][k] = j /\ \A i \in Keys \ {k} : journal'[b][i] = journal[b][i]
        BY <1>1, <1>2, <3>5 DEF Tables
      <3>7. \A i \in Keys \ {k} : work'[c][i] = work[c][i]
        BY <1>1, <1>2, <2>2 DEF Tables
      <3> QED BY <3>1, <3>2, <3>5, <3>6, <3>7
    <2> QED BY <1>1, <2>1, <2>2, WriteRowDoes
  <1> SUFFICES ASSUME NEW j \in Keys, journal'[b][j] # None
               PROVE  /\ Content(journal'[b][j].before) = Content(row[j])
                      /\ j \notin tx[c].todo \ {k} =>
                            /\ Content(journal'[b][j].before) = was'[b][j]
                            /\ tx[c].plan[j] = None => work'[c][j] = Gone
    BY <1>2, <1>3 DEF Images
  <1>7. journal[b][j] # None /\ journal'[b][j].before = journal[b][j].before
        /\ Content(journal[b][j].before) = Content(row[j])
    BY <1>1, <1>2, <1>6 DEF Images
  <1>8. CASE j # k
    BY <1>1, <1>2, <1>5, <1>6, <1>7, <1>8 DEF Images
  <1>9. CASE j = k
    <2>1. v = None => row[k] # None
      <3> SUFFICES ASSUME v = None PROVE row[k] # None
        OBVIOUS
      <3>1. journal[b][k].before # None
        BY <1>2, <1>7, <1>9 DEF JournalOf
      <3>2. journal[b][k].before \in Row
        BY <1>1, <1>2, <1>7, <1>9, <3>1 DEF Tables, Journal
      <3>3. Content(row[k]) # None
        BY <1>7, <1>9, <3>2, ContentIs
      <3> QED BY <3>3 DEF Content
    <2> QED BY <1>5, <1>6, <1>7, <1>9, <2>1
  <1> QED BY <1>8, <1>9

LEMMA ImagesKept ==
    ASSUME OnceInv, Outside = {}, [Next]_vars, NEW c \in Conns PROVE Images(c)'
  <1>1. BulkInv /\ Images(c)
    BY DEF OnceInv
  <1> SUFFICES ASSUME Executing(c)' PROVE Images(c)'
    BY DEF Images
  <1>2. ~ Idle(c)'
    BY NoRow DEF Executing, Idle
  <1>3. CASE \E k \in Keys : JournalBefore(c, k)
    BY <1>3, ImagesAtJournal
  <1>4. CASE WriteRow(c)
    BY <1>4, ImagesAtWrite
  <1>5. CASE \E k \in Keys : UndoRow(c, k)
    <2>1. Undoing(c) /\ tx'[c].op = tx[c].op
      BY <1>1, <1>5, UndoRowDoes, RowStepFrames
    <2> QED BY <2>1, NoRow DEF Executing, Undoing
  <1>6. CASE Begins(c)
    BY <1>6 DEF Begins, Images
  <1>7. CASE Waits(c)
    <2>1. /\ Executing(c) /\ tx'[c] = tx[c] /\ work'[c] = work[c]
          /\ journal'[tx[c].b] = journal[tx[c].b] /\ was'[tx[c].b] = was[tx[c].b]
      BY <1>7 DEF Waits, Executing
    <2>2. \A k \in Keys : journal[tx[c].b][k] # None => k \in tx[c].keys
      BY <1>1, <2>1, AtExecuting DEF JournalOf
    <2>3. \A k \in Keys : journal[tx[c].b][k] # None => Content(row'[k]) = Content(row[k])
      BY <1>1, <1>2, <2>2, Shielded
    <2> QED BY <1>1, <2>1, <2>3 DEF Images
  <1> QED BY <1>1, <1>2, <1>3, <1>4, <1>5, <1>6, <1>7, Turn

LEMMA ImageKeptStep == ASSUME OnceInv, [Next]_vars PROVE ImageKept'
  <1>1. BulkInv /\ ImageKept /\ Tables /\ Ghosts
    BY DEF OnceInv, BulkInv
  <1> SUFFICES ASSUME NEW b \in Batches, batch'[b] # "new", NEW k \in Keys, journal'[b][k] # None
               PROVE  Content(journal'[b][k].before) = was'[b][k]
    BY DEF ImageKept, Journaled
  <1>2. CASE batch[b] # "new"
    BY <1>1, <1>2, FinishedKept DEF ImageKept, Journaled
  <1>3. ASSUME NEW c \in Conns, ExecuteCommit(c), tx[c].b = b
        PROVE  Content(journal'[b][k].before) = was'[b][k]
    <2>1. Executing(c) /\ tx[c].todo = {} /\ UNCHANGED <<journal, was>>
      BY <1>3 DEF ExecuteCommit, Executing
    <2>2. Images(c)
      BY DEF OnceInv
    <2> QED BY <1>3, <2>1, <2>2 DEF Images
  <1>4. ASSUME NEW p \in Plans, CardApply(b, p) PROVE Content(journal'[b][k].before) = was'[b][k]
    <2>1. journal'[b][k] = IF k \in DOMAIN p THEN [before |-> row[k], after |-> Fresh(p[k])] ELSE None
      BY <1>1, <1>4 DEF CardApply, Tables
    <2>2. journal'[b][k].before = row[k]
      BY <2>1
    <2>3. was'[b][k] = Content(row[k])
      BY <1>1, <1>4 DEF CardApply, Ghosts
    <2> QED BY <2>2, <2>3
  <1> QED BY <1>1, <1>2, <1>3, <1>4, Finishes

-----------------------------------------------------------------------------
(* What an undo is about to commit.                                          *)
LEMMA PendingAtUndo ==
    ASSUME OnceInv, NEW c \in Conns, NEW k \in Keys, UndoRow(c, k) PROVE Pending(c)'
  <1> DEFINE b == tx[c].b
  <1>1. Tables /\ Pending(c) /\ BulkInv /\ seq \in Nat
    BY DEF OnceInv, BulkInv, Tables
  <1>2. /\ Undoing(c) /\ b \in Batches /\ journal[b][k] \in Journal /\ journal[b][k] # None
        /\ UNCHANGED <<row, journal>> /\ tx'[c].b = b
    BY <1>1, UndoRowDoes, AtUndoing, RowStepFrames, NoRow
  <1> SUFFICES ASSUME NEW j \in Keys, work'[c][j] # None
               PROVE  /\ j \in Afters(b) => row[j] = journal[b][j].after
                      /\ work'[c][j] # Gone => /\ j \in Befores(b)
                                              /\ work'[c][j].at = journal[b][j].before.at
                                              /\ work'[c][j].ver # work'[c][j].at
    BY <1>2 DEF Pending, Afters, Befores
  <1>3. CASE work'[c][j] = work[c][j]
    BY <1>1, <1>2, <1>3 DEF Pending
  <1>4. CASE work'[c][j] # work[c][j]
    <2>1. /\ PutsBack(row[k], journal[b][k])
          /\ \/ work' = [work EXCEPT ![c][k] = Gone]
             \/ /\ journal[b][k].before \in Row
                /\ work' = [work EXCEPT ![c][k] = [journal[b][k].before EXCEPT !.ver = seq + 1]]
      BY <1>1, <1>4, UndoRowDoes
    <2>2. j = k
      BY <1>1, <1>4, <2>1 DEF Tables
    <2>3. k \in Afters(b) => row[k] = journal[b][k].after
      BY <2>1 DEF PutsBack, Untouched, Afters
    <2>4. CASE work' = [work EXCEPT ![c][k] = Gone]
      BY <1>1, <2>2, <2>3, <2>4 DEF Tables
    <2>5. CASE /\ journal[b][k].before \in Row
               /\ work' = [work EXCEPT ![c][k] = [journal[b][k].before EXCEPT !.ver = seq + 1]]
      <3>1. work'[c][k] = [journal[b][k].before EXCEPT !.ver = seq + 1]
        BY <1>1, <2>5 DEF Tables
      <3>2. work'[c][k].at = journal[b][k].before.at /\ work'[c][k].ver = seq + 1
        BY <1>1, <2>5, <3>1, StampedIs
      <3>3. k \in Befores(b)
        BY <1>2, <2>5, NoRow DEF Befores
      <3>4. Drawn(journal[b][k].before)
        BY <1>1, <1>2, <3>3 DEF BulkInv, Versions
      <3>5. seq + 1 # journal[b][k].before.at
        BY <1>1, <2>5, <3>4 DEF Drawn, Row
      <3> QED BY <2>2, <2>3, <3>2, <3>3, <3>5
    <2> QED BY <2>1, <2>4, <2>5
  <1> QED BY <1>3, <1>4

LEMMA PendingKept ==
    ASSUME OnceInv, Outside = {}, [Next]_vars, NEW c \in Conns PROVE Pending(c)'
  <1>1. BulkInv /\ Pending(c) /\ At(c)
    BY DEF OnceInv, BulkInv
  <1> SUFFICES ASSUME Undoing(c)' PROVE Pending(c)'
    BY DEF Pending
  <1>2. ~ Idle(c)'
    BY DEF Undoing, Idle
  <1>3. CASE (\E k \in Keys : JournalBefore(c, k)) \/ WriteRow(c)
    <2>1. Executing(c) /\ tx'[c].op = tx[c].op
      BY <1>1, <1>3, JournalBeforeDoes, WriterIs, RowStepFrames
    <2> QED BY <2>1, NoRow DEF Executing, Undoing
  <1>4. CASE \E k \in Keys : UndoRow(c, k)
    BY <1>4, PendingAtUndo
  <1>5. CASE Begins(c)
    BY <1>5 DEF Begins, Pending
  <1>6. CASE Waits(c)
    <2>1. Undoing(c) /\ tx'[c] = tx[c] /\ work'[c] = work[c]
      BY <1>6 DEF Waits, Undoing
    <2>2. tx[c].b \in Batches /\ batch[tx[c].b] # "new"
      BY <1>1, <2>1, AtUndoing
    <2>3. journal'[tx[c].b] = journal[tx[c].b]
      BY <1>1, <2>2, FinishedKept
    <2>4. \A k \in Keys : work[c][k] # None => row'[k] = row[k]
      BY <1>1, <1>2, Shielded DEF At
    <2> QED BY <1>1, <2>1, <2>2, <2>3, <2>4 DEF Pending, Afters, Befores
  <1> QED BY <1>1, <1>2, <1>3, <1>4, <1>5, <1>6, Turn

-----------------------------------------------------------------------------
(* A row as it was inserted is not in the before images.                     *)

(* An image comes into the journal while nobody has the row in hand.         *)
LEMMA ImageIsNew ==
    ASSUME BulkInv, [Next]_vars, NEW b \in Batches, NEW k \in Keys, k \in Befores(b)',
           ~ (k \in Befores(b) /\ journal'[b][k].before = journal[b][k].before)
    PROVE  \A c \in Conns : work[c][k] = None
  <1>1. Tables /\ Apart /\ journal'[b][k] # None /\ journal'[b][k].before # None /\ k \in Keys
    BY DEF BulkInv, Befores
  <1>2. journal'[b][k] # journal[b][k]
    BY <1>1 DEF Befores
  <1>3. ASSUME NEW d \in Conns, NEW j \in Keys, JournalBefore(d, j) PROVE \A c \in Conns : work[c][k] = None
    <2>1. Executing(d) /\ j \in tx[d].todo /\ tx[d].b \in Batches /\ tx[d].todo \subseteq tx[d].keys
      BY <1>3, JournalBeforeDoes, AtExecuting
    <2>2. j = k
      <3>1. journal' = [journal EXCEPT ![tx[d].b][j] = BeforeImage(d, j)]
        BY <1>3 DEF JournalBefore
      <3> QED BY <1>1, <1>2, <2>1, <3>1 DEF Tables
    <2>3. \A c \in Conns : work[c][k] # None => k \in tx[c].keys \ tx[c].todo
      BY DEF BulkInv, At
    <2> QED BY <1>1, <2>1, <2>2, <2>3 DEF Apart
  <1>4. ASSUME NEW d \in Conns, WriteRow(d) PROVE FALSE
    <2>1. Executing(d) /\ tx[d].b \in Batches /\ JournalOf(d) /\ tx[d].read \in Keys
      BY <1>4, WriterIs, AtExecuting
    <2>2. PICK v \in Vals : journal' = [journal EXCEPT ![tx[d].b][tx[d].read].after = Fresh(v)]
                            /\ v = tx[d].plan[tx[d].read]
      BY <1>2, <1>4, WriteRowDoes
    <2>3. b = tx[d].b /\ k = tx[d].read
      BY <1>1, <1>2, <2>1, <2>2 DEF Tables
    <2>4. journal[b][k] # None
      BY <2>1, <2>2, <2>3, NoRow DEF JournalOf
    <2>5. journal[b][k] \in Journal /\ Fresh(v) \in Row
      BY <1>1, <2>4, FreshIs DEF Tables
    <2>6. journal'[b][k] = [journal[b][k] EXCEPT !.after = Fresh(v)]
      BY <1>1, <2>2, <2>3 DEF Tables
    <2>7. journal'[b][k].before = journal[b][k].before
      BY <2>5, <2>6 DEF Journal
    <2> QED BY <1>1, <2>4, <2>7 DEF Befores
  <1>5. ASSUME NEW d \in Conns, Abort(d) PROVE FALSE
    <2>1. UNCHANGED journal \/ journal' = [journal EXCEPT ![tx[d].b] = [j \in Keys |-> None]]
      BY <1>5 DEF Abort
    <2> QED BY <1>1, <1>2, <2>1 DEF Tables
  <1>6. ASSUME NEW d \in Batches, NEW p \in Plans, CardApply(d, p) PROVE \A c \in Conns : work[c][k] = None
    BY <1>6 DEF CardApply, TableFree
  <1>7. ASSUME NEW j \in Keys, Edit(j) \/ Bump(j) PROVE FALSE
    BY <1>2, <1>7, OtherWrites
  <1>8. CASE UNCHANGED journal
    BY <1>2, <1>8
  <1> QED BY <1>3, <1>4, <1>5, <1>6, <1>7, <1>8
       DEF Next, vars, data, UndoRefused, CardUndo, UndoBegin, ExecuteBegin, UndoRow, ExecuteCommit, UndoCommit

(* Its stamp is not a new one.                                               *)
LEMMA ImageIsOld ==
    ASSUME BulkInv, [Next]_vars, NEW b \in Batches, NEW k \in Keys, k \in Befores(b)'
    PROVE  journal'[b][k].before.at # seq + 1
  <1>1. Tables /\ Versions /\ Comes /\ Tables' /\ seq \in Nat
    BY AllComes, BulkTypes DEF BulkInv, Tables
  <1>2. journal'[b][k] # None /\ journal'[b][k].before # None /\ ImageFrom(b, k)
    BY <1>1 DEF Befores, Comes
  <1>3. Drawn(journal'[b][k].before)
    BY <1>1, <1>2, NoRow DEF ImageFrom, Versions
  <1>4. journal'[b][k].before \in Row
    BY <1>1, <1>2 DEF Tables, Journal
  <1> QED BY <1>1, <1>3, <1>4 DEF Drawn, Row

LEMMA UntoldWork ==
    ASSUME OnceInv, [Next]_vars, NEW c \in Conns, NEW b \in Batches, NEW k \in Keys, k \in Befores(b)',
           Executing(c)', work'[c][k] \in Row
    PROVE  journal'[b][k].before.at # work'[c][k].at
  <1>1. BulkInv /\ Untold /\ Tables /\ seq \in Nat
    BY DEF OnceInv, BulkInv, Tables
  <1>2. ~ Idle(c)'
    BY NoRow DEF Executing, Idle
  <1>3. CASE Executing(c) /\ work'[c][k] = work[c][k]
    <2>1. work[c][k] # None
      BY <1>3, NoRow
    <2>2. k \in Befores(b) /\ journal'[b][k].before = journal[b][k].before
      BY <1>1, <2>1, ImageIsNew
    <2> QED BY <1>1, <1>3, <2>2 DEF Untold
  <1>4. CASE WriteRow(c) /\ work'[c][k] # work[c][k]
    <2>1. work'[c][k].at = seq + 1
      <3>1. PICK v \in Vals : work' = [work EXCEPT ![c][tx[c].read] = Fresh(v)]
        <4>1. ASSUME NEW w \in {work[c][tx[c].read], Gone}, work' = [work EXCEPT ![c][tx[c].read] = w]
              PROVE  FALSE
          <5>1. work'[c][k] \in {work[c][k], Gone}
            BY <1>1, <4>1 DEF Tables
          <5> QED BY <1>4, <5>1, NoRow
        <4>2. \/ \E w \in {work[c][tx[c].read], Gone} : work' = [work EXCEPT ![c][tx[c].read] = w]
              \/ /\ tx[c].plan[tx[c].read] \in Vals
                 /\ work' = [work EXCEPT ![c][tx[c].read] = Fresh(tx[c].plan[tx[c].read])]
          BY <1>1, <1>4, WriteRowDoes
        <4> QED BY <4>1, <4>2
      <3>2. work'[c][k] = Fresh(v)
        BY <1>1, <1>4, <3>1 DEF Tables
      <3> QED BY <1>1, <3>2, FreshIs
    <2> QED BY <1>1, <2>1, ImageIsOld
  <1>5. CASE Begins(c)
    BY <1>5, NoRow DEF Begins
  <1>6. ASSUME NEW j \in Keys, UndoRow(c, j) PROVE FALSE
    <2>1. Undoing(c) /\ tx'[c].op = tx[c].op
      BY <1>1, <1>6, UndoRowDoes, RowStepFrames
    <2> QED BY <2>1, NoRow DEF Executing, Undoing
  <1>7. CASE Waits(c)
    BY <1>3, <1>7 DEF Waits, Executing
  <1>8. CASE \E j \in Keys : JournalBefore(c, j)
    <2>1. Executing(c) /\ UNCHANGED work
      BY <1>1, <1>8, JournalBeforeDoes
    <2> QED BY <1>3, <2>1
  <1>9. CASE WriteRow(c)
    BY <1>1, <1>3, <1>4, <1>9, WriterIs
  <1> QED BY <1>1, <1>2, <1>5, <1>6, <1>7, <1>8, <1>9, Turn

LEMMA UntoldRow ==
    ASSUME OnceInv, [Next]_vars, NEW b \in Batches, NEW k \in Keys, k \in Befores(b)',
           batch'[b] # "new", row'[k] # None, row'[k].ver = row'[k].at
    PROVE  journal'[b][k].before.at # row'[k].at
  <1>1. BulkInv /\ Untold /\ Tables /\ Comes /\ seq \in Nat
    BY AllComes DEF OnceInv, BulkInv, Tables
  <1>2. CASE Told(k, row'[k])
    BY <1>1, <1>2, ImageIsOld DEF Told, Now
  <1>3. ASSUME NEW c \in Conns, work[c][k] \in Row, row'[k] = work[c][k]
        PROVE  journal'[b][k].before.at # row'[k].at
    <2>1. work[c][k] # None /\ work[c][k] # Gone
      BY <1>3, NoRow
    <2>2. k \in Befores(b) /\ journal'[b][k].before = journal[b][k].before
      BY <1>1, <2>1, ImageIsNew
    <2>3. ~ Undoing(c)
      <3>1. Pending(c)
        BY DEF OnceInv
      <3> QED BY <1>3, <2>1, <3>1 DEF Pending
    <2>4. ~ Idle(c)
      BY <1>1, <2>1 DEF BulkInv, At, NoTx
    <2>5. Executing(c)
      BY <1>1, <2>3, <2>4 DEF Tables, Tx, Executing, Undoing, Idle
    <2> QED BY <1>1, <1>3, <2>2, <2>5 DEF Untold
  <1>4. CASE row'[k] = row[k] /\ batch[b] # "new"
    <2>1. journal'[b] = journal[b]
      BY <1>1, <1>4, FinishedKept
    <2> QED BY <1>1, <1>4, <2>1 DEF Untold, Befores
  <1>5. ASSUME NEW c \in Conns, ExecuteCommit(c), tx[c].b = b
        PROVE  journal'[b][k].before.at # row'[k].at
    <2>1. /\ Executing(c) /\ tx[c].todo = {} /\ UNCHANGED journal /\ row'[k] = Seen(c, k)
          /\ (k \in Afters(b) => work[c][k] \in Row)
      BY <1>1, <1>5, CommitMakes DEF ExecuteCommit
    <2>2. journal[b][k] # None /\ k \in Befores(b)
      BY <2>1 DEF Befores
    <2>3. work[c][k] \in Row
      <3>1. Images(c) /\ JournalOf(c)
        BY <1>1, <2>1, AtExecuting DEF OnceInv
      <3>2. CASE tx[c].plan[k] = None
        <4>1. work[c][k] = Gone
          BY <1>5, <2>1, <2>2, <3>1, <3>2 DEF Images
        <4> QED BY <1>1, <2>1, <4>1, SeenIs
      <3>3. CASE tx[c].plan[k] # None
        BY <1>5, <2>1, <2>2, <3>1, <3>3 DEF JournalOf
      <3> QED BY <3>2, <3>3
    <2> QED BY <1>1, <1>3, <2>1, <2>3, SeenIs
  <1>6. ASSUME NEW p \in Plans, CardApply(b, p)
        PROVE  journal'[b][k].before.at # row'[k].at
    <2>1. journal'[b][k] = IF k \in DOMAIN p THEN [before |-> row[k], after |-> Fresh(p[k])] ELSE None
      BY <1>1, <1>6 DEF CardApply, Tables
    <2>2. k \in DOMAIN p /\ row'[k] = Fresh(p[k])
      BY <1>6, <2>1 DEF CardApply, Befores
    <2>3. row'[k].at = seq + 1
      BY <1>1, <1>6, <2>2, PlanIs, FreshIs DEF CardApply
    <2> QED BY <1>1, <2>3, ImageIsOld
  <1>7. CASE batch[b] = "new"
    BY <1>1, <1>5, <1>6, <1>7, Finishes
  <1> QED BY <1>1, <1>2, <1>3, <1>4, <1>7 DEF Comes, RowsFrom

LEMMA UntoldKept == ASSUME OnceInv, [Next]_vars PROVE Untold'
  <1>1. \A b \in Batches : Befores(b)' \subseteq Keys
    BY DEF Befores
  <1> QED BY <1>1, UntoldRow, UntoldWork DEF Untold

-----------------------------------------------------------------------------
(* Put back once.                                                            *)
LEMMA CardMoves ==
    ASSUME BulkInv, [Next]_vars, NEW b \in Batches
    PROVE  \/ card'[b] = card[b]
           \/ card'[b] = "applied" /\ batch[b] = "new" /\ \E p \in Plans : CardApply(b, p)
           \/ card'[b] = "undone" /\ card[b] = "applied" /\ CardUndo(b)
  <1>1. Tables
    BY DEF BulkInv
  <1>2. ASSUME NEW d \in Batches, NEW p \in Plans, CardApply(d, p)
        PROVE  card'[b] = card[b] \/ (d = b /\ card'[b] = "applied" /\ batch[b] = "new")
    BY <1>1, <1>2 DEF CardApply, Tables
  <1>3. ASSUME NEW d \in Batches, CardUndo(d)
        PROVE  card'[b] = card[b] \/ (d = b /\ card'[b] = "undone" /\ card[b] = "applied")
    BY <1>1, <1>3 DEF CardUndo, Tables
  <1>4. ASSUME NEW j \in Keys, Edit(j) \/ Bump(j) PROVE UNCHANGED card
    BY <1>4, OtherWrites
  <1>5. CASE UNCHANGED card
    BY <1>5
  <1>6. ASSUME NEW c \in Conns,
               \/ \E d \in Batches, kind \in Kinds, p \in Plans : ExecuteBegin(c, d, kind, p)
               \/ \E j \in Keys : JournalBefore(c, j) \/ UndoRow(c, j)
               \/ \E d \in Batches : UndoBegin(c, d)
               \/ WriteRow(c) \/ ExecuteCommit(c) \/ Abort(c) \/ UndoCommit(c)
        PROVE  UNCHANGED card
    BY <1>6 DEF ExecuteBegin, JournalBefore, UndoRow, UndoBegin, WriteRow, ExecuteCommit, Abort, UndoCommit, data, vars
  <1>7. ASSUME NEW d \in Batches, UndoRefused(d) PROVE UNCHANGED card
    BY <1>7 DEF UndoRefused, vars, data
  <1> QED BY <1>2, <1>3, <1>4, <1>5, <1>6, <1>7 DEF Next, vars, data

LEMMA CardsKept == ASSUME OnceInv, [Next]_vars PROVE Cards'
  <1>1. BulkInv /\ Cards /\ Tables /\ seq \in Nat
    BY DEF OnceInv, BulkInv, Tables
  <1> SUFFICES ASSUME NEW b \in Batches, card'[b] # "none"
               PROVE  batch'[b] # "new" /\ Journaled(b)' = Afters(b)'
    BY DEF Cards
  <1>2. CASE card[b] # "none"
    <2>1. batch[b] # "new" /\ Journaled(b) = Afters(b)
      BY <1>1, <1>2 DEF Cards
    <2>2. batch'[b] # "new" /\ journal'[b] = journal[b]
      BY <1>1, <2>1, FinishedKept
    <2> QED BY <2>1, <2>2 DEF Journaled, Afters
  <1>3. ASSUME NEW p \in Plans, CardApply(b, p)
        PROVE  batch'[b] # "new" /\ Journaled(b)' = Afters(b)'
    <2>1. \A k \in Keys : k \in DOMAIN p => Fresh(p[k]) # None
      BY <1>1, <1>3, PlanIs, FreshIs, NoRow DEF CardApply
    <2>2. batch'[b] = "done" /\ \A k \in Keys :
             journal'[b][k] = IF k \in DOMAIN p THEN [before |-> row[k], after |-> Fresh(p[k])] ELSE None
      BY <1>1, <1>3 DEF CardApply, Tables
    <2>3. \A k \in Keys : journal'[b][k] # None => journal'[b][k].after # None
      <3> SUFFICES ASSUME NEW k \in Keys, journal'[b][k] # None PROVE journal'[b][k].after # None
        OBVIOUS
      <3>1. k \in DOMAIN p /\ journal'[b][k] = [before |-> row[k], after |-> Fresh(p[k])]
        BY <2>2
      <3>2. journal'[b][k].after = Fresh(p[k])
        BY <3>1
      <3> QED BY <2>1, <3>1, <3>2
    <2> QED BY <2>2, <2>3 DEF Journaled, Afters
  <1> QED BY <1>1, <1>2, <1>3, CardMoves

(* What a batch has left does not come back once it is gone.                 *)
LEMMA NoReturn ==
    ASSUME BulkInv, [Next]_vars, NEW b \in Batches, NEW k \in Keys, k \in Afters(b), batch[b] # "new",
           row'[k] # None, row'[k].ver = journal[b][k].after.ver
    PROVE  row'[k] = row[k]
  <1>1. Tables /\ Comes /\ DrawnOnce
    BY AllComes DEF BulkInv
  <1>2. ~ Now(row'[k])
    <2>1. journal[b][k].after \in Row /\ Drawn(journal[b][k].after) /\ seq \in Nat
      BY <1>1, ImagesAre DEF BulkInv, Versions, Tables
    <2> QED BY <2>1 DEF Now, Drawn, Row
  <1>3. ASSUME NEW c \in Conns, work[c][k] \in Row, row'[k] = work[c][k] PROVE FALSE
    <2>1. work[c][k] # None
      BY <1>3, NoRow
    <2>2. k \in tx[c].keys \ tx[c].todo /\ ~ Idle(c)
      BY <2>1 DEF BulkInv, At, NoTx
    <2>3. ~ Undoing(c)
      BY <1>1, <1>3, <2>1 DEF DrawnOnce
    <2>4. Executing(c)
      BY <1>1, <2>2, <2>3 DEF Tables, Tx, Executing, Undoing, Idle
    <2>5. tx[c].b \in Batches /\ batch[tx[c].b] = "new" /\ JournalOf(c)
      BY <2>4, AtExecuting
    <2>6. journal[tx[c].b][k] # None /\ journal[tx[c].b][k].after = work[c][k]
      BY <1>3, <2>2, <2>5, NoRow DEF JournalOf
    <2>7. k \in Afters(tx[c].b)
      BY <2>1, <2>6 DEF Afters
    <2>8. b = tx[c].b
      BY <1>1, <1>3, <2>5, <2>6, <2>7 DEF DrawnOnce
    <2> QED BY <2>5, <2>8
  <1> QED BY <1>1, <1>2, <1>3 DEF Comes, RowsFrom, Told

(* How often a row was put back changes by an undo that puts it back now.    *)
LEMMA BackMoves ==
    ASSUME BulkInv, [Next]_vars, NEW b \in Batches, NEW k \in Keys, back'[b][k] # back[b][k]
    PROVE  /\ back'[b][k] = back[b][k] + 1
           /\ \/ \E c \in Conns : UndoCommit(c) /\ tx[c].b = b /\ work[c][k] # None
              \/ CardUndo(b) /\ k \in Journaled(b) /\ Content(row[k]) # Content(journal[b][k].before)
  <1>1. Ghosts
    BY DEF BulkInv
  <1>2. ASSUME NEW c \in Conns, UndoCommit(c)
        PROVE  back'[b][k] = back[b][k] + 1 /\ tx[c].b = b /\ work[c][k] # None
    <2>1. tx[c].b \in Batches
      BY <1>2, AtUndoing DEF UndoCommit, Undoing
    <2>2. back' = PutBack(tx[c].b, {j \in Keys : work[c][j] # None})
      BY <1>2 DEF UndoCommit
    <2> QED BY <1>1, <2>1, <2>2, BackTypes
  <1>3. ASSUME NEW d \in Batches, CardUndo(d)
        PROVE  /\ back'[b][k] = back[b][k] + 1 /\ d = b /\ k \in Journaled(d)
               /\ Content(row[k]) # Content(journal[d][k].before)
    <2>1. back' = PutBack(d, {j \in Journaled(d) : Content(row[j]) # Content(journal[d][j].before)})
      BY <1>3 DEF CardUndo
    <2> QED BY <1>1, <2>1, BackTypes
  <1>4. ASSUME NEW j \in Keys, Edit(j) \/ Bump(j) PROVE FALSE
    BY <1>4, OtherWrites
  <1>5. CASE UNCHANGED back
    BY <1>5
  <1>6. ASSUME NEW c \in Conns,
               \/ \E d \in Batches, kind \in Kinds, p \in Plans : ExecuteBegin(c, d, kind, p)
               \/ \E j \in Keys : JournalBefore(c, j) \/ UndoRow(c, j)
               \/ \E d \in Batches : UndoBegin(c, d)
               \/ WriteRow(c) \/ ExecuteCommit(c) \/ Abort(c)
        PROVE  UNCHANGED back
    BY <1>6 DEF ExecuteBegin, JournalBefore, UndoRow, UndoBegin, WriteRow, ExecuteCommit, Abort, ghost
  <1>7. ASSUME NEW d \in Batches, UndoRefused(d) \/ \E p \in Plans : CardApply(d, p)
        PROVE  UNCHANGED back
    BY <1>7 DEF UndoRefused, CardApply, vars, ghost
  <1> QED BY <1>2, <1>3, <1>4, <1>5, <1>6, <1>7 DEF Next, vars, ghost

LEMMA UndoneOnce ==
    ASSUME OnceInv, NEW c \in Conns, UndoCommit(c), NEW k \in Keys, work[c][k] # None
    PROVE  /\ tx[c].b \in Batches /\ batch[tx[c].b] = "done" /\ k \in Journaled(tx[c].b)
           /\ back[tx[c].b][k] = 0 /\ batch'[tx[c].b] = "undone" /\ row'[k] = Seen(c, k)
           /\ k \in tx[c].keys /\ Undoing(c)
  <1>1. BulkInv /\ Tables /\ NotYet /\ Cards /\ Pending(c) /\ At(c)
    BY DEF OnceInv, BulkInv
  <1>2. Undoing(c) /\ row'[k] = Seen(c, k) /\ batch' = [batch EXCEPT ![tx[c].b] = "undone"]
    BY DEF UndoCommit, Undoing
  <1>3. k \in tx[c].keys
    BY <1>1 DEF At
  <1>4. tx[c].b \in Batches /\ batch[tx[c].b] = "done" /\ k \in Journaled(tx[c].b)
    BY <1>1, <1>2, <1>3, AtUndoing
  <1>5. back[tx[c].b][k] = 0
    <2> SUFFICES ASSUME back[tx[c].b][k] # 0 PROVE FALSE
      OBVIOUS
    <2>1. card[tx[c].b] = "undone"
      BY <1>1, <1>4 DEF NotYet
    <2>2. k \in Afters(tx[c].b)
      BY <1>1, <1>4, <2>1 DEF Cards
    <2>3. row[k] = journal[tx[c].b][k].after /\ row[k] # None
      BY <1>1, <1>2, <2>2 DEF Pending, Afters
    <2> QED BY <1>1, <1>4, <2>2, <2>3 DEF NotYet
  <1> QED BY <1>1, <1>2, <1>3, <1>4, <1>5 DEF Tables

LEMMA CardUndoneOnce ==
    ASSUME OnceInv, NEW b \in Batches, CardUndo(b), NEW k \in Keys, k \in Journaled(b)
    PROVE  back[b][k] = 0 /\ batch[b] # "new" /\ UNCHANGED batch /\ card'[b] = "undone"
  <1>1. BulkInv /\ Tables /\ NotYet /\ Cards /\ Dead
    BY DEF OnceInv, BulkInv
  <1>2. card[b] = "applied" /\ Content(row[k]) = Content(journal[b][k].after) /\ UNCHANGED batch /\ card'[b] = "undone"
    BY <1>1 DEF CardUndo, Tables
  <1>3. batch[b] # "new" /\ k \in Afters(b)
    BY <1>1, <1>2 DEF Cards
  <1>4. back[b][k] = 0
    <2> SUFFICES ASSUME back[b][k] # 0 PROVE FALSE
      OBVIOUS
    <2>1. batch[b] = "undone"
      BY <1>1, <1>2 DEF NotYet
    <2>2. ~ Known(k, journal[b][k].after.at)
      BY <1>1, <1>2, <2>1 DEF Dead
    <2>3. journal[b][k].after \in Row
      BY <1>1, <1>3, ImagesAre
    <2>4. Content(journal[b][k].after) = <<journal[b][k].after.val, journal[b][k].after.at>>
          /\ Content(journal[b][k].after) # None
      BY <2>3, ContentIs
    <2>5. row[k] \in Row
      BY <1>1, <1>2, <2>4 DEF Tables, Content
    <2>6. Content(row[k]) = <<row[k].val, row[k].at>>
      BY <2>5, ContentIs
    <2>7. row[k].at = journal[b][k].after.at
      BY <1>2, <2>4, <2>6
    <2> QED BY <2>2, <2>5, <2>7, NoRow DEF Known
  <1> QED BY <1>2, <1>3, <1>4

LEMMA NotYetKept == ASSUME OnceInv, [Next]_vars PROVE NotYet'
  <1>1. BulkInv /\ NotYet /\ Cards /\ Tables /\ Ghosts /\ DrawnOnce
    BY DEF OnceInv, BulkInv
  <1> SUFFICES ASSUME NEW b \in Batches, NEW k \in Keys, back'[b][k] # 0
               PROVE  /\ batch'[b] = "undone" \/ (batch'[b] = "done" /\ card'[b] = "undone")
                      /\ k \in Afters(b)' /\ row'[k] # None => row'[k].ver # journal'[b][k].after.ver
                      /\ back'[b][k] = 1
    BY DEF NotYet
  <1>2. CASE back'[b][k] = back[b][k]
    <2>1. /\ batch[b] = "undone" \/ (batch[b] = "done" /\ card[b] = "undone")
          /\ k \in Afters(b) /\ row[k] # None => row[k].ver # journal[b][k].after.ver
          /\ back[b][k] = 1
      BY <1>1, <1>2 DEF NotYet
    <2>2. batch'[b] # "new" /\ (batch[b] = "undone" => batch'[b] = "undone") /\ journal'[b] = journal[b]
      BY <1>1, <2>1, FinishedKept
    <2>3. batch'[b] \in {"done", "undone"} /\ (card[b] = "undone" => card'[b] = "undone")
      BY <1>1, <2>1, <2>2, CardMoves, BulkTypes DEF Tables
    <2>4. k \in Afters(b)' /\ row'[k] # None => row'[k].ver # journal'[b][k].after.ver
      BY <1>1, <2>1, <2>2, NoReturn DEF Afters
    <2> QED BY <1>2, <2>1, <2>2, <2>3, <2>4
  <1>3. ASSUME NEW c \in Conns, UndoCommit(c), tx[c].b = b, work[c][k] # None, back'[b][k] = back[b][k] + 1
        PROVE  /\ batch'[b] = "undone" /\ back'[b][k] = 1
               /\ k \in Afters(b)' /\ row'[k] # None => row'[k].ver # journal'[b][k].after.ver
    <2>1. back[b][k] = 0 /\ batch'[b] = "undone" /\ row'[k] = Seen(c, k) /\ Undoing(c) /\ batch[b] = "done"
      BY <1>3, UndoneOnce
    <2>2. journal'[b] = journal[b]
      BY <1>1, <2>1, FinishedKept
    <2>3. k \in Afters(b) => work[c][k].ver # journal[b][k].after.ver
      BY <1>1, <1>3, <2>1 DEF DrawnOnce
    <2>4. row'[k] # None => row'[k] = work[c][k]
      <3>1. work[c][k] \in Row \cup {Gone}
        BY <1>1, <1>3 DEF Tables
      <3> QED BY <1>1, <2>1, <3>1, SeenIs
    <2> QED BY <1>3, <2>1, <2>2, <2>3, <2>4 DEF Afters
  <1>4. ASSUME CardUndo(b), k \in Journaled(b), back'[b][k] = back[b][k] + 1
        PROVE  /\ batch'[b] = "undone" \/ (batch'[b] = "done" /\ card'[b] = "undone")
               /\ k \in Afters(b)' /\ row'[k] # None => row'[k].ver # journal'[b][k].after.ver
               /\ back'[b][k] = 1
    <2>1. back[b][k] = 0 /\ batch[b] # "new" /\ UNCHANGED batch /\ card'[b] = "undone"
      BY <1>4, CardUndoneOnce
    <2>2. batch'[b] \in {"done", "undone"}
      BY <1>1, <2>1 DEF Tables
    <2>3. UNCHANGED journal
      BY <1>4 DEF CardUndo
    <2>4. k \in Afters(b) /\ row'[k] # None => row'[k] # row[k]
      <3> SUFFICES ASSUME k \in Afters(b), row'[k] # None PROVE row'[k] # row[k]
        OBVIOUS
      <3>1. row'[k] = [journal[b][k].before EXCEPT !.ver = seq + 1] /\ journal[b][k].before # None
        BY <1>4 DEF CardUndo
      <3>2. journal[b][k].before \in Row /\ seq \in Nat
        BY <1>1, <1>4, <3>1 DEF Tables, Journaled, Journal
      <3>3. row'[k].ver = seq + 1
        BY <3>1, <3>2, StampedIs
      <3>4. row[k] # None => row[k].ver <= seq /\ row[k] \in Row
        BY <1>1 DEF BulkInv, Versions, Drawn, Tables
      <3> QED BY <3>2, <3>3, <3>4 DEF Row
    <2>5. k \in Afters(b)' /\ row'[k] # None => row'[k].ver # journal'[b][k].after.ver
      BY <1>1, <2>1, <2>3, <2>4, NoReturn DEF Afters
    <2> QED BY <1>4, <2>1, <2>2, <2>5
  <1> QED BY <1>1, <1>2, <1>3, <1>4, BackMoves

LEMMA DeadKept == ASSUME OnceInv, [Next]_vars PROVE Dead'
  <1>1. BulkInv /\ NotYet /\ Cards /\ Dead /\ Tables /\ Apart
    BY DEF OnceInv, BulkInv
  <1> SUFFICES ASSUME NEW b \in Batches, NEW k \in Keys,
                      batch'[b] = "undone", card'[b] = "applied", back'[b][k] # 0
               PROVE  k \in Afters(b)' /\ ~ Known(k, journal[b][k].after.at)'
    BY DEF Dead
  <1>2. batch[b] # "new"
    BY <1>1, Finishes
  <1>3. journal'[b] = journal[b] /\ card[b] = "applied" /\ Journaled(b) = Afters(b)
    <2>1. card[b] = "applied"
      BY <1>1, <1>2, CardMoves
    <2> QED BY <1>1, <1>2, <2>1, FinishedKept DEF Cards
  <1> DEFINE a == journal[b][k].after.at
  <1>4. ASSUME k \in Afters(b), ~ Known(k, a)
        PROVE  k \in Afters(b)' /\ ~ Known(k, journal[b][k].after.at)'
    <2>1. a # 0 /\ a # seq + 1
      <3>1. journal[b][k].after \in Row /\ Drawn(journal[b][k].after) /\ a = journal[b][k].after.ver /\ a # 0
            /\ seq \in Nat
        BY <1>1, <1>4, ImagesAre DEF BulkInv, Versions, Tables
      <3> QED BY <3>1 DEF Drawn, Row
    <2>2. PICK n : n = a
      OBVIOUS
    <2>3. ~ Known(k, n)'
      BY <1>1, <1>4, <2>1, <2>2, KnownStays
    <2> QED BY <1>3, <1>4, <2>2, <2>3 DEF Afters, Known
  <1>5. CASE back[b][k] # 0
    <2>1. batch[b] = "undone"
      BY <1>1, <1>3, <1>5 DEF NotYet
    <2> QED BY <1>1, <1>3, <1>4, <1>5, <2>1 DEF Dead
  <1>6. CASE back[b][k] = 0
    <2>1. ~ CardUndo(b)
      BY <1>1 DEF CardUndo, Tables
    <2>2. PICK c \in Conns : UndoCommit(c) /\ tx[c].b = b /\ work[c][k] # None
      BY <1>1, <1>6, <2>1, BackMoves
    <2>3. k \in Afters(b) /\ k \in tx[c].keys /\ Undoing(c) /\ row'[k] = Seen(c, k)
      BY <1>3, <2>2, UndoneOnce
    <2>4. Pending(c) /\ Untold
      BY DEF OnceInv
    <2>5. row[k] = journal[b][k].after /\ row[k] # None /\ row[k].ver = row[k].at /\ a = row[k].at /\ a # 0
      BY <1>1, <2>2, <2>3, <2>4 DEF Pending, Afters, BulkInv, Versions
    <2>6. \A d \in Batches : k \in Befores(d)' => journal'[d][k].before.at # a
      <3> SUFFICES ASSUME NEW d \in Batches, k \in Befores(d)' PROVE journal'[d][k].before.at # a
        OBVIOUS
      <3>1. UNCHANGED journal
        BY <2>2 DEF UndoCommit
      <3>2. k \in Befores(d) /\ journal'[d] = journal[d]
        BY <3>1 DEF Befores
      <3>3. CASE batch[d] # "new"
        BY <2>4, <2>5, <3>2, <3>3 DEF Untold
      <3>4. CASE batch[d] = "new"
        <4>1. PICK e \in Conns : tx[e].b = d
          BY <1>1, <3>2, <3>4 DEF BulkInv, Unbegun, Befores
        <4>2. Executing(e)
          <5>1. ~ Idle(e)
            BY <1>1, <4>1, NoRow DEF BulkInv, At, NoTx
          <5>2. ~ Undoing(e)
            BY <1>1, <3>4, <4>1, AtUndoing
          <5> QED BY <1>1, <5>1, <5>2 DEF Tables, Tx, Executing, Undoing, Idle
        <4>3. k \in tx[e].keys
          BY <1>1, <3>2, <4>1, <4>2, AtExecuting DEF JournalOf, Befores
        <4>4. e # c
          BY <2>3, <4>2, NoRow DEF Executing, Undoing
        <4> QED BY <1>1, <2>3, <4>3, <4>4 DEF Apart
      <3> QED BY <3>3, <3>4
    <2>7. \A d \in Conns : work'[d][k] = None
      <3>1. work'[c][k] = None
        BY <2>2, EndFrames, <1>1
      <3>2. ASSUME NEW d \in Conns \ {c} PROVE work'[d][k] = None
        <4>1. k \notin tx[d].keys
          BY <1>1, <2>3 DEF Apart
        <4>2. work[d][k] = None
          BY <1>1, <4>1 DEF BulkInv, At
        <4>3. work'[d] = work[d]
          BY <1>1, <2>2, EndFrames DEF OthersSame
        <4> QED BY <4>2, <4>3
      <3> QED BY <3>1, <3>2
    <2>8. row'[k] # None => row'[k].at # a
      <3> SUFFICES ASSUME row'[k] # None PROVE row'[k].at # a
        OBVIOUS
      <3>1. work[c][k] \in Row \cup {Gone}
        BY <1>1, <2>2 DEF Tables
      <3>2. row'[k] = work[c][k] /\ work[c][k] # Gone
        BY <1>1, <2>3, <3>1, SeenIs
      <3>3. k \in Befores(b) /\ work[c][k].at = journal[b][k].before.at
        BY <2>2, <2>3, <2>4, <3>2 DEF Pending
      <3>4. journal[b][k].before.at # a
        BY <1>2, <2>4, <2>5, <3>3 DEF Untold
      <3> QED BY <3>2, <3>3, <3>4
    <2>9. journal'[b][k].after.at = a /\ k \in Afters(b)'
      BY <1>3, <2>3 DEF Afters
    <2> QED BY <2>6, <2>7, <2>8, <2>9 DEF Known
  <1> QED BY <1>5, <1>6

LEMMA OnceStep == OnceInv /\ Outside = {} /\ [Next]_vars => OnceInv'
  <1> SUFFICES ASSUME OnceInv, Outside = {}, [Next]_vars PROVE OnceInv'
    OBVIOUS
  <1>1. BulkInv'
    BY BulkStep DEF OnceInv
  <1> QED BY <1>1, ImagesKept, PendingKept, ImageKeptStep, UntoldKept, CardsKept, NotYetKept, DeadKept DEF OnceInv

LEMMA OnceInit == Init => OnceInv
  <1> SUFFICES ASSUME Init PROVE OnceInv
    OBVIOUS
  <1>1. BulkInv
    BY BulkInit
  <1>2. \A b \in Batches, k \in Keys : journal[b][k] = None /\ back[b][k] = 0 /\ card[b] = "none"
    BY DEF Init
  <1>3. \A c \in Conns : ~ Executing(c) /\ ~ Undoing(c)
    BY NoRow DEF Init, NoTx, Executing, Undoing
  <1>4. \A b \in Batches : Befores(b) = {} /\ Journaled(b) = {}
    BY <1>2 DEF Befores, Journaled
  <1>5. \A c \in Conns : Images(c) /\ Pending(c)
    BY <1>3 DEF Images, Pending
  <1>6. ImageKept /\ Untold
    BY <1>3, <1>4 DEF ImageKept, Untold
  <1>7. Cards /\ NotYet /\ Dead
    <2>1. \A b \in Batches, k \in Keys : ~ (back[b][k] # 0)
      BY <1>2
    <2>2. Cards
      <3>1. \A b \in Batches : ~ (card[b] # "none")
        BY DEF Init
      <3> QED BY <3>1, Zenon DEF Cards
    <2>3. NotYet
      BY <2>1, Zenon DEF NotYet
    <2>4. Dead
      BY <2>1, Zenon DEF Dead
    <2> QED BY <2>2, <2>3, <2>4
  <1> QED BY <1>1, <1>5, <1>6, <1>7 DEF OnceInv

LEMMA BulkTyped == BulkInv => TypeOK
  <1> SUFFICES ASSUME BulkInv PROVE TypeOK
    OBVIOUS
  <1>1. Tables /\ Journals
    BY DEF BulkInv
  <1>2. \A c \in Conns : tx[c].op \in Kinds \cup {"idle", "undo"} /\ tx[c].todo \subseteq tx[c].keys
    BY <1>1 DEF BulkInv, At, Tables, Tx
  <1>3. \A b \in Batches : \A k \in Journaled(b) : batch[b] # "new" =>
           journal[b][k].before # None \/ journal[b][k].after # None
    BY <1>1 DEF Journals, Afters, Befores
  <1> QED BY <1>1, <1>2, <1>3 DEF Tables, TypeOK

(* A row that is put back is what it was just before the batch wrote it, and *)
(* no row of a batch is put back twice, whichever of the two undo paths is   *)
(* asked and how often (api_bulk_undo, staging.undo_change_set).  It holds   *)
(* while every writer takes the scope locks; the import of images does not.  *)
THEOREM PutBackOnce == ASSUME Outside = {} PROVE Spec => RestoresPreBatch
  <1>1. OnceInv /\ [Next]_vars => OnceInv'
    BY OnceStep
  <1>2. OnceInv => TypeOK /\ \A b \in Batches, k \in Keys : back[b][k] <= 1
    BY BulkTyped DEF OnceInv, NotYet
  <1>3. OnceInv /\ [Next]_vars =>
           [\A c \in Conns, k \in Keys :
              Decided(c, k) /\ (work')[c][k] # None => Content((work')[c][k]) = was[tx[c].b][k]]_vars
    <2> SUFFICES ASSUME OnceInv, [Next]_vars, NEW c \in Conns, NEW k \in Keys,
                        Decided(c, k), work'[c][k] # None
                 PROVE  Content(work'[c][k]) = was[tx[c].b][k]
      OBVIOUS
    <2> DEFINE b == tx[c].b
    <2>1. BulkInv /\ Tables /\ ImageKept /\ seq \in Nat
      BY DEF OnceInv, BulkInv, Tables
    <2>2. UndoRow(c, k)
      BY <2>1, DecidedIs
    <2>3. Undoing(c) /\ journal[b][k] \in Journal /\ work[c][k] = None
      BY <2>1, <2>2, UndoRowDoes
    <2>4. b \in Batches /\ batch[b] # "new"
      BY <2>1, <2>3, AtUndoing
    <2>5. Content(journal[b][k].before) = was[b][k]
      BY <2>1, <2>3, <2>4, NoRow DEF ImageKept, Journaled
    <2>6. \/ journal[b][k].before = None /\ work' = [work EXCEPT ![c][k] = Gone]
          \/ /\ journal[b][k].before \in Row
             /\ work' = [work EXCEPT ![c][k] = [journal[b][k].before EXCEPT !.ver = seq + 1]]
      BY <2>1, <2>2, <2>3, UndoRowDoes
    <2>7. Content(work'[c][k]) = Content(journal[b][k].before)
      <3>1. CASE journal[b][k].before = None /\ work' = [work EXCEPT ![c][k] = Gone]
        BY <2>1, <3>1 DEF Tables, Content
      <3>2. CASE /\ journal[b][k].before \in Row
                 /\ work' = [work EXCEPT ![c][k] = [journal[b][k].before EXCEPT !.ver = seq + 1]]
        <4>1. work'[c][k] = [journal[b][k].before EXCEPT !.ver = seq + 1]
          BY <2>1, <3>2 DEF Tables
        <4> QED BY <2>1, <3>2, <4>1, StampedIs
      <3> QED BY <2>6, <3>1, <3>2
    <2> QED BY <2>5, <2>7
  <1> QED BY <1>1, <1>2, <1>3, OnceInit, PTL DEF Spec, RestoresPreBatch
=============================================================================
