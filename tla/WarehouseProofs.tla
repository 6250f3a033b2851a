--------------------------- MODULE WarehouseProofs ----------------------------
(* The pipeline of the warehouse: theorems about Warehouse.                  *)
EXTENDS Warehouse, FiniteSetTheorems, WellFoundedInduction, TLAPS

-----------------------------------------------------------------------------
(* The inductive invariant, in parts.                                        *)

Alive(r) == ~ Dead(r)

(* A run that lives is the one started last, and it is not a success.        *)
Solo == \A r \in Runs : Alive(r) => r = latest /\ control[r] \in {"running", "failed"}

Seated(r) ==
    /\ script[r] = "pull" => child[r] \in {"pull", "ok", "bad"}
    /\ script[r] = "load" => child[r] \in {"load", "swap", "swapped", "refresh", "ok", "bad"}
    /\ script[r] = "none" => child[r] # "pull"
    /\ child[r] = "none" => \A t \in Tables : batch[r][t] = Unread
    /\ child[r] # "refresh" => \A t \in Tables : staged[r][t] = Unread
Seats == \A r \in Runs : Seated(r)

Grounded(r, t) ==
    /\ Alive(r) => source[t] \in had[r][t]
    /\ child[r] = "pull" => batch[r][t] \in had[r][t] \cup {Unread, Failed}
    /\ script[r] = "pull" /\ child[r] = "ok" => dump[t] \in had[r][t]
    /\ child[r] \in {"load", "swap", "refresh"} => batch[r][t] \in had[r][t]
    /\ child[r] = "swapped" => raw[t] \in had[r][t]
    /\ staged[r][t] # Unread => Shown(staged[r][t]) = batch[r][t]
    /\ script[r] = "load" /\ child[r] = "ok" => Shown(projection[t]) \in had[r][t]
Grounds == \A r \in Runs, t \in Tables : Grounded(r, t)

Spent(v) ==
    /\ \A u \in Tables : projection[u].version < v
    /\ consumer.cursor < v /\ advertised < v /\ shop.full < v /\ shop.gate < v
CountedAt(r, t) ==
    /\ consumer.cursor <= seq /\ advertised <= seq /\ shop.full <= seq /\ shop.gate <= seq
    /\ result[r] <= seq
    /\ staged[r][t] # Unread => staged[r][t].version <= seq
Counted == \A r \in Runs, t \in Tables : CountedAt(r, t)

AheadAt(r, t) ==
    staged[r][t] # Unread => staged[r][t] = projection[t] \/ Spent(staged[r][t].version)
Ahead == \A r \in Runs, t \in Tables : AheadAt(r, t)

ServedAt(t) ==
    /\ projection[t].version <= consumer.cursor => consumer.served[t] = Shown(projection[t])
    /\ projection[t].version <= shop.full => shop.holds[t] = Shown(projection[t])
Served == \A t \in Tables : ServedAt(t)

ToldAt(r, t) ==
    /\ latest # Absent /\ control[latest] = "success" => projection[t].version <= advertised
    /\ script[r] = "load" /\ child[r] = "ok" => projection[t].version <= result[r]
Told == \A r \in Runs, t \in Tables : ToldAt(r, t)

Shaped == TypeOK /\ Counted

-----------------------------------------------------------------------------
(* The largest of a set of numbers.                                          *)

(* A set of numbers that is not empty has a least.                           *)
LEMMA LeastNumber ==
    ASSUME NEW S, S \subseteq Nat, S # {} PROVE \E x \in S : \A y \in S : x <= y
  <1>1. IsWellFoundedOn(OpToRel(<, Nat), Nat)
    BY NatLessThanWellFounded
  <1>2. PICK x \in S : \A y \in S : ~ (<<y, x>> \in OpToRel(<, Nat))
    BY <1>1, WFMin
  <1>3. \A y \in S : ~ (y < x)
    BY <1>2 DEF OpToRel
  <1> QED BY <1>3

(* A set of numbers under a bound has a largest.                             *)
LEMMA Largest ==
    ASSUME NEW S, S \subseteq Nat, S # {}, NEW b \in Nat, \A y \in S : y <= b
    PROVE  Max(S) \in S /\ \A y \in S : y <= Max(S)
  <1>1. PICK m \in {n \in Nat : \A y \in S : y <= n} : \A n \in {n \in Nat : \A y \in S : y <= n} : m <= n
    BY LeastNumber
  <1>2. m \in S
    <2>1. SUFFICES ASSUME m \notin S PROVE FALSE
      OBVIOUS
    <2>2. \A y \in S : y <= m - 1
      BY <1>1, <2>1
    <2>3. PICK y \in S : y <= m - 1
      BY <2>2
    <2>4. m - 1 \in Nat
      BY <2>3
    <2> QED BY <1>1, <2>2, <2>4
  <1>3. \E x \in S : \A y \in S : x >= y
    BY <1>1, <1>2
  <1> DEFINE z == CHOOSE x \in S : \A y \in S : x >= y
  <1>4. z \in S /\ \A y \in S : z >= y
    BY <1>3
  <1>5. Max(S) = z
    BY DEF Max
  <1> QED BY <1>4, <1>5

-----------------------------------------------------------------------------
(* What the steps do, entry by entry.                                        *)

Gets(new, old, S, x, v) == new[x] = v /\ \A y \in S \ {x} : new[y] = old[y]
GetsRow(new, old, r, t, v) ==
    /\ new[r][t] = v
    /\ \A q \in Runs, u \in Tables : q # r \/ u # t => new[q][u] = old[q][u]
Clears(new, old, r) ==
    (\A t \in Tables : new[r][t] = Unread) /\ \A q \in Runs \ {r} : new[q] = old[q]
Ends(dead) ==
    /\ \A r \in dead : script'[r] = "none" /\ child'[r] = "none" /\ result'[r] = 0
    /\ \A r \in dead, t \in Tables : batch'[r][t] = Unread /\ staged'[r][t] = Unread
    /\ \A r \in Runs \ dead :
          /\ script'[r] = script[r] /\ child'[r] = child[r] /\ result'[r] = result[r]
          /\ batch'[r] = batch[r] /\ staged'[r] = staged[r] /\ had'[r] = had[r]

(* The versions of a set of rows have a largest.                             *)
LEMMA VersionTops ==
    ASSUME NEW rows \in [Tables -> Row], NEW b \in Nat, \A t \in Tables : rows[t].version <= b
    PROVE  /\ Version(rows) \in Nat /\ Version(rows) <= b
           /\ \A t \in Tables : rows[t].version <= Version(rows)
  <1> DEFINE S == {rows[t].version : t \in Tables}
  <1>1. \A t \in Tables : rows[t] \in Row /\ rows[t].version \in Nat
    BY DEF Row
  <1>2. S \subseteq Nat /\ S # {} /\ \A y \in S : y <= b
    BY <1>1, TablesAssumption
  <1>3. Max(S) \in S /\ \A y \in S : y <= Max(S)
    BY <1>2, Largest
  <1> QED BY <1>2, <1>3 DEF Version

(* What ends is left blank, and the rest is not touched.                     *)
LEMMA EndsWhenGone ==
    ASSUME NEW dead \in SUBSET Runs, Gone(dead) PROVE Ends(dead)
  BY DEF Gone, Ends, Blank

(* Versions are numbers.                                                     *)
LEMMA Numbers ==
    ASSUME Shaped
    PROVE  /\ seq \in Nat /\ advertised \in Nat /\ \A r \in Runs : result[r] \in Nat
           /\ consumer.cursor \in Nat /\ shop.full \in Nat /\ shop.gate \in Nat
           /\ \A t \in Tables : projection[t] \in Row /\ projection[t].version \in Nat
           /\ \A t \in Tables : projection[t].version <= seq
           /\ \A r \in Runs, t \in Tables : staged[r][t] # Unread =>
                 staged[r][t] \in Row /\ staged[r][t].version \in Nat /\ staged[r][t].version <= seq
           /\ \A r \in Runs : result[r] <= seq
           /\ Runs # {} => /\ consumer.cursor <= seq /\ advertised <= seq
                           /\ shop.full <= seq /\ shop.gate <= seq
  <1>1. \A row \in Row : row.version \in Nat
    BY DEF Row
  <1>2. \A t \in Tables : projection[t] \in Row
    BY DEF Shaped, TypeOK
  <1>3. \A r \in Runs, t \in Tables : staged[r][t] # Unread => staged[r][t] \in Row
    BY DEF Shaped, TypeOK
  <1>4. \A r \in Runs, t \in Tables : CountedAt(r, t)
    BY DEF Shaped, Counted
  <1>5. Runs # {} => /\ consumer.cursor <= seq /\ advertised <= seq
                     /\ shop.full <= seq /\ shop.gate <= seq
    BY <1>4, TablesAssumption DEF CountedAt
  <1> QED BY <1>1, <1>2, <1>3, <1>4, <1>5, TablesAssumption DEF Shaped, TypeOK, CountedAt

(* A row refreshed keeps what it was or takes the new version, and shows the *)
(* new content.                                                              *)
LEMMA RefreshedRow ==
    ASSUME NEW row \in Row, NEW content \in Held, NEW v \in Nat
    PROVE  /\ Refreshed(row, content, v) \in Row
           /\ Refreshed(row, content, v) = row \/ Refreshed(row, content, v).version = v
           /\ Shown(Refreshed(row, content, v)) = content
  BY DEF Refreshed, Live, Row, Shown, Held

(* The run started last is one of the runs, or there was none.               *)
LEMMA LatestIn ==
    ASSUME Shaped PROVE latest \in Runs \cup {Absent}
  BY DEF Shaped, TypeOK

(* An edit of FDM4 is remembered for the run that lives.                     *)
LEMMA EditFdm4Does ==
    ASSUME Shaped, NEW t \in Tables, NEW c \in Held, EditFdm4(t, c)
    PROVE  /\ Gets(source', source, Tables, t, c)
           /\ \A r \in Runs, u \in Tables : had[r][u] \subseteq had'[r][u]
           /\ \A r \in Runs : Alive(r) => c \in had'[r][t]
           /\ UNCHANGED <<dump, raw, projection, seq, control, advertised,
                           script, child, batch, staged, result, latest, consumer, shop>>
  BY DEF EditFdm4, Shaped, TypeOK, Gets, GetsRow, Clears, Alive, Dead, fdm4,
     layers, books, process, readers

(* A run starts alone.                                                       *)
LEMMA StartDoes ==
    ASSUME Shaped, NEW r \in Runs, Start(r)
    PROVE  /\ \A q \in Runs : Dead(q)
           /\ Gets(control', control, Runs, r, "running")
           /\ latest' = r
           /\ Gets(script', script, Runs, r, "pull")
           /\ Gets(child', child, Runs, r, "pull")
           /\ \A t \in Tables : had'[r][t] = {source[t]}
           /\ \A q \in Runs \ {r} : had'[q] = had[q]
           /\ UNCHANGED <<source, dump, raw, projection, seq, advertised,
                           batch, staged, result, consumer, shop>>
  BY DEF Start, Shaped, TypeOK, Gets, GetsRow, Clears, Alive, Dead, fdm4,
     layers, books, process, readers, LockFree

(* The load opens the dump the pull promoted.                                *)
LEMMA StartLoadDoes ==
    ASSUME Shaped, NEW r \in Runs, StartLoad(r)
    PROVE  /\ script[r] = "pull" /\ child[r] = "ok"
           /\ Gets(script', script, Runs, r, "load")
           /\ Gets(child', child, Runs, r, "load")
           /\ Gets(batch', batch, Runs, r, dump)
           /\ UNCHANGED <<source, dump, raw, projection, seq, control,
                           advertised, staged, result, latest, had, consumer, shop>>
  BY DEF StartLoad, Shaped, TypeOK, Gets, GetsRow, Clears, Alive, Dead, fdm4,
     layers, books, process, readers

(* A run that failed ends and closes its row.                                *)
LEMMA FailRunDoes ==
    ASSUME Shaped, NEW r \in Runs, FailRun(r)
    PROVE  /\ Alive(r)
           /\ Gets(control', control, Runs, r, "failed")
           /\ Ends({r})
           /\ UNCHANGED <<source, dump, raw, projection, seq, advertised,
                           latest, consumer, shop>>
  <1>1. Ends({r})
    BY EndsWhenGone DEF FailRun
  <1> QED
    BY <1>1 DEF FailRun, Shaped, TypeOK, Gets, GetsRow, Clears, Alive, Dead,
       fdm4, layers, books, process, readers

(* A run that loaded ends, and is a success if its row is still running.     *)
LEMMA FinalizeDoes ==
    ASSUME Shaped, NEW r \in Runs, Finalize(r)
    PROVE  /\ script[r] = "load" /\ child[r] = "ok"
           /\ Ends({r})
           /\ \/ /\ control[r] = "running" /\ Gets(control', control, Runs, r, "success")
                 /\ advertised' \in {result[r], advertised}
                 /\ advertised' >= result[r] /\ advertised' >= advertised
              \/ control[r] # "running" /\ UNCHANGED <<control, advertised>>
           /\ UNCHANGED <<source, dump, raw, projection, seq, latest,
                           consumer, shop>>
  <1>1. Ends({r})
    BY EndsWhenGone DEF Finalize
  <1>2. result[r] \in Nat /\ advertised \in Nat
    BY DEF Shaped, TypeOK
  <1> DEFINE S == {result[r], advertised}
  <1>3. \E b \in Nat : \A y \in S : y <= b
    BY <1>2
  <1>4. Max(S) \in S /\ \A y \in S : y <= Max(S)
    BY <1>2, <1>3, Largest
  <1>5. CASE control[r] = "running"
    <2>1. advertised' = Max(S)
      BY <1>5 DEF Finalize
    <2> HIDE DEF S
    <2>2. advertised' \in {result[r], advertised} /\ advertised' >= result[r] /\ advertised' >= advertised
      BY <1>2, <1>4, <2>1 DEF S
    <2>3. control' = [control EXCEPT ![r] = "success"] /\ control \in [Runs -> {"none", "running", "success", "failed"}]
      BY <1>5 DEF Finalize, Shaped, TypeOK
    <2>4. Gets(control', control, Runs, r, "success")
      BY <2>3 DEF Gets
    <2> QED
      BY <1>1, <1>5, <2>2, <2>4 DEF Finalize, fdm4, layers, readers
  <1>6. CASE control[r] # "running"
    BY <1>1, <1>6 DEF Finalize, fdm4, layers, readers
  <1> QED BY <1>5, <1>6

(* One table is read.                                                        *)
LEMMA PullTableDoes ==
    ASSUME Shaped, NEW r \in Runs, NEW t \in Tables, PullTable(r, t)
    PROVE  /\ child[r] = "pull" /\ batch[r][t] = Unread
           /\ GetsRow(batch', batch, r, t, source[t])
           /\ UNCHANGED <<source, dump, raw, projection, seq, control,
                           advertised, script, child, staged, result, latest, had,
                           consumer, shop>>
  BY DEF PullTable, Shaped, TypeOK, Gets, GetsRow, Clears, Alive, Dead, fdm4,
     layers, books, process, readers

(* One row is written by the transform, under a version of its own if it     *)
(* changes.                                                                  *)
LEMMA RefreshRowDoes ==
    ASSUME Shaped, NEW r \in Runs, NEW t \in Tables, RefreshRow(r, t)
    PROVE  /\ child[r] = "refresh"
           /\ GetsRow(staged', staged, r, t, Refreshed(projection[t], batch[r][t], seq + 1))
           /\ \/ Refreshed(projection[t], batch[r][t], seq + 1) = projection[t] /\ seq' = seq
              \/ Refreshed(projection[t], batch[r][t], seq + 1) # projection[t] /\ seq' = seq + 1
           /\ UNCHANGED <<source, dump, raw, projection, control,
                           advertised, script, child, batch, result, latest, had,
                           consumer, shop>>
  <1> DEFINE row == Refreshed(projection[t], batch[r][t], seq + 1)
  <1>1. /\ child[r] = "refresh" /\ staged' = [staged EXCEPT ![r][t] = row]
        /\ seq' = IF row = projection[t] THEN seq ELSE seq + 1
        /\ UNCHANGED <<fdm4, dump, raw, projection, books, script, child, batch, result, readers>>
    BY DEF RefreshRow
  <1> HIDE DEF row
  <1>2. staged \in [Runs -> [Tables -> Row \cup {Unread}]]
    BY DEF Shaped, TypeOK
  <1>3. GetsRow(staged', staged, r, t, row)
    BY <1>1, <1>2 DEF GetsRow
  <1>4. \/ row = projection[t] /\ seq' = seq
        \/ row # projection[t] /\ seq' = seq + 1
    BY <1>1
  <1> QED
    BY <1>1, <1>3, <1>4 DEF row, fdm4, books, readers

(* A dump is published when every table was read.                            *)
LEMMA PromoteDoes ==
    ASSUME Shaped, NEW r \in Runs, Promote(r)
    PROVE  /\ child[r] = "pull"
           /\ \/ Complete(batch[r]) /\ dump' = batch[r] /\ Gets(child', child, Runs, r, "ok")
              \/ dump' = dump /\ Gets(child', child, Runs, r, "bad")
           /\ UNCHANGED <<source, raw, projection, seq, control, advertised,
                           script, batch, staged, result, latest, had, consumer, shop>>
  <1>1. /\ child \in [Runs -> {"none", "pull", "load", "swap", "swapped", "refresh", "ok", "bad"}]
        /\ child[r] = "pull"
    BY DEF Promote, Shaped, TypeOK
  <1>2. CASE Complete(batch[r])
    <2>1. dump' = batch[r] /\ child' = [child EXCEPT ![r] = "ok"]
      BY <1>2 DEF Promote
    <2> QED
      BY <1>1, <1>2, <2>1 DEF Promote, Gets, fdm4, books, readers
  <1>3. CASE ~ Complete(batch[r])
    <2>1. dump' = dump /\ child' = [child EXCEPT ![r] = "bad"]
      BY <1>3 DEF Promote
    <2> QED
      BY <1>1, <2>1 DEF Promote, Gets, fdm4, books, readers
  <1> QED BY <1>2, <1>3

(* The flag goes up before the swap.                                         *)
LEMMA RaiseFlagDoes ==
    ASSUME Shaped, NEW r \in Runs, RaiseFlag(r)
    PROVE  /\ child[r] = "load"
           /\ Gets(child', child, Runs, r, "swap")
           /\ UNCHANGED <<source, dump, raw, projection, seq, control,
                           advertised, script, batch, staged, result, latest, had,
                           consumer, shop>>
  BY DEF RaiseFlag, Shaped, TypeOK, Gets, GetsRow, Clears, Alive, Dead, fdm4,
     layers, books, process, readers

(* The raw tables become those of the dump.                                  *)
LEMMA SwapDoes ==
    ASSUME Shaped, NEW r \in Runs, Swap(r)
    PROVE  /\ child[r] = "swap"
           /\ raw' = batch[r]
           /\ Gets(child', child, Runs, r, "swapped")
           /\ UNCHANGED <<source, dump, projection, seq, control,
                           advertised, script, batch, staged, result, latest, had,
                           consumer, shop>>
  BY DEF Swap, Shaped, TypeOK, Gets, GetsRow, Clears, Alive, Dead, fdm4,
     layers, books, process, readers

(* The transform reads the raw tables.                                       *)
LEMMA BeginRefreshDoes ==
    ASSUME Shaped, NEW r \in Runs, BeginRefresh(r)
    PROVE  /\ child[r] = "swapped"
           /\ Gets(batch', batch, Runs, r, raw)
           /\ Clears(staged', staged, r)
           /\ Gets(child', child, Runs, r, "refresh")
           /\ UNCHANGED <<source, dump, raw, projection, seq, control,
                           advertised, script, result, latest, had, consumer, shop>>
  BY DEF BeginRefresh, Shaped, TypeOK, Gets, GetsRow, Clears, Alive, Dead,
     fdm4, layers, books, process, readers, Blank

(* The rows of the transform become the projection.                          *)
LEMMA CommitRefreshDoes ==
    ASSUME Shaped, NEW r \in Runs, CommitRefresh(r)
    PROVE  /\ child[r] = "refresh"
           /\ \A t \in Tables : staged[r][t] # Unread
           /\ projection' = staged[r]
           /\ \A t \in Tables : staged[r][t].version <= result'[r]
           /\ result'[r] <= seq
           /\ \A q \in Runs \ {r} : result'[q] = result[q]
           /\ Clears(staged', staged, r)
           /\ Gets(child', child, Runs, r, "ok")
           /\ UNCHANGED <<source, dump, raw, seq, control, advertised,
                           script, batch, latest, had, consumer, shop>>
  <1>1. staged[r] \in [Tables -> Row] /\ \A t \in Tables : staged[r][t].version <= seq
    BY DEF CommitRefresh, Shaped, TypeOK, Counted, CountedAt
  <1>2. /\ Version(staged[r]) <= seq
        /\ \A t \in Tables : staged[r][t].version <= Version(staged[r])
    BY <1>1, VersionTops DEF Shaped, TypeOK
  <1>3. result' = [result EXCEPT ![r] = Version(staged[r])] /\ result \in [Runs -> Nat]
    BY DEF CommitRefresh, Shaped, TypeOK
  <1>4. result'[r] = Version(staged[r]) /\ \A q \in Runs \ {r} : result'[q] = result[q]
    BY <1>3
  <1> QED
    BY <1>2, <1>4 DEF CommitRefresh, Shaped, TypeOK, Gets, Clears, Blank, fdm4,
        books, readers

(* A child left alone ends.                                                  *)
LEMMA ExitDoes ==
    ASSUME Shaped, NEW r \in Runs, Exit(r)
    PROVE  /\ Ends({r})
           /\ Alive(r)
           /\ UNCHANGED <<source, dump, raw, projection, seq, control,
                           advertised, latest, consumer, shop>>
  <1>1. Ends({r})
    BY EndsWhenGone DEF Exit
  <1> QED
    BY <1>1 DEF Exit, Shaped, TypeOK, Gets, GetsRow, Clears, Alive, Dead, fdm4,
       layers, books, process, readers

(* One table cannot be read.                                                 *)
LEMMA PullTableFailsDoes ==
    ASSUME Shaped, NEW r \in Runs, NEW t \in Tables, PullTableFails(r, t)
    PROVE  /\ child[r] = "pull" /\ batch[r][t] = Unread
           /\ GetsRow(batch', batch, r, t, Failed)
           /\ UNCHANGED <<source, dump, raw, projection, seq, control,
                           advertised, script, child, staged, result, latest, had,
                           consumer, shop>>
  BY DEF PullTableFails, Shaped, TypeOK, Gets, GetsRow, Clears, Alive, Dead,
     fdm4, layers, books, process, readers

(* A load that fails leaves nothing uncommitted.                             *)
LEMMA LoadFailsDoes ==
    ASSUME Shaped, NEW r \in Runs, LoadFails(r)
    PROVE  /\ child[r] \in {"swap", "swapped", "refresh"}
           /\ Clears(staged', staged, r)
           /\ Gets(child', child, Runs, r, "bad")
           /\ UNCHANGED <<source, dump, raw, projection, seq, control,
                           advertised, script, batch, result, latest, had, consumer,
                           shop>>
  BY DEF LoadFails, Shaped, TypeOK, Gets, GetsRow, Clears, Alive, Dead, fdm4,
     layers, books, process, readers, Blank

(* A run becomes late.                                                       *)
LEMMA AgeDoes ==
    ASSUME Shaped, NEW r \in Runs, Age(r)
    PROVE  /\ UNCHANGED <<source, dump, raw, projection, seq, control,
                           advertised, script, child, batch, staged, result, latest, had,
                           consumer, shop>>
  BY DEF Age, Shaped, TypeOK, Gets, GetsRow, Clears, Alive, Dead, fdm4, layers,
     books, process, readers

(* A script is terminated with its child, and closes its row if it runs.     *)
LEMMA TerminateDoes ==
    ASSUME Shaped, NEW r \in Runs, Terminate(r)
    PROVE  /\ Alive(r)
           /\ Ends({r})
           /\ \A q \in Runs \ {r} : control'[q] = control[q]
           /\ control'[r] = IF control[r] = "running" THEN "failed" ELSE control[r]
           /\ UNCHANGED <<source, dump, raw, projection, seq, advertised,
                           latest, consumer, shop>>
  <1>1. Ends({r})
    BY EndsWhenGone DEF Terminate
  <1> QED
    BY <1>1 DEF Terminate, Shaped, TypeOK, Gets, GetsRow, Clears, Alive, Dead,
       fdm4, layers, books, process, readers

(* The reaper ends a run, or its script only.                                *)
LEMMA ReapDoes ==
    ASSUME Shaped, NEW r \in Runs, Reap(r)
    PROVE  /\ \/ Ends({r})
              \/ /\ Gets(script', script, Runs, r, "none") /\ script[r] = "load"
                 /\ UNCHANGED <<child, batch, staged, result, had>>
           /\ UNCHANGED <<source, dump, raw, projection, seq, control,
                           advertised, latest, consumer, shop>>
  <1>1. CASE Gone({r})
    <2>1. Ends({r})
      BY <1>1, EndsWhenGone
    <2> QED
      BY <2>1 DEF Reap, Shaped, TypeOK, Gets, GetsRow, Clears, Alive, Dead,
         fdm4, layers, books, process, readers
  <1>2. CASE ~ Gone({r})
    BY <1>2 DEF Reap, Shaped, TypeOK, Gets, GetsRow, Clears, Alive, Dead, fdm4,
       layers, books, process, readers
  <1> QED BY <1>1, <1>2

(* A row left running is closed.                                             *)
LEMMA CloseRowDoes ==
    ASSUME Shaped, NEW r \in Runs, CloseRow(r)
    PROVE  /\ control[r] = "running"
           /\ Gets(control', control, Runs, r, "failed")
           /\ UNCHANGED <<source, dump, raw, projection, seq, advertised,
                           script, child, batch, staged, result, latest, had, consumer,
                           shop>>
  BY DEF CloseRow, Shaped, TypeOK, Gets, GetsRow, Clears, Alive, Dead, fdm4,
     layers, books, process, readers

(* A flag becomes old.                                                       *)
LEMMA FlagAgesDoes ==
    ASSUME Shaped, FlagAges
    PROVE  /\ UNCHANGED <<source, dump, raw, projection, seq, control,
                           advertised, script, child, batch, staged, result, latest, had,
                           consumer, shop>>
  BY DEF FlagAges, Shaped, TypeOK, Gets, GetsRow, Clears, Alive, Dead, fdm4,
     layers, books, process, readers

(* The box stops.                                                            *)
LEMMA StopDoes ==
    ASSUME Shaped, Stop
    PROVE  /\ Ends(Runs)
           /\ UNCHANGED <<source, dump, raw, projection, seq, control,
                           advertised, latest, consumer, shop>>
  <1>1. Ends(Runs)
    BY EndsWhenGone DEF Stop
  <1> QED
    BY <1>1 DEF Stop, Shaped, TypeOK, Gets, GetsRow, Clears, Alive, Dead, fdm4,
       layers, books, process, readers

(* A page of the feed ends at a version of the projection and steps over     *)
(* none.                                                                     *)
LEMMA FeedProductsDoes ==
    ASSUME Shaped, FeedProducts
    PROVE  /\ consumer'.cursor >= consumer.cursor
           /\ \E t \in Tables : consumer'.cursor = projection[t].version
           /\ \A t \in Tables : consumer'.served[t] \in {consumer.served[t], Shown(projection[t])}
           /\ \A t \in Tables : projection[t].version <= consumer'.cursor =>
                 projection[t].version <= consumer.cursor \/ consumer'.served[t] = Shown(projection[t])
           /\ UNCHANGED <<source, dump, raw, projection, seq, control,
                           advertised, script, child, batch, staged, result, latest, had,
                           shop>>
  <1> DEFINE N == Newer(consumer.cursor)
             below(t) == {u \in N : projection[u].version < projection[t].version}
             P == Page(consumer.cursor)
             S == {projection[t].version : t \in P}
  <1>1. /\ consumer.cursor \in Nat /\ seq \in Nat
        /\ \A t \in Tables : projection[t].version \in Nat /\ projection[t].version <= seq
    BY DEF Shaped, TypeOK, Row
  <1>2. N \subseteq Tables /\ IsFiniteSet(N) /\ N # {}
    BY TablesAssumption, FS_Subset DEF Newer, FeedProducts
  <1>3. \A t \in Tables : IsFiniteSet(below(t))
    BY <1>2, FS_Subset
  <1>4. P = {t \in N : Cardinality(below(t)) < Limit}
    BY DEF Page
  <1>5. P # {}
    <2> DEFINE W == {projection[t].version : t \in N}
    <2>1. W \subseteq Nat /\ W # {}
      BY <1>1, <1>2
    <2>2. PICK w \in W : \A y \in W : w <= y
      BY <2>1, LeastNumber
    <2>3. PICK t \in N : w = projection[t].version
      OBVIOUS
    <2>6. \A u \in N : projection[t].version <= projection[u].version
      BY <2>2, <2>3
    <2>4. below(t) = {}
      BY <1>1, <1>2, <2>6
    <2>5. Cardinality(below(t)) < Limit
      BY <2>4, FS_EmptySet, LimitAssumption
    <2> QED BY <1>4, <2>3, <2>5
  <1>6. S \subseteq Nat /\ S # {} /\ \A y \in S : y <= seq
    BY <1>1, <1>2, <1>4, <1>5
  <1>7. Max(S) \in S /\ \A y \in S : y <= Max(S)
    BY <1>1, <1>6, Largest
  <1>8. PICK m \in P : Max(S) = projection[m].version
    BY <1>7
  <1>9. /\ consumer'.cursor = projection[m].version
        /\ \A t \in Tables : consumer'.served[t] = IF t \in P THEN Shown(projection[t]) ELSE consumer.served[t]
    BY <1>8 DEF FeedProducts
  <1>10. m \in Tables /\ m \in N /\ projection[m].version > consumer.cursor /\ Cardinality(below(m)) < Limit
    BY <1>2, <1>4, <1>8 DEF Newer
  <1>11. ASSUME NEW t \in Tables, projection[t].version <= consumer'.cursor,
                ~ (projection[t].version <= consumer.cursor)
         PROVE  t \in P
    <2>1. t \in N
      BY <1>1, <1>11 DEF Newer
    <2>2. below(t) \subseteq below(m)
      BY <1>1, <1>2, <1>9, <1>10, <1>11
    <2>3. Cardinality(below(t)) <= Cardinality(below(m))
      BY <1>3, <1>10, <2>2, FS_Subset
    <2>4. Cardinality(below(t)) \in Nat /\ Cardinality(below(m)) \in Nat /\ Limit \in Nat
      BY <1>3, <1>10, FS_CardinalityType, LimitAssumption
    <2>5. Cardinality(below(t)) < Limit
      BY <1>10, <2>3, <2>4
    <2> QED BY <1>4, <2>1, <2>5
  <1> HIDE DEF N, P, S
  <1>12. UNCHANGED <<fdm4, layers, books, process, shop>>
    BY DEF FeedProducts
  <1>13. consumer'.cursor >= consumer.cursor
    BY <1>1, <1>9, <1>10
  <1>14. \A t \in Tables : consumer'.served[t] \in {consumer.served[t], Shown(projection[t])}
    BY <1>9
  <1>15. \A t \in Tables : projection[t].version <= consumer'.cursor =>
              projection[t].version <= consumer.cursor \/ consumer'.served[t] = Shown(projection[t])
    BY <1>9, <1>11
  <1> QED
    BY <1>9, <1>10, <1>12, <1>13, <1>14, <1>15 DEF fdm4, layers, books, process

(* The gate opens at the version advertised.                                 *)
LEMMA SyncGateDoes ==
    ASSUME Shaped, SyncGate
    PROVE  /\ shop'.full = shop.full /\ shop'.gate = advertised
           /\ \A t \in Tables : shop'.holds[t] = shop.holds[t]
           /\ UNCHANGED <<source, dump, raw, projection, seq, control,
                           advertised, script, child, batch, staged, result, latest, had,
                           consumer>>
  BY DEF SyncGate, Shaped, TypeOK, Gets, GetsRow, Clears, Alive, Dead, fdm4,
     layers, books, process, readers

(* A reconcile copies the projection.                                        *)
LEMMA ReconcileDoes ==
    ASSUME Shaped, Reconcile
    PROVE  /\ shop'.full = shop.gate /\ shop'.gate = 0
           /\ \A t \in Tables : shop'.holds[t] = Shown(projection[t])
           /\ UNCHANGED <<source, dump, raw, projection, seq, control,
                           advertised, script, child, batch, staged, result, latest, had,
                           consumer>>
  BY DEF Reconcile, Shaped, TypeOK, Gets, GetsRow, Clears, Alive, Dead, fdm4,
     layers, books, process, readers, Carries

-----------------------------------------------------------------------------
(* The shape of the state is kept.                                           *)

(* What a run leaves when it ends is of its type.                            *)
LEMMA GoneTypes ==
    ASSUME Shaped, NEW dead \in SUBSET Runs, Gone(dead)
    PROVE  /\ script' \in [Runs -> {"none", "pull", "load"}]
           /\ child' \in [Runs -> {"none", "pull", "load", "swap", "swapped", "refresh", "ok", "bad"}]
           /\ batch' \in [Runs -> [Tables -> Held \cup {Unread, Failed}]]
           /\ staged' \in [Runs -> [Tables -> Row \cup {Unread}]]
           /\ result' \in [Runs -> Nat] /\ aged' \subseteq Runs
           /\ had' \in [Runs -> [Tables -> SUBSET Held]]
  BY DEF Gone, Shaped, TypeOK, Blank

(* Types are kept.                                                           *)
LEMMA TypesKept ==
    ASSUME Shaped, Grounds, [Next]_vars
    PROVE  TypeOK'
  <1>1. ASSUME NEW t \in Tables, NEW c \in Held, EditFdm4(t, c) PROVE TypeOK'
    BY <1>1, BoundsAssumption DEF EditFdm4, Shaped, TypeOK, fdm4, layers, books,
       process, readers, Blank
  <1>2. ASSUME NEW r \in Runs, Start(r) PROVE TypeOK'
    BY <1>2 DEF Start, Shaped, TypeOK, fdm4, layers, books, process, readers, Held
  <1>3. ASSUME NEW r \in Runs, StartLoad(r) PROVE TypeOK'
    BY <1>3 DEF StartLoad, Shaped, TypeOK, fdm4, layers, books, process, readers
  <1>4. ASSUME NEW r \in Runs, FailRun(r) PROVE TypeOK'
    <2>1. Gone({r})
      BY <1>4 DEF FailRun
    <2> HIDE DEF Gone
    <2> QED
      BY <1>4, <2>1, GoneTypes DEF FailRun, Shaped, TypeOK, fdm4, layers, books,
         process, readers
  <1>5. ASSUME NEW r \in Runs, Finalize(r) PROVE TypeOK'
    <2>1. Gone({r}) /\ UNCHANGED <<fdm4, layers, flag, latest, readers, faults>>
      BY <1>5 DEF Finalize
    <2>5. result[r] \in Nat /\ advertised \in Nat
      BY DEF Shaped, TypeOK
    <2>6. advertised' \in {result[r], advertised}
      BY <1>5, FinalizeDoes
    <2>2. advertised' \in Nat
      BY <2>5, <2>6
    <2>3. control' = control \/ control' = [control EXCEPT ![r] = "success"]
      BY <1>5 DEF Finalize
    <2>4. control' \in [Runs -> {"none", "running", "success", "failed"}]
      BY <2>3 DEF Shaped, TypeOK
    <2> QED
      BY <2>1, <2>2, <2>4, GoneTypes DEF Shaped, TypeOK, fdm4, layers, readers
  <1>6. ASSUME NEW r \in Runs, NEW t \in Tables, PullTable(r, t) PROVE TypeOK'
    BY <1>6 DEF PullTable, Shaped, TypeOK, fdm4, layers, books, process, readers
  <1>7. ASSUME NEW r \in Runs, NEW t \in Tables, RefreshRow(r, t) PROVE TypeOK'
    <2> DEFINE row == Refreshed(projection[t], batch[r][t], seq + 1)
    <2>1. /\ child[r] = "refresh" /\ staged' = [staged EXCEPT ![r][t] = row]
          /\ seq' = seq \/ seq' = seq + 1
          /\ UNCHANGED <<fdm4, dump, raw, projection, flag, books, script, child, batch, result, aged, readers, faults>>
      BY <1>7 DEF RefreshRow
    <2>6. child[r] = "refresh" /\ had[r][t] \subseteq Held
      BY <1>7 DEF RefreshRow, Shaped, TypeOK
    <2>2. projection[t] \in Row /\ batch[r][t] \in Held /\ seq + 1 \in Nat
      BY <2>6 DEF Grounds, Grounded, Shaped, TypeOK
    <2>3. row \in Row
      BY <2>2 DEF Refreshed, Live, Row
    <2> HIDE DEF row
    <2>4. staged' \in [Runs -> [Tables -> Row \cup {Unread}]] /\ seq' \in Nat /\ seq' >= seq
      BY <2>1, <2>3 DEF Shaped, TypeOK
    <2>5. \A u \in Tables : projection[u].version \in Nat
      BY DEF Shaped, TypeOK, Row
    <2> QED
      BY <2>1, <2>4, <2>5 DEF Shaped, TypeOK, fdm4, books, readers
  <1>8. ASSUME NEW r \in Runs, Promote(r) PROVE TypeOK'
    <2>1. child' \in [Runs -> {"none", "pull", "load", "swap", "swapped", "refresh", "ok", "bad"}]
      <3>1. child' = [child EXCEPT ![r] = "ok"] \/ child' = [child EXCEPT ![r] = "bad"]
        BY <1>8 DEF Promote
      <3> QED BY <3>1 DEF Shaped, TypeOK
    <2>2. batch[r] \in [Tables -> Held \cup {Unread, Failed}]
      BY DEF Shaped, TypeOK
    <2>3. dump' \in [Tables -> Held]
      BY <1>8, <2>2 DEF Promote, Complete, Shaped, TypeOK
    <2> QED
      BY <1>8, <2>1, <2>3 DEF Promote, Shaped, TypeOK, fdm4, books, readers
  <1>9. ASSUME NEW r \in Runs, RaiseFlag(r) PROVE TypeOK'
    BY <1>9 DEF RaiseFlag, Shaped, TypeOK, fdm4, layers, books, process, readers
  <1>10. ASSUME NEW r \in Runs, Swap(r) PROVE TypeOK'
    <2>1. batch[r] \in [Tables -> Held \cup {Unread, Failed}] /\ had \in [Runs -> [Tables -> SUBSET Held]]
      BY DEF Shaped, TypeOK
    <2>2. child[r] = "swap" /\ raw' = batch[r]
      BY <1>10 DEF Swap
    <2>3. \A t \in Tables : batch[r][t] \in had[r][t]
      BY <2>2 DEF Grounds, Grounded
    <2>4. raw' \in [Tables -> Held]
      BY <2>1, <2>2, <2>3
    <2> QED
      BY <1>10, <2>4 DEF Swap, Shaped, TypeOK, fdm4, books, readers
  <1>11. ASSUME NEW r \in Runs, BeginRefresh(r) PROVE TypeOK'
    BY <1>11 DEF BeginRefresh, Shaped, TypeOK, fdm4, layers, books, process,
       readers, Blank
  <1>12. ASSUME NEW r \in Runs, CommitRefresh(r) PROVE TypeOK'
    <2>1. /\ projection' = staged[r] /\ \A t \in Tables : staged[r][t] # Unread
          /\ result' = [result EXCEPT ![r] = Version(staged[r])]
          /\ staged' = [staged EXCEPT ![r] = Blank] /\ child' = [child EXCEPT ![r] = "ok"]
          /\ UNCHANGED <<fdm4, dump, raw, seq, flag, books, script, batch, aged, readers, faults>>
      BY <1>12 DEF CommitRefresh
    <2>2. staged[r] \in [Tables -> Row] /\ \A t \in Tables : staged[r][t].version <= seq
      BY <2>1 DEF Shaped, TypeOK, Counted, CountedAt
    <2>3. Version(staged[r]) \in Nat
      BY <2>2, VersionTops DEF Shaped, TypeOK
    <2>4. result' \in [Runs -> Nat]
      BY <2>1, <2>3 DEF Shaped, TypeOK
    <2>5. staged' \in [Runs -> [Tables -> Row \cup {Unread}]]
      BY <2>1 DEF Shaped, TypeOK, Blank
    <2> QED
      BY <2>1, <2>2, <2>4, <2>5 DEF Shaped, TypeOK, fdm4, books, readers
  <1>13. ASSUME NEW r \in Runs, Exit(r) PROVE TypeOK'
    <2>1. Gone({r})
      BY <1>13 DEF Exit
    <2> HIDE DEF Gone
    <2> QED
      BY <1>13, <2>1, GoneTypes DEF Exit, Shaped, TypeOK, fdm4, layers, books,
         process, readers
  <1>14. ASSUME NEW r \in Runs, NEW t \in Tables, PullTableFails(r, t) PROVE TypeOK'
    BY <1>14, BoundsAssumption DEF PullTableFails, Shaped, TypeOK, fdm4, layers,
       books, process, readers, Blank
  <1>15. ASSUME NEW r \in Runs, LoadFails(r) PROVE TypeOK'
    BY <1>15, BoundsAssumption DEF LoadFails, Shaped, TypeOK, fdm4, layers, books,
       process, readers, Blank
  <1>16. ASSUME NEW r \in Runs, Age(r) PROVE TypeOK'
    BY <1>16, BoundsAssumption DEF Age, Shaped, TypeOK, fdm4, layers, books,
       process, readers, Blank
  <1>17. ASSUME NEW r \in Runs, Terminate(r) PROVE TypeOK'
    <2>1. Gone({r})
      BY <1>17 DEF Terminate
    <2> HIDE DEF Gone
    <2> QED
      BY <1>17, <2>1, GoneTypes DEF Terminate, Shaped, TypeOK, fdm4, layers, books,
         process, readers
  <1>18. ASSUME NEW r \in Runs, Reap(r) PROVE TypeOK'
    <2>1. UNCHANGED <<fdm4, layers, flag, control, advertised, latest, readers, faults>>
      BY <1>18 DEF Reap
    <2>2. CASE Gone({r})
      BY <2>1, <2>2, GoneTypes DEF Shaped, TypeOK, fdm4, layers, readers
    <2>3. CASE ~ Gone({r})
      BY ZenonT(60), <1>18, <2>1, <2>3 DEF Reap, Shaped, TypeOK, fdm4, layers, readers
    <2> QED BY <2>2, <2>3
  <1>19. ASSUME NEW r \in Runs, CloseRow(r) PROVE TypeOK'
    BY <1>19 DEF CloseRow, Shaped, TypeOK, fdm4, layers, books, process, readers
  <1>20. ASSUME FlagAges PROVE TypeOK'
    BY <1>20 DEF FlagAges, Shaped, TypeOK, fdm4, layers, books, process, readers
  <1>21. ASSUME Stop PROVE TypeOK'
    <2>1. Gone(Runs)
      BY <1>21 DEF Stop
    <2> HIDE DEF Gone
    <2> QED
      BY <1>21, <2>1, GoneTypes, BoundsAssumption DEF Stop, Shaped, TypeOK, fdm4,
         layers, books, process, readers
  <1>22. ASSUME FeedProducts PROVE TypeOK'
    BY <1>22, FeedProductsDoes DEF FeedProducts, Shaped, TypeOK, fdm4, layers,
       books, process, readers, Shown, Row, Held
  <1>23. ASSUME SyncGate PROVE TypeOK'
    BY <1>23 DEF SyncGate, Shaped, TypeOK, fdm4, layers, books, process, readers
  <1>24. ASSUME Reconcile PROVE TypeOK'
    BY <1>24 DEF Reconcile, Shaped, TypeOK, fdm4, layers, books, process, readers,
       Carries, Shown, Row, Held
  <1>25. CASE UNCHANGED vars
    BY <1>25 DEF vars, Shaped, TypeOK, fdm4, layers, books, process, readers
  <1> QED
    BY <1>1, <1>2, <1>3, <1>4, <1>5, <1>6, <1>7, <1>8, <1>9, <1>10, <1>11,
       <1>12, <1>13, <1>14, <1>15, <1>16, <1>17, <1>18, <1>19, <1>20, <1>21,
       <1>22, <1>23, <1>24, <1>25 DEF Next, Progress, Faults, Upkeep

-----------------------------------------------------------------------------
(* One run at a time.                                                        *)

(* Only the run started last lives, and its row is not a success.            *)
LEMMA SoloKept ==
    ASSUME Shaped, Solo, [Next]_vars
    PROVE  Solo'
  <1>1. ASSUME NEW t \in Tables, NEW c \in Held, EditFdm4(t, c) PROVE Solo'
    BY <1>1, EditFdm4Does DEF Gets, Solo, Alive, Dead
  <1>2. ASSUME NEW r \in Runs, Start(r) PROVE Solo'
    BY <1>2, StartDoes DEF Gets, Solo, Alive, Dead
  <1>3. ASSUME NEW r \in Runs, StartLoad(r) PROVE Solo'
    BY <1>3, StartLoadDoes DEF Gets, Solo, Alive, Dead
  <1>4. ASSUME NEW r \in Runs, FailRun(r) PROVE Solo'
    BY <1>4, FailRunDoes DEF Gets, Ends, Solo, Alive, Dead
  <1>5. ASSUME NEW r \in Runs, Finalize(r) PROVE Solo'
    BY <1>5, FinalizeDoes DEF Gets, Ends, Solo, Alive, Dead
  <1>6. ASSUME NEW r \in Runs, NEW t \in Tables, PullTable(r, t) PROVE Solo'
    BY <1>6, PullTableDoes DEF GetsRow, Solo, Alive, Dead
  <1>7. ASSUME NEW r \in Runs, NEW t \in Tables, RefreshRow(r, t) PROVE Solo'
    BY <1>7, RefreshRowDoes DEF GetsRow, Solo, Alive, Dead
  <1>8. ASSUME NEW r \in Runs, Promote(r) PROVE Solo'
    BY <1>8, PromoteDoes DEF Gets, Solo, Alive, Dead
  <1>9. ASSUME NEW r \in Runs, RaiseFlag(r) PROVE Solo'
    BY <1>9, RaiseFlagDoes DEF Gets, Solo, Alive, Dead
  <1>10. ASSUME NEW r \in Runs, Swap(r) PROVE Solo'
    BY <1>10, SwapDoes DEF Gets, Solo, Alive, Dead
  <1>11. ASSUME NEW r \in Runs, BeginRefresh(r) PROVE Solo'
    BY <1>11, BeginRefreshDoes DEF Gets, Clears, Solo, Alive, Dead
  <1>12. ASSUME NEW r \in Runs, CommitRefresh(r) PROVE Solo'
    BY <1>12, CommitRefreshDoes DEF Gets, Clears, Solo, Alive, Dead
  <1>13. ASSUME NEW r \in Runs, Exit(r) PROVE Solo'
    BY <1>13, ExitDoes DEF Ends, Solo, Alive, Dead
  <1>14. ASSUME NEW r \in Runs, NEW t \in Tables, PullTableFails(r, t) PROVE Solo'
    BY <1>14, PullTableFailsDoes DEF GetsRow, Solo, Alive, Dead
  <1>15. ASSUME NEW r \in Runs, LoadFails(r) PROVE Solo'
    BY <1>15, LoadFailsDoes DEF Gets, Clears, Solo, Alive, Dead
  <1>16. ASSUME NEW r \in Runs, Age(r) PROVE Solo'
    BY <1>16, AgeDoes DEF Solo, Alive, Dead
  <1>17. ASSUME NEW r \in Runs, Terminate(r) PROVE Solo'
    BY <1>17, TerminateDoes DEF Ends, Solo, Alive, Dead
  <1>18. ASSUME NEW r \in Runs, Reap(r) PROVE Solo'
    BY <1>18, ReapDoes DEF Gets, Ends, Solo, Alive, Dead
  <1>19. ASSUME NEW r \in Runs, CloseRow(r) PROVE Solo'
    BY <1>19, CloseRowDoes DEF Gets, Solo, Alive, Dead
  <1>20. ASSUME FlagAges PROVE Solo'
    BY <1>20, FlagAgesDoes DEF Solo, Alive, Dead
  <1>21. ASSUME Stop PROVE Solo'
    BY <1>21, StopDoes DEF Ends, Solo, Alive, Dead
  <1>22. ASSUME FeedProducts PROVE Solo'
    BY <1>22, FeedProductsDoes DEF Solo, Alive, Dead
  <1>23. ASSUME SyncGate PROVE Solo'
    BY <1>23, SyncGateDoes DEF Solo, Alive, Dead
  <1>24. ASSUME Reconcile PROVE Solo'
    BY <1>24, ReconcileDoes DEF Solo, Alive, Dead
  <1>25. CASE UNCHANGED vars
    BY <1>25 DEF vars, Solo, Alive, Dead
  <1> QED
    BY <1>1, <1>2, <1>3, <1>4, <1>5, <1>6, <1>7, <1>8, <1>9, <1>10, <1>11,
       <1>12, <1>13, <1>14, <1>15, <1>16, <1>17, <1>18, <1>19, <1>20, <1>21,
       <1>22, <1>23, <1>24, <1>25 DEF Next, Progress, Faults, Upkeep

(* A script and its child are at places that belong together.                *)
LEMMA SeatsKept ==
    ASSUME Shaped, Seats, NEW q \in Runs, [Next]_vars
    PROVE  Seated(q)'
  <1>1. ASSUME NEW t \in Tables, NEW c \in Held, EditFdm4(t, c) PROVE Seated(q)'
    BY <1>1, EditFdm4Does DEF Gets, Seats, Seated, Dead, Blank
  <1>2. ASSUME NEW r \in Runs, Start(r) PROVE Seated(q)'
    BY <1>2, StartDoes DEF Gets, Seats, Seated, Dead, Blank
  <1>3. ASSUME NEW r \in Runs, StartLoad(r) PROVE Seated(q)'
    BY <1>3, StartLoadDoes DEF Gets, Seats, Seated, Dead, Blank
  <1>4. ASSUME NEW r \in Runs, FailRun(r) PROVE Seated(q)'
    BY <1>4, FailRunDoes DEF Gets, Ends, Seats, Seated, Dead, Blank
  <1>5. ASSUME NEW r \in Runs, Finalize(r) PROVE Seated(q)'
    BY <1>5, FinalizeDoes DEF Gets, Ends, Seats, Seated, Dead, Blank
  <1>6. ASSUME NEW r \in Runs, NEW t \in Tables, PullTable(r, t) PROVE Seated(q)'
    BY <1>6, PullTableDoes DEF GetsRow, Seats, Seated, Dead, Blank
  <1>7. ASSUME NEW r \in Runs, NEW t \in Tables, RefreshRow(r, t) PROVE Seated(q)'
    BY <1>7, RefreshRowDoes DEF GetsRow, Seats, Seated, Dead, Blank
  <1>8. ASSUME NEW r \in Runs, Promote(r) PROVE Seated(q)'
    BY <1>8, PromoteDoes DEF Gets, Seats, Seated, Dead, Blank
  <1>9. ASSUME NEW r \in Runs, RaiseFlag(r) PROVE Seated(q)'
    BY <1>9, RaiseFlagDoes DEF Gets, Seats, Seated, Dead, Blank
  <1>10. ASSUME NEW r \in Runs, Swap(r) PROVE Seated(q)'
    BY <1>10, SwapDoes DEF Gets, Seats, Seated, Dead, Blank
  <1>11. ASSUME NEW r \in Runs, BeginRefresh(r) PROVE Seated(q)'
    BY <1>11, BeginRefreshDoes DEF Gets, Clears, Seats, Seated, Dead, Blank
  <1>12. ASSUME NEW r \in Runs, CommitRefresh(r) PROVE Seated(q)'
    BY <1>12, CommitRefreshDoes DEF Gets, Clears, Seats, Seated, Dead, Blank
  <1>13. ASSUME NEW r \in Runs, Exit(r) PROVE Seated(q)'
    BY <1>13, ExitDoes DEF Ends, Seats, Seated, Dead, Blank
  <1>14. ASSUME NEW r \in Runs, NEW t \in Tables, PullTableFails(r, t) PROVE Seated(q)'
    BY <1>14, PullTableFailsDoes DEF GetsRow, Seats, Seated, Dead, Blank
  <1>15. ASSUME NEW r \in Runs, LoadFails(r) PROVE Seated(q)'
    BY <1>15, LoadFailsDoes DEF Gets, Clears, Seats, Seated, Dead, Blank
  <1>16. ASSUME NEW r \in Runs, Age(r) PROVE Seated(q)'
    BY <1>16, AgeDoes DEF Seats, Seated, Dead, Blank
  <1>17. ASSUME NEW r \in Runs, Terminate(r) PROVE Seated(q)'
    BY <1>17, TerminateDoes DEF Ends, Seats, Seated, Dead, Blank
  <1>18. ASSUME NEW r \in Runs, Reap(r) PROVE Seated(q)'
    BY <1>18, ReapDoes DEF Gets, Ends, Seats, Seated, Dead, Blank
  <1>19. ASSUME NEW r \in Runs, CloseRow(r) PROVE Seated(q)'
    BY <1>19, CloseRowDoes DEF Gets, Seats, Seated, Dead, Blank
  <1>20. ASSUME FlagAges PROVE Seated(q)'
    BY <1>20, FlagAgesDoes DEF Seats, Seated, Dead, Blank
  <1>21. ASSUME Stop PROVE Seated(q)'
    BY <1>21, StopDoes DEF Ends, Seats, Seated, Dead, Blank
  <1>22. ASSUME FeedProducts PROVE Seated(q)'
    BY <1>22, FeedProductsDoes DEF Seats, Seated, Dead, Blank
  <1>23. ASSUME SyncGate PROVE Seated(q)'
    BY <1>23, SyncGateDoes DEF Seats, Seated, Dead, Blank
  <1>24. ASSUME Reconcile PROVE Seated(q)'
    BY <1>24, ReconcileDoes DEF Seats, Seated, Dead, Blank
  <1>25. CASE UNCHANGED vars
    BY <1>25 DEF vars, Seats, Seated, Dead, Blank
  <1> QED
    BY <1>1, <1>2, <1>3, <1>4, <1>5, <1>6, <1>7, <1>8, <1>9, <1>10, <1>11,
       <1>12, <1>13, <1>14, <1>15, <1>16, <1>17, <1>18, <1>19, <1>20, <1>21,
       <1>22, <1>23, <1>24, <1>25 DEF Next, Progress, Faults, Upkeep

-----------------------------------------------------------------------------
(* What a run reads, FDM4 has held since it began.                           *)

(* Rows are traced from FDM4 to the projection.                              *)
LEMMA GroundsKept ==
    ASSUME Shaped, Solo, Seats, Grounds, NEW q \in Runs, NEW u \in Tables,
       [Next]_vars
    PROVE  Grounded(q, u)'
  <1>1. ASSUME NEW t \in Tables, NEW c \in Held, EditFdm4(t, c) PROVE Grounded(q, u)'
    BY <1>1, EditFdm4Does DEF Gets, Solo, Seats, Seated, Grounds, Grounded,
       Alive, Dead, Blank
  <1>2. ASSUME NEW r \in Runs, Start(r) PROVE Grounded(q, u)'
    BY <1>2, StartDoes DEF Gets, Solo, Seats, Seated, Grounds, Grounded, Alive,
       Dead, Blank
  <1>3. ASSUME NEW r \in Runs, StartLoad(r) PROVE Grounded(q, u)'
    BY <1>3, StartLoadDoes DEF Gets, Solo, Seats, Seated, Grounds, Grounded,
       Alive, Dead, Blank
  <1>4. ASSUME NEW r \in Runs, FailRun(r) PROVE Grounded(q, u)'
    BY <1>4, FailRunDoes DEF Gets, Ends, Solo, Seats, Seated, Grounds,
       Grounded, Alive, Dead, Blank
  <1>5. ASSUME NEW r \in Runs, Finalize(r) PROVE Grounded(q, u)'
    BY <1>5, FinalizeDoes DEF Gets, Ends, Solo, Seats, Seated, Grounds,
       Grounded, Alive, Dead, Blank
  <1>6. ASSUME NEW r \in Runs, NEW t \in Tables, PullTable(r, t) PROVE Grounded(q, u)'
    BY <1>6, PullTableDoes DEF GetsRow, Solo, Seats, Seated, Grounds, Grounded,
       Alive, Dead, Blank
  <1>7. ASSUME NEW r \in Runs, NEW t \in Tables, RefreshRow(r, t) PROVE Grounded(q, u)'
    <2> DEFINE row == Refreshed(projection[t], batch[r][t], seq + 1)
    <2>1. child[r] = "refresh"
      BY <1>7, RefreshRowDoes
    <2>2. projection[t] \in Row /\ batch[r][t] \in Held /\ seq + 1 \in Nat
      BY <2>1, Numbers DEF Grounds, Grounded, Shaped, TypeOK
    <2>3. /\ row \in Row /\ Shown(row) = batch[r][t]
          /\ row = projection[t] \/ row.version = seq + 1
      BY <2>2, RefreshedRow
    <2> HIDE DEF row
    <2>4. /\ staged'[r][t] = row
          /\ \A p \in Runs, w \in Tables : p # r \/ w # t => staged'[p][w] = staged[p][w]
          /\ seq' = seq \/ seq' = seq + 1
          /\ row # projection[t] => seq' = seq + 1
          /\ UNCHANGED <<source, dump, raw, projection, control, advertised, script, child,
                         batch, result, latest, had, consumer, shop>>
      BY <1>7, RefreshRowDoes DEF GetsRow, row
    <2> QED
      BY <2>1, <2>3, <2>4 DEF Seats, Seated, Grounds, Grounded, Alive, Dead
  <1>8. ASSUME NEW r \in Runs, Promote(r) PROVE Grounded(q, u)'
    <2>1. CASE Complete(batch[r]) /\ dump' = batch[r] /\ Gets(child', child, Runs, r, "ok")
      <3>1. child[r] = "pull" /\ \A t \in Tables : batch[r][t] \in had[r][t]
        BY <1>8, <2>1, PromoteDoes, AtomsAssumption DEF Complete, Held, Grounds, Grounded
      <3> QED
        BY <1>8, <2>1, <3>1, PromoteDoes DEF Gets, Solo, Seats, Seated, Grounds, Grounded, Alive, Dead
    <2>2. CASE dump' = dump /\ Gets(child', child, Runs, r, "bad")
      BY <1>8, <2>2, PromoteDoes DEF Gets, Seats, Seated, Grounds, Grounded, Alive, Dead
    <2> QED BY <1>8, <2>1, <2>2, PromoteDoes
  <1>9. ASSUME NEW r \in Runs, RaiseFlag(r) PROVE Grounded(q, u)'
    BY <1>9, RaiseFlagDoes DEF Gets, Solo, Seats, Seated, Grounds, Grounded,
       Alive, Dead, Blank
  <1>10. ASSUME NEW r \in Runs, Swap(r) PROVE Grounded(q, u)'
    BY <1>10, SwapDoes DEF Gets, Solo, Seats, Seated, Grounds, Grounded, Alive,
       Dead, Blank
  <1>11. ASSUME NEW r \in Runs, BeginRefresh(r) PROVE Grounded(q, u)'
    BY <1>11, BeginRefreshDoes DEF Gets, Clears, Solo, Seats, Seated, Grounds,
       Grounded, Alive, Dead, Blank
  <1>12. ASSUME NEW r \in Runs, CommitRefresh(r) PROVE Grounded(q, u)'
    BY <1>12, CommitRefreshDoes DEF Gets, Clears, Solo, Seats, Seated, Grounds,
       Grounded, Alive, Dead, Blank
  <1>13. ASSUME NEW r \in Runs, Exit(r) PROVE Grounded(q, u)'
    BY <1>13, ExitDoes DEF Ends, Solo, Seats, Seated, Grounds, Grounded, Alive,
       Dead, Blank
  <1>14. ASSUME NEW r \in Runs, NEW t \in Tables, PullTableFails(r, t) PROVE Grounded(q, u)'
    BY <1>14, PullTableFailsDoes DEF GetsRow, Solo, Seats, Seated, Grounds,
       Grounded, Alive, Dead, Blank
  <1>15. ASSUME NEW r \in Runs, LoadFails(r) PROVE Grounded(q, u)'
    BY <1>15, LoadFailsDoes DEF Gets, Clears, Solo, Seats, Seated, Grounds,
       Grounded, Alive, Dead, Blank
  <1>16. ASSUME NEW r \in Runs, Age(r) PROVE Grounded(q, u)'
    BY <1>16, AgeDoes DEF Solo, Seats, Seated, Grounds, Grounded, Alive, Dead,
       Blank
  <1>17. ASSUME NEW r \in Runs, Terminate(r) PROVE Grounded(q, u)'
    BY <1>17, TerminateDoes DEF Ends, Solo, Seats, Seated, Grounds, Grounded,
       Alive, Dead, Blank
  <1>18. ASSUME NEW r \in Runs, Reap(r) PROVE Grounded(q, u)'
    BY <1>18, ReapDoes DEF Gets, Ends, Solo, Seats, Seated, Grounds, Grounded,
       Alive, Dead, Blank
  <1>19. ASSUME NEW r \in Runs, CloseRow(r) PROVE Grounded(q, u)'
    BY <1>19, CloseRowDoes DEF Gets, Solo, Seats, Seated, Grounds, Grounded,
       Alive, Dead, Blank
  <1>20. ASSUME FlagAges PROVE Grounded(q, u)'
    BY <1>20, FlagAgesDoes DEF Solo, Seats, Seated, Grounds, Grounded, Alive,
       Dead, Blank
  <1>21. ASSUME Stop PROVE Grounded(q, u)'
    BY <1>21, StopDoes DEF Ends, Solo, Seats, Seated, Grounds, Grounded, Alive,
       Dead, Blank
  <1>22. ASSUME FeedProducts PROVE Grounded(q, u)'
    BY <1>22, FeedProductsDoes DEF Solo, Seats, Seated, Grounds, Grounded,
       Alive, Dead, Blank
  <1>23. ASSUME SyncGate PROVE Grounded(q, u)'
    BY <1>23, SyncGateDoes DEF Solo, Seats, Seated, Grounds, Grounded, Alive,
       Dead, Blank
  <1>24. ASSUME Reconcile PROVE Grounded(q, u)'
    BY <1>24, ReconcileDoes DEF Solo, Seats, Seated, Grounds, Grounded, Alive,
       Dead, Blank
  <1>25. CASE UNCHANGED vars
    BY <1>25 DEF vars, Solo, Seats, Seated, Grounds, Grounded, Alive, Dead,
       Blank
  <1> QED
    BY <1>1, <1>2, <1>3, <1>4, <1>5, <1>6, <1>7, <1>8, <1>9, <1>10, <1>11,
       <1>12, <1>13, <1>14, <1>15, <1>16, <1>17, <1>18, <1>19, <1>20, <1>21,
       <1>22, <1>23, <1>24, <1>25 DEF Next, Progress, Faults, Upkeep

-----------------------------------------------------------------------------
(* Versions.                                                                 *)

(* No version passes the sequence.                                           *)
LEMMA CountedKept ==
    ASSUME Shaped, Grounds, NEW q \in Runs, NEW u \in Tables, [Next]_vars
    PROVE  CountedAt(q, u)'
  <1>1. ASSUME NEW t \in Tables, NEW c \in Held, EditFdm4(t, c) PROVE CountedAt(q, u)'
    BY <1>1, EditFdm4Does, Numbers DEF Gets, CountedAt
  <1>2. ASSUME NEW r \in Runs, Start(r) PROVE CountedAt(q, u)'
    BY <1>2, StartDoes, Numbers DEF Gets, CountedAt
  <1>3. ASSUME NEW r \in Runs, StartLoad(r) PROVE CountedAt(q, u)'
    BY <1>3, StartLoadDoes, Numbers DEF Gets, CountedAt
  <1>4. ASSUME NEW r \in Runs, FailRun(r) PROVE CountedAt(q, u)'
    BY <1>4, FailRunDoes, Numbers DEF Gets, Ends, CountedAt
  <1>5. ASSUME NEW r \in Runs, Finalize(r) PROVE CountedAt(q, u)'
    BY <1>5, FinalizeDoes, Numbers DEF Gets, Ends, CountedAt
  <1>6. ASSUME NEW r \in Runs, NEW t \in Tables, PullTable(r, t) PROVE CountedAt(q, u)'
    BY <1>6, PullTableDoes, Numbers DEF GetsRow, CountedAt
  <1>7. ASSUME NEW r \in Runs, NEW t \in Tables, RefreshRow(r, t) PROVE CountedAt(q, u)'
    <2> DEFINE row == Refreshed(projection[t], batch[r][t], seq + 1)
    <2>1. child[r] = "refresh"
      BY <1>7, RefreshRowDoes
    <2>2. projection[t] \in Row /\ batch[r][t] \in Held /\ seq + 1 \in Nat
      BY <2>1, Numbers DEF Grounds, Grounded, Shaped, TypeOK
    <2>3. /\ row \in Row /\ Shown(row) = batch[r][t]
          /\ row = projection[t] \/ row.version = seq + 1
      BY <2>2, RefreshedRow
    <2> HIDE DEF row
    <2>4. /\ staged'[r][t] = row
          /\ \A p \in Runs, w \in Tables : p # r \/ w # t => staged'[p][w] = staged[p][w]
          /\ seq' = seq \/ seq' = seq + 1
          /\ row # projection[t] => seq' = seq + 1
          /\ UNCHANGED <<source, dump, raw, projection, control, advertised, script, child,
                         batch, result, latest, had, consumer, shop>>
      BY <1>7, RefreshRowDoes DEF GetsRow, row
    <2> QED
      BY <2>3, <2>4, Numbers DEF CountedAt
  <1>8. ASSUME NEW r \in Runs, Promote(r) PROVE CountedAt(q, u)'
    BY <1>8, PromoteDoes, Numbers DEF Gets, CountedAt
  <1>9. ASSUME NEW r \in Runs, RaiseFlag(r) PROVE CountedAt(q, u)'
    BY <1>9, RaiseFlagDoes, Numbers DEF Gets, CountedAt
  <1>10. ASSUME NEW r \in Runs, Swap(r) PROVE CountedAt(q, u)'
    BY <1>10, SwapDoes, Numbers DEF Gets, CountedAt
  <1>11. ASSUME NEW r \in Runs, BeginRefresh(r) PROVE CountedAt(q, u)'
    BY <1>11, BeginRefreshDoes, Numbers DEF Gets, Clears, CountedAt
  <1>12. ASSUME NEW r \in Runs, CommitRefresh(r) PROVE CountedAt(q, u)'
    BY <1>12, CommitRefreshDoes, Numbers DEF Gets, Clears, CountedAt
  <1>13. ASSUME NEW r \in Runs, Exit(r) PROVE CountedAt(q, u)'
    BY <1>13, ExitDoes, Numbers DEF Ends, CountedAt
  <1>14. ASSUME NEW r \in Runs, NEW t \in Tables, PullTableFails(r, t) PROVE CountedAt(q, u)'
    BY <1>14, PullTableFailsDoes, Numbers DEF GetsRow, CountedAt
  <1>15. ASSUME NEW r \in Runs, LoadFails(r) PROVE CountedAt(q, u)'
    BY <1>15, LoadFailsDoes, Numbers DEF Gets, Clears, CountedAt
  <1>16. ASSUME NEW r \in Runs, Age(r) PROVE CountedAt(q, u)'
    BY <1>16, AgeDoes, Numbers DEF CountedAt
  <1>17. ASSUME NEW r \in Runs, Terminate(r) PROVE CountedAt(q, u)'
    BY <1>17, TerminateDoes, Numbers DEF Ends, CountedAt
  <1>18. ASSUME NEW r \in Runs, Reap(r) PROVE CountedAt(q, u)'
    BY <1>18, ReapDoes, Numbers DEF Gets, Ends, CountedAt
  <1>19. ASSUME NEW r \in Runs, CloseRow(r) PROVE CountedAt(q, u)'
    BY <1>19, CloseRowDoes, Numbers DEF Gets, CountedAt
  <1>20. ASSUME FlagAges PROVE CountedAt(q, u)'
    BY <1>20, FlagAgesDoes, Numbers DEF CountedAt
  <1>21. ASSUME Stop PROVE CountedAt(q, u)'
    BY <1>21, StopDoes, Numbers DEF Ends, CountedAt
  <1>22. ASSUME FeedProducts PROVE CountedAt(q, u)'
    BY <1>22, FeedProductsDoes, Numbers DEF CountedAt
  <1>23. ASSUME SyncGate PROVE CountedAt(q, u)'
    BY <1>23, SyncGateDoes, Numbers DEF CountedAt
  <1>24. ASSUME Reconcile PROVE CountedAt(q, u)'
    BY <1>24, ReconcileDoes, Numbers DEF CountedAt
  <1>25. CASE UNCHANGED vars
    BY <1>25, Numbers DEF vars, CountedAt
  <1> QED
    BY <1>1, <1>2, <1>3, <1>4, <1>5, <1>6, <1>7, <1>8, <1>9, <1>10, <1>11,
       <1>12, <1>13, <1>14, <1>15, <1>16, <1>17, <1>18, <1>19, <1>20, <1>21,
       <1>22, <1>23, <1>24, <1>25 DEF Next, Progress, Faults, Upkeep

(* What a transform changes gets a version nobody has seen.                  *)
LEMMA AheadKept ==
    ASSUME Shaped, Solo, Seats, Grounds, Ahead, NEW q \in Runs, NEW u \in
       Tables, [Next]_vars
    PROVE  AheadAt(q, u)'
  <1>1. ASSUME NEW t \in Tables, NEW c \in Held, EditFdm4(t, c) PROVE AheadAt(q, u)'
    BY <1>1, EditFdm4Does, Numbers DEF Gets, Solo, Seats, Seated, Ahead,
       AheadAt, Spent, Alive, Dead
  <1>2. ASSUME NEW r \in Runs, Start(r) PROVE AheadAt(q, u)'
    BY <1>2, StartDoes, Numbers DEF Gets, Solo, Seats, Seated, Ahead, AheadAt,
       Spent, Alive, Dead
  <1>3. ASSUME NEW r \in Runs, StartLoad(r) PROVE AheadAt(q, u)'
    BY <1>3, StartLoadDoes, Numbers DEF Gets, Solo, Seats, Seated, Ahead,
       AheadAt, Spent, Alive, Dead
  <1>4. ASSUME NEW r \in Runs, FailRun(r) PROVE AheadAt(q, u)'
    BY <1>4, FailRunDoes, Numbers DEF Gets, Ends, Solo, Seats, Seated, Ahead,
       AheadAt, Spent, Alive, Dead
  <1>5. ASSUME NEW r \in Runs, Finalize(r) PROVE AheadAt(q, u)'
    BY <1>5, FinalizeDoes, Numbers DEF Gets, Ends, Solo, Seats, Seated, Ahead,
       AheadAt, Spent, Alive, Dead
  <1>6. ASSUME NEW r \in Runs, NEW t \in Tables, PullTable(r, t) PROVE AheadAt(q, u)'
    BY <1>6, PullTableDoes, Numbers DEF GetsRow, Solo, Seats, Seated, Ahead,
       AheadAt, Spent, Alive, Dead
  <1>7. ASSUME NEW r \in Runs, NEW t \in Tables, RefreshRow(r, t) PROVE AheadAt(q, u)'
    <2> DEFINE row == Refreshed(projection[t], batch[r][t], seq + 1)
    <2>1. child[r] = "refresh"
      BY <1>7, RefreshRowDoes
    <2>2. projection[t] \in Row /\ batch[r][t] \in Held /\ seq + 1 \in Nat
      BY <2>1, Numbers DEF Grounds, Grounded, Shaped, TypeOK
    <2>3. /\ row \in Row /\ Shown(row) = batch[r][t]
          /\ row = projection[t] \/ row.version = seq + 1
      BY <2>2, RefreshedRow
    <2> HIDE DEF row
    <2>4. /\ staged'[r][t] = row
          /\ \A p \in Runs, w \in Tables : p # r \/ w # t => staged'[p][w] = staged[p][w]
          /\ seq' = seq \/ seq' = seq + 1
          /\ row # projection[t] => seq' = seq + 1
          /\ UNCHANGED <<source, dump, raw, projection, control, advertised, script, child,
                         batch, result, latest, had, consumer, shop>>
      BY <1>7, RefreshRowDoes DEF GetsRow, row
    <2> QED
      BY <2>3, <2>4, Numbers DEF Ahead, AheadAt, Spent
  <1>8. ASSUME NEW r \in Runs, Promote(r) PROVE AheadAt(q, u)'
    BY <1>8, PromoteDoes, Numbers DEF Gets, Solo, Seats, Seated, Ahead,
       AheadAt, Spent, Alive, Dead
  <1>9. ASSUME NEW r \in Runs, RaiseFlag(r) PROVE AheadAt(q, u)'
    BY <1>9, RaiseFlagDoes, Numbers DEF Gets, Solo, Seats, Seated, Ahead,
       AheadAt, Spent, Alive, Dead
  <1>10. ASSUME NEW r \in Runs, Swap(r) PROVE AheadAt(q, u)'
    BY <1>10, SwapDoes, Numbers DEF Gets, Solo, Seats, Seated, Ahead, AheadAt,
       Spent, Alive, Dead
  <1>11. ASSUME NEW r \in Runs, BeginRefresh(r) PROVE AheadAt(q, u)'
    BY <1>11, BeginRefreshDoes, Numbers DEF Gets, Clears, Solo, Seats, Seated,
       Ahead, AheadAt, Spent, Alive, Dead
  <1>12. ASSUME NEW r \in Runs, CommitRefresh(r) PROVE AheadAt(q, u)'
    BY <1>12, CommitRefreshDoes, Numbers DEF Gets, Clears, Solo, Seats, Seated,
       Ahead, AheadAt, Spent, Alive, Dead
  <1>13. ASSUME NEW r \in Runs, Exit(r) PROVE AheadAt(q, u)'
    BY <1>13, ExitDoes, Numbers DEF Ends, Solo, Seats, Seated, Ahead, AheadAt,
       Spent, Alive, Dead
  <1>14. ASSUME NEW r \in Runs, NEW t \in Tables, PullTableFails(r, t) PROVE AheadAt(q, u)'
    BY <1>14, PullTableFailsDoes, Numbers DEF GetsRow, Solo, Seats, Seated,
       Ahead, AheadAt, Spent, Alive, Dead
  <1>15. ASSUME NEW r \in Runs, LoadFails(r) PROVE AheadAt(q, u)'
    BY <1>15, LoadFailsDoes, Numbers DEF Gets, Clears, Solo, Seats, Seated,
       Ahead, AheadAt, Spent, Alive, Dead
  <1>16. ASSUME NEW r \in Runs, Age(r) PROVE AheadAt(q, u)'
    BY <1>16, AgeDoes, Numbers DEF Solo, Seats, Seated, Ahead, AheadAt, Spent,
       Alive, Dead
  <1>17. ASSUME NEW r \in Runs, Terminate(r) PROVE AheadAt(q, u)'
    BY <1>17, TerminateDoes, Numbers DEF Ends, Solo, Seats, Seated, Ahead,
       AheadAt, Spent, Alive, Dead
  <1>18. ASSUME NEW r \in Runs, Reap(r) PROVE AheadAt(q, u)'
    BY <1>18, ReapDoes, Numbers DEF Gets, Ends, Solo, Seats, Seated, Ahead,
       AheadAt, Spent, Alive, Dead
  <1>19. ASSUME NEW r \in Runs, CloseRow(r) PROVE AheadAt(q, u)'
    BY <1>19, CloseRowDoes, Numbers DEF Gets, Solo, Seats, Seated, Ahead,
       AheadAt, Spent, Alive, Dead
  <1>20. ASSUME FlagAges PROVE AheadAt(q, u)'
    BY <1>20, FlagAgesDoes, Numbers DEF Solo, Seats, Seated, Ahead, AheadAt,
       Spent, Alive, Dead
  <1>21. ASSUME Stop PROVE AheadAt(q, u)'
    BY <1>21, StopDoes, Numbers DEF Ends, Solo, Seats, Seated, Ahead, AheadAt,
       Spent, Alive, Dead
  <1>22. ASSUME FeedProducts PROVE AheadAt(q, u)'
    BY <1>22, FeedProductsDoes, Numbers DEF Solo, Seats, Seated, Ahead,
       AheadAt, Spent, Alive, Dead
  <1>23. ASSUME SyncGate PROVE AheadAt(q, u)'
    BY <1>23, SyncGateDoes, Numbers DEF Solo, Seats, Seated, Ahead, AheadAt,
       Spent, Alive, Dead
  <1>24. ASSUME Reconcile PROVE AheadAt(q, u)'
    BY <1>24, ReconcileDoes, Numbers DEF Solo, Seats, Seated, Ahead, AheadAt,
       Spent, Alive, Dead
  <1>25. CASE UNCHANGED vars
    BY <1>25, Numbers DEF vars, Solo, Seats, Seated, Ahead, AheadAt, Spent,
       Alive, Dead
  <1> QED
    BY <1>1, <1>2, <1>3, <1>4, <1>5, <1>6, <1>7, <1>8, <1>9, <1>10, <1>11,
       <1>12, <1>13, <1>14, <1>15, <1>16, <1>17, <1>18, <1>19, <1>20, <1>21,
       <1>22, <1>23, <1>24, <1>25 DEF Next, Progress, Faults, Upkeep

(* Neither reader steps over a row.                                          *)
LEMMA ServedKept ==
    ASSUME Shaped, Seats, Ahead, Served, NEW u \in Tables, [Next]_vars
    PROVE  ServedAt(u)'
  <1>1. ASSUME NEW t \in Tables, NEW c \in Held, EditFdm4(t, c) PROVE ServedAt(u)'
    BY <1>1, EditFdm4Does, Numbers DEF Gets, Served, ServedAt
  <1>2. ASSUME NEW r \in Runs, Start(r) PROVE ServedAt(u)'
    BY <1>2, StartDoes, Numbers DEF Gets, Served, ServedAt
  <1>3. ASSUME NEW r \in Runs, StartLoad(r) PROVE ServedAt(u)'
    BY <1>3, StartLoadDoes, Numbers DEF Gets, Served, ServedAt
  <1>4. ASSUME NEW r \in Runs, FailRun(r) PROVE ServedAt(u)'
    BY <1>4, FailRunDoes, Numbers DEF Gets, Ends, Served, ServedAt
  <1>5. ASSUME NEW r \in Runs, Finalize(r) PROVE ServedAt(u)'
    BY <1>5, FinalizeDoes, Numbers DEF Gets, Ends, Served, ServedAt
  <1>6. ASSUME NEW r \in Runs, NEW t \in Tables, PullTable(r, t) PROVE ServedAt(u)'
    BY <1>6, PullTableDoes, Numbers DEF GetsRow, Served, ServedAt
  <1>7. ASSUME NEW r \in Runs, NEW t \in Tables, RefreshRow(r, t) PROVE ServedAt(u)'
    BY <1>7, RefreshRowDoes, Numbers DEF GetsRow, Served, ServedAt
  <1>8. ASSUME NEW r \in Runs, Promote(r) PROVE ServedAt(u)'
    BY <1>8, PromoteDoes, Numbers DEF Gets, Served, ServedAt
  <1>9. ASSUME NEW r \in Runs, RaiseFlag(r) PROVE ServedAt(u)'
    BY <1>9, RaiseFlagDoes, Numbers DEF Gets, Served, ServedAt
  <1>10. ASSUME NEW r \in Runs, Swap(r) PROVE ServedAt(u)'
    BY <1>10, SwapDoes, Numbers DEF Gets, Served, ServedAt
  <1>11. ASSUME NEW r \in Runs, BeginRefresh(r) PROVE ServedAt(u)'
    BY <1>11, BeginRefreshDoes, Numbers DEF Gets, Clears, Served, ServedAt
  <1>12. ASSUME NEW r \in Runs, CommitRefresh(r) PROVE ServedAt(u)'
    <2>1. projection'[u] = staged[r][u] /\ staged[r][u] # Unread
          /\ consumer' = consumer /\ shop' = shop
      BY <1>12, CommitRefreshDoes
    <2>2. staged[r][u] = projection[u] \/ Spent(staged[r][u].version)
      BY <2>1 DEF Ahead, AheadAt
    <2> QED
      BY <2>1, <2>2, Numbers DEF Spent, Served, ServedAt
  <1>13. ASSUME NEW r \in Runs, Exit(r) PROVE ServedAt(u)'
    BY <1>13, ExitDoes, Numbers DEF Ends, Served, ServedAt
  <1>14. ASSUME NEW r \in Runs, NEW t \in Tables, PullTableFails(r, t) PROVE ServedAt(u)'
    BY <1>14, PullTableFailsDoes, Numbers DEF GetsRow, Served, ServedAt
  <1>15. ASSUME NEW r \in Runs, LoadFails(r) PROVE ServedAt(u)'
    BY <1>15, LoadFailsDoes, Numbers DEF Gets, Clears, Served, ServedAt
  <1>16. ASSUME NEW r \in Runs, Age(r) PROVE ServedAt(u)'
    BY <1>16, AgeDoes, Numbers DEF Served, ServedAt
  <1>17. ASSUME NEW r \in Runs, Terminate(r) PROVE ServedAt(u)'
    BY <1>17, TerminateDoes, Numbers DEF Ends, Served, ServedAt
  <1>18. ASSUME NEW r \in Runs, Reap(r) PROVE ServedAt(u)'
    BY <1>18, ReapDoes, Numbers DEF Gets, Ends, Served, ServedAt
  <1>19. ASSUME NEW r \in Runs, CloseRow(r) PROVE ServedAt(u)'
    BY <1>19, CloseRowDoes, Numbers DEF Gets, Served, ServedAt
  <1>20. ASSUME FlagAges PROVE ServedAt(u)'
    BY <1>20, FlagAgesDoes, Numbers DEF Served, ServedAt
  <1>21. ASSUME Stop PROVE ServedAt(u)'
    BY <1>21, StopDoes, Numbers DEF Ends, Served, ServedAt
  <1>22. ASSUME FeedProducts PROVE ServedAt(u)'
    BY <1>22, FeedProductsDoes, Numbers DEF Served, ServedAt
  <1>23. ASSUME SyncGate PROVE ServedAt(u)'
    BY <1>23, SyncGateDoes, Numbers DEF Served, ServedAt
  <1>24. ASSUME Reconcile PROVE ServedAt(u)'
    BY <1>24, ReconcileDoes, Numbers DEF Served, ServedAt
  <1>25. CASE UNCHANGED vars
    BY <1>25, Numbers DEF vars, Served, ServedAt
  <1> QED
    BY <1>1, <1>2, <1>3, <1>4, <1>5, <1>6, <1>7, <1>8, <1>9, <1>10, <1>11,
       <1>12, <1>13, <1>14, <1>15, <1>16, <1>17, <1>18, <1>19, <1>20, <1>21,
       <1>22, <1>23, <1>24, <1>25 DEF Next, Progress, Faults, Upkeep

(* A success has advertised the projection.                                  *)
LEMMA ToldKept ==
    ASSUME Shaped, Solo, Seats, Told, NEW q \in Runs, NEW u \in Tables,
       [Next]_vars
    PROVE  ToldAt(q, u)'
  <1>1. ASSUME NEW t \in Tables, NEW c \in Held, EditFdm4(t, c) PROVE ToldAt(q, u)'
    BY <1>1, EditFdm4Does, Numbers, LatestIn DEF Gets, Solo, Seats, Seated,
       Told, ToldAt, Alive, Dead
  <1>2. ASSUME NEW r \in Runs, Start(r) PROVE ToldAt(q, u)'
    BY <1>2, StartDoes, Numbers, LatestIn DEF Gets, Solo, Seats, Seated, Told,
       ToldAt, Alive, Dead
  <1>3. ASSUME NEW r \in Runs, StartLoad(r) PROVE ToldAt(q, u)'
    BY <1>3, StartLoadDoes, Numbers, LatestIn DEF Gets, Solo, Seats, Seated,
       Told, ToldAt, Alive, Dead
  <1>4. ASSUME NEW r \in Runs, FailRun(r) PROVE ToldAt(q, u)'
    BY <1>4, FailRunDoes, Numbers, LatestIn DEF Gets, Ends, Solo, Seats,
       Seated, Told, ToldAt, Alive, Dead
  <1>5. ASSUME NEW r \in Runs, Finalize(r) PROVE ToldAt(q, u)'
    BY <1>5, FinalizeDoes, Numbers, LatestIn DEF Gets, Ends, Solo, Seats,
       Seated, Told, ToldAt, Alive, Dead
  <1>6. ASSUME NEW r \in Runs, NEW t \in Tables, PullTable(r, t) PROVE ToldAt(q, u)'
    BY <1>6, PullTableDoes, Numbers, LatestIn DEF GetsRow, Solo, Seats, Seated,
       Told, ToldAt, Alive, Dead
  <1>7. ASSUME NEW r \in Runs, NEW t \in Tables, RefreshRow(r, t) PROVE ToldAt(q, u)'
    BY <1>7, RefreshRowDoes, Numbers, LatestIn DEF GetsRow, Solo, Seats,
       Seated, Told, ToldAt, Alive, Dead
  <1>8. ASSUME NEW r \in Runs, Promote(r) PROVE ToldAt(q, u)'
    BY <1>8, PromoteDoes, Numbers, LatestIn DEF Gets, Solo, Seats, Seated,
       Told, ToldAt, Alive, Dead
  <1>9. ASSUME NEW r \in Runs, RaiseFlag(r) PROVE ToldAt(q, u)'
    BY <1>9, RaiseFlagDoes, Numbers, LatestIn DEF Gets, Solo, Seats, Seated,
       Told, ToldAt, Alive, Dead
  <1>10. ASSUME NEW r \in Runs, Swap(r) PROVE ToldAt(q, u)'
    BY <1>10, SwapDoes, Numbers, LatestIn DEF Gets, Solo, Seats, Seated, Told,
       ToldAt, Alive, Dead
  <1>11. ASSUME NEW r \in Runs, BeginRefresh(r) PROVE ToldAt(q, u)'
    BY <1>11, BeginRefreshDoes, Numbers, LatestIn DEF Gets, Clears, Solo,
       Seats, Seated, Told, ToldAt, Alive, Dead
  <1>12. ASSUME NEW r \in Runs, CommitRefresh(r) PROVE ToldAt(q, u)'
    BY <1>12, CommitRefreshDoes, Numbers, LatestIn DEF Gets, Clears, Solo,
       Seats, Seated, Told, ToldAt, Alive, Dead
  <1>13. ASSUME NEW r \in Runs, Exit(r) PROVE ToldAt(q, u)'
    BY <1>13, ExitDoes, Numbers, LatestIn DEF Ends, Solo, Seats, Seated, Told,
       ToldAt, Alive, Dead
  <1>14. ASSUME NEW r \in Runs, NEW t \in Tables, PullTableFails(r, t) PROVE ToldAt(q, u)'
    BY <1>14, PullTableFailsDoes, Numbers, LatestIn DEF GetsRow, Solo, Seats,
       Seated, Told, ToldAt, Alive, Dead
  <1>15. ASSUME NEW r \in Runs, LoadFails(r) PROVE ToldAt(q, u)'
    BY <1>15, LoadFailsDoes, Numbers, LatestIn DEF Gets, Clears, Solo, Seats,
       Seated, Told, ToldAt, Alive, Dead
  <1>16. ASSUME NEW r \in Runs, Age(r) PROVE ToldAt(q, u)'
    BY <1>16, AgeDoes, Numbers, LatestIn DEF Solo, Seats, Seated, Told, ToldAt,
       Alive, Dead
  <1>17. ASSUME NEW r \in Runs, Terminate(r) PROVE ToldAt(q, u)'
    BY <1>17, TerminateDoes, Numbers, LatestIn DEF Ends, Solo, Seats, Seated,
       Told, ToldAt, Alive, Dead
  <1>18. ASSUME NEW r \in Runs, Reap(r) PROVE ToldAt(q, u)'
    BY <1>18, ReapDoes, Numbers, LatestIn DEF Gets, Ends, Solo, Seats, Seated,
       Told, ToldAt, Alive, Dead
  <1>19. ASSUME NEW r \in Runs, CloseRow(r) PROVE ToldAt(q, u)'
    BY <1>19, CloseRowDoes, Numbers, LatestIn DEF Gets, Solo, Seats, Seated,
       Told, ToldAt, Alive, Dead
  <1>20. ASSUME FlagAges PROVE ToldAt(q, u)'
    BY <1>20, FlagAgesDoes, Numbers, LatestIn DEF Solo, Seats, Seated, Told,
       ToldAt, Alive, Dead
  <1>21. ASSUME Stop PROVE ToldAt(q, u)'
    BY <1>21, StopDoes, Numbers, LatestIn DEF Ends, Solo, Seats, Seated, Told,
       ToldAt, Alive, Dead
  <1>22. ASSUME FeedProducts PROVE ToldAt(q, u)'
    BY <1>22, FeedProductsDoes, Numbers, LatestIn DEF Solo, Seats, Seated,
       Told, ToldAt, Alive, Dead
  <1>23. ASSUME SyncGate PROVE ToldAt(q, u)'
    BY <1>23, SyncGateDoes, Numbers, LatestIn DEF Solo, Seats, Seated, Told,
       ToldAt, Alive, Dead
  <1>24. ASSUME Reconcile PROVE ToldAt(q, u)'
    BY <1>24, ReconcileDoes, Numbers, LatestIn DEF Solo, Seats, Seated, Told,
       ToldAt, Alive, Dead
  <1>25. CASE UNCHANGED vars
    BY <1>25, Numbers, LatestIn DEF vars, Solo, Seats, Seated, Told, ToldAt,
       Alive, Dead
  <1> QED
    BY <1>1, <1>2, <1>3, <1>4, <1>5, <1>6, <1>7, <1>8, <1>9, <1>10, <1>11,
       <1>12, <1>13, <1>14, <1>15, <1>16, <1>17, <1>18, <1>19, <1>20, <1>21,
       <1>22, <1>23, <1>24, <1>25 DEF Next, Progress, Faults, Upkeep

-----------------------------------------------------------------------------
(* The theorems.                                                             *)

Inv == Shaped /\ Solo /\ Seats /\ Grounds /\ Ahead /\ Served /\ Told

(* The warehouse starts filled, with nothing running.                        *)
LEMMA InvInit ==
    ASSUME Init PROVE Inv
  <1>1. /\ Absent \in Held /\ \A t \in Tables : source[t] \in Held
        /\ \A t \in Tables : projection[t] \in Row /\ projection[t].version \in {0, 1}
                             /\ Shown(projection[t]) = source[t]
    BY DEF Init, Held, Row, NoRow, Shown
  <1>2. projection \in [Tables -> Row]
    BY <1>1 DEF Init
  <1>3. TypeOK
    <2>1. /\ batch \in [Runs -> [Tables -> Held \cup {Unread, Failed}]]
          /\ staged \in [Runs -> [Tables -> Row \cup {Unread}]]
          /\ had \in [Runs -> [Tables -> SUBSET Held]]
      BY DEF Init, Blank
    <2>2. /\ source \in [Tables -> Held] /\ dump \in [Tables -> Held] /\ raw \in [Tables -> Held]
          /\ consumer \in [cursor : Nat, served : [Tables -> Held]]
          /\ shop \in [full : Nat, gate : Nat, holds : [Tables -> Held]]
      BY DEF Init
    <2>4. seq = 1
      BY DEF Init
    <2>3. \A t \in Tables : projection[t].version <= seq
      BY <1>1, <2>4
    <2> QED
      BY <1>2, <2>1, <2>2, <2>3, <2>4, BoundsAssumption DEF Init, TypeOK
  <1>4. Counted
    BY <1>1 DEF Init, Counted, CountedAt, Blank
  <1>5. Solo /\ Seats /\ Grounds /\ Ahead
    BY DEF Init, Solo, Seats, Seated, Grounds, Grounded, Ahead, AheadAt, Alive, Dead, Blank
  <1>6. Served /\ Told
    BY <1>1 DEF Init, Served, ServedAt, Told, ToldAt
  <1> QED BY <1>3, <1>4, <1>5, <1>6 DEF Inv, Shaped

(* Every step keeps every part.                                              *)
LEMMA InvNext ==
    ASSUME Inv, [Next]_vars PROVE Inv'
  <1> USE DEF Inv
  <1>1. TypeOK' /\ Solo'
    BY TypesKept, SoloKept
  <1>2. Counted'
    <2>1. \A q \in Runs, u \in Tables : CountedAt(q, u)'
      BY CountedKept
    <2> QED BY <2>1 DEF Counted
  <1>3. Seats' /\ Grounds'
    <2>1. \A q \in Runs, u \in Tables : Grounded(q, u)'
      BY GroundsKept
    <2>2. \A q \in Runs : Seated(q)'
      BY SeatsKept
    <2> QED BY <2>1, <2>2 DEF Seats, Grounds
  <1>4. Ahead'
    <2>1. \A q \in Runs, u \in Tables : AheadAt(q, u)'
      BY AheadKept
    <2> QED BY <2>1 DEF Ahead
  <1>5. Served'
    <2>1. \A u \in Tables : ServedAt(u)'
      BY ServedKept
    <2> QED BY <2>1 DEF Served
  <1>6. Told'
    <2>1. \A q \in Runs, u \in Tables : ToldAt(q, u)'
      BY ToldKept
    <2> QED BY <2>1 DEF Told
  <1> QED BY <1>1, <1>2, <1>3, <1>4, <1>5, <1>6 DEF Shaped

(* The invariant always holds.                                               *)
LEMMA InvAlways == Spec => []Inv
  <1> QED BY InvInit, InvNext, PTL DEF Spec

(* No reader of the warehouse steps over a change: what a consumer of the    *)
(* feed has passed is what it was served, and a shop that the gate finds up  *)
(* to date after a successful pull carries the projection, whatever runs     *)
(* failed, hung or were killed before, for any tables, runs and page size.   *)
THEOREM NoReaderMisses == Spec => []ReadersMissNothing
  <1>1. Inv => ReadersMissNothing
    <2> SUFFICES ASSUME Inv PROVE ReadersMissNothing
      OBVIOUS
    <2>1. FeedMissesNothing
      BY DEF Inv, Served, ServedAt, FeedMissesNothing
    <2>2. ASSUME latest # Absent, control[latest] = "success", advertised <= shop.full
          PROVE  shop.holds = Carries(projection)
      <3>1. latest \in Runs
        BY <2>2, LatestIn DEF Inv
      <3>2. \A t \in Tables : projection[t].version <= advertised
        BY <2>2, <3>1 DEF Inv, Told, ToldAt
      <3>3. \A t \in Tables : projection[t].version <= shop.full
        BY <2>2, <3>2, Numbers DEF Inv
      <3>4. \A t \in Tables : shop.holds[t] = Shown(projection[t])
        BY <3>3 DEF Inv, Served, ServedAt
      <3>5. shop.holds \in [Tables -> Held]
        BY DEF Inv, Shaped, TypeOK
      <3> QED BY <3>4, <3>5 DEF Carries
    <2> QED BY <2>1, <2>2 DEF ReadersMissNothing, GateMissesNothing, Inv, Shaped
  <1> QED BY <1>1, InvAlways, PTL

(* A row of sync_control that left 'running' keeps its outcome until its     *)
(* slot is used again, because the row of a run that still lives is never a  *)
(* success and the last UPDATE of run_sync.sh asks that it be still running. *)
THEOREM OutcomesStand == Spec => OutcomeStands
  <1>1. ASSUME Inv, [Next]_vars
        PROVE  \A q \in Runs : control[q] \in {"success", "failed"} => control'[q] \in {control[q], "running"}
    <2>1. CASE \E r \in Runs : Start(r)
      BY <1>1, <2>1, StartDoes DEF Inv, Gets, Ends, Solo, Alive, Dead
    <2>2. CASE \E r \in Runs : FailRun(r)
      BY <1>1, <2>2, FailRunDoes DEF Inv, Gets, Ends, Solo, Alive, Dead
    <2>3. CASE \E r \in Runs : Finalize(r)
      BY <1>1, <2>3, FinalizeDoes DEF Inv, Gets, Ends, Solo, Alive, Dead
    <2>4. CASE \E r \in Runs : Terminate(r)
      BY <1>1, <2>4, TerminateDoes DEF Inv, Gets, Ends, Solo, Alive, Dead
    <2>5. CASE \E r \in Runs : CloseRow(r)
      BY <1>1, <2>5, CloseRowDoes DEF Inv, Gets, Ends, Solo, Alive, Dead
    <2>6. CASE control' = control
      BY <1>1, <2>6
    <2>7. \/ control' = control
          \/ \E r \in Runs : Start(r)
          \/ \E r \in Runs : FailRun(r)
          \/ \E r \in Runs : Finalize(r)
          \/ \E r \in Runs : Terminate(r)
          \/ \E r \in Runs : CloseRow(r)
      BY ZenonT(60), <1>1 DEF Next, Progress, Faults, Upkeep, vars, books, EditFdm4,
         StartLoad, PullTable, RefreshRow, Promote, RaiseFlag, Swap,
         BeginRefresh, CommitRefresh, Exit, PullTableFails, LoadFails, Age,
         Reap, FlagAges, Stop, FeedProducts, SyncGate, Reconcile
    <2> QED
      BY <2>1, <2>2, <2>3, <2>4, <2>5, <2>6, <2>7
  <1>2. Inv /\ [Next]_vars =>
           [\A r \in Runs :
              control[r] \in {"success", "failed"} => control'[r] \in {control[r], "running"}]_vars
    BY <1>1
  <1> QED BY <1>2, InvAlways, PTL DEF Spec, OutcomeStands

(* What a pull certifies was read after it began, row by row, for any number *)
(* of tables: neither an older dump nor older raw tables reach a projection  *)
(* that its success advertises.                                              *)
THEOREM CertifiedRowsAreFresh == Spec => CertifiedIsFresh
  <1>1. ASSUME Inv, [Next]_vars, NEW q \in Runs, control[q] = "running", control'[q] = "success", NEW u \in Tables
        PROVE  Shown(projection[u]) \in had[q][u]
    <2>1. CASE \E r \in Runs : Start(r)
      BY <1>1, <2>1, StartDoes DEF Inv, Gets, Ends, Solo, Alive, Dead, Grounds,
         Grounded
    <2>2. CASE \E r \in Runs : FailRun(r)
      BY <1>1, <2>2, FailRunDoes DEF Inv, Gets, Ends, Solo, Alive, Dead,
         Grounds, Grounded
    <2>3. CASE \E r \in Runs : Finalize(r)
      BY <1>1, <2>3, FinalizeDoes DEF Inv, Gets, Ends, Solo, Alive, Dead,
         Grounds, Grounded
    <2>4. CASE \E r \in Runs : Terminate(r)
      BY <1>1, <2>4, TerminateDoes DEF Inv, Gets, Ends, Solo, Alive, Dead,
         Grounds, Grounded
    <2>5. CASE \E r \in Runs : CloseRow(r)
      BY <1>1, <2>5, CloseRowDoes DEF Inv, Gets, Ends, Solo, Alive, Dead,
         Grounds, Grounded
    <2>6. CASE control' = control
      BY <1>1, <2>6
    <2>7. \/ control' = control
          \/ \E r \in Runs : Start(r)
          \/ \E r \in Runs : FailRun(r)
          \/ \E r \in Runs : Finalize(r)
          \/ \E r \in Runs : Terminate(r)
          \/ \E r \in Runs : CloseRow(r)
      BY ZenonT(60), <1>1 DEF Next, Progress, Faults, Upkeep, vars, books, EditFdm4,
         StartLoad, PullTable, RefreshRow, Promote, RaiseFlag, Swap,
         BeginRefresh, CommitRefresh, Exit, PullTableFails, LoadFails, Age,
         Reap, FlagAges, Stop, FeedProducts, SyncGate, Reconcile
    <2> QED
      BY <2>1, <2>2, <2>3, <2>4, <2>5, <2>6, <2>7
  <1>2. Inv /\ [Next]_vars =>
           [\A r \in Runs :
              control[r] = "running" /\ control'[r] = "success" =>
                 \A t \in Tables : Shown(projection[t]) \in had[r][t]]_vars
    BY <1>1
  <1> QED BY <1>2, InvAlways, PTL DEF Spec, CertifiedIsFresh

=============================================================================
