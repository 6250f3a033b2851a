------------------------------- MODULE LogoFeed -------------------------------
(* The logo feed: version stamps on logo.assignment, tombstones, the bumps   *)
(* of the values a row borrows, and a consumer paging GET /feed/logos        *)
(* (logo-admin/routes_feed.py, the feed triggers under sql/migrations).      *)
(*                                                                           *)
(* Every write of an assignment stamps it with the next number of a sequence *)
(* while it holds an advisory lock until its transaction ends, so numbers    *)
(* become visible in the order they were given out.  What a row serves is    *)
(* its own value (cost_override) or the shared one (default_cost); an image  *)
(* works alike, and a name too, but that saving no name keeps the old one.   *)
EXTENDS Integers, Sequences, FiniteSets

CONSTANTS
    Keys,        \* assignment keys
    Designs,
    Vals,        \* values a row may serve
    Writers,     \* concurrent transactions
    Scripts,     \* the statement lists a transaction may run
    None,
    Limit,       \* page size of the consumer
    MaxVersion   \* bound: numbers drawn from logo.assignment_version_seq

ASSUME LimitAssumption == Limit \in Nat \ {0} /\ MaxVersion \in Nat
ASSUME NoneAssumption == None \notin Keys \cup Vals \cup Writers \cup Nat

Statement == [op : {"save", "update", "delete", "edit"},
              key : Keys, design : Designs, own : Vals \cup {None}]
ASSUME ScriptsAssumption == Scripts \subseteq Seq(Statement)

Row   == [ver : Nat, design : Designs, own : Vals \cup {None}]
Gone  == [ver |-> 0, design |-> None, own |-> None]
Entry == [ver : Nat, live : BOOLEAN, val : Vals \cup {None}]
ASSUME RowAssumption == None \notin Row \cup Entry \cup {Gone} /\ None \notin Designs
ASSUME KeysAssumption == IsFiniteSet(Keys)

VARIABLES
    row,      \* logo.assignment, committed
    tomb,     \* logo.assignment_tombstone, committed: a version, or None
    shared,   \* the shared value of each design, committed
    seq,      \* logo.assignment_version_seq; not rolled back
    vlock,    \* holder of the advisory lock on the sequence
    lock,     \* row locks of logo.assignment
    pc,       \* "idle", "next", "stamped" (INSERT trigger ran), "locked"
    todo,     \* statements left in the transaction
    bump,     \* keys the running bump has still to touch
    at,       \* the row a waiting statement has locked
    stamp,    \* the number the INSERT trigger drew
    work,     \* uncommitted rows: None untouched, Gone deleted
    wtomb,    \* uncommitted tombstones: None untouched, 0 deleted
    edits,    \* uncommitted shared values
    since, ceiling, copy   \* the consumer: cursor, pinned ceiling or 0, rows

committed == <<row, tomb, shared>>
mine      == <<pc, todo, bump, at, stamp, work, wtomb, edits>>
consumer  == <<since, ceiling, copy>>
vars      == <<committed, seq, vlock, lock, mine, consumer>>

-----------------------------------------------------------------------------
(* What a transaction sees: its own writes over what is committed.           *)
SeenRow(w, k) ==
    IF work[w][k] = None THEN row[k] ELSE IF work[w][k] = Gone THEN None ELSE work[w][k]
SeenTomb(w, k) ==
    IF wtomb[w][k] = None THEN tomb[k] ELSE IF wtomb[w][k] = 0 THEN None ELSE wtomb[w][k]

Idle(w) == pc[w] = "idle"
Running(w) == todo[w][1]
Ready(w, op) ==
    pc[w] = "next" /\ bump[w] = {} /\ todo[w] # <<>> /\ Running(w).op = op

(* pg_advisory_xact_lock on the sequence; a row lock.                        *)
NoVersionLock(w) == TRUE                   \* fault: nextval() without the lock
VersionFree(w) == vlock \in {None, w}
RowFree(w, k) == lock[k] \in {None, w}

(* A dependency bump touches the rows that serve the shared value and are    *)
(* visible when its UPDATE starts.                                           *)
Borrows(r, d) == r # None /\ r.design = d /\ r.own = None
NoBump(w, d) == {}                         \* fault: no dependency trigger
Bumped(w, d) == {k \in Keys : Borrows(SeenRow(w, k), d)}

Init ==
    /\ row \in [Keys -> {None} \cup [ver : {0}, design : Designs, own : Vals \cup {None}]]
    /\ tomb = [k \in Keys |-> None]
    /\ shared \in [Designs -> Vals]
    /\ seq = 0 /\ vlock = None
    /\ lock = [k \in Keys |-> None]
    /\ pc = [w \in Writers |-> "idle"]
    /\ todo = [w \in Writers |-> <<>>]
    /\ bump = [w \in Writers |-> {}]
    /\ at = [w \in Writers |-> None]
    /\ stamp = [w \in Writers |-> 0]
    /\ work = [w \in Writers |-> [k \in Keys |-> None]]
    /\ wtomb = [w \in Writers |-> [k \in Keys |-> None]]
    /\ edits = [w \in Writers |-> [d \in Designs |-> None]]
    /\ since = 0 /\ ceiling = 0
    /\ copy = [k \in Keys |-> IF row[k] = None THEN None
                 ELSE [ver |-> 0, live |-> TRUE,
                       val |-> IF row[k].own # None THEN row[k].own ELSE shared[row[k].design]]]

-----------------------------------------------------------------------------
(* Writers.                                                                  *)

Begin(w, q) ==
    /\ Idle(w)
    /\ pc' = [pc EXCEPT ![w] = "next"]
    /\ todo' = [todo EXCEPT ![w] = q]
    /\ UNCHANGED <<committed, seq, vlock, lock, bump, at, stamp, work, wtomb, edits, consumer>>

(* INSERT ... ON CONFLICT DO UPDATE: the BEFORE INSERT trigger draws a       *)
(* number and clears the key's tombstone before the row is looked up.        *)
ClearTomb(w, k) == IF SeenTomb(w, k) = None THEN wtomb[w][k] ELSE 0

SaveStamp(w) ==
    /\ Ready(w, "save")
    /\ VersionFree(w) /\ seq < MaxVersion
    /\ vlock' = w
    /\ seq' = seq + 1
    /\ stamp' = [stamp EXCEPT ![w] = seq + 1]
    /\ wtomb' = [wtomb EXCEPT ![w][Running(w).key] = ClearTomb(w, Running(w).key)]
    /\ pc' = [pc EXCEPT ![w] = "stamped"]
    /\ UNCHANGED <<committed, lock, todo, bump, at, work, edits, consumer>>

(* An existing row takes the conflict path: its BEFORE UPDATE trigger draws  *)
(* another number.                                                           *)
SaveRow(w) ==
    LET s == Running(w)
        again == SeenRow(w, s.key) # None
        ver == IF again THEN seq + 1 ELSE stamp[w]
    IN /\ pc[w] = "stamped"
       /\ RowFree(w, s.key)
       /\ again => seq < MaxVersion
       /\ seq' = IF again THEN seq + 1 ELSE seq
       /\ lock' = [lock EXCEPT ![s.key] = w]
       /\ work' = [work EXCEPT ![w][s.key] =
             [ver |-> ver, design |-> s.design, own |-> s.own]]
       /\ todo' = [todo EXCEPT ![w] = Tail(@)]
       /\ pc' = [pc EXCEPT ![w] = "next"]
       /\ UNCHANGED <<committed, vlock, bump, at, stamp, wtomb, edits, consumer>>

(* A plain UPDATE or DELETE locks the row it has found, then its trigger     *)
(* asks for the sequence.  A bump does the same to each row in turn.         *)
LockRow(w, k) ==
    /\ \/ Ready(w, "update") /\ k = Running(w).key /\ SeenRow(w, k) # None
       \/ Ready(w, "delete") /\ k = Running(w).key /\ SeenRow(w, k) # None
       \/ pc[w] = "next" /\ k \in bump[w]
    /\ RowFree(w, k)
    /\ lock' = [lock EXCEPT ![k] = w]
    /\ at' = [at EXCEPT ![w] = k]
    /\ pc' = [pc EXCEPT ![w] = "locked"]
    /\ UNCHANGED <<committed, seq, vlock, todo, bump, stamp, work, wtomb, edits, consumer>>

(* No row matches: the statement ends at once.                               *)
Skip(w) ==
    /\ Ready(w, "update") \/ Ready(w, "delete")
    /\ SeenRow(w, Running(w).key) = None
    /\ todo' = [todo EXCEPT ![w] = Tail(@)]
    /\ UNCHANGED <<committed, seq, vlock, lock, pc, bump, at, stamp, work, wtomb, edits, consumer>>

Tombstone(w, k) == seq + 1

(* The locked row is read again; a bumped row that has gone, or no longer    *)
(* borrows the value, is left alone.  A written one takes a number.          *)
WriteRow(w) ==
    LET k == at[w]
        s == Running(w)
        r == SeenRow(w, k)
        bumping == k \in bump[w]
        still == IF bumping THEN \E d \in Designs : edits[w][d] # None /\ Borrows(r, d)
                 ELSE r # None
        gone == ~bumping /\ s.op = "delete"
    IN /\ pc[w] = "locked"
       /\ IF still
          THEN /\ VersionFree(w) /\ seq < MaxVersion
               /\ vlock' = w
               /\ seq' = seq + 1
               /\ work' = [work EXCEPT ![w][k] =
                     IF gone THEN Gone
                     ELSE [r EXCEPT !.ver = seq + 1, !.own = IF bumping THEN r.own ELSE s.own]]
               /\ wtomb' = [wtomb EXCEPT ![w][k] = IF gone THEN Tombstone(w, k) ELSE @]
          ELSE UNCHANGED <<vlock, seq, work, wtomb>>
       /\ bump' = [bump EXCEPT ![w] = @ \ {k}]
       /\ todo' = IF bumping THEN todo ELSE [todo EXCEPT ![w] = Tail(@)]
       /\ at' = [at EXCEPT ![w] = None]
       /\ pc' = [pc EXCEPT ![w] = "next"]
       /\ UNCHANGED <<committed, lock, stamp, edits, consumer>>

(* A display name, a default cost or a design image changes; the trigger's   *)
(* UPDATE starts with the rows visible now.                                  *)
EditShared(w) ==
    LET d == Running(w).design
    IN /\ Ready(w, "edit")
       /\ \A v \in Writers \ {w} : edits[v][d] = None
       /\ edits' = [edits EXCEPT ![w][d] = Running(w).own]
       /\ bump' = [bump EXCEPT ![w] = Bumped(w, d)]
       /\ todo' = [todo EXCEPT ![w] = Tail(@)]
       /\ UNCHANGED <<committed, seq, vlock, lock, pc, at, stamp, work, wtomb, consumer>>

(* The transaction is over and its locks go.                                 *)
End(w) ==
    /\ vlock' = IF vlock = w THEN None ELSE vlock
    /\ lock' = [k \in Keys |-> IF lock[k] = w THEN None ELSE lock[k]]
    /\ pc' = [pc EXCEPT ![w] = "idle"]
    /\ todo' = [todo EXCEPT ![w] = <<>>]
    /\ bump' = [bump EXCEPT ![w] = {}]
    /\ at' = [at EXCEPT ![w] = None]
    /\ stamp' = [stamp EXCEPT ![w] = 0]
    /\ work' = [work EXCEPT ![w] = [k \in Keys |-> None]]
    /\ wtomb' = [wtomb EXCEPT ![w] = [k \in Keys |-> None]]
    /\ edits' = [edits EXCEPT ![w] = [d \in Designs |-> None]]

Commit(w) ==
    /\ pc[w] = "next" /\ bump[w] = {} /\ todo[w] = <<>>
    /\ row' = [k \in Keys |-> SeenRow(w, k)]
    /\ tomb' = [k \in Keys |-> SeenTomb(w, k)]
    /\ shared' = [d \in Designs |-> IF edits[w][d] = None THEN shared[d] ELSE edits[w][d]]
    /\ End(w)
    /\ UNCHANGED <<seq, consumer>>

(* Rolled back: a deadlock victim, a timeout, a refused command.             *)
Abort(w) ==
    /\ ~Idle(w)
    /\ End(w)
    /\ UNCHANGED <<committed, seq, consumer>>

-----------------------------------------------------------------------------
(* GET /feed/logos: one REPEATABLE READ transaction, so one frozen           *)
(* generation, is one step.                                                  *)

Value(r) == IF r.own # None THEN r.own ELSE shared[r.design]
Served(k) ==
    IF row[k] # None THEN [ver |-> row[k].ver, live |-> TRUE, val |-> Value(row[k])]
    ELSE IF tomb[k] # None THEN [ver |-> tomb[k], live |-> FALSE, val |-> None]
    ELSE None

Versions == {Served(k).ver : k \in {j \in Keys : Served(j) # None}}
CeilingOf(S) == CHOOSE m \in S \cup {0} : \A n \in S : n <= m
CurrentMax == CeilingOf(Versions)
VersionCeiling == IF ceiling # 0 /\ ceiling < CurrentMax THEN ceiling ELSE CurrentMax

Wanted == {k \in Keys : Served(k) # None /\ since < Served(k).ver
                        /\ Served(k).ver <= VersionCeiling}
Page == {k \in Wanted :
            Cardinality({j \in Wanted : Served(j).ver < Served(k).ver}) < Limit}
Reached == CeilingOf({Served(k).ver : k \in Page} \cup {since})

AlwaysDone == TRUE                         \* fault: a full page ends the walk
WalkDone == Cardinality(Page) < Limit \/ Reached >= VersionCeiling

(* The consumer applies the page, and pins the ceiling until the walk ends.  *)
Poll ==
    /\ copy' = [k \in Keys |-> IF k \in Page THEN Served(k) ELSE copy[k]]
    /\ since' = IF WalkDone /\ VersionCeiling > Reached THEN VersionCeiling ELSE Reached
    /\ ceiling' = IF WalkDone THEN 0 ELSE VersionCeiling
    /\ UNCHANGED <<committed, seq, vlock, lock, mine>>

Next ==
    \/ \E w \in Writers :
          \/ \E q \in Scripts : Begin(w, q)
          \/ SaveStamp(w) \/ SaveRow(w) \/ Skip(w) \/ WriteRow(w) \/ EditShared(w)
          \/ \E k \in Keys : LockRow(w, k)
          \/ Commit(w) \/ Abort(w)
    \/ Poll

Spec == Init /\ [][Next]_vars

-----------------------------------------------------------------------------
(* Properties.                                                               *)

(* Every variable keeps the shape of what it models.                         *)
TypeOK ==
    /\ row \in [Keys -> Row \cup {None}] /\ tomb \in [Keys -> Nat \cup {None}]
    /\ shared \in [Designs -> Vals]
    /\ seq \in Nat /\ vlock \in Writers \cup {None}
    /\ lock \in [Keys -> Writers \cup {None}]
    /\ pc \in [Writers -> {"idle", "next", "stamped", "locked"}]
    /\ todo \in [Writers -> Seq(Statement)] /\ bump \in [Writers -> SUBSET Keys]
    /\ at \in [Writers -> Keys \cup {None}] /\ stamp \in [Writers -> Nat]
    /\ work \in [Writers -> [Keys -> Row \cup {Gone, None}]]
    /\ wtomb \in [Writers -> [Keys -> Nat \cup {None}]]
    /\ edits \in [Writers -> [Designs -> Vals \cup {None}]]
    /\ since \in Nat /\ ceiling \in Nat
    /\ \A k \in Keys : copy[k] \in Entry \cup {None}
          /\ (copy[k] # None => (copy[k].live <=> copy[k].val # None))

(* A consumer's cursor never steps over a change: whatever is committed at   *)
(* or below the cursor is in the consumer's copy, with that version; and a   *)
(* key is served either as a row or as a tombstone, never as both, however   *)
(* deletes and re-inserts of it interleave.                                  *)
NothingSkipped ==
    /\ TypeOK
    /\ \A k \in Keys : row[k] = None \/ tomb[k] = None
    /\ \A k \in Keys : Served(k) # None /\ Served(k).ver <= since =>
        copy[k] # None /\ copy[k].ver = Served(k).ver /\ copy[k].live = Served(k).live

(* Versions become visible in the order they were drawn: what a transaction  *)
(* publishes lies above everything published before it.                      *)
PublishedInOrder ==
    [][\A k \in Keys : Served(k)' # None =>
         Served(k)'.ver > CurrentMax
         \/ (Served(k) # None /\ Served(k)'.ver = Served(k).ver)]_vars

(* A consumer that has read up to the ceiling serves what the feed serves,   *)
(* shared names, costs and images included.                                  *)
CaughtUp == since >= CurrentMax
CaughtUpSeesEdits == CaughtUp => \A k \in Keys : copy[k] = Served(k)

==============================================================================
