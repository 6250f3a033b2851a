------------------------------ MODULE FeedProofs -----------------------------
(* Theorems about LogoFeed, for every set of keys, writers and scripts.      *)
EXTENDS LogoFeed, TLAPS, SequenceTheorems, FiniteSetTheorems, WellFoundedInduction

-----------------------------------------------------------------------------
(* Type correctness.  A writer inside a statement still has the statement.   *)

Shape(w) ==
    /\ pc[w] = "stamped" => todo[w] # <<>>
    /\ pc[w] = "locked" => at[w] \in Keys /\ (at[w] \in bump[w] \/ todo[w] # <<>>)
Typed == TypeOK /\ \A w \in Writers : Shape(w)

(* The types of what a writer has, as one conjunct.                          *)
WriterTypes ==
    /\ seq \in Nat /\ vlock \in Writers \cup {None}
    /\ lock \in [Keys -> Writers \cup {None}]
    /\ pc \in [Writers -> {"idle", "next", "stamped", "locked"}]
    /\ todo \in [Writers -> Seq(Statement)] /\ bump \in [Writers -> SUBSET Keys]
    /\ at \in [Writers -> Keys \cup {None}] /\ stamp \in [Writers -> Nat]
    /\ work \in [Writers -> [Keys -> Row \cup {Gone, None}]]
    /\ wtomb \in [Writers -> [Keys -> Nat \cup {None}]]
    /\ edits \in [Writers -> [Designs -> Vals \cup {None}]]
TableTypes ==
    /\ row \in [Keys -> Row \cup {None}] /\ tomb \in [Keys -> Nat \cup {None}]
    /\ shared \in [Designs -> Vals]
ReaderTypes ==
    /\ since \in Nat /\ ceiling \in Nat
    /\ \A k \in Keys : copy[k] \in Entry \cup {None}
          /\ (copy[k] # None => (copy[k].live <=> copy[k].val # None))

LEMMA TypeParts == TypeOK <=> WriterTypes /\ TableTypes /\ ReaderTypes
  BY DEF TypeOK, WriterTypes, TableTypes, ReaderTypes

LEMMA ReaderTypesKept ==
    ASSUME ReaderTypes, UNCHANGED consumer PROVE ReaderTypes'
  BY DEF ReaderTypes, consumer

(* Where the other writers are is not a writer's business.                   *)
OthersStay(w) ==
    \A v \in Writers \ {w} : pc'[v] = pc[v] /\ todo'[v] = todo[v]
                             /\ at'[v] = at[v] /\ bump'[v] = bump[v]

LEMMA TypedAfter ==
    ASSUME Typed, NEW w \in Writers, OthersStay(w), Shape(w)',
           WriterTypes', TableTypes', ReaderTypes'
    PROVE  Typed'
  <1>1. TypeOK'
    BY DEF TypeOK, WriterTypes, TableTypes, ReaderTypes
  <1>2. \A v \in Writers : Shape(v)'
    BY DEF Typed, Shape, OthersStay
  <1> QED BY <1>1, <1>2 DEF Typed

LEMMA StatementType ==
    ASSUME Typed, NEW w \in Writers, todo[w] # <<>>
    PROVE  Running(w) \in Statement /\ Tail(todo[w]) \in Seq(Statement)
  <1>1. todo[w] \in Seq(Statement)
    BY DEF Typed, TypeOK
  <1> QED BY <1>1, EmptySeq, LenProperties, ElementOfSeq, HeadTailProperties DEF Running

LEMMA SeenTypes ==
    ASSUME Typed, NEW w \in Writers, NEW k \in Keys
    PROVE  SeenRow(w, k) \in Row \cup {None} /\ SeenTomb(w, k) \in Nat \cup {None}
  BY DEF Typed, TypeOK, SeenRow, SeenTomb

LEMMA InitTyped == Init => Typed
  <1> SUFFICES ASSUME Init PROVE Typed
    OBVIOUS
  <1>1. WriterTypes
    BY EmptySeq DEF Init, WriterTypes
  <1>2. TableTypes
    BY DEF Init, TableTypes, Row
  <1>3. ReaderTypes
    <2> SUFFICES ASSUME NEW k \in Keys
                 PROVE  copy[k] \in Entry \cup {None}
                        /\ (copy[k] # None => (copy[k].live <=> copy[k].val # None))
      BY DEF Init, ReaderTypes
    <2>1. CASE row[k] = None
      BY <2>1 DEF Init
    <2>2. CASE row[k] # None
      <3>1. row[k] \in [ver : {0}, design : Designs, own : Vals \cup {None}]
        BY <2>2 DEF Init
      <3> DEFINE v == IF row[k].own # None THEN row[k].own ELSE shared[row[k].design]
      <3>2. v \in Vals /\ v # None
        BY <3>1, NoneAssumption DEF Init
      <3>3. copy[k] = [ver |-> 0, live |-> TRUE, val |-> v]
        BY <2>2 DEF Init
      <3> HIDE DEF v
      <3> QED BY <3>2, <3>3 DEF Entry
    <2> QED BY <2>1, <2>2
  <1>4. \A w \in Writers : Shape(w)
    BY DEF Init, Shape
  <1> QED BY <1>1, <1>2, <1>3, <1>4, TypeParts DEF Typed

LEMMA EndTyped ==
    ASSUME Typed, NEW w \in Writers, End(w), UNCHANGED seq
    PROVE  WriterTypes' /\ Shape(w)' /\ OthersStay(w)
  <1>1. WriterTypes'
    BY EmptySeq DEF End, Typed, TypeOK, WriterTypes
  <1>2. Shape(w)'
    BY DEF End, Typed, TypeOK, Shape
  <1>3. OthersStay(w)
    BY DEF End, Typed, TypeOK, OthersStay
  <1> QED BY <1>1, <1>2, <1>3

LEMMA BeginTyped ==
    ASSUME Typed, NEW w \in Writers, NEW q \in Scripts, Begin(w, q) PROVE Typed'
  <1>1. WriterTypes' /\ TableTypes' /\ ReaderTypes'
    BY ScriptsAssumption, ReaderTypesKept, TypeParts
       DEF Begin, Typed, WriterTypes, TableTypes, committed
  <1>2. Shape(w)'
    BY DEF Begin, Typed, TypeOK, Shape
  <1>3. OthersStay(w)
    BY DEF Begin, Typed, TypeOK, OthersStay
  <1> QED BY <1>1, <1>2, <1>3, TypedAfter

LEMMA SaveStampTyped == ASSUME Typed, NEW w \in Writers, SaveStamp(w) PROVE Typed'
  <1>1. PICK k \in Keys : k = Running(w).key
    BY StatementType DEF SaveStamp, Ready, Statement
  <1>2. PICK t \in Nat \cup {None} : t = ClearTomb(w, k)
    BY ZenonT(60) DEF ClearTomb, Typed, TypeOK
  <1>3. wtomb' = [wtomb EXCEPT ![w][k] = t]
    BY <1>1, <1>2 DEF SaveStamp
  <1>4. wtomb' \in [Writers -> [Keys -> Nat \cup {None}]]
    BY <1>3 DEF Typed, TypeOK
  <1>5. WriterTypes'
    BY <1>4, TypeParts DEF SaveStamp, Typed, WriterTypes
  <1>6. TableTypes' /\ ReaderTypes'
    BY ReaderTypesKept, TypeParts DEF SaveStamp, Typed, TableTypes, committed
  <1>7. Shape(w)'
    BY DEF SaveStamp, Ready, Typed, TypeOK, Shape
  <1>8. OthersStay(w)
    BY DEF SaveStamp, Typed, TypeOK, OthersStay
  <1> QED BY <1>5, <1>6, <1>7, <1>8, TypedAfter

LEMMA SaveRowTyped == ASSUME Typed, NEW w \in Writers, SaveRow(w) PROVE Typed'
  <1>1. Running(w) \in Statement /\ Tail(todo[w]) \in Seq(Statement)
    BY StatementType DEF SaveRow, Typed, Shape
  <1>2. PICK s \in Statement : s = Running(w)
    BY <1>1
  <1> DEFINE next == IF SeenRow(w, s.key) # None THEN seq + 1 ELSE stamp[w]
  <1>3. PICK ver \in Nat : ver = next
    <2>1. next \in Nat
      BY DEF Typed, TypeOK
    <2> QED BY <2>1
  <1>4. [ver |-> ver, design |-> s.design, own |-> s.own] \in Row /\ s.key \in Keys
    BY DEF Statement, Row
  <1> DEFINE new == [ver |-> ver, design |-> s.design, own |-> s.own]
  <1>5. work' = [work EXCEPT ![w][s.key] = new]
    BY <1>2, <1>3 DEF SaveRow
  <1> HIDE DEF new
  <1>6. new \in Row
    BY <1>4 DEF new
  <1>7. work' \in [Writers -> [Keys -> Row \cup {Gone, None}]]
    BY <1>4, <1>5, <1>6 DEF Typed, TypeOK
  <1>8. WriterTypes'
    BY <1>1, <1>2, <1>4, <1>7, TypeParts DEF SaveRow, Typed, WriterTypes
  <1>9. TableTypes' /\ ReaderTypes'
    BY ReaderTypesKept, TypeParts DEF SaveRow, Typed, TableTypes, committed
  <1>10. Shape(w)'
    BY DEF SaveRow, Typed, TypeOK, Shape
  <1>11. OthersStay(w)
    BY DEF SaveRow, Typed, TypeOK, OthersStay
  <1> QED BY <1>8, <1>9, <1>10, <1>11, TypedAfter

LEMMA LockRowTyped ==
    ASSUME Typed, NEW w \in Writers, NEW k \in Keys, LockRow(w, k) PROVE Typed'
  <1>1. WriterTypes' /\ TableTypes' /\ ReaderTypes'
    BY ReaderTypesKept, TypeParts DEF LockRow, Typed, WriterTypes, TableTypes, committed
  <1>2. Shape(w)'
    BY DEF LockRow, Ready, Typed, TypeOK, Shape
  <1>3. OthersStay(w)
    BY DEF LockRow, Typed, TypeOK, OthersStay
  <1> QED BY <1>1, <1>2, <1>3, TypedAfter

LEMMA SkipTyped == ASSUME Typed, NEW w \in Writers, Skip(w) PROVE Typed'
  <1>1. Tail(todo[w]) \in Seq(Statement)
    BY StatementType DEF Skip, Ready
  <1>2. WriterTypes' /\ TableTypes' /\ ReaderTypes'
    BY <1>1, ReaderTypesKept, TypeParts DEF Skip, Typed, WriterTypes, TableTypes, committed
  <1>3. Shape(w)'
    BY DEF Skip, Ready, Typed, TypeOK, Shape
  <1>4. OthersStay(w)
    BY DEF Skip, Typed, TypeOK, OthersStay
  <1> QED BY <1>2, <1>3, <1>4, TypedAfter

LEMMA EditSharedTyped == ASSUME Typed, NEW w \in Writers, EditShared(w) PROVE Typed'
  <1>1. Running(w) \in Statement /\ Tail(todo[w]) \in Seq(Statement)
    BY StatementType DEF EditShared, Ready
  <1>2. Running(w).own \in Vals \cup {None} /\ Running(w).design \in Designs
    BY <1>1 DEF Statement
  <1>3. Bumped(w, Running(w).design) \subseteq Keys
    BY DEF Bumped
  <1>4. WriterTypes' /\ TableTypes' /\ ReaderTypes'
    BY <1>1, <1>2, <1>3, ReaderTypesKept, TypeParts
       DEF EditShared, Typed, WriterTypes, TableTypes, committed
  <1>5. Shape(w)'
    BY DEF EditShared, Ready, Typed, TypeOK, Shape
  <1>6. OthersStay(w)
    BY DEF EditShared, Typed, TypeOK, OthersStay
  <1> QED BY <1>4, <1>5, <1>6, TypedAfter

LEMMA WriteRowTyped == ASSUME Typed, NEW w \in Writers, WriteRow(w) PROVE Typed'
  <1> DEFINE k == at[w]
             r == SeenRow(w, k)
             bumping == k \in bump[w]
  <1>1. k \in Keys /\ (bumping \/ todo[w] # <<>>)
    BY DEF WriteRow, Typed, Shape
  <1>2. r \in Row \cup {None}
    BY <1>1, SeenTypes
  <1>3. ~bumping => Running(w) \in Statement /\ Tail(todo[w]) \in Seq(Statement)
    BY <1>1, StatementType
  <1>4. work' \in [Writers -> [Keys -> Row \cup {Gone, None}]]
        /\ wtomb' \in [Writers -> [Keys -> Nat \cup {None}]]
        /\ vlock' \in Writers \cup {None} /\ seq' \in Nat
    <2>1. CASE UNCHANGED <<vlock, seq, work, wtomb>>
      BY <2>1 DEF Typed, TypeOK
    <2>2. CASE ~UNCHANGED <<vlock, seq, work, wtomb>>
      <3>1. /\ vlock' = w /\ seq' = seq + 1
            /\ r # None
            /\ work' = [work EXCEPT ![w][k] =
                  IF ~bumping /\ Running(w).op = "delete" THEN Gone
                  ELSE [r EXCEPT !.ver = seq + 1,
                                 !.own = IF bumping THEN r.own ELSE Running(w).own]]
            /\ wtomb' = [wtomb EXCEPT ![w][k] =
                  IF ~bumping /\ Running(w).op = "delete" THEN Tombstone(w, k) ELSE @]
        BY <2>2 DEF WriteRow, Borrows
      <3>2. [r EXCEPT !.ver = seq + 1, !.own = IF bumping THEN r.own ELSE Running(w).own] \in Row
        <4>1. r \in Row /\ seq + 1 \in Nat
          BY <1>2, <3>1 DEF Typed, TypeOK
        <4>2. (IF bumping THEN r.own ELSE Running(w).own) \in Vals \cup {None}
          BY <1>3, <4>1 DEF Row, Statement
        <4> HIDE DEF r, bumping
        <4> QED BY <4>1, <4>2 DEF Row
      <3>3. Tombstone(w, k) \in Nat
        BY DEF Tombstone, Typed, TypeOK
      <3>4. PICK x \in Row \cup {Gone}, t \in Nat \cup {None} :
               work' = [work EXCEPT ![w][k] = x] /\ wtomb' = [wtomb EXCEPT ![w][k] = t]
        <4>1. wtomb[w][k] \in Nat \cup {None}
          BY <1>1 DEF Typed, TypeOK
        <4> HIDE DEF r, k, bumping
        <4> QED BY <3>1, <3>2, <3>3, <4>1
      <3> HIDE DEF r, bumping
      <3> QED BY <1>1, <3>1, <3>4 DEF Typed, TypeOK
    <2> QED BY <2>1, <2>2
  <1>5. WriterTypes'
    BY <1>3, <1>4, TypeParts DEF WriteRow, Typed, WriterTypes
  <1>6. TableTypes' /\ ReaderTypes'
    BY ReaderTypesKept, TypeParts DEF WriteRow, Typed, TableTypes, committed
  <1>7. Shape(w)'
    BY DEF WriteRow, Typed, TypeOK, Shape
  <1>8. OthersStay(w)
    BY DEF WriteRow, Typed, TypeOK, OthersStay
  <1> QED BY <1>5, <1>6, <1>7, <1>8, TypedAfter

LEMMA CommitTyped == ASSUME Typed, NEW w \in Writers, Commit(w) PROVE Typed'
  <1>1. WriterTypes' /\ Shape(w)' /\ OthersStay(w)
    BY EndTyped DEF Commit
  <1>2. TableTypes'
    BY SeenTypes DEF Commit, Typed, TypeOK, TableTypes
  <1>3. ReaderTypes'
    BY ReaderTypesKept, TypeParts DEF Commit, Typed
  <1> QED BY <1>1, <1>2, <1>3, TypedAfter

LEMMA AbortTyped == ASSUME Typed, NEW w \in Writers, Abort(w) PROVE Typed'
  <1>1. WriterTypes' /\ Shape(w)' /\ OthersStay(w)
    BY EndTyped DEF Abort
  <1>2. TableTypes' /\ ReaderTypes'
    BY ReaderTypesKept, TypeParts DEF Abort, Typed, TableTypes, committed
  <1> QED BY <1>1, <1>2, TypedAfter

-----------------------------------------------------------------------------
(* Numbers.  The lock on the sequence is held by whoever has written, and a  *)
(* number drawn but not yet published is ahead of everything published and   *)
(* of the consumer's cursor.                                                 *)

Ahead(n) ==
    /\ n \in Nat /\ n <= seq /\ since < n
    /\ \A k \in Keys : Served(k) # None => Served(k).ver < n
Draws(w) ==
    /\ vlock # w => pc[w] # "stamped"
                    /\ \A k \in Keys : work[w][k] = None /\ wtomb[w][k] = None
    /\ pc[w] = "stamped" => Ahead(stamp[w])
    /\ \A k \in Keys : work[w][k] \notin {None, Gone} => Ahead(work[w][k].ver)
    /\ \A k \in Keys : wtomb[w][k] \notin {None, 0} => Ahead(wtomb[w][k])

(* A transaction sees no key both as a row and as a tombstone, and one that  *)
(* is about to insert a key sees no tombstone of it.                         *)
Views(w) ==
    /\ \A k \in Keys : SeenRow(w, k) = None \/ SeenTomb(w, k) = None
    /\ pc[w] = "stamped" => SeenTomb(w, Running(w).key) = None
Tables ==
    /\ since <= seq
    /\ \A k \in Keys : /\ row[k] = None \/ tomb[k] = None
                       /\ Served(k) # None => Served(k).ver <= seq
Ordered == Typed /\ Tables /\ \A w \in Writers : Draws(w) /\ Views(w)

LEMMA ServedIs ==
    ASSUME Typed, NEW k \in Keys
    PROVE  /\ Served(k) \in Entry \cup {None}
           /\ Served(k) # None => (Served(k).live <=> Served(k).val # None)
           /\ row[k] # None => /\ Served(k) # None
                               /\ Served(k).ver = row[k].ver /\ Served(k).live
           /\ row[k] = None /\ tomb[k] # None =>
                  /\ Served(k) # None
                  /\ Served(k).ver = tomb[k] /\ ~Served(k).live
           /\ row[k] = None /\ tomb[k] = None => Served(k) = None
  <1>1. CASE row[k] # None
    <2>1. row[k] \in Row
      BY <1>1 DEF Typed, TypeOK
    <2>2. Value(row[k]) \in Vals
      BY <2>1 DEF Value, Row, Typed, TypeOK
    <2>3. Served(k) = [ver |-> row[k].ver, live |-> TRUE, val |-> Value(row[k])]
      BY <1>1 DEF Served
    <2>4. Served(k) \in Entry
      BY <2>1, <2>2, <2>3 DEF Row, Entry
    <2>5. Served(k) # None
      BY <2>4, RowAssumption
    <2>6. Served(k).ver = row[k].ver /\ Served(k).live /\ Served(k).val # None
      BY <2>2, <2>3, NoneAssumption
    <2> QED BY <1>1, <2>4, <2>5, <2>6
  <1>2. CASE row[k] = None /\ tomb[k] # None
    <2>1. Served(k) = [ver |-> tomb[k], live |-> FALSE, val |-> None] /\ tomb[k] \in Nat
      BY <1>2 DEF Served, Typed, TypeOK
    <2>2. Served(k) \in Entry
      BY <2>1 DEF Entry
    <2>3. Served(k) # None
      BY <2>2, RowAssumption
    <2>4. Served(k).ver = tomb[k] /\ ~Served(k).live /\ Served(k).val = None
      BY <2>1
    <2> QED BY <1>2, <2>2, <2>3, <2>4
  <1>3. CASE row[k] = None /\ tomb[k] = None
    BY <1>3 DEF Served
  <1> QED BY <1>1, <1>2, <1>3

LEMMA ServedPrimed ==
    ASSUME Typed', NEW k \in Keys PROVE Served(k)' \in Entry \cup {None}
  <1>1. CASE row'[k] # None
    <2>1. row'[k] \in Row
      BY <1>1 DEF Typed, TypeOK
    <2>2. Value(row[k])' \in Vals
      BY <2>1 DEF Value, Row, Typed, TypeOK
    <2>3. Served(k)' = [ver |-> row'[k].ver, live |-> TRUE, val |-> Value(row[k])']
      BY <1>1 DEF Served
    <2> QED BY <2>1, <2>2, <2>3 DEF Row, Entry
  <1>2. CASE row'[k] = None /\ tomb'[k] # None
    <2>1. Served(k)' = [ver |-> tomb'[k], live |-> FALSE, val |-> None] /\ tomb'[k] \in Nat
      BY <1>2 DEF Served, Typed, TypeOK
    <2> QED BY <2>1 DEF Entry
  <1>3. CASE row'[k] = None /\ tomb'[k] = None
    BY <1>3 DEF Served
  <1> QED BY <1>1, <1>2, <1>3

LEMMA ServedKept ==
    ASSUME UNCHANGED committed PROVE \A k \in Keys : Served(k)' = Served(k)
  BY DEF committed, Served, Value

LEMMA AheadKept ==
    ASSUME Typed, UNCHANGED <<committed, since>>, seq' \in Nat, seq <= seq', NEW n, Ahead(n)
    PROVE  Ahead(n)'
  <1>1. \A k \in Keys : Served(k)' = Served(k)
    BY ServedKept
  <1>2. seq \in Nat
    BY DEF Typed, TypeOK
  <1> QED BY <1>1, <1>2 DEF Ahead

LEMMA DrawnIsAhead ==
    ASSUME Ordered, UNCHANGED <<committed, since>>, seq' = seq + 1, NEW n, n = seq + 1
    PROVE  Ahead(n)'
  <1>1. \A k \in Keys : Served(k)' = Served(k)
    BY ServedKept
  <1>2. seq \in Nat /\ since \in Nat /\ since <= seq
    BY DEF Ordered, Typed, TypeOK, Tables
  <1>3. \A k \in Keys : Served(k) # None => Served(k).ver \in Nat /\ Served(k).ver <= seq
    BY ServedIs DEF Ordered, Tables, Entry
  <1> QED BY <1>1, <1>2, <1>3 DEF Ahead

LEMMA TablesKept ==
    ASSUME Ordered, UNCHANGED <<committed, since>>, seq' \in Nat, seq <= seq' PROVE Tables'
  <1>1. \A k \in Keys : Served(k)' = Served(k)
    BY ServedKept
  <1>2. \A k \in Keys : Served(k) # None => Served(k).ver \in Nat
    BY ServedIs DEF Ordered, Entry
  <1>3. seq \in Nat /\ since \in Nat
    BY DEF Ordered, Typed, TypeOK
  <1> QED BY <1>1, <1>2, <1>3 DEF Ordered, Tables, committed

(* A step of w that publishes nothing keeps what the other writers drew.     *)
OthersKeep(w) ==
    /\ UNCHANGED <<committed, since>> /\ seq' \in Nat /\ seq <= seq'
    /\ \A v \in Writers \ {w} :
          /\ pc'[v] = pc[v] /\ todo'[v] = todo[v] /\ stamp'[v] = stamp[v]
          /\ work'[v] = work[v] /\ wtomb'[v] = wtomb[v]
    /\ vlock' # vlock => vlock \in {None, w} /\ vlock' \in {None, w}

LEMMA OthersOrdered ==
    ASSUME Ordered, NEW w \in Writers, OthersKeep(w), NEW v \in Writers \ {w}
    PROVE  Draws(v)' /\ Views(v)'
  <1>1. \A n : Ahead(n) => Ahead(n)'
    BY AheadKept DEF Ordered, OthersKeep
  <1>2. vlock' # v => vlock # v
    BY NoneAssumption DEF OthersKeep
  <1>3. Draws(v)'
    <2>1. vlock' # v => pc'[v] # "stamped"
                        /\ \A k \in Keys : work'[v][k] = None /\ wtomb'[v][k] = None
      BY <1>2 DEF Ordered, Draws, OthersKeep
    <2>2. pc'[v] = "stamped" => Ahead(stamp[v])'
      <3>1. PICK n : n = stamp[v]
        OBVIOUS
      <3>2. n = stamp'[v] /\ (pc'[v] = "stamped" => Ahead(n))
        BY <3>1 DEF Ordered, Draws, OthersKeep
      <3> QED BY <1>1, <3>2 DEF Ahead
    <2>3. \A k \in Keys : work'[v][k] \notin {None, Gone} => Ahead(work[v][k].ver)'
      <3> SUFFICES ASSUME NEW k \in Keys, work'[v][k] \notin {None, Gone}
                   PROVE  Ahead(work[v][k].ver)'
        OBVIOUS
      <3>1. PICK n : n = work[v][k].ver
        OBVIOUS
      <3>2. n = work'[v][k].ver /\ Ahead(n)
        BY <3>1 DEF Ordered, Draws, OthersKeep
      <3> QED BY <1>1, <3>2 DEF Ahead
    <2>4. \A k \in Keys : wtomb'[v][k] \notin {None, 0} => Ahead(wtomb[v][k])'
      <3> SUFFICES ASSUME NEW k \in Keys, wtomb'[v][k] \notin {None, 0}
                   PROVE  Ahead(wtomb[v][k])'
        OBVIOUS
      <3>1. PICK n : n = wtomb[v][k]
        OBVIOUS
      <3>2. n = wtomb'[v][k] /\ Ahead(n)
        BY <3>1 DEF Ordered, Draws, OthersKeep
      <3> QED BY <1>1, <3>2 DEF Ahead
    <2> QED BY <2>1, <2>2, <2>3, <2>4 DEF Draws, OthersKeep
  <1>4. Views(v)'
    BY DEF Ordered, Views, OthersKeep, SeenRow, SeenTomb, Running, committed
  <1> QED BY <1>3, <1>4

LEMMA OrderedAfter ==
    ASSUME Ordered, NEW w \in Writers, OthersKeep(w), Typed', Draws(w)', Views(w)'
    PROVE  Ordered'
  BY OthersOrdered, TablesKept DEF Ordered, OthersKeep

LEMMA InitOrdered == Init => Ordered
  <1> SUFFICES ASSUME Init PROVE Ordered
    OBVIOUS
  <1>1. Typed
    BY InitTyped
  <1>2. ASSUME NEW k \in Keys, Served(k) # None PROVE Served(k).ver = 0
    <2>1. row[k] # None /\ Served(k).ver = row[k].ver
      BY <1>1, <1>2, ServedIs DEF Init
    <2>2. row[k] \in [ver : {0}, design : Designs, own : Vals \cup {None}]
      BY <2>1 DEF Init
    <2> QED BY <2>1, <2>2
  <1>3. Tables
    BY <1>2 DEF Init, Tables
  <1>4. \A w \in Writers : Draws(w) /\ Views(w)
    BY DEF Init, Draws, Views, SeenTomb
  <1> QED BY <1>1, <1>3, <1>4 DEF Ordered

(* A step that draws no number and writes no row.                            *)
Quiet ==
    /\ UNCHANGED <<committed, since, seq, vlock, stamp, work, wtomb>>
    /\ \A v \in Writers : pc'[v] = "stamped" => pc[v] = "stamped" /\ todo'[v] = todo[v]

LEMMA QuietOrdered == ASSUME Ordered, Quiet, Typed' PROVE Ordered'
  <1>1. seq \in Nat
    BY DEF Ordered, Typed, TypeOK
  <1>2. \A k \in Keys : Served(k)' = Served(k)
    BY ServedKept DEF Quiet
  <1>3. Tables'
    BY <1>1, TablesKept DEF Quiet
  <1>4. ASSUME NEW v \in Writers PROVE Draws(v)'
    BY <1>2 DEF Ordered, Draws, Ahead, Quiet
  <1>5. ASSUME NEW v \in Writers PROVE Views(v)'
    BY DEF Ordered, Views, SeenRow, SeenTomb, Running, Quiet, committed
  <1> QED BY <1>3, <1>4, <1>5 DEF Ordered

LEMMA QuietSteps ==
    ASSUME Ordered, NEW w \in Writers,
           \/ \E q \in Scripts : Begin(w, q)
           \/ Skip(w) \/ EditShared(w)
           \/ \E k \in Keys : LockRow(w, k)
    PROVE  Ordered'
  <1>1. Typed'
    BY BeginTyped, SkipTyped, EditSharedTyped, LockRowTyped DEF Ordered
  <1>2. Quiet
    <2>1. CASE \E q \in Scripts : Begin(w, q)
      BY <2>1 DEF Begin, Quiet, Ordered, Typed, TypeOK, consumer
    <2>2. CASE Skip(w)
      BY <2>2 DEF Skip, Ready, Quiet, Ordered, Typed, TypeOK, consumer
    <2>3. CASE EditShared(w)
      BY <2>3 DEF EditShared, Ready, Quiet, Ordered, Typed, TypeOK, consumer
    <2>4. CASE \E k \in Keys : LockRow(w, k)
      BY <2>4 DEF LockRow, Quiet, Ordered, Typed, TypeOK, consumer
    <2> QED BY <2>1, <2>2, <2>3, <2>4
  <1> QED BY <1>1, <1>2, QuietOrdered

LEMMA SaveStampOrdered == ASSUME Ordered, NEW w \in Writers, SaveStamp(w) PROVE Ordered'
  <1>1. Typed'
    BY SaveStampTyped DEF Ordered
  <1>2. PICK k \in Keys : k = Running(w).key
    BY StatementType DEF SaveStamp, Ready, Statement, Ordered
  <1>3. seq \in Nat /\ wtomb[w][k] \in Nat \cup {None} /\ wtomb \in [Writers -> [Keys -> Nat \cup {None}]]
    BY DEF Ordered, Typed, TypeOK
  <1>4. PICK t : t = ClearTomb(w, k)
    OBVIOUS
  <1>5. wtomb' = [wtomb EXCEPT ![w][k] = t]
    BY <1>2, <1>4 DEF SaveStamp
  <1>6. OthersKeep(w)
    BY <1>3, <1>5 DEF SaveStamp, VersionFree, OthersKeep, Ordered, Typed, TypeOK, consumer
  <1>7. /\ pc'[w] = "stamped" /\ stamp'[w] = seq + 1 /\ work' = work /\ vlock' = w
        /\ \A j \in Keys : wtomb'[w][j] = IF j = k THEN t ELSE wtomb[w][j]
    BY <1>3, <1>5 DEF SaveStamp, Ordered, Typed, TypeOK
  <1>8. \A n : Ahead(n) => Ahead(n)'
    BY <1>6, AheadKept DEF Ordered, OthersKeep
  <1>9. Draws(w)'
    <2>1. Ahead(stamp[w])'
      <3>1. PICK n : n = seq + 1
        OBVIOUS
      <3>2. Ahead(n)'
        BY <1>6, <3>1, DrawnIsAhead DEF OthersKeep, SaveStamp
      <3> QED BY <1>7, <3>1, <3>2 DEF Ahead
    <2>2. ASSUME NEW j \in Keys, work'[w][j] \notin {None, Gone} PROVE Ahead(work[w][j].ver)'
      <3>1. PICK n : n = work[w][j].ver
        OBVIOUS
      <3>2. n = work'[w][j].ver /\ Ahead(n)
        BY <1>7, <2>2, <3>1 DEF Ordered, Draws
      <3> QED BY <1>8, <3>2 DEF Ahead
    <2>3. ASSUME NEW j \in Keys, wtomb'[w][j] \notin {None, 0} PROVE Ahead(wtomb[w][j])'
      <3>1. PICK n : n = wtomb[w][j]
        OBVIOUS
      <3>2. n = wtomb'[w][j] /\ Ahead(n)
        BY <1>4, <1>7, <2>3, <3>1 DEF Ordered, Draws, ClearTomb
      <3> QED BY <1>8, <3>2 DEF Ahead
    <2> QED BY <1>7, <2>1, <2>2, <2>3 DEF Draws
  <1>10. Views(w)'
    <2>1. \A j \in Keys : SeenRow(w, j)' = SeenRow(w, j)
      BY <1>6, <1>7 DEF SeenRow, OthersKeep, committed
    <2>2. SeenTomb(w, k)' = None
      BY <1>4, <1>6, <1>7, NoneAssumption DEF SeenTomb, ClearTomb, OthersKeep, committed
    <2>3. \A j \in Keys \ {k} : SeenTomb(w, j)' = SeenTomb(w, j)
      BY <1>6, <1>7 DEF SeenTomb, OthersKeep, committed
    <2>4. Running(w)' = Running(w)
      BY DEF SaveStamp, Running
    <2> QED BY <1>2, <2>1, <2>2, <2>3, <2>4 DEF Ordered, Views
  <1> QED BY <1>1, <1>6, <1>9, <1>10, OrderedAfter

LEMMA NumbersAhead ==
    ASSUME Ordered, NEW w \in Writers, OthersKeep(w), NEW n,
           Ahead(n) \/ (n = seq + 1 /\ seq' = seq + 1)
    PROVE  Ahead(n)'
  BY AheadKept, DrawnIsAhead DEF Ordered, OthersKeep

LEMMA SaveRowOrdered == ASSUME Ordered, NEW w \in Writers, SaveRow(w) PROVE Ordered'
  <1>1. Typed'
    BY SaveRowTyped DEF Ordered
  <1>2. PICK s \in Statement : s = Running(w)
    BY StatementType DEF SaveRow, Ordered, Typed, Shape
  <1> DEFINE k == s.key
             next == IF SeenRow(w, k) # None THEN seq + 1 ELSE stamp[w]
  <1>3. PICK ver : ver = next
    OBVIOUS
  <1>4. PICK new : new = [ver |-> ver, design |-> s.design, own |-> s.own]
    OBVIOUS
  <1>5. k \in Keys /\ seq \in Nat
    BY DEF Statement, Ordered, Typed, TypeOK
  <1>6. work' = [work EXCEPT ![w][k] = new]
    BY <1>2, <1>3, <1>4 DEF SaveRow
  <1>7. OthersKeep(w)
    BY <1>5, <1>6 DEF SaveRow, OthersKeep, Ordered, Typed, TypeOK, consumer
  <1>8. /\ vlock' = w /\ pc'[w] = "next" /\ wtomb' = wtomb
        /\ \A j \in Keys : work'[w][j] = IF j = k THEN new ELSE work[w][j]
    BY <1>5, <1>6 DEF SaveRow, Ordered, Typed, TypeOK, Draws
  <1>9. Ahead(ver) \/ (ver = seq + 1 /\ seq' = seq + 1)
    BY <1>2, <1>3 DEF SaveRow, Ordered, Draws
  <1>10. Draws(w)'
    <2>1. ASSUME NEW j \in Keys, work'[w][j] \notin {None, Gone} PROVE Ahead(work[w][j].ver)'
      <3>1. PICK n : n = work'[w][j].ver
        OBVIOUS
      <3>2. Ahead(n) \/ (n = seq + 1 /\ seq' = seq + 1)
        BY <1>4, <1>8, <1>9, <2>1, <3>1 DEF Ordered, Draws
      <3> QED BY <1>7, <3>1, <3>2, NumbersAhead DEF Ahead
    <2>2. ASSUME NEW j \in Keys, wtomb'[w][j] \notin {None, 0} PROVE Ahead(wtomb[w][j])'
      <3>1. PICK n : n = wtomb'[w][j]
        OBVIOUS
      <3>2. Ahead(n)
        BY <1>8, <2>2, <3>1 DEF Ordered, Draws
      <3> QED BY <1>7, <3>1, <3>2, NumbersAhead DEF Ahead
    <2> QED BY <1>8, <2>1, <2>2 DEF Draws
  <1>11. Views(w)'
    <2>1. \A j \in Keys \ {k} : SeenRow(w, j)' = SeenRow(w, j)
      BY <1>7, <1>8 DEF SeenRow, OthersKeep, committed
    <2>2. \A j \in Keys : SeenTomb(w, j)' = SeenTomb(w, j)
      BY <1>7, <1>8 DEF SeenTomb, OthersKeep, committed
    <2>3. SeenTomb(w, k) = None
      BY <1>2 DEF SaveRow, Ordered, Views
    <2> QED BY <1>8, <2>1, <2>2, <2>3 DEF Ordered, Views
  <1> QED BY <1>1, <1>7, <1>10, <1>11, OrderedAfter

(* The shape of what WriteRow writes.                                        *)
LEMMA WriteRowWrites ==
    ASSUME Ordered, NEW w \in Writers, WriteRow(w), ~UNCHANGED <<vlock, seq, work, wtomb>>
    PROVE  \E k \in Keys, x \in Row \cup {Gone}, t \in Nat \cup {None} :
              /\ SeenRow(w, k) # None /\ vlock \in {None, w}
              /\ vlock' = w /\ seq' = seq + 1
              /\ x # Gone => x.ver = seq + 1 /\ t = wtomb[w][k]
              /\ x = Gone => t = seq + 1
              /\ work' = [work EXCEPT ![w][k] = x]
              /\ wtomb' = [wtomb EXCEPT ![w][k] = t]
  <1> DEFINE k == at[w]
             r == SeenRow(w, k)
             bumping == k \in bump[w]
             own == IF bumping THEN r.own ELSE Running(w).own
             gone == ~bumping /\ Running(w).op = "delete"
             x == IF gone THEN Gone ELSE [r EXCEPT !.ver = seq + 1, !.own = own]
             t == IF gone THEN Tombstone(w, k) ELSE wtomb[w][k]
  <1>1. k \in Keys /\ (bumping \/ todo[w] # <<>>)
    BY DEF WriteRow, Ordered, Typed, Shape
  <1>2. /\ r # None /\ vlock \in {None, w} /\ vlock' = w /\ seq' = seq + 1
        /\ work' = [work EXCEPT ![w][k] = x]
        /\ wtomb' = [wtomb EXCEPT ![w][k] = IF gone THEN Tombstone(w, k) ELSE @]
    BY DEF WriteRow, Borrows, VersionFree
  <1>3. r \in Row
    BY <1>1, <1>2, SeenTypes DEF Ordered
  <1>4. own \in Vals \cup {None}
    BY <1>1, <1>3, StatementType DEF Row, Statement, Ordered
  <1>5. seq \in Nat /\ wtomb[w][k] \in Nat \cup {None}
    BY <1>1 DEF Ordered, Typed, TypeOK
  <1>6. [r EXCEPT !.ver = seq + 1, !.own = own] \in Row
        /\ [r EXCEPT !.ver = seq + 1, !.own = own].ver = seq + 1
    <2>1. ASSUME NEW q \in Row, NEW n \in Nat, NEW o \in Vals \cup {None}
          PROVE  /\ [q EXCEPT !.ver = n, !.own = o] \in Row
                 /\ [q EXCEPT !.ver = n, !.own = o].ver = n
      BY DEF Row
    <2>2. seq + 1 \in Nat
      BY <1>5
    <2> HIDE DEF r, own
    <2> QED BY <1>3, <1>4, <2>1, <2>2
  <1>7. Gone \notin Row
    BY RowAssumption DEF Gone, Row
  <1>8. wtomb' = [wtomb EXCEPT ![w][k] = t]
    BY <1>2
  <1>9. x \in Row \cup {Gone} /\ t \in Nat \cup {None}
        /\ (x # Gone => x.ver = seq + 1 /\ t = wtomb[w][k]) /\ (x = Gone => t = seq + 1)
    <2>1. CASE gone
      BY <1>5, <2>1 DEF Tombstone
    <2>2. CASE ~gone
      BY <1>5, <1>6, <1>7, <2>2
    <2> QED BY <2>1, <2>2
  <1> HIDE DEF x, t, r, k
  <1> QED BY <1>1, <1>2, <1>8, <1>9 DEF r

LEMMA WriteRowOrdered == ASSUME Ordered, NEW w \in Writers, WriteRow(w) PROVE Ordered'
  <1>1. Typed'
    BY WriteRowTyped DEF Ordered
  <1>2. CASE UNCHANGED <<vlock, seq, work, wtomb>>
    <2>1. Quiet
      BY <1>2 DEF WriteRow, Quiet, Ordered, Typed, TypeOK, consumer
    <2> QED BY <1>1, <2>1, QuietOrdered
  <1>3. CASE ~UNCHANGED <<vlock, seq, work, wtomb>>
    <2>1. PICK k \in Keys, x \in Row \cup {Gone}, t \in Nat \cup {None} :
              /\ SeenRow(w, k) # None /\ vlock \in {None, w}
              /\ vlock' = w /\ seq' = seq + 1
              /\ x # Gone => x.ver = seq + 1 /\ t = wtomb[w][k]
              /\ x = Gone => t = seq + 1
              /\ work' = [work EXCEPT ![w][k] = x]
              /\ wtomb' = [wtomb EXCEPT ![w][k] = t]
      BY <1>3, WriteRowWrites
    <2>2. seq \in Nat /\ x # None
      BY RowAssumption DEF Ordered, Typed, TypeOK
    <2>3. OthersKeep(w)
      BY <2>1, <2>2 DEF WriteRow, OthersKeep, Ordered, Typed, TypeOK, consumer
    <2>4. /\ pc'[w] = "next"
          /\ \A j \in Keys : /\ work'[w][j] = IF j = k THEN x ELSE work[w][j]
                             /\ wtomb'[w][j] = IF j = k THEN t ELSE wtomb[w][j]
      BY <2>1 DEF WriteRow, Ordered, Typed, TypeOK
    <2>5. Draws(w)'
      <3>1. ASSUME NEW j \in Keys, work'[w][j] \notin {None, Gone}
            PROVE  Ahead(work[w][j].ver)'
        <4>1. PICK n : n = work'[w][j].ver
          OBVIOUS
        <4>2. Ahead(n) \/ (n = seq + 1 /\ seq' = seq + 1)
          BY <2>1, <2>4, <3>1, <4>1 DEF Ordered, Draws
        <4> QED BY <2>3, <4>1, <4>2, NumbersAhead DEF Ahead
      <3>2. ASSUME NEW j \in Keys, wtomb'[w][j] \notin {None, 0} PROVE Ahead(wtomb[w][j])'
        <4>1. PICK n : n = wtomb'[w][j]
          OBVIOUS
        <4>2. Ahead(n) \/ (n = seq + 1 /\ seq' = seq + 1)
          BY <2>1, <2>4, <3>2, <4>1 DEF Ordered, Draws
        <4> QED BY <2>3, <4>1, <4>2, NumbersAhead DEF Ahead
      <3> QED BY <2>1, <2>4, <3>1, <3>2 DEF Draws
    <2>6. Views(w)'
      <3>1. \A j \in Keys \ {k} : SeenRow(w, j)' = SeenRow(w, j)
                                  /\ SeenTomb(w, j)' = SeenTomb(w, j)
        BY <2>3, <2>4 DEF SeenRow, SeenTomb, OthersKeep, committed
      <3>2. CASE x = Gone
        BY <2>2, <2>4, <3>1, <3>2 DEF Ordered, Views, SeenRow
      <3>3. CASE x # Gone
        <4>1. SeenTomb(w, k)' = SeenTomb(w, k)
          BY <2>1, <2>3, <2>4, <3>3 DEF SeenTomb, OthersKeep, committed
        <4> QED BY <2>1, <2>4, <3>1, <4>1 DEF Ordered, Views
      <3> QED BY <3>2, <3>3
    <2> QED BY <1>1, <2>3, <2>5, <2>6, OrderedAfter
  <1> QED BY <1>2, <1>3

-----------------------------------------------------------------------------
(* A transaction ends.                                                       *)

LEMMA EndViews ==
    ASSUME Typed, NEW w \in Writers, End(w)
    PROVE  /\ pc'[w] = "idle" /\ vlock' = IF vlock = w THEN None ELSE vlock
           /\ \A k \in Keys : work'[w][k] = None /\ wtomb'[w][k] = None
           /\ \A v \in Writers \ {w} :
                 /\ pc'[v] = pc[v] /\ todo'[v] = todo[v] /\ stamp'[v] = stamp[v]
                 /\ work'[v] = work[v] /\ wtomb'[v] = wtomb[v]
  BY DEF End, Typed, TypeOK

LEMMA AbortOrdered == ASSUME Ordered, NEW w \in Writers, Abort(w) PROVE Ordered'
  <1>1. Typed' /\ End(w)
    BY AbortTyped DEF Ordered, Abort
  <1>2. OthersKeep(w)
    BY <1>1, EndViews DEF Abort, OthersKeep, Ordered, Typed, TypeOK, consumer
  <1>3. pc'[w] = "idle" /\ \A k \in Keys : work'[w][k] = None /\ wtomb'[w][k] = None
    BY <1>1, EndViews DEF Ordered
  <1>4. Draws(w)'
    BY <1>3 DEF Draws
  <1>5. Views(w)'
    BY <1>2, <1>3 DEF Ordered, Tables, Views, SeenRow, SeenTomb, OthersKeep, committed
  <1> QED BY <1>1, <1>2, <1>4, <1>5, OrderedAfter

(* What a commit makes of a key: nothing new, or a number that is ahead.     *)
LEMMA CommitServes ==
    ASSUME Ordered, NEW w \in Writers, Commit(w), Typed', NEW k \in Keys, Served(k)' # None
    PROVE  \/ Ahead(Served(k)'.ver)
           \/ /\ Served(k) # None
              /\ Served(k)'.ver = Served(k).ver /\ (Served(k)'.live <=> Served(k).live)
  <1> DEFINE e == Served(k)'
  <1>1. row'[k] = SeenRow(w, k) /\ tomb'[k] = SeenTomb(w, k)
    BY DEF Commit
  <1>2. /\ row'[k] # None => e.ver = row'[k].ver /\ e.live
        /\ row'[k] = None => tomb'[k] # None /\ e.ver = tomb'[k] /\ ~e.live
    BY DEF Served
  <1>3. CASE work[w][k] \notin {None, Gone}
    BY <1>1, <1>2, <1>3 DEF SeenRow, Ordered, Draws
  <1>4. CASE work[w][k] = None /\ row[k] # None
    BY <1>1, <1>2, <1>4, ServedIs DEF SeenRow, Ordered
  <1>5. CASE work[w][k] = Gone \/ (work[w][k] = None /\ row[k] = None)
    <2>1. row'[k] = None /\ tomb'[k] # None /\ e.ver = SeenTomb(w, k) /\ ~e.live
      BY <1>1, <1>2, <1>5, RowAssumption DEF SeenRow
    <2>2. CASE wtomb[w][k] = None
      <3>1. tomb[k] # None /\ row[k] = None /\ e.ver = tomb[k]
        BY <1>1, <2>1, <2>2 DEF SeenTomb, Ordered, Tables
      <3> QED BY <2>1, <3>1, ServedIs DEF Ordered
    <2>3. CASE wtomb[w][k] # None
      BY <1>1, <2>1, <2>3 DEF SeenTomb, Ordered, Draws
    <2> QED BY <2>2, <2>3
  <1> QED BY <1>3, <1>4, <1>5

LEMMA CommitOrdered == ASSUME Ordered, NEW w \in Writers, Commit(w) PROVE Ordered'
  <1>1. Typed' /\ End(w) /\ UNCHANGED <<seq, since>>
    BY CommitTyped DEF Ordered, Commit, consumer
  <1>2. /\ pc'[w] = "idle" /\ vlock' = IF vlock = w THEN None ELSE vlock
        /\ \A k \in Keys : work'[w][k] = None /\ wtomb'[w][k] = None
        /\ \A v \in Writers \ {w} :
              /\ pc'[v] = pc[v] /\ todo'[v] = todo[v] /\ stamp'[v] = stamp[v]
              /\ work'[v] = work[v] /\ wtomb'[v] = wtomb[v]
    BY <1>1, EndViews DEF Ordered
  <1>3. \A k \in Keys : row'[k] = SeenRow(w, k) /\ tomb'[k] = SeenTomb(w, k)
    BY DEF Commit
  <1>4. Tables'
    <2>1. ASSUME NEW k \in Keys, Served(k)' # None PROVE Served(k)'.ver <= seq
      BY <1>1, <2>1, CommitServes DEF Ahead, Ordered, Tables
    <2>2. \A k \in Keys : row'[k] = None \/ tomb'[k] = None
      BY <1>3 DEF Ordered, Views
    <2> QED BY <1>1, <2>1, <2>2 DEF Ordered, Tables
  <1>5. Draws(w)' /\ Views(w)'
    BY <1>2, <1>4 DEF Draws, Views, Tables, SeenRow, SeenTomb
  <1>6. ASSUME NEW v \in Writers \ {w} PROVE Draws(v)' /\ Views(v)'
    <2>1. CASE vlock # v
      <3>1. /\ pc'[v] # "stamped"
            /\ \A k \in Keys : work'[v][k] = None /\ wtomb'[v][k] = None
        BY <1>2, <2>1 DEF Ordered, Draws
      <3> QED BY <1>4, <3>1 DEF Draws, Views, Tables, SeenRow, SeenTomb
    <2>2. CASE vlock = v
      <3>1. \A k \in Keys : row'[k] = row[k] /\ tomb'[k] = tomb[k]
        BY <1>3, <2>2 DEF Ordered, Draws, SeenRow, SeenTomb
      <3>2. \A k \in Keys : Served(k)' # None =>
               Served(k) # None /\ Served(k)'.ver = Served(k).ver
        <4> SUFFICES ASSUME NEW k \in Keys, Served(k)' # None
                     PROVE  Served(k) # None /\ Served(k)'.ver = Served(k).ver
          OBVIOUS
        <4>1. /\ row'[k] # None => Served(k)'.ver = row'[k].ver
              /\ row'[k] = None => tomb'[k] # None /\ Served(k)'.ver = tomb'[k]
          BY DEF Served
        <4> QED BY <3>1, <4>1, ServedIs DEF Ordered
      <3>3. \A n : Ahead(n) => Ahead(n)'
        BY <1>1, <3>2 DEF Ahead
      <3>4. Draws(v)'
        <4>1. ASSUME NEW k \in Keys, work'[v][k] \notin {None, Gone}
              PROVE  Ahead(work[v][k].ver)'
          <5>1. PICK n : n = work[v][k].ver
            OBVIOUS
          <5>2. n = work'[v][k].ver /\ Ahead(n)
            BY <1>2, <4>1, <5>1 DEF Ordered, Draws
          <5> QED BY <3>3, <5>2 DEF Ahead
        <4>2. ASSUME NEW k \in Keys, wtomb'[v][k] \notin {None, 0}
              PROVE  Ahead(wtomb[v][k])'
          <5>1. PICK n : n = wtomb[v][k]
            OBVIOUS
          <5>2. n = wtomb'[v][k] /\ Ahead(n)
            BY <1>2, <4>2, <5>1 DEF Ordered, Draws
          <5> QED BY <3>3, <5>2 DEF Ahead
        <4>3. pc'[v] = "stamped" => Ahead(stamp[v])'
          <5>1. PICK n : n = stamp[v]
            OBVIOUS
          <5>2. n = stamp'[v] /\ (pc'[v] = "stamped" => Ahead(n))
            BY <1>2, <5>1 DEF Ordered, Draws
          <5> QED BY <3>3, <5>2 DEF Ahead
        <4>4. vlock' = v
          BY <1>2, <2>2
        <4> QED BY <4>1, <4>2, <4>3, <4>4 DEF Draws
      <3>5. pc[v] = "stamped" => Running(v).key \in Keys
        BY StatementType DEF Ordered, Typed, Shape, Statement
      <3>6. \A k \in Keys : SeenRow(v, k)' = SeenRow(v, k) /\ SeenTomb(v, k)' = SeenTomb(v, k)
        BY <1>2, <3>1 DEF SeenRow, SeenTomb
      <3>7. Running(v)' = Running(v) /\ pc'[v] = pc[v]
        BY <1>2 DEF Running
      <3>8. Views(v)'
        BY <3>5, <3>6, <3>7 DEF Ordered, Views
      <3> QED BY <3>4, <3>8
    <2> QED BY <2>1, <2>2
  <1> QED BY <1>1, <1>4, <1>5, <1>6 DEF Ordered

-----------------------------------------------------------------------------
(* The consumer.  A bounded set of numbers has a greatest one, so a ceiling  *)
(* is what CeilingOf means it to be.                                         *)

LEMMA LeastNumber ==
    ASSUME NEW T \in SUBSET Nat, T # {} PROVE \E m \in T : \A n \in T : m <= n
  <1>1. PICK m \in T : \A n \in T : ~ (<<n, m>> \in OpToRel(<, Nat))
    BY NatLessThanWellFounded, WFMin, Zenon
  <1>2. \A n \in T : m <= n
    <2> TAKE n \in T
    <2>1. <<n, m>> \in Nat \X Nat /\ ~ (n < m)
      BY <1>1 DEF OpToRel
    <2> QED BY <2>1
  <1> QED BY <1>2

LEMMA CeilingIs ==
    ASSUME NEW S \in SUBSET Nat, NEW b \in Nat, \A n \in S : n <= b
    PROVE  /\ CeilingOf(S) \in S \cup {0}
           /\ \A n \in S : n <= CeilingOf(S)
  <1> DEFINE T == {m \in Nat : \A n \in S : n <= m}
  <1>1. PICK m \in T : \A n \in T : m <= n
    BY LeastNumber
  <1>2. m \in S \cup {0}
    <2> SUFFICES ASSUME m \notin S, m # 0 PROVE FALSE
      OBVIOUS
    <2>1. m - 1 \in Nat /\ \A n \in S : n <= m - 1
      BY <1>1
    <2>2. m - 1 \in T
      BY <2>1
    <2> QED BY <1>1, <2>2
  <1>3. \E x \in S \cup {0} : \A n \in S : n <= x
    BY <1>1, <1>2
  <1> QED BY <1>3 DEF CeilingOf

LEMMA CurrentMaxIs ==
    ASSUME Ordered
    PROVE  /\ CurrentMax \in Nat /\ CurrentMax <= seq
           /\ CurrentMax = 0 \/ \E k \in Keys : Served(k) # None /\ Served(k).ver = CurrentMax
           /\ \A k \in Keys : Served(k) # None =>
                 Served(k).ver \in Nat /\ Served(k).ver <= CurrentMax
  <1>1. seq \in Nat
    BY DEF Ordered, Typed, TypeOK
  <1>2. \A k \in Keys : Served(k) # None => Served(k).ver \in Nat /\ Served(k).ver <= seq
    BY ServedIs DEF Ordered, Tables, Entry
  <1>3. Versions \in SUBSET Nat /\ \A n \in Versions : n <= seq
    BY <1>2 DEF Versions
  <1>4. CurrentMax \in Versions \cup {0} /\ \A n \in Versions : n <= CurrentMax
    BY <1>1, <1>3, CeilingIs DEF CurrentMax
  <1> QED BY <1>1, <1>2, <1>3, <1>4 DEF Versions

LEMMA VersionCeilingIs ==
    ASSUME Ordered PROVE VersionCeiling \in Nat /\ VersionCeiling <= CurrentMax
  BY CurrentMaxIs DEF VersionCeiling, Ordered, Typed, TypeOK

LEMMA ReachedIs ==
    ASSUME Ordered
    PROVE  /\ Reached \in Nat /\ since <= Reached
           /\ Reached = since \/ \E k \in Page : Reached = Served(k).ver
           /\ \A k \in Page : Served(k).ver <= Reached
  <1> DEFINE S == {Served(k).ver : k \in Page} \cup {since}
  <1>1. since \in Nat /\ seq \in Nat /\ since <= seq
    BY DEF Ordered, Typed, TypeOK, Tables
  <1>2. \A k \in Page : Served(k).ver \in Nat /\ Served(k).ver <= seq
    BY <1>1, CurrentMaxIs DEF Page, Wanted
  <1>3. S \in SUBSET Nat /\ \A n \in S : n <= seq
    BY <1>1, <1>2
  <1>4. Reached \in S \cup {0} /\ \A n \in S : n <= Reached
    BY <1>1, <1>3, CeilingIs DEF Reached
  <1> QED BY <1>1, <1>2, <1>4

LEMMA PollReads ==
    ASSUME Ordered, Poll
    PROVE  /\ since' \in Nat /\ ceiling' \in Nat /\ since <= since'
           /\ since' = since \/ since' <= VersionCeiling
  <1>1. since \in Nat /\ VersionCeiling \in Nat /\ Reached \in Nat
    BY VersionCeilingIs, ReachedIs DEF Ordered, Typed, TypeOK
  <1>2. \A k \in Page : Served(k).ver <= VersionCeiling
    BY DEF Page, Wanted
  <1> QED BY <1>1, <1>2, ReachedIs DEF Poll

LEMMA PollTyped == ASSUME Ordered, Poll PROVE Typed'
  <1>1. WriterTypes' /\ TableTypes'
    BY TypeParts DEF Ordered, Typed, Poll, WriterTypes, TableTypes, committed, mine
  <1>2. ReaderTypes'
    <2>1. ASSUME NEW k \in Keys
          PROVE  copy'[k] \in Entry \cup {None}
                 /\ (copy'[k] # None => (copy'[k].live <=> copy'[k].val # None))
      <3>1. copy'[k] = IF k \in Page THEN Served(k) ELSE copy[k]
        BY DEF Poll
      <3>2. copy[k] \in Entry \cup {None}
            /\ (copy[k] # None => (copy[k].live <=> copy[k].val # None))
        BY DEF Ordered, Typed, TypeOK
      <3> QED BY <3>1, <3>2, ServedIs DEF Ordered
    <2> QED BY <2>1, PollReads DEF ReaderTypes
  <1>3. \A w \in Writers : Shape(w)'
    BY DEF Ordered, Typed, Shape, Poll, mine
  <1>4. TypeOK'
    BY <1>1, <1>2 DEF TypeOK, WriterTypes, TableTypes, ReaderTypes
  <1> QED BY <1>3, <1>4 DEF Typed

LEMMA PollOrdered == ASSUME Ordered, Poll PROVE Ordered'
  <1>1. \A k \in Keys : Served(k)' = Served(k)
    BY ServedKept DEF Poll
  <1>2. since \in Nat /\ since' \in Nat /\ seq \in Nat /\ since <= seq
        /\ (since' = since \/ since' <= CurrentMax) /\ CurrentMax \in Nat /\ CurrentMax <= seq
    BY PollReads, VersionCeilingIs, CurrentMaxIs DEF Ordered, Typed, TypeOK, Tables
  <1>3. ASSUME NEW n, Ahead(n) PROVE Ahead(n)'
    <2>1. CurrentMax = 0 \/ CurrentMax < n
      BY <1>3, CurrentMaxIs DEF Ahead
    <2>2. 0 < n
      BY <1>2, <1>3 DEF Ahead
    <2>3. since' < n
      BY <1>2, <1>3, <2>1, <2>2 DEF Ahead
    <2> QED BY <1>1, <1>3, <2>3 DEF Ahead, Poll
  <1>4. Tables'
    BY <1>1, <1>2 DEF Ordered, Tables, Poll, committed
  <1>5. ASSUME NEW w \in Writers PROVE Draws(w)' /\ Views(w)'
    <2>1. Draws(w)'
      BY <1>3 DEF Ordered, Draws, Poll, mine
    <2>2. Views(w)'
      BY DEF Ordered, Views, SeenRow, SeenTomb, Running, Poll, mine, committed
    <2> QED BY <2>1, <2>2
  <1> QED BY <1>4, <1>5, PollTyped DEF Ordered

-----------------------------------------------------------------------------
(* What the consumer has.                                                    *)

Copied == \A k \in Keys : Served(k) # None /\ Served(k).ver <= since =>
    copy[k] # None /\ copy[k].ver = Served(k).ver /\ copy[k].live = Served(k).live
FeedInv == Ordered /\ Copied

Older(k) == {j \in Wanted : Served(j).ver < Served(k).ver}

LEMMA SmallSets ==
    ASSUME NEW S \in SUBSET Keys, NEW T \in SUBSET S
    PROVE  Cardinality(T) \in Nat /\ Cardinality(S) \in Nat /\ Cardinality(T) <= Cardinality(S)
  BY KeysAssumption, FS_Subset, FS_CardinalityType

(* A page is the older part of what is wanted.                               *)
LEMMA PageIsOldest ==
    ASSUME Ordered, NEW j \in Page, NEW k \in Wanted, Served(k).ver <= Served(j).ver
    PROVE  k \in Page
  <1>1. \A i \in Wanted : Served(i).ver \in Nat
    BY CurrentMaxIs DEF Wanted
  <1>2. j \in Wanted /\ Cardinality(Older(j)) < Limit
    BY DEF Page, Older
  <1>3. Older(k) \subseteq Older(j) /\ Older(j) \subseteq Keys
    BY <1>1, <1>2 DEF Older, Wanted
  <1>4. Cardinality(Older(k)) < Limit
    BY <1>2, <1>3, SmallSets, LimitAssumption
  <1> QED BY <1>4 DEF Page, Older

(* One that is not full is all of it.                                        *)
LEMMA ShortPageIsAll ==
    ASSUME Ordered, Cardinality(Page) < Limit PROVE Wanted \subseteq Page
  <1> SUFFICES ASSUME NEW k \in Wanted, k \notin Page PROVE FALSE
    OBVIOUS
  <1> DEFINE V == {Served(i).ver : i \in Wanted \ Page}
  <1>1. \A i \in Wanted : Served(i).ver \in Nat
    BY CurrentMaxIs DEF Wanted
  <1>2. PICK m \in V : \A n \in V : m <= n
    BY <1>1, LeastNumber
  <1>3. PICK i \in Wanted \ Page : m = Served(i).ver
    BY <1>2
  <1>4. Older(i) \subseteq Page
    <2> SUFFICES ASSUME NEW j \in Wanted, Served(j).ver < Served(i).ver, j \notin Page
                 PROVE  FALSE
      BY DEF Older
    <2>1. Served(j).ver \in V
      OBVIOUS
    <2> QED BY <1>1, <1>2, <1>3, <2>1
  <1>5. Page \subseteq Keys
    BY DEF Page, Wanted
  <1>6. Cardinality(Older(i)) < Limit
    BY <1>4, <1>5, SmallSets, LimitAssumption
  <1> QED BY <1>3, <1>6 DEF Page, Older

(* What a poll moves the cursor past is on the page.                         *)
LEMMA PollPasses ==
    ASSUME FeedInv, Poll, NEW k \in Keys, Served(k) # None, Served(k).ver <= since', k \notin Page
    PROVE  Served(k).ver <= since
  <1>1. since \in Nat /\ VersionCeiling \in Nat /\ Reached \in Nat /\ Served(k).ver \in Nat
    BY VersionCeilingIs, ReachedIs, CurrentMaxIs DEF FeedInv, Ordered, Typed, TypeOK
  <1> SUFFICES ASSUME since < Served(k).ver PROVE FALSE
    BY <1>1
  <1>2. CASE since' = Reached
    <2>1. PICK j \in Page : Reached = Served(j).ver
      BY <1>1, <1>2, ReachedIs DEF FeedInv
    <2>2. Served(j).ver <= VersionCeiling
      BY DEF Page, Wanted
    <2>3. k \in Wanted
      BY <1>1, <1>2, <2>1, <2>2 DEF Wanted
    <2> QED BY <1>2, <2>1, <2>3, PageIsOldest DEF FeedInv
  <1>3. CASE since' # Reached
    <2>1. since' = VersionCeiling /\ Cardinality(Page) < Limit
      BY <1>1, <1>3 DEF Poll, WalkDone
    <2>2. k \in Wanted
      BY <2>1 DEF Wanted
    <2> QED BY <2>1, <2>2, ShortPageIsAll DEF FeedInv
  <1> QED BY <1>2, <1>3

LEMMA PollCopies == ASSUME FeedInv, Poll PROVE Copied'
  <1>1. \A k \in Keys : Served(k)' = Served(k)
    BY ServedKept DEF Poll
  <1>2. \A k \in Keys : copy'[k] = IF k \in Page THEN Served(k) ELSE copy[k]
    BY DEF Poll
  <1>3. \A k \in Keys : Served(k) # None /\ Served(k).ver <= since' /\ k \notin Page =>
            Served(k).ver <= since
    BY PollPasses
  <1> QED BY <1>1, <1>2, <1>3 DEF FeedInv, Copied

LEMMA InitFeed == Init => FeedInv
  <1> SUFFICES ASSUME Init PROVE Copied
    BY InitOrdered DEF FeedInv
  <1>1. Typed
    BY InitTyped
  <1> SUFFICES ASSUME NEW k \in Keys, Served(k) # None
               PROVE  copy[k] # None /\ copy[k].ver = Served(k).ver
                      /\ copy[k].live = Served(k).live
    BY DEF Copied
  <1>2. row[k] # None
    BY <1>1, ServedIs DEF Init
  <1>3. row[k].ver = 0
    BY <1>2 DEF Init
  <1>4. copy[k] = Served(k)
    BY <1>2, <1>3 DEF Init, Served, Value
  <1> QED BY <1>4

LEMMA FeedStep == ASSUME FeedInv, [Next]_vars PROVE FeedInv'
  <1>1. CASE UNCHANGED vars
    <2>1. Quiet /\ UNCHANGED <<committed, since, copy>>
      BY <1>1 DEF vars, mine, consumer, Quiet
    <2>2. Typed'
      BY <1>1 DEF vars, mine, consumer, committed, FeedInv, Ordered, Typed, TypeOK, Shape
    <2>3. Copied'
      BY <2>1, ServedKept DEF FeedInv, Copied
    <2> QED BY <2>1, <2>2, <2>3, QuietOrdered DEF FeedInv
  <1>2. CASE \E w \in Writers : Commit(w)
    <2>1. PICK w \in Writers : Commit(w)
      BY <1>2
    <2>2. Ordered'
      BY <2>1, CommitOrdered DEF FeedInv
    <2>3. ASSUME NEW k \in Keys, Served(k)' # None, Served(k)'.ver <= since'
          PROVE  copy'[k] # None /\ copy'[k].ver = Served(k)'.ver
                 /\ copy'[k].live = Served(k)'.live
      <3>1. since' = since /\ copy' = copy /\ since \in Nat
        BY <2>1 DEF Commit, consumer, FeedInv, Ordered, Typed, TypeOK
      <3>2. Typed' /\ Served(k)' \in Entry
        BY <2>2, <2>3, ServedPrimed DEF Ordered
      <3>3. ~Ahead(Served(k)'.ver)
        BY <2>3, <3>1 DEF Ahead
      <3>4. /\ Served(k) # None
            /\ Served(k)'.ver = Served(k).ver /\ (Served(k)'.live <=> Served(k).live)
        BY <2>1, <2>3, <3>2, <3>3, CommitServes DEF FeedInv
      <3>5. Served(k).live \in BOOLEAN /\ Served(k)'.live \in BOOLEAN
        BY <3>2, <3>4, ServedIs DEF Entry, FeedInv, Ordered
      <3> QED BY <2>3, <3>1, <3>4, <3>5 DEF FeedInv, Copied
    <2> QED BY <2>2, <2>3 DEF FeedInv, Copied
  <1>3. CASE Poll
    BY <1>3, PollOrdered, PollCopies DEF FeedInv
  <1>4. CASE Next /\ ~Poll /\ ~ \E w \in Writers : Commit(w)
    <2>1. Ordered' /\ UNCHANGED <<committed, since, copy>>
      <3>1. PICK w \in Writers :
               \/ \E q \in Scripts : Begin(w, q)
               \/ SaveStamp(w) \/ SaveRow(w) \/ Skip(w) \/ WriteRow(w) \/ EditShared(w)
               \/ \E k \in Keys : LockRow(w, k)
               \/ Abort(w)
        BY <1>4 DEF Next
      <3>2. Ordered'
        BY <3>1, QuietSteps, SaveStampOrdered, SaveRowOrdered, WriteRowOrdered, AbortOrdered
           DEF FeedInv
      <3>3. UNCHANGED <<committed, consumer>>
        BY <3>1 DEF Begin, SaveStamp, SaveRow, Skip, WriteRow, EditShared, LockRow, Abort
      <3> QED BY <3>2, <3>3 DEF consumer
    <2>2. Copied'
      BY <2>1, ServedKept DEF FeedInv, Copied
    <2> QED BY <2>1, <2>2 DEF FeedInv
  <1> QED BY <1>1, <1>2, <1>3, <1>4

LEMMA FeedIsInv == Spec => []FeedInv
  BY InitFeed, FeedStep, PTL DEF Spec

(* A consumer's cursor passes no change: what is committed at or below it is *)
(* in the consumer's copy, and no key is both a row and a tombstone          *)
(* (routes_feed.py, the ceiling it pins and the page it cuts).               *)
THEOREM CursorPassesNothing == Spec => []NothingSkipped
  <1>1. FeedInv => NothingSkipped
    BY DEF FeedInv, Ordered, Typed, Tables, Copied, NothingSkipped
  <1> QED BY <1>1, FeedIsInv, PTL

(* Versions become visible in the order the sequence gave them out: what a   *)
(* commit publishes lies above everything published before it (the advisory  *)
(* lock the stamping trigger takes until the transaction ends).              *)
THEOREM VersionsAppearInOrder == Spec => PublishedInOrder
  <1>1. ASSUME FeedInv, FeedInv', [Next]_vars, NEW k \in Keys, Served(k)' # None
        PROVE  \/ Served(k)'.ver > CurrentMax
               \/ Served(k) # None /\ Served(k)'.ver = Served(k).ver
    <2>1. CASE \E w \in Writers : Commit(w)
      <3>1. PICK w \in Writers : Commit(w)
        BY <2>1
      <3>2. CASE Ahead(Served(k)'.ver)
        <4>1. PICK n : n = Served(k)'.ver
          OBVIOUS
        <4>2. Ahead(n) /\ since \in Nat
          BY <1>1, <3>2, <4>1 DEF FeedInv, Ordered, Typed, TypeOK
        <4>3. /\ CurrentMax \in Nat
              /\ CurrentMax = 0 \/ \E j \in Keys : Served(j) # None /\ Served(j).ver = CurrentMax
          BY <1>1, CurrentMaxIs DEF FeedInv
        <4>4. n \in Nat /\ CurrentMax < n
          BY <4>2, <4>3 DEF Ahead
        <4> QED BY <4>1, <4>3, <4>4
      <3> QED BY <1>1, <3>1, <3>2, CommitServes DEF FeedInv, Ordered
    <2>2. CASE ~ \E w \in Writers : Commit(w)
      <3>1. UNCHANGED committed
        BY <1>1, <2>2 DEF Next, vars, Begin, SaveStamp, SaveRow, Skip, WriteRow, EditShared,
                          LockRow, Abort, Poll
      <3> QED BY <1>1, <3>1, ServedKept
    <2> QED BY <2>1, <2>2
  <1>2. FeedInv /\ FeedInv' /\ [Next]_vars =>
           [\A k \in Keys : Served(k)' # None =>
              Served(k)'.ver > CurrentMax
              \/ (Served(k) # None /\ Served(k)'.ver = Served(k).ver)]_vars
    BY <1>1
  <1> QED BY <1>2, FeedIsInv, PTL DEF Spec, PublishedInOrder

-----------------------------------------------------------------------------
(* Edits of shared values.  logo_feed_edits shows the one window in which a  *)
(* consumer misses an edit: a row begins to borrow a value after the bump of *)
(* an edit in flight has looked for borrowers.  Where no script makes a row  *)
(* borrow a value that a script edits, there is no other.                    *)

StatementsOf(q) == {q[i] : i \in 1..Len(q)}
EditedDesigns ==
    {d \in Designs : \E q \in Scripts : \E s \in StatementsOf(q) : s.op = "edit" /\ s.design = d}
(* An UPDATE names no design: it makes a row of any design a borrower.       *)
Apart(s) ==
    /\ s.op = "save" /\ s.own = None => s.design \notin EditedDesigns
    /\ s.op = "update" /\ s.own = None => EditedDesigns = {}
    /\ s.op = "edit" => s.design \in EditedDesigns
BorrowersApart == \A q \in Scripts : \A s \in StatementsOf(q) : Apart(s)

(* What a transaction has left to do, has edited and has written; the rows   *)
(* that serve what it edited are written or still to be bumped; and it       *)
(* leaves no served key without row and tombstone, but while it inserts it.  *)
Programmed(w) == \A s \in StatementsOf(todo[w]) : Apart(s)
Edits(w) == \A d \in Designs : edits[w][d] # None => d \in EditedDesigns
BorrowsAsBefore(w) ==
    \A k \in Keys, d \in EditedDesigns :
       work[w][k] \notin {None, Gone} /\ Borrows(work[w][k], d) => Borrows(row[k], d)
Bumps(w) ==
    \A k \in Keys, d \in Designs :
       edits[w][d] # None /\ Borrows(SeenRow(w, k), d) => work[w][k] # None \/ k \in bump[w]
Inserting(w, k) == pc[w] = "stamped" /\ k = Running(w).key
Leaves(w) ==
    \A k \in Keys : Served(k) # None /\ ~ Inserting(w, k) =>
       SeenRow(w, k) # None \/ SeenTomb(w, k) # None
Started(w) ==
    /\ pc[w] = "stamped" => Running(w).op = "save"
    /\ pc[w] = "locked" /\ at[w] \notin bump[w] => Running(w).op \in {"update", "delete"}
Careful(w) == Programmed(w) /\ Started(w) /\ Edits(w) /\ BorrowsAsBefore(w) /\ Bumps(w) /\ Leaves(w)

(* The consumer has each key it passed as it is served, and no other.        *)
Exact ==
    \A k \in Keys : /\ Served(k) # None /\ Served(k).ver <= since => copy[k] = Served(k)
                    /\ copy[k] # None => Served(k) # None
EditInv == FeedInv /\ Exact /\ \A w \in Writers : Careful(w)

(* The first statement of a list is one of it, and so is each one after it.  *)
LEMMA StatementsLeft ==
    ASSUME NEW q \in Seq(Statement), q # <<>>
    PROVE  q[1] \in StatementsOf(q) /\ StatementsOf(Tail(q)) \subseteq StatementsOf(q)
  <1>1. Len(q) \in Nat /\ Len(q) >= 1
    BY EmptySeq, LenProperties
  <1>2. Len(Tail(q)) = Len(q) - 1 /\ \A i \in 1..Len(q) - 1 : Tail(q)[i] = q[i + 1]
    BY HeadTailProperties
  <1>3. \A i \in 1..Len(q) - 1 : i + 1 \in 1..Len(q)
    BY <1>1
  <1> QED BY <1>1, <1>2, <1>3 DEF StatementsOf

(* Statements leave a program and none enters it.                            *)
LEMMA ProgramGoesOn ==
    ASSUME Typed, NEW w \in Writers, todo[w] # <<>>, Programmed(w)
    PROVE  /\ Apart(Running(w))
           /\ todo'[w] \in {todo[w], Tail(todo[w])} => Programmed(w)'
  <1>1. todo[w] \in Seq(Statement)
    BY DEF Typed, TypeOK
  <1>2. Apart(Running(w)) /\ \A s \in StatementsOf(Tail(todo[w])) : Apart(s)
    BY <1>1, StatementsLeft DEF Programmed, Running
  <1>3. ASSUME todo'[w] = Tail(todo[w]) PROVE Programmed(w)'
    BY <1>2, <1>3 DEF Programmed
  <1>4. ASSUME todo'[w] = todo[w] PROVE Programmed(w)'
    BY <1>4 DEF Programmed
  <1> QED BY <1>2, <1>3, <1>4

(* A writer nothing happens to.                                              *)
SameFor(v) ==
    /\ pc'[v] = pc[v] /\ todo'[v] = todo[v] /\ at'[v] = at[v] /\ bump'[v] = bump[v]
    /\ work'[v] = work[v] /\ wtomb'[v] = wtomb[v] /\ edits'[v] = edits[v]

(* While nothing is committed, what a writer sees is its own to change.      *)
LEMMA SameTables ==
    ASSUME UNCHANGED committed, NEW v \in Writers
    PROVE  /\ \A k \in Keys : work'[v][k] = work[v][k] => SeenRow(v, k)' = SeenRow(v, k)
           /\ \A k \in Keys : wtomb'[v][k] = wtomb[v][k] => SeenTomb(v, k)' = SeenTomb(v, k)
           /\ \A k \in Keys : Served(k)' = Served(k)
  BY ServedKept DEF SeenRow, SeenTomb, committed

(* A writer to which nothing happens stays careful.                          *)
LEMMA SameCareful ==
    ASSUME UNCHANGED committed, NEW v \in Writers, SameFor(v), Careful(v) PROVE Careful(v)'
  <1>1. Programmed(v)' /\ Started(v)' /\ Edits(v)' /\ BorrowsAsBefore(v)'
    BY DEF Careful, Programmed, Started, Running, Edits, BorrowsAsBefore, SameFor, committed, Borrows
  <1>2. \A k \in Keys : /\ SeenRow(v, k)' = SeenRow(v, k) /\ SeenTomb(v, k)' = SeenTomb(v, k)
                        /\ Served(k)' = Served(k)
    BY SameTables DEF SameFor
  <1>3. \A k \in Keys : Inserting(v, k)' <=> Inserting(v, k)
    BY DEF SameFor, Inserting, Running
  <1>4. Bumps(v)'
    BY <1>2 DEF Careful, Bumps, SameFor, Borrows
  <1>5. Leaves(v)'
    BY <1>2, <1>3 DEF Careful, Leaves
  <1> QED BY <1>1, <1>4, <1>5 DEF Careful

(* A step of w before its commit: the other writers and the consumer are     *)
(* where they were.                                                          *)
StepOf(w) == UNCHANGED <<committed, since, copy>> /\ \A v \in Writers \ {w} : SameFor(v)

(* So a step of w before its commit is a matter of w alone.                  *)
LEMMA EditInvAfter ==
    ASSUME EditInv, NEW w \in Writers, StepOf(w), FeedInv', Careful(w)' PROVE EditInv'
  <1>1. \A v \in Writers : Careful(v)'
    BY SameCareful DEF EditInv, StepOf
  <1>2. Exact'
    BY ServedKept DEF EditInv, Exact, StepOf
  <1> QED BY <1>1, <1>2 DEF EditInv

(* Every action of a writer but its commit is such a step.                   *)
LEMMA StepsOf ==
    ASSUME Typed, NEW w \in Writers,
           \/ \E q \in Scripts : Begin(w, q)
           \/ SaveStamp(w) \/ SaveRow(w) \/ Skip(w) \/ WriteRow(w) \/ EditShared(w)
           \/ \E k \in Keys : LockRow(w, k)
           \/ Abort(w)
    PROVE  StepOf(w)
  <1> USE DEF StepOf, SameFor, Typed, TypeOK, consumer
  <1>1. CASE \E q \in Scripts : Begin(w, q)
    BY <1>1 DEF Begin
  <1>2. CASE SaveStamp(w)
    BY <1>2 DEF SaveStamp
  <1>3. CASE SaveRow(w)
    BY <1>3 DEF SaveRow
  <1>4. CASE Skip(w)
    BY <1>4 DEF Skip
  <1>5. CASE WriteRow(w)
    BY <1>5 DEF WriteRow
  <1>6. CASE EditShared(w)
    BY <1>6 DEF EditShared
  <1>7. CASE \E k \in Keys : LockRow(w, k)
    BY <1>7 DEF LockRow
  <1>8. CASE Abort(w)
    BY <1>8 DEF Abort, End
  <1> QED BY <1>1, <1>2, <1>3, <1>4, <1>5, <1>6, <1>7, <1>8

(* Begin, Skip and LockRow write nothing.                                    *)
LEMMA NoWriteCareful ==
    ASSUME BorrowersApart, EditInv, NEW w \in Writers,
           \/ \E q \in Scripts : Begin(w, q)
           \/ Skip(w)
           \/ \E k \in Keys : LockRow(w, k)
    PROVE  Careful(w)'
  <1>1. Typed /\ Careful(w)
    BY DEF EditInv, FeedInv, Ordered
  <1>2. /\ UNCHANGED committed /\ pc'[w] # "stamped" /\ pc[w] # "stamped"
        /\ bump'[w] = bump[w] /\ work'[w] = work[w] /\ wtomb'[w] = wtomb[w] /\ edits'[w] = edits[w]
    BY <1>1 DEF Begin, Skip, LockRow, Ready, Idle, Typed, TypeOK
  <1>3. Programmed(w)'
    <2>1. CASE \E q \in Scripts : Begin(w, q)
      <3>1. PICK q \in Scripts : todo' = [todo EXCEPT ![w] = q]
        BY <2>1 DEF Begin
      <3>2. todo'[w] = q
        BY <1>1, <3>1 DEF Typed, TypeOK
      <3> QED BY <3>2 DEF Programmed, BorrowersApart
    <2>2. CASE Skip(w)
      <3>1. todo[w] # <<>> /\ todo'[w] = Tail(todo[w])
        BY <1>1, <2>2 DEF Skip, Ready, Typed, TypeOK
      <3> QED BY <1>1, <3>1, ProgramGoesOn DEF Careful
    <2>3. CASE \E k \in Keys : LockRow(w, k)
      BY <1>1, <2>3 DEF LockRow, Careful, Programmed
    <2> QED BY <2>1, <2>2, <2>3
  <1>4. \A k \in Keys : /\ SeenRow(w, k)' = SeenRow(w, k) /\ SeenTomb(w, k)' = SeenTomb(w, k)
                        /\ Served(k)' = Served(k)
    BY <1>2, SameTables
  <1>5. Edits(w)' /\ BorrowsAsBefore(w)'
    BY <1>1, <1>2 DEF Careful, Edits, BorrowsAsBefore, committed, Borrows
  <1>6. Bumps(w)'
    BY <1>1, <1>2, <1>4 DEF Careful, Bumps, Borrows
  <1>7. Leaves(w)'
    BY <1>1, <1>2, <1>4 DEF Careful, Leaves, Inserting
  <1>8. Started(w)'
    BY <1>1, <1>2 DEF Begin, Skip, LockRow, Ready, Started, Running, Typed, TypeOK
  <1> QED BY <1>3, <1>5, <1>6, <1>7, <1>8 DEF Careful

(* A transaction that is rolled back takes its edits and rows with it.       *)
LEMMA AbortCareful == ASSUME EditInv, NEW w \in Writers, Abort(w) PROVE Careful(w)'
  <1>1. Typed /\ End(w) /\ UNCHANGED committed
    BY DEF EditInv, FeedInv, Ordered, Abort
  <1>2. /\ pc'[w] = "idle" /\ todo'[w] = <<>>
        /\ \A k \in Keys : work'[w][k] = None /\ wtomb'[w][k] = None
        /\ \A d \in Designs : edits'[w][d] = None
    BY <1>1 DEF End, Typed, TypeOK
  <1>3. Programmed(w)'
    BY <1>2 DEF Programmed, StatementsOf
  <1>4. Started(w)' /\ Edits(w)' /\ BorrowsAsBefore(w)' /\ Bumps(w)'
    BY <1>2 DEF Started, Edits, BorrowsAsBefore, Bumps
  <1>5. \A k \in Keys : /\ SeenRow(w, k)' = row[k] /\ SeenTomb(w, k)' = tomb[k]
                        /\ Served(k)' = Served(k)
    BY <1>1, <1>2, ServedKept DEF SeenRow, SeenTomb, committed
  <1>6. Leaves(w)'
    BY <1>1, <1>5, ServedIs DEF Leaves
  <1> QED BY <1>3, <1>4, <1>6 DEF Careful

(* The INSERT trigger only clears the tombstone of the key it inserts.       *)
LEMMA SaveStampCareful == ASSUME EditInv, NEW w \in Writers, SaveStamp(w) PROVE Careful(w)'
  <1>1. Typed /\ Careful(w)
    BY DEF EditInv, FeedInv, Ordered
  <1>2. PICK k \in Keys : k = Running(w).key
    BY <1>1, StatementType DEF SaveStamp, Ready, Statement
  <1>3. /\ UNCHANGED committed /\ pc[w] # "stamped" /\ pc'[w] = "stamped" /\ todo'[w] = todo[w]
        /\ todo[w] # <<>> /\ bump'[w] = bump[w] /\ work'[w] = work[w] /\ edits'[w] = edits[w]
        /\ \A j \in Keys \ {k} : wtomb'[w][j] = wtomb[w][j]
    BY <1>1, <1>2 DEF SaveStamp, Ready, Typed, TypeOK
  <1>4. /\ \A j \in Keys : SeenRow(w, j)' = SeenRow(w, j) /\ Served(j)' = Served(j)
        /\ \A j \in Keys \ {k} : SeenTomb(w, j)' = SeenTomb(w, j)
    BY <1>3, SameTables
  <1>5. Programmed(w)'
    BY <1>1, <1>3, ProgramGoesOn DEF Careful
  <1>6. Edits(w)' /\ BorrowsAsBefore(w)'
    BY <1>1, <1>3 DEF Careful, Edits, BorrowsAsBefore, committed, Borrows
  <1>7. Bumps(w)'
    BY <1>1, <1>3, <1>4 DEF Careful, Bumps, Borrows
  <1>8. Inserting(w, k)'
    BY <1>2, <1>3 DEF Inserting, Running
  <1>9. Leaves(w)'
    BY <1>1, <1>3, <1>4, <1>8 DEF Careful, Leaves, Inserting
  <1>10. Started(w)'
    BY <1>3 DEF SaveStamp, Ready, Started, Running
  <1> QED BY <1>5, <1>6, <1>7, <1>9, <1>10 DEF Careful

(* A saved row borrows no edited value, and is there for its readers.        *)
LEMMA SaveRowCareful == ASSUME EditInv, NEW w \in Writers, SaveRow(w) PROVE Careful(w)'
  <1>1. Typed /\ Careful(w) /\ todo[w] # <<>>
    BY DEF EditInv, FeedInv, Ordered, Typed, Shape, SaveRow
  <1>2. PICK s \in Statement : s = Running(w)
    BY <1>1, StatementType
  <1> DEFINE k == s.key
  <1>3. PICK new : work' = [work EXCEPT ![w][k] = new] /\ new.design = s.design /\ new.own = s.own
                   /\ new # None
    <2> DEFINE ver == IF SeenRow(w, s.key) # None THEN seq + 1 ELSE stamp[w]
               new == [ver |-> ver, design |-> s.design, own |-> s.own]
    <2>1. work' = [work EXCEPT ![w][k] = new]
      BY <1>2 DEF SaveRow
    <2>2. ver \in Nat
      BY <1>1 DEF Typed, TypeOK
    <2> HIDE DEF ver
    <2>3. new \in Row
      BY <2>2 DEF Statement, Row
    <2>4. new.design = s.design /\ new.own = s.own
      OBVIOUS
    <2> HIDE DEF new
    <2> QED BY <2>1, <2>3, <2>4, RowAssumption
  <1>4. /\ k \in Keys /\ UNCHANGED committed /\ pc'[w] = "next" /\ todo'[w] = Tail(todo[w])
        /\ bump'[w] = bump[w] /\ wtomb'[w] = wtomb[w] /\ edits'[w] = edits[w]
        /\ \A j \in Keys : work'[w][j] = IF j = k THEN new ELSE work[w][j]
    BY <1>1, <1>3 DEF SaveRow, Statement, Typed, TypeOK
  <1>5. /\ \A j \in Keys \ {k} : SeenRow(w, j)' = SeenRow(w, j)
        /\ \A j \in Keys : SeenTomb(w, j)' = SeenTomb(w, j) /\ Served(j)' = Served(j)
    BY <1>4, SameTables
  <1>6. Programmed(w)'
    BY <1>1, <1>4, ProgramGoesOn DEF Careful
  <1>7. Edits(w)'
    BY <1>1, <1>4 DEF Careful, Edits
  <1>8. BorrowsAsBefore(w)'
    <2>1. s.op = "save"
      BY <1>1, <1>2 DEF Careful, SaveRow, Started
    <2>2. s.own = None => s.design \notin EditedDesigns
      BY <1>1, <1>2, <2>1, ProgramGoesOn DEF Careful, Apart
    <2> QED BY <1>1, <1>3, <1>4, <2>2 DEF Careful, BorrowsAsBefore, Borrows, committed
  <1>9. Bumps(w)'
    BY <1>1, <1>3, <1>4, <1>5 DEF Careful, Bumps, Borrows
  <1>10. SeenRow(w, k)' # None
    <2>1. s.design \in Designs /\ Gone.design = None
      BY DEF Statement, Gone
    <2>2. new # Gone
      BY <1>3, <2>1, RowAssumption
    <2> QED BY <1>3, <1>4, <2>2 DEF SeenRow
  <1>11. Leaves(w)'
    BY <1>1, <1>2, <1>4, <1>5, <1>10 DEF Careful, Leaves, Inserting
  <1>12. Started(w)'
    BY <1>4 DEF Started
  <1> QED BY <1>6, <1>7, <1>8, <1>9, <1>11, <1>12 DEF Careful

(* An edit starts with a bump of every row that borrows the value.           *)
LEMMA EditSharedCareful == ASSUME EditInv, NEW w \in Writers, EditShared(w) PROVE Careful(w)'
  <1>1. Typed /\ Careful(w) /\ todo[w] # <<>>
    BY DEF EditInv, FeedInv, Ordered, EditShared, Ready
  <1>2. PICK s \in Statement : s = Running(w)
    BY <1>1, StatementType
  <1>3. s.design \in Designs /\ s.design \in EditedDesigns
    BY <1>1, <1>2, ProgramGoesOn DEF EditShared, Ready, Careful, Apart, Statement
  <1>4. /\ UNCHANGED committed /\ pc'[w] = "next" /\ pc[w] = "next" /\ todo'[w] = Tail(todo[w])
        /\ work'[w] = work[w] /\ wtomb'[w] = wtomb[w]
        /\ bump[w] = {} /\ bump'[w] = Bumped(w, s.design)
        /\ \A d \in Designs \ {s.design} : edits'[w][d] = edits[w][d]
    BY <1>1, <1>2, <1>3 DEF EditShared, Ready, Typed, TypeOK
  <1>5. \A k \in Keys : /\ SeenRow(w, k)' = SeenRow(w, k) /\ SeenTomb(w, k)' = SeenTomb(w, k)
                        /\ Served(k)' = Served(k)
    BY <1>4, SameTables
  <1>6. Programmed(w)' /\ Started(w)'
    BY <1>1, <1>4, ProgramGoesOn DEF Careful, Started
  <1>7. Edits(w)'
    BY <1>1, <1>3, <1>4 DEF Careful, Edits
  <1>8. BorrowsAsBefore(w)'
    BY <1>1, <1>4 DEF Careful, BorrowsAsBefore, committed, Borrows
  <1>9. Bumps(w)'
    <2> SUFFICES ASSUME NEW k \in Keys, NEW d \in Designs,
                        edits'[w][d] # None, Borrows(SeenRow(w, k), d)
                 PROVE  work'[w][k] # None \/ k \in bump'[w]
      BY <1>5 DEF Bumps, Borrows
    <2>1. CASE d = s.design
      BY <1>4, <2>1 DEF Bumped
    <2>2. CASE d # s.design
      BY <1>1, <1>4, <2>2 DEF Careful, Bumps
    <2> QED BY <2>1, <2>2
  <1>10. Leaves(w)'
    BY <1>1, <1>4, <1>5 DEF Careful, Leaves, Inserting
  <1> QED BY <1>6, <1>7, <1>8, <1>9, <1>10 DEF Careful

(* A row that is written keeps serving what it served, unless its statement  *)
(* says otherwise; one that is deleted leaves a tombstone.                   *)
LEMMA WriteRowCareful == ASSUME EditInv, NEW w \in Writers, WriteRow(w) PROVE Careful(w)'
  <1>1. Ordered /\ Typed /\ Careful(w) /\ pc[w] = "locked"
    BY DEF EditInv, FeedInv, Ordered, WriteRow
  <1>2. PICK k \in Keys : k = at[w] /\ (k \in bump[w] \/ todo[w] # <<>>)
    BY <1>1 DEF Typed, Shape
  <1> DEFINE r == SeenRow(w, k)
             bumping == k \in bump[w]
  <1>3. /\ UNCHANGED committed /\ pc'[w] = "next" /\ edits'[w] = edits[w]
        /\ bump'[w] = bump[w] \ {k}
        /\ todo'[w] = IF bumping THEN todo[w] ELSE Tail(todo[w])
    BY <1>1, <1>2 DEF WriteRow, Typed, TypeOK
  <1>4. Programmed(w)'
    <2>1. CASE bumping
      BY <1>1, <1>3, <2>1 DEF Careful, Programmed
    <2>2. CASE ~ bumping
      BY <1>1, <1>2, <1>3, <2>2, ProgramGoesOn DEF Careful
    <2> QED BY <2>1, <2>2
  <1>5. Started(w)' /\ Edits(w)'
    BY <1>1, <1>3 DEF Careful, Started, Edits
  <1>6. ~ bumping => Running(w).op \in {"update", "delete"} /\ Apart(Running(w))
    BY <1>1, <1>2, ProgramGoesOn DEF Careful, Started
  <1>7. CASE UNCHANGED <<vlock, seq, work, wtomb>>
    <2>1. \A j \in Keys : /\ SeenRow(w, j)' = SeenRow(w, j) /\ SeenTomb(w, j)' = SeenTomb(w, j)
                          /\ Served(j)' = Served(j)
      BY <1>3, <1>7, SameTables
    <2>2. BorrowsAsBefore(w)'
      BY <1>1, <1>3, <1>7 DEF Careful, BorrowsAsBefore, committed, Borrows
    <2>3. bumping => ~ \E d \in Designs : edits[w][d] # None /\ Borrows(r, d)
      <3>1. seq \in Nat
        BY <1>1 DEF Typed, TypeOK
      <3> QED BY <1>2, <1>7, <3>1 DEF WriteRow
    <2>4. Bumps(w)'
      BY <1>1, <1>3, <1>7, <2>1, <2>3 DEF Careful, Bumps, Borrows
    <2>5. Leaves(w)'
      BY <1>1, <1>3, <2>1 DEF Careful, Leaves, Inserting
    <2> QED BY <1>4, <1>5, <2>2, <2>4, <2>5 DEF Careful
  <1>8. CASE ~ UNCHANGED <<vlock, seq, work, wtomb>>
    <2> DEFINE own == IF bumping THEN r.own ELSE Running(w).own
               gone == ~ bumping /\ Running(w).op = "delete"
    <2>1. r \in Row
      BY <1>1, <1>2, <1>8, SeenTypes DEF WriteRow, Borrows
    <2>2. PICK new : /\ work' = [work EXCEPT ![w][k] = new]
                     /\ new = IF gone THEN Gone ELSE [r EXCEPT !.ver = seq + 1, !.own = own]
      BY <1>2, <1>8 DEF WriteRow
    <2>3. /\ ~ gone => new \in Row /\ new.design = r.design /\ new.own = own
          /\ new # None
      <3>1. seq + 1 \in Nat
        BY <1>1 DEF Typed, TypeOK
      <3>2. own \in Vals \cup {None}
        BY <1>1, <1>2, <2>1, StatementType DEF Row, Statement
      <3>3. ~ gone => new = [r EXCEPT !.ver = seq + 1, !.own = own]
        BY <2>2
      <3>4. gone => new # None
        BY <2>2, RowAssumption
      <3> HIDE DEF r, own, gone
      <3>5. ASSUME ~ gone PROVE new \in Row /\ new.design = r.design /\ new.own = own
        <4>1. PICK q \in Row, n \in Nat, o \in Vals \cup {None} : q = r /\ n = seq + 1 /\ o = own
          BY <2>1, <3>1, <3>2
        <4>2. new = [q EXCEPT !.ver = n, !.own = o]
          BY <3>3, <3>5, <4>1, SMT
        <4>3. new \in Row /\ new.design = q.design /\ new.own = o
          BY <4>2 DEF Row
        <4> QED BY <4>1, <4>3
      <3> QED BY <3>4, <3>5, RowAssumption
    <2>4. \A j \in Keys : work'[w][j] = IF j = k THEN new ELSE work[w][j]
      BY <1>1, <1>2, <2>2 DEF Typed, TypeOK
    <2>5. /\ \A j \in Keys \ {k} : SeenRow(w, j)' = SeenRow(w, j) /\ SeenTomb(w, j)' = SeenTomb(w, j)
          /\ \A j \in Keys : Served(j)' = Served(j)
      <3>1. \A j \in Keys \ {k} : wtomb'[w][j] = wtomb[w][j]
        BY <1>1, <1>2, <1>8 DEF WriteRow, Typed, TypeOK
      <3> QED BY <1>3, <2>4, <3>1, SameTables
    <2>6. BorrowsAsBefore(w)'
      <3> SUFFICES ASSUME NEW d \in EditedDesigns, ~ gone, Borrows(new, d) PROVE Borrows(row[k], d)
        BY <1>1, <1>3, <2>2, <2>4 DEF Careful, BorrowsAsBefore, committed, Borrows
      <3>1. bumping
        BY <1>6, <2>3 DEF Apart, Borrows
      <3>2. Borrows(r, d)
        BY <2>1, <2>3, <3>1, RowAssumption DEF Borrows
      <3> QED BY <1>1, <1>2, <3>2, RowAssumption DEF Careful, BorrowsAsBefore, SeenRow, Borrows
    <2>7. Bumps(w)'
      <3> SUFFICES ASSUME NEW j \in Keys, NEW d \in Designs,
                          edits[w][d] # None, Borrows(SeenRow(w, j)', d)
                   PROVE  work'[w][j] # None \/ j \in bump'[w]
        BY <1>3 DEF Bumps, Borrows
      <3> QED BY <1>1, <1>3, <2>3, <2>4, <2>5 DEF Careful, Bumps
    <2>8. SeenRow(w, k)' # None \/ SeenTomb(w, k)' # None
      <3>1. CASE gone
        <4>1. wtomb'[w][k] = seq + 1 /\ seq \in Nat
          BY <1>1, <1>2, <1>8, <3>1 DEF WriteRow, Tombstone, Typed, TypeOK
        <4> QED BY <4>1, NoneAssumption DEF SeenTomb
      <3>2. CASE ~ gone
        <4>1. new # Gone
          BY <2>3, <3>2, RowAssumption DEF Row, Gone
        <4> QED BY <1>2, <2>3, <2>4, <4>1 DEF SeenRow
      <3> QED BY <3>1, <3>2
    <2>9. Leaves(w)'
      BY <1>1, <1>3, <2>5, <2>8 DEF Careful, Leaves, Inserting
    <2> QED BY <1>4, <1>5, <2>6, <2>7, <2>9 DEF Careful
  <1> QED BY <1>7, <1>8

-----------------------------------------------------------------------------
(* Commits and polls.                                                        *)

(* A commit that gives a key no new number does not change what it serves,   *)
(* the values it borrows included.                                           *)
LEMMA CommitKeepsValue ==
    ASSUME EditInv, NEW w \in Writers, Commit(w), Typed', NEW k \in Keys, Served(k)' # None,
           ~ Ahead(Served(k)'.ver)
    PROVE  Served(k)' = Served(k)
  <1>1. Ordered /\ Typed /\ Careful(w) /\ bump[w] = {}
    BY DEF EditInv, FeedInv, Ordered, Commit
  <1>2. row'[k] = SeenRow(w, k) /\ tomb'[k] = SeenTomb(w, k)
    BY DEF Commit
  <1>3. /\ row'[k] # None => Served(k)'.ver = row'[k].ver
        /\ row'[k] = None => tomb'[k] # None /\ Served(k)'.ver = tomb'[k]
    BY DEF Served
  <1>4. work[w][k] \in {None, Gone}
    BY <1>1, <1>2, <1>3, RowAssumption DEF SeenRow, Ordered, Draws
  <1>5. CASE work[w][k] = None /\ row[k] # None
    <2>1. row'[k] = row[k] /\ row[k] \in Row
      BY <1>1, <1>2, <1>5 DEF SeenRow, Typed, TypeOK
    <2>2. PICK r \in Row : r = row[k]
      BY <2>1
    <2>3. r.own = None => shared'[r.design] = shared[r.design]
      <3> SUFFICES ASSUME r.own = None PROVE shared'[r.design] = shared[r.design]
        OBVIOUS
      <3>1. r.design \in Designs
        BY DEF Row
      <3>2. Borrows(SeenRow(w, k), r.design)
        BY <1>5, <2>2 DEF SeenRow, Borrows
      <3>3. edits[w][r.design] = None
        BY <1>1, <1>5, <3>1, <3>2 DEF Careful, Bumps
      <3> QED BY <3>1, <3>3 DEF Commit
    <2>4. Value(row[k])' = Value(row[k])
      BY <2>1, <2>2, <2>3 DEF Value
    <2> QED BY <1>5, <2>1, <2>4 DEF Served
  <1>6. CASE work[w][k] = Gone \/ row[k] = None
    <2>1. row'[k] = None /\ tomb'[k] # None
      BY <1>2, <1>3, <1>4, <1>6, RowAssumption DEF SeenRow
    <2>2. wtomb[w][k] = None
      BY <1>1, <1>2, <1>3, <2>1 DEF SeenTomb, Ordered, Draws
    <2>3. tomb'[k] = tomb[k] /\ row[k] = None
      BY <1>1, <1>2, <2>1, <2>2 DEF SeenTomb, Ordered, Tables
    <2> QED BY <2>1, <2>3 DEF Served
  <1> QED BY <1>4, <1>5, <1>6

(* No key that is served ends without row and tombstone.                     *)
LEMMA CommitServesStill ==
    ASSUME EditInv, NEW w \in Writers, Commit(w), Typed', NEW k \in Keys, Served(k) # None
    PROVE  Served(k)' # None
  <1>1. SeenRow(w, k) # None \/ SeenTomb(w, k) # None
    BY DEF EditInv, Careful, Leaves, Inserting, Commit
  <1>2. row'[k] # None \/ tomb'[k] # None
    BY <1>1 DEF Commit
  <1>3. CASE row'[k] # None
    <2>1. Served(k)' = [ver |-> row'[k].ver, live |-> TRUE, val |-> Value(row[k])'] /\ row'[k] \in Row
      BY <1>3 DEF Served, Typed, TypeOK
    <2>2. Value(row[k])' \in Vals
      BY <2>1 DEF Value, Row, Typed, TypeOK
    <2>3. Served(k)' \in Entry
      BY <2>1, <2>2 DEF Row, Entry
    <2> QED BY <2>3, RowAssumption
  <1>4. CASE row'[k] = None
    <2>1. Served(k)' = [ver |-> tomb'[k], live |-> FALSE, val |-> None] /\ tomb'[k] \in Nat
      BY <1>2, <1>4 DEF Served, Typed, TypeOK
    <2>2. Served(k)' \in Entry
      BY <2>1 DEF Entry
    <2> QED BY <2>2, RowAssumption
  <1> QED BY <1>3, <1>4

(* Only the holder of the lock on the sequence has written, so what another  *)
(* commits meets nothing of a transaction that has; and what a commit makes  *)
(* borrow an edited value had borrowed it before.                            *)
LEMMA CommitCareful ==
    ASSUME EditInv, NEW w \in Writers, Commit(w), Typed', NEW v \in Writers PROVE Careful(v)'
  <1>1. Ordered /\ Typed /\ Careful(v) /\ Careful(w) /\ End(w)
    BY DEF EditInv, FeedInv, Ordered, Commit
  <1>2. \A k \in Keys : row'[k] = SeenRow(w, k) /\ tomb'[k] = SeenTomb(w, k)
    BY DEF Commit
  <1>3. CASE v = w
    <2>1. /\ pc'[w] = "idle" /\ todo'[w] = <<>>
          /\ \A k \in Keys : work'[w][k] = None /\ wtomb'[w][k] = None
          /\ \A d \in Designs : edits'[w][d] = None
      BY <1>1 DEF End, Typed, TypeOK
    <2>2. Programmed(w)'
      BY <2>1 DEF Programmed, StatementsOf
    <2>3. Started(w)' /\ Edits(w)' /\ BorrowsAsBefore(w)' /\ Bumps(w)'
      BY <2>1 DEF Started, Edits, BorrowsAsBefore, Bumps
    <2>4. Leaves(w)'
      BY <2>1 DEF Leaves, SeenRow, SeenTomb, Served
    <2> QED BY <1>3, <2>2, <2>3, <2>4 DEF Careful
  <1>4. CASE v # w
    <2>1. SameFor(v)
      BY <1>1, <1>4 DEF End, SameFor, Typed, TypeOK
    <2>2. Programmed(v)' /\ Started(v)' /\ Edits(v)'
      BY <1>1, <2>1 DEF Careful, Programmed, Started, Running, Edits, SameFor
    <2>3. CASE vlock = v
      <3>1. \A k \in Keys : row'[k] = row[k] /\ tomb'[k] = tomb[k]
        BY <1>1, <1>2, <1>4, <2>3 DEF Ordered, Draws, SeenRow, SeenTomb
      <3>2. \A k \in Keys : SeenRow(v, k)' = SeenRow(v, k) /\ SeenTomb(v, k)' = SeenTomb(v, k)
        BY <2>1, <3>1 DEF SameFor, SeenRow, SeenTomb
      <3>3. \A k \in Keys : Served(k)' # None => Served(k) # None
        BY <1>1, <3>1, ServedIs DEF Served
      <3>4. BorrowsAsBefore(v)' /\ Bumps(v)'
        BY <1>1, <2>1, <3>1, <3>2 DEF Careful, BorrowsAsBefore, Bumps, Borrows, SameFor
      <3>5. Leaves(v)'
        BY <1>1, <2>1, <3>2, <3>3 DEF Careful, Leaves, Inserting, Running, SameFor
      <3> QED BY <2>2, <3>4, <3>5 DEF Careful
    <2>4. CASE vlock # v
      <3>1. pc'[v] # "stamped" /\ \A k \in Keys : work[v][k] = None /\ wtomb[v][k] = None
                                               /\ work'[v][k] = None /\ wtomb'[v][k] = None
        BY <1>1, <2>1, <2>4 DEF Ordered, Draws, SameFor
      <3>2. BorrowsAsBefore(v)'
        BY <3>1 DEF BorrowsAsBefore
      <3>3. \A k \in Keys : SeenRow(v, k)' = row'[k] /\ SeenTomb(v, k)' = tomb'[k]
        BY <3>1 DEF SeenRow, SeenTomb
      <3>4. Leaves(v)'
        BY <3>1, <3>3 DEF Leaves, Served
      <3>5. Bumps(v)'
        <4> SUFFICES ASSUME NEW k \in Keys, NEW d \in Designs,
                            edits[v][d] # None, Borrows(row'[k], d)
                     PROVE  k \in bump[v]
          BY <2>1, <3>3 DEF Bumps, SameFor, Borrows
        <4>1. d \in EditedDesigns
          BY <1>1 DEF Careful, Edits
        <4>2. Borrows(row[k], d)
          <5>1. CASE work[w][k] = None
            BY <1>2, <5>1 DEF SeenRow
          <5>2. CASE work[w][k] # None
            BY <1>1, <1>2, <4>1, <5>2 DEF SeenRow, Careful, BorrowsAsBefore, Borrows
          <5> QED BY <5>1, <5>2
        <4>3. Borrows(SeenRow(v, k), d)
          BY <3>1, <4>2 DEF SeenRow
        <4> QED BY <1>1, <3>1, <4>3 DEF Careful, Bumps
      <3> QED BY <2>2, <3>2, <3>4, <3>5 DEF Careful
    <2> QED BY <2>3, <2>4
  <1> QED BY <1>3, <1>4

(* A commit publishes above the cursor all that it changes.                  *)
LEMMA CommitExact == ASSUME EditInv, NEW w \in Writers, Commit(w), Typed' PROVE Exact'
  <1>1. since' = since /\ copy' = copy /\ since \in Nat
    BY DEF Commit, consumer, EditInv, FeedInv, Ordered, Typed, TypeOK
  <1>2. ASSUME NEW k \in Keys, Served(k)' # None, Served(k)'.ver <= since PROVE copy[k] = Served(k)'
    <2>1. ~ Ahead(Served(k)'.ver)
      BY <1>1, <1>2 DEF Ahead
    <2>2. Served(k)' = Served(k)
      BY <1>2, <2>1, CommitKeepsValue
    <2> QED BY <1>2, <2>2 DEF EditInv, Exact
  <1>3. ASSUME NEW k \in Keys, copy[k] # None PROVE Served(k)' # None
    BY <1>3, CommitServesStill DEF EditInv, Exact
  <1> QED BY <1>1, <1>2, <1>3 DEF Exact

(* A page brings the copies up to its cursor.                                *)
LEMMA PollExact == ASSUME EditInv, Poll PROVE Exact'
  <1>1. \A k \in Keys : Served(k)' = Served(k) /\ copy'[k] = IF k \in Page THEN Served(k) ELSE copy[k]
    BY ServedKept DEF Poll
  <1>2. ASSUME NEW k \in Keys, Served(k) # None, Served(k).ver <= since', k \notin Page
        PROVE  Served(k).ver <= since
    BY <1>2, PollPasses DEF EditInv
  <1>3. \A k \in Page : Served(k) # None
    BY DEF Page, Wanted
  <1> QED BY <1>1, <1>2, <1>3 DEF EditInv, Exact

(* At first no one has written and the consumer has nothing.                 *)
LEMMA InitEdits == ASSUME Init PROVE Exact /\ \A w \in Writers : Careful(w)
  <1>1. Typed
    BY InitTyped
  <1>2. ASSUME NEW k \in Keys
        PROVE  copy[k] = Served(k)
    <2>1. row[k] # None => copy[k] = Served(k)
      BY DEF Init, Served, Value
    <2>2. row[k] = None => copy[k] = None /\ Served(k) = None
      BY DEF Init, Served
    <2> QED BY <2>1, <2>2
  <1>3. Exact
    BY <1>2 DEF Exact
  <1>4. ASSUME NEW w \in Writers PROVE Careful(w)
    <2>1. /\ pc[w] = "idle" /\ todo[w] = <<>>
          /\ \A k \in Keys : work[w][k] = None /\ wtomb[w][k] = None
          /\ \A d \in Designs : edits[w][d] = None
      BY DEF Init
    <2>2. Programmed(w)
      BY <2>1 DEF Programmed, StatementsOf
    <2>3. Started(w) /\ Edits(w) /\ BorrowsAsBefore(w) /\ Bumps(w)
      BY <2>1 DEF Started, Edits, BorrowsAsBefore, Bumps
    <2>4. Leaves(w)
      BY <2>1 DEF Leaves, SeenRow, SeenTomb, Served
    <2> QED BY <2>2, <2>3, <2>4 DEF Careful
  <1> QED BY <1>3, <1>4

(* Every step preserves the invariant of edits.                              *)
LEMMA EditStep == ASSUME BorrowersApart, EditInv, [Next]_vars PROVE EditInv'
  <1>1. FeedInv' /\ Typed /\ Typed'
    BY FeedStep DEF EditInv, FeedInv, Ordered
  <1>2. CASE UNCHANGED vars
    <2>1. UNCHANGED <<committed, since, copy>> /\ \A v \in Writers : SameFor(v)
      BY <1>2 DEF vars, mine, consumer, SameFor
    <2>2. \A v \in Writers : Careful(v)'
      BY <2>1, SameCareful DEF EditInv
    <2>3. Exact'
      BY <2>1, ServedKept DEF EditInv, Exact
    <2> QED BY <1>1, <2>2, <2>3 DEF EditInv
  <1>3. CASE \E w \in Writers : Commit(w)
    BY <1>1, <1>3, CommitCareful, CommitExact DEF EditInv
  <1>4. CASE Poll
    <2>1. UNCHANGED committed /\ \A v \in Writers : SameFor(v)
      BY <1>4 DEF Poll, mine, SameFor
    <2>2. \A v \in Writers : Careful(v)'
      BY <2>1, SameCareful DEF EditInv
    <2> QED BY <1>1, <1>4, <2>2, PollExact DEF EditInv
  <1>5. CASE Next /\ ~ Poll /\ ~ \E w \in Writers : Commit(w)
    <2>1. PICK w \in Writers :
             \/ \E q \in Scripts : Begin(w, q)
             \/ SaveStamp(w) \/ SaveRow(w) \/ Skip(w) \/ WriteRow(w) \/ EditShared(w)
             \/ \E k \in Keys : LockRow(w, k)
             \/ Abort(w)
      BY <1>5 DEF Next
    <2>2. StepOf(w)
      BY <1>1, <2>1, StepsOf
    <2>3. Careful(w)'
      BY <2>1, NoWriteCareful, SaveStampCareful, SaveRowCareful, WriteRowCareful,
         EditSharedCareful, AbortCareful
    <2> QED BY <1>1, <2>2, <2>3, EditInvAfter
  <1> QED BY <1>2, <1>3, <1>4, <1>5

(* Where no script makes a row borrow a shared value that a script edits, a  *)
(* consumer that has read up to the ceiling serves just what the feed        *)
(* serves: no edit of a shared cost, name or image gets past it, however     *)
(* saves, deletes, edits, their bumps and its pages interleave (the          *)
(* dependency triggers of 2026-09-06-logo-feed-dependency-bumps.sql).        *)
THEOREM EditsAreSeen == ASSUME BorrowersApart PROVE Spec => []CaughtUpSeesEdits
  <1>1. Init => EditInv
    BY InitFeed, InitEdits DEF EditInv
  <1>2. EditInv /\ [Next]_vars => EditInv'
    BY EditStep
  <1>3. EditInv => CaughtUpSeesEdits
    <2> SUFFICES ASSUME EditInv, CaughtUp, NEW k \in Keys PROVE copy[k] = Served(k)
      BY DEF CaughtUpSeesEdits
    <2>1. Ordered /\ since \in Nat /\ CurrentMax \in Nat /\ CurrentMax <= since
      BY CurrentMaxIs DEF EditInv, FeedInv, Ordered, Typed, TypeOK, CaughtUp
    <2>2. Served(k) # None => Served(k).ver \in Nat /\ Served(k).ver <= since
      BY <2>1, CurrentMaxIs
    <2> QED BY <2>2 DEF EditInv, Exact
  <1> QED BY <1>1, <1>2, <1>3, PTL DEF Spec

==============================================================================
