------------------------------- MODULE PimProofs ------------------------------
(* Theorems about PimPush: a push deletes a product only where a source that *)
(* was whole did not list it, and every variable keeps its shape.            *)
EXTENDS PimPush, TLAPS

(* The places of a push and of a pull, and what is held at each.             *)
Early == {"idle", "read", "list", "write", "approve"}
Places == Early \cup {"next", "look", "clear", "send", "record", "end"}
World == [presence : {"full", "short", "stale"}, carried : BOOLEAN, known : BOOLEAN, master : BOOLEAN]
Push == [pc : Places, todo : SUBSET Row, row : Row \cup {NoRow},
         seen : SUBSET {"ok", "full", "carried", "master", "known", "mirrored"},
         applied : BOOLEAN, master : {"unread", "whole", "short"},
         whole : SUBSET Sources, denied : SUBSET Sources]
Values(e) == IF e = "product" THEN Product ELSE Variant
Pulls ==
    /\ pull = [q \in Pullers |-> [pc |-> pull[q].pc, entity |-> pull[q].entity,
                                  full |-> pull[q].full, page |-> pull[q].page]]
    /\ \A q \in Pullers : /\ pull[q].pc \in {"idle", "fetch", "store", "done"}
                          /\ pull[q].entity \in Entities /\ pull[q].full \in BOOLEAN
                          /\ pull[q].page \subseteq Values(pull[q].entity)
Underway == push.pc \in {"look", "clear", "send", "record"} => push.row \in Row

Typed ==
    /\ TypeOK /\ world \in World /\ push \in Push /\ Pulls /\ Underway

(* Before it sends, a push has looked at no source.  From then on a source   *)
(* that a removal to come names is known to have been whole when it is, the  *)
(* one judged whole was, and one that then did not list the product is on    *)
(* record; so is the source of the removal that is under way.                *)
Unsent == push.pc \in Early => push.todo = {} /\ push.row = NoRow /\ push.master = "unread"
Heard ==
    /\ \A s \in Named(push.todo \cup {push.row}) : IsWhole(s) => s \in push.whole
    /\ \A s \in push.whole : Lists(s) \/ s \in push.denied
    /\ push.master = "whole" => "fdm4" \in push.whole
Reasoned ==
    /\ push.pc \in {"look", "clear"} => push.row.action = "product_remove"
    /\ push.pc = "look" => Source(push.row) \in push.whole
    /\ push.pc \in {"clear", "send"} /\ push.row.action = "product_remove"
         => Source(push.row) \in push.denied
Reasons == Unsent /\ Heard /\ Reasoned

PimInv == Typed /\ Reasons

Pull == [pc : {"idle", "fetch", "store", "done"}, entity : Entities, full : BOOLEAN,
         page : SUBSET (Product \cup Variant)]
Paged == \A q \in Pullers : pull[q].page \subseteq Values(pull[q].entity)

LEMMA PullsAre == /\ Pulls => pull \in [Pullers -> Pull] /\ Paged
                  /\ pull' \in [Pullers -> Pull] /\ Paged' => Pulls'
  BY DEF Pulls, Pull, Paged, Values, Entities, Pullers

-----------------------------------------------------------------------------
(* The operators of the model.                                               *)

(* The next row of a push is one of those it has to do.                      *)
LEMMA FirstIsOne == ASSUME NEW S \in SUBSET Row, S # {} PROVE First(S) \in S
  <1> DEFINE Some(i) == \E r \in S : r.action = Order[i]
             Least(r) == \A x \in S : \A i, j \in DOMAIN Order :
                            Order[i] = r.action /\ Order[j] = x.action => i <= j
  <1>1. DOMAIN Order = 1..7 /\ Actions = {Order[i] : i \in 1..7}
    BY DEF Order, Actions
  <1>2. \A i, j \in 1..7 : Order[i] = Order[j] => i = j
    BY DEF Order
  <1>3. \E i \in 1..7 : Some(i)
    BY <1>1 DEF Row
  <1>4. PICK i \in 1..7 : Some(i) /\ \A j \in 1..7 : Some(j) => i <= j
    <2> HIDE DEF Some
    <2> QED BY <1>3
  <1>5. PICK r \in S : r.action = Order[i]
    BY <1>4
  <1>6. Least(r)
    BY <1>1, <1>2, <1>4, <1>5
  <1> QED BY <1>6 DEF First

(* What a diff writes are rows.                                              *)
LEMMA DiffIsRows == ASSUME NEW seen PROVE Diff(seen) \in SUBSET Row
  <1>1. \A a \in Actions : About(a, seen) \in {"", "visible", "draft", "not live in Woo", "not in FDM4"}
    BY DEF About, Reason
  <1>2. \A a \in Actions : [action |-> a, about |-> About(a, seen), status |-> "proposed", old |-> FALSE] \in Row
    BY <1>1 DEF Row
  <1> QED BY <1>2 DEF Diff

(* A row keeps its kind when it is approved or when its set is superseded.   *)
LEMMA RowsStay ==
    \A r \in Row : [r EXCEPT !.status = "approved"] \in Row /\ [r EXCEPT !.old = TRUE] \in Row
  BY DEF Row

(* A request leaves a catalogue, with no variant attached to nothing; only   *)
(* the removal of a product takes a product away.                            *)
LEMMA SentKeeps ==
    ASSUME pim \in Catalogue, pim.variant.attached => pim.product # "none",
           NEW r, r.action \in Actions, Accepts(r)
    PROVE  /\ Sent(r) \in Catalogue
           /\ Sent(r).variant.attached => Sent(r).product # "none"
           /\ r.action # "product_remove" /\ pim.product # "none" => Sent(r).product # "none"
  <1> USE DEF Sent, Catalogue, Product, Variant, NoVariant, Absent, Detached, Exists, Accepts
  <1>1. r.action \in {"product_create", "color_fix", "variant_create", "product_publish",
                      "variant_publish", "product_remove", "variant_orphan_remove"}
    BY DEF Actions, Order
  <1>2. CASE r.action = "color_fix"
    BY <1>2
  <1>3. CASE r.action = "variant_create"
    BY <1>3
  <1>4. CASE r.action \in {"product_create", "product_publish"}
    BY <1>4
  <1>5. CASE r.action = "variant_publish"
    BY <1>5
  <1>6. CASE r.action = "product_remove"
    BY <1>6
  <1>7. CASE r.action = "variant_orphan_remove"
    BY <1>7
  <1> QED BY <1>1, <1>2, <1>3, <1>4, <1>5, <1>6, <1>7

(* The sources that a set of rows names are sources, and those of a part of  *)
(* the set are among them.                                                   *)
LEMMA NamedAre ==
    ASSUME NEW S PROVE /\ Named(S) \subseteq Sources /\ Whole(S) \subseteq Sources
                       /\ \A T \in SUBSET S : Named(T) \subseteq Named(S)
                       /\ \A r \in S : r.action = "product_remove" => Source(r) \in Named(S)
                       /\ Unlisting(Whole(S)) \subseteq Sources
  BY DEF Named, Whole, Source, Sources, Unlisting

(* A removal that is looked at names a source that has been whole.           *)
LEMMA LookedAtIsWhole ==
    ASSUME Heard, NEW r \in push.todo, r.action = "product_remove", Holds(r)
    PROVE  Source(r) \in (push.whole \ {"woo"}) \cup Whole(push.todo)
  <1>1. SourceWhole(r)
    BY DEF Holds
  <1>2. Source(r) \in Named(push.todo)
    BY NamedAre
  <1>3. CASE Source(r) = "fdm4"
    BY <1>1, <1>2, <1>3 DEF SourceWhole, MasterJudged, Heard, Whole, IsWhole
  <1>4. CASE Source(r) = "woo"
    BY <1>1, <1>2, <1>4 DEF SourceWhole, Whole, IsWhole
  <1> QED BY <1>3, <1>4 DEF Source

-----------------------------------------------------------------------------
(* The invariant.                                                            *)

(* The parts of the invariant, variable by variable.                         *)
LEMMA QuietIsPush == Quiet \in Push
  <1>1. NoRow \in Row \cup {NoRow} /\ {} \in SUBSET Row
    OBVIOUS
  <1> QED BY <1>1 DEF Push, Places, Early, Quiet

LEMMA InitPim == Init => PimInv
  <1> SUFFICES ASSUME Init PROVE PimInv
    OBVIOUS
  <1>1. TypeOK
    <2>1. /\ pim \in [product : Product, variant : Variant] /\ mirror \in [product : Product, variant : Variant]
          /\ pim.variant.attached => pim.product # "none"
      <3>1. NoVariant \in Variant /\ ~NoVariant.attached
        BY DEF NoVariant, Variant
      <3>2. [stat |-> "V", attached |-> TRUE, colour |-> FALSE] \in Variant
        BY DEF Variant
      <3>3. /\ \A v \in Variant : [product |-> "none", variant |-> v] \in [product : Product, variant : Variant]
            /\ \A v \in Variant : [product |-> "D", variant |-> v] \in [product : Product, variant : Variant]
        BY DEF Product
      <3>4. pim \in [product : Product, variant : Variant] /\ mirror \in [product : Product, variant : Variant]
        BY <3>1, <3>2, <3>3 DEF Init
      <3>5. pim.variant.attached => pim.product # "none"
        BY <3>1 DEF Init
      <3> QED BY <3>4, <3>5
    <2>2. pull["worker"].pc \notin {"fetch", "store"}
      BY DEF Init, Pullers, AtRest
    <2>3. dirty \subseteq {e \in Entities : Exists(pim, e)} /\ rows \subseteq Row
      BY DEF Init
    <2> QED BY <2>1, <2>2, <2>3 DEF TypeOK
  <1>2. world \in World /\ push \in Push
    <2>1. world \in World
      <3>1. /\ [presence |-> "full", carried |-> TRUE, known |-> TRUE, master |-> TRUE] \in World
            /\ [presence |-> "full", carried |-> FALSE, known |-> TRUE, master |-> TRUE] \in World
        BY DEF World
      <3> QED BY <3>1 DEF Init
    <2> QED BY <2>1, QuietIsPush DEF Init
  <1>3. Pulls /\ Underway
    BY DEF Init, Pulls, Pullers, AtRest, Quiet, Underway, Entities, Values
  <1>4. Reasons
    <2>1. push = Quiet /\ Named({NoRow}) = {}
      BY DEF Init, Named, NoRow
    <2> QED BY <2>1 DEF Reasons, Unsent, Heard, Reasoned, Quiet
  <1> QED BY <1>1, <1>2, <1>3, <1>4 DEF PimInv, Typed

(* What only a pull or an outsider changes leaves a push its reasons.        *)
LEMMA ReasonsKept == ASSUME Reasons, UNCHANGED <<push, world>> PROVE Reasons'
  BY DEF Reasons, Unsent, Heard, Reasoned, Lists, IsWhole, MasterOk, Known, PresenceFull

(* A step of a push, of the world that it reads, or of neither.              *)
LEMMA PushTypes ==
    ASSUME PimInv, AutoRun \/ HandApply \/ Apply \/ JudgeMaster \/ KillPush \/ WorldChanges
    PROVE  push' \in Push /\ Underway'
  <1>1. push \in Push /\ Underway /\ rows \subseteq Row
    BY DEF PimInv, Typed, TypeOK
  <1>2. CASE Begin \/ DiffWrite
    BY <1>1, <1>2 DEF Begin, DiffWrite, Step, Goes, Push, Places, Early, Underway
  <1>3. CASE DiffRead
    BY <1>1, <1>3 DEF DiffRead, Goes, Push, Places, Early, Underway, Judged
  <1>4. CASE DiffList
    BY <1>1, <1>4 DEF DiffList, Goes, Push, Places, Early, Underway, Listing
  <1>5. CASE ApproveAuto \/ HandApply
    <2>1. PICK S \in SUBSET Row :
             push' = [push EXCEPT !.pc = "next", !.todo = S, !.whole = Whole(S), !.denied = Unlisting(Whole(S))]
      <3>1. CASE ApproveAuto
        <4>1. PICK beside :
                 LET left == {r \in rows : r.old \/ Braked(r, beside)}
                     S == {[r EXCEPT !.status = "approved"] : r \in rows \ left}
                 IN  push' = [push EXCEPT !.pc = "next", !.todo = S, !.whole = Whole(S), !.denied = Unlisting(Whole(S))]
          BY <3>1 DEF ApproveAuto
        <4> DEFINE left == {r \in rows : r.old \/ Braked(r, beside)}
                   S == {[r EXCEPT !.status = "approved"] : r \in rows \ left}
        <4>2. S \in SUBSET Row
          BY <1>1, RowsStay
        <4> QED BY <4>1, <4>2
      <3>2. CASE HandApply
        <4>1. PICK old \in BOOLEAN :
                 LET S == {[r EXCEPT !.status = "approved"] : r \in {x \in rows : x.old = old}}
                 IN  push' = [push EXCEPT !.pc = "next", !.todo = S, !.whole = Whole(S), !.denied = Unlisting(Whole(S))]
          BY <3>2 DEF HandApply
        <4>2. {[r EXCEPT !.status = "approved"] : r \in {x \in rows : x.old = old}} \in SUBSET Row
          BY <1>1, RowsStay
        <4> QED BY <4>1, <4>2
      <3> QED BY <1>5, <3>1, <3>2
    <2>2. Whole(S) \in SUBSET Sources /\ Unlisting(Whole(S)) \in SUBSET Sources
      BY NamedAre
    <2> QED BY <1>1, <2>1, <2>2 DEF Push, Places, Underway
  <1>6. CASE JudgeMaster
    BY <1>1, <1>6 DEF JudgeMaster, MasterJudged, Goes, Push, Underway
  <1>7. CASE Check
    <2>1. CASE push.todo = {}
      BY <1>1, <1>7, <2>1 DEF Check, Step, Goes, Push, Places, Underway
    <2>2. CASE push.todo # {}
      <3>1. PICK r \in Row, p \in {"record", "look", "send"}, m \in {"unread", "whole", "short"},
                 w \in SUBSET Sources, d \in SUBSET Sources :
               push' = [push EXCEPT !.row = r, !.todo = @ \ {r}, !.applied = FALSE, !.pc = p,
                                    !.master = m, !.whole = w, !.denied = d]
        <4> DEFINE r == First(push.todo)
                   asks == r.action = "product_remove" /\ Exists(pim, "product") /\ Source(r) = "fdm4"
                   m == IF asks THEN MasterJudged ELSE push.master
                   w == (push.whole \ {"woo"}) \cup Whole(push.todo)
                   d == (push.denied \ {"woo"}) \cup Unlisting(w)
                   p == IF ~Holds(r) THEN "record" ELSE IF r.action = "product_remove" THEN "look" ELSE "send"
        <4>1. push' = [push EXCEPT !.row = r, !.todo = @ \ {r}, !.applied = FALSE, !.pc = p,
                                   !.master = m, !.whole = w, !.denied = d]
          BY <1>1, <1>7, <2>2 DEF Check, Push
        <4>2. r \in Row /\ p \in {"record", "look", "send"}
          BY <1>1, <2>2, FirstIsOne DEF Push
        <4>3. m \in {"unread", "whole", "short"}
          BY <1>1 DEF Push, MasterJudged
        <4>4. w \in SUBSET Sources
          BY <1>1, NamedAre DEF Push
        <4>5. d \in SUBSET Sources
          BY <1>1, <4>4 DEF Push, Unlisting
        <4> HIDE DEF r, m, w, d, p
        <4>6. \E ww \in SUBSET Sources, dd \in SUBSET Sources :
                 push' = [push EXCEPT !.row = r, !.todo = @ \ {r}, !.applied = FALSE, !.pc = p,
                                      !.master = m, !.whole = ww, !.denied = dd]
          BY <4>1, <4>4, <4>5
        <4> QED BY <4>2, <4>3, <4>6
      <3> QED BY <1>1, <3>1 DEF Push, Places, Underway
    <2> QED BY <2>1, <2>2
  <1>13. CASE Look
    BY <1>1, <1>13 DEF Look, Step, Goes, Push, Places, Underway
  <1>8. CASE ClearVariants
    BY <1>1, <1>8 DEF ClearVariants, Step, Goes, Push, Places, Underway
  <1>9. CASE Send
    <2>1. Accepts(push.row) \in BOOLEAN
      BY DEF Accepts, Exists
    <2> QED BY <1>1, <1>9, <2>1 DEF Send, Goes, Push, Places, Underway
  <1>10. CASE Record
    BY <1>1, <1>10 DEF Record, Goes, Push, Places, Underway
  <1>11. CASE End \/ KillPush
    <2>1. push' = Quiet /\ push'.pc = "idle"
      BY <1>11 DEF End, KillPush, Quiet
    <2> QED BY <2>1, QuietIsPush DEF Underway
  <1>12. CASE WorldChanges
    <2>1. PICK w \in SUBSET Sources, d \in SUBSET Sources : push' = [push EXCEPT !.whole = w, !.denied = d]
      <3> DEFINE w == push.whole \cup {s \in Named(push.todo \cup {push.row}) : IsWhole(s)'}
                 d == push.denied \cup {s \in w : ~Lists(s)'}
      <3>1. push' = [push EXCEPT !.whole = w, !.denied = d]
        BY <1>1, <1>12 DEF WorldChanges, Notice, Push
      <3>2. w \in SUBSET Sources
        BY <1>1, NamedAre DEF Push
      <3>3. d \in SUBSET Sources
        BY <1>1, <3>2 DEF Push
      <3> HIDE DEF w, d
      <3> QED BY <3>1, <3>2, <3>3
    <2> QED BY <1>1, <2>1 DEF Push, Underway
  <1> QED BY <1>2, <1>3, <1>4, <1>5, <1>6, <1>7, <1>8, <1>9, <1>10, <1>11, <1>12, <1>13 DEF AutoRun, Apply

(* What the sources say now is what they said before, and what they have     *)
(* said is on record.                                                        *)
LEMMA PushReasons ==
    ASSUME PimInv, AutoRun \/ HandApply \/ Apply \/ JudgeMaster \/ KillPush \/ WorldChanges
    PROVE  Reasons'
  <1>1. push \in Push /\ Reasons /\ rows \subseteq Row
    BY DEF PimInv, Typed, TypeOK
  <1>2. ASSUME UNCHANGED world PROVE \A s \in Sources : (IsWhole(s)' <=> IsWhole(s)) /\ (Lists(s)' <=> Lists(s))
    BY <1>2 DEF IsWhole, Lists, MasterOk, Known, PresenceFull
  <1>3. \A S : Named(S) \subseteq Sources
    BY NamedAre
  <1>4. push.whole \subseteq Sources
    BY <1>1 DEF Push
  <1>5. CASE Begin \/ DiffRead \/ DiffList \/ DiffWrite
    <2>1. /\ push.pc \in Early /\ push'.pc \in {"read", "list", "write", "approve"}
          /\ push'.todo = push.todo /\ push'.row = push.row /\ push'.master = push.master
          /\ push'.whole = push.whole /\ push'.denied = push.denied /\ UNCHANGED world
      BY <1>1, <1>5 DEF Begin, DiffRead, DiffList, DiffWrite, Step, Goes, Rest, Push, Early
    <2> QED BY <1>1, <1>2, <1>3, <1>4, <2>1 DEF Reasons, Unsent, Heard, Reasoned
  <1>6. CASE ApproveAuto \/ HandApply
    <2>1. PICK S : /\ push' = [push EXCEPT !.pc = "next", !.todo = S,
                                          !.whole = Whole(S), !.denied = Unlisting(Whole(S))]
                   /\ UNCHANGED world /\ push.pc \in Early
      BY <1>6 DEF ApproveAuto, HandApply, LockFree, Goes, Early
    <2>2. /\ push'.pc = "next" /\ push'.todo = S /\ push'.row = NoRow /\ push'.master = "unread"
          /\ push'.whole = Whole(S) /\ push'.denied = Unlisting(Whole(S))
      BY <1>1, <2>1 DEF Push, Reasons, Unsent
    <2>3. Named(S \cup {NoRow}) = Named(S)
      BY DEF Named, NoRow
    <2> QED BY <1>2, <1>3, <2>1, <2>2, <2>3 DEF Reasons, Unsent, Early, Heard, Reasoned, Whole, Unlisting
  <1>7. CASE Check
    <2>0. UNCHANGED world
      BY <1>7 DEF Check
    <2>1. CASE push.todo = {}
      <3>1. /\ push'.pc = "end" /\ push'.todo = push.todo /\ push'.row = push.row /\ push'.master = push.master
            /\ push'.whole = push.whole /\ push'.denied = push.denied
        BY <1>1, <1>7, <2>1 DEF Check, Step, Push
      <3> QED BY <1>1, <1>2, <1>3, <1>4, <2>0, <3>1 DEF Reasons, Unsent, Early, Heard, Reasoned
    <2>2. CASE push.todo # {}
      <3> DEFINE r == First(push.todo)
                 asks == r.action = "product_remove" /\ Exists(pim, "product") /\ Source(r) = "fdm4"
                 m == IF asks THEN MasterJudged ELSE push.master
                 w == (push.whole \ {"woo"}) \cup Whole(push.todo)
                 d == (push.denied \ {"woo"}) \cup Unlisting(w)
                 p == IF ~Holds(r) THEN "record" ELSE IF r.action = "product_remove" THEN "look" ELSE "send"
      <3>1. push' = [push EXCEPT !.row = r, !.todo = @ \ {r}, !.applied = FALSE, !.pc = p,
                                 !.master = m, !.whole = w, !.denied = d]
        BY <1>1, <1>7, <2>2 DEF Check, Push
      <3>2. r \in push.todo
        BY <1>1, <2>2, FirstIsOne DEF Push
      <3>3. p \in {"record", "look", "send"} /\ (p = "look" => r.action = "product_remove" /\ Holds(r))
            /\ (p = "send" => r.action # "product_remove")
        OBVIOUS
      <3>4. r.action = "product_remove" /\ Holds(r) => Source(r) \in w
        BY <1>1, <3>2, LookedAtIsWhole DEF Reasons
      <3>5. \A s \in Named(push.todo) : IsWhole(s) => s \in w
        BY DEF Whole
      <3>6. \A s \in w : Lists(s) \/ s \in d
        BY DEF Unlisting
      <3>7. m = "whole" => "fdm4" \in w
        <4>1. CASE push.master = "whole"
          BY <1>1, <4>1 DEF Reasons, Heard
        <4>2. CASE asks /\ MasterOk
          BY <3>2, <3>5, <4>2, NamedAre DEF IsWhole
        <4>3. CASE push.master # "whole" /\ ~(asks /\ MasterOk)
          BY <4>3 DEF MasterJudged
        <4> QED BY <4>1, <4>2, <4>3
      <3>8. w \subseteq Sources
        BY <1>4, NamedAre
      <3> HIDE DEF r, m, w, d, p
      <3>9. /\ push'.pc = p /\ push'.row = r /\ push'.todo = push.todo \ {r} /\ push'.master = m
            /\ push'.whole = w /\ push'.denied = d
        BY <1>1, <3>1 DEF Push
      <3>10. (push.todo \ {r}) \cup {r} = push.todo
        BY <3>2
      <3>11. Heard'
        BY <1>2, <1>3, <2>0, <3>5, <3>6, <3>7, <3>8, <3>9, <3>10 DEF Heard
      <3>12. Unsent' /\ Reasoned'
        BY <3>3, <3>4, <3>9 DEF Unsent, Early, Reasoned
      <3> QED BY <3>11, <3>12 DEF Reasons
    <2> QED BY <2>1, <2>2
  <1>8. CASE JudgeMaster
    <2>1. /\ push.pc = "next" /\ push'.pc = "next" /\ push'.todo = push.todo /\ push'.row = push.row
          /\ push'.whole = push.whole /\ push'.denied = push.denied /\ UNCHANGED world
          /\ push'.master = "whole" => MasterOk /\ "fdm4" \in Named(push.todo)
      BY <1>1, <1>8 DEF JudgeMaster, MasterJudged, Goes, Push
    <2>2. Named(push.todo) \subseteq Named(push.todo \cup {push.row})
      BY NamedAre
    <2> QED BY <1>1, <1>2, <1>3, <1>4, <2>1, <2>2 DEF Reasons, Unsent, Early, Heard, Reasoned, IsWhole
  <1>9. CASE Look \/ ClearVariants
    <2>1. /\ push'.todo = push.todo /\ push'.row = push.row /\ push'.master = push.master
          /\ push'.whole = push.whole /\ push'.denied = push.denied /\ UNCHANGED world
          /\ \/ push.pc = "look" /\ push'.pc = "clear" /\ ~Lists(Source(push.row))
             \/ push'.pc = "record"
             \/ push.pc = "clear" /\ push'.pc = "send"
      BY <1>1, <1>9 DEF Look, ClearVariants, StillUnlisted, Step, Goes, Push
    <2> QED BY <1>1, <1>2, <1>3, <1>4, <2>1 DEF Reasons, Unsent, Early, Heard, Reasoned
  <1>10. CASE Send
    <2>1. /\ push'.pc = "record" /\ push'.todo = push.todo /\ push'.row = push.row /\ push'.master = push.master
          /\ push'.whole = push.whole /\ push'.denied = push.denied /\ UNCHANGED world
      BY <1>1, <1>10 DEF Send, Push
    <2> QED BY <1>1, <1>2, <1>3, <1>4, <2>1 DEF Reasons, Unsent, Early, Heard, Reasoned
  <1>11. CASE Record
    <2>1. /\ push'.pc = "next" /\ push'.todo = push.todo /\ push'.row = NoRow /\ push'.master = push.master
          /\ push'.whole = push.whole /\ push'.denied = push.denied /\ UNCHANGED world
      BY <1>1, <1>11 DEF Record, Push
    <2>2. Named(push.todo \cup {NoRow}) \subseteq Named(push.todo \cup {push.row})
      BY DEF Named, NoRow
    <2> QED BY <1>1, <1>2, <1>3, <1>4, <2>1, <2>2 DEF Reasons, Unsent, Early, Heard, Reasoned
  <1>12. CASE End \/ KillPush
    <2>1. push' = Quiet /\ Named({} \cup {NoRow}) = {}
      BY <1>12 DEF End, KillPush, Named, NoRow
    <2> QED BY <2>1 DEF Reasons, Unsent, Heard, Reasoned, Quiet
  <1>13. CASE WorldChanges
    <2> DEFINE w == push.whole \cup {s \in Named(push.todo \cup {push.row}) : IsWhole(s)'}
               d == push.denied \cup {s \in w : ~Lists(s)'}
    <2>1. push' = [push EXCEPT !.whole = w, !.denied = d]
      BY <1>1, <1>13 DEF WorldChanges, Notice, Push
    <2>2. /\ \A s \in Named(push.todo \cup {push.row}) : IsWhole(s)' => s \in w
          /\ \A s \in w : Lists(s)' \/ s \in d
          /\ push.whole \subseteq w /\ push.denied \subseteq d
      OBVIOUS
    <2> HIDE DEF w, d
    <2>3. /\ push'.pc = push.pc /\ push'.todo = push.todo /\ push'.row = push.row /\ push'.master = push.master
          /\ push'.whole = w /\ push'.denied = d
      BY <1>1, <2>1 DEF Push
    <2> QED BY <1>1, <2>2, <2>3 DEF Reasons, Unsent, Heard, Reasoned
  <1> QED BY <1>5, <1>6, <1>7, <1>8, <1>9, <1>10, <1>11, <1>12, <1>13 DEF AutoRun, Apply

(* The PIM stays a catalogue, and only what is in it can have changed.       *)
Pims == /\ pim \in Catalogue /\ (pim.variant.attached => pim.product # "none")
        /\ dirty \subseteq {e \in Entities : Exists(pim, e)}

LEMMA PimTypes == ASSUME PimInv, [Next]_vars PROVE Pims'
  <1>1. pim \in Catalogue /\ (pim.variant.attached => pim.product # "none")
        /\ dirty \subseteq {e \in Entities : Exists(pim, e)} /\ dirty \subseteq Entities
    BY DEF PimInv, Typed, TypeOK, Catalogue
  <1>2. CASE UNCHANGED <<pim, dirty>>
    BY <1>1, <1>2 DEF Pims, Exists
  <1>3. CASE ClearVariants
    <2>1. CASE pim.variant.attached
      <3>1. pim' = Absent(pim, "variant") /\ dirty' = dirty \ {"variant"}
        BY <1>3, <2>1 DEF ClearVariants
      <3> QED BY <1>1, <3>1 DEF Pims, Absent, NoVariant, Catalogue, Product, Variant, Exists, Entities
    <2>2. CASE ~pim.variant.attached
      BY <1>1, <1>3, <2>2 DEF ClearVariants, Pims, Exists
    <2> QED BY <2>1, <2>2
  <1>4. CASE Send
    <2>1. push.row.action \in Actions
      BY <1>4 DEF PimInv, Typed, Underway, Send, Goes, Row
    <2>2. pim' \in Catalogue /\ (pim'.variant.attached => pim'.product # "none")
      BY <1>1, <1>4, <2>1, SentKeeps DEF Send
    <2>3. dirty' = (dirty \cup Touched(pim, pim')) \ Gone(pim')
      BY <1>4 DEF Send
    <2> QED BY <1>1, <2>2, <2>3 DEF Pims, Touched, Gone, Exists
  <1>5. CASE TeamEdits
    <2>1. pim' \in Catalogue /\ (pim'.variant.attached => pim'.product # "none")
      <3>1. CASE pim' \in {Sent([action |-> "product_remove"]), Sent([action |-> "variant_orphan_remove"])}
        <4>1. /\ Sent([action |-> "product_remove"])
                   = [product |-> "none", variant |-> Detached(pim.variant)]
              /\ Sent([action |-> "variant_orphan_remove"]) = Absent(pim, "variant")
          BY DEF Sent
        <4>2. Detached(pim.variant) \in Variant /\ ~Detached(pim.variant).attached
          BY <1>1 DEF Detached, Catalogue, Variant
        <4>3. CASE pim' = [product |-> "none", variant |-> Detached(pim.variant)]
          BY <4>2, <4>3 DEF Catalogue, Product
        <4>4. CASE pim' = Absent(pim, "variant")
          BY <1>1, <4>4 DEF Absent, NoVariant, Catalogue, Product, Variant
        <4> QED BY <3>1, <4>1, <4>3, <4>4
      <3>2. CASE pim' \in {[pim EXCEPT !.product = IF @ = "V" THEN "D" ELSE @],
                           [pim EXCEPT !.variant.stat = IF @ = "V" THEN "D" ELSE @]}
        BY <1>1, <3>2 DEF Catalogue, Product, Variant
      <3> QED BY <1>5, <3>1, <3>2 DEF TeamEdits
    <2>2. dirty' = (dirty \cup Touched(pim, pim')) \ Gone(pim')
      BY <1>5 DEF TeamEdits
    <2> QED BY <1>1, <2>1, <2>2 DEF Pims, Touched, Gone, Exists
  <1>6. CASE \E q \in Pullers : PullStep(q) \/ KillPull(q)
    <2>1. pim' = pim
      BY <1>6 DEF PullStep, Walk, Store, KillPull, PullRest
    <2>2. dirty' \subseteq {e \in Entities : Exists(pim, e)}
      <3>1. PICK q \in Pullers : PullStep(q) \/ KillPull(q)
        BY <1>6
      <3>2. CASE \E e \in Entities : Walk(q, e) \/ Store(q, e)
        BY <1>1, <3>2 DEF Walk, Store
      <3>3. CASE KillPull(q)
        <4>1. pull[q].entity \in Entities
          BY <3>1 DEF PimInv, Typed, Pulls
        <4>2. dirty' = (dirty \cup Unread(q)) \ Gone(pim)
          BY <3>3 DEF KillPull
        <4> QED BY <1>1, <4>1, <4>2 DEF Unread, Gone
      <3> QED BY <3>1, <3>2, <3>3 DEF PullStep
    <2> QED BY <1>1, <2>1, <2>2 DEF Pims, Exists
  <1>7. CASE AutoRun \/ HandApply \/ KillPush \/ RequestedPull \/ WorldChanges
             \/ \E full \in BOOLEAN : BeginPull(full)
    <2>1. UNCHANGED <<pim, dirty>>
      BY <1>1, <1>7 DEF AutoRun, Begin, DiffRead, DiffList, DiffWrite, ApproveAuto, HandApply, KillPush,
                        RequestedPull, WorldChanges, BeginPull, PullRest
    <2> QED BY <2>1, <1>2
  <1>8. CASE Check \/ JudgeMaster \/ Look \/ Record \/ End
    <2>1. UNCHANGED <<pim, dirty>>
      BY <1>8 DEF Check, JudgeMaster, Look, Record, End
    <2> QED BY <2>1, <1>2
  <1>9. CASE UNCHANGED vars
    BY <1>2, <1>9 DEF vars
  <1> QED BY <1>3, <1>4, <1>5, <1>6, <1>7, <1>8, <1>9 DEF Next, Apply

(* Only two pulls and the record of a removal write the mirror.              *)
LEMMA PageIsTyped ==
    ASSUME Pulls, NEW q \in Pullers, NEW e \in Entities, pull[q].entity = e, pull[q].page # {}
    PROVE  (CHOOSE v \in pull[q].page : TRUE) \in Values(e)
  BY DEF Pulls

LEMMA AbsentIsOne ==
    ASSUME NEW cat \in Catalogue, NEW e \in Entities
    PROVE  Absent(cat, e) \in Catalogue
  BY DEF Absent, NoVariant, Catalogue, Product, Variant, Entities

LEMMA MirrorTypes == ASSUME PimInv, [Next]_vars PROVE mirror' \in Catalogue
  <1>1. mirror \in Catalogue /\ Pulls
    BY DEF PimInv, Typed, TypeOK, Catalogue
  <1>2. CASE Record
    <2>1. "variant" \in Entities
      BY DEF Entities
    <2>2. Retired(push.row) \in Catalogue
      <3>1. CASE push.row.action = "product_remove"
        BY <1>1, <3>1 DEF Retired, Catalogue, Product, Variant, NoVariant
      <3>2. CASE push.row.action = "variant_orphan_remove"
        <4>1. Retired(push.row) = Absent(mirror, "variant")
          BY <3>2 DEF Retired
        <4> QED BY <1>1, <2>1, <4>1, AbsentIsOne
      <3>3. CASE push.row.action \notin {"product_remove", "variant_orphan_remove"}
        <4>1. Retired(push.row) = mirror
          BY <3>3 DEF Retired
        <4> QED BY <1>1, <4>1
      <3> QED BY <3>1, <3>2, <3>3
    <2> QED BY <1>1, <1>2, <2>2 DEF Record
  <1>3. CASE \E q \in Pullers, e \in Entities : Store(q, e)
    <2>1. PICK q \in Pullers, e \in Entities : Store(q, e)
      BY <1>3
    <2>2. pull[q].entity = e
      BY <2>1 DEF Store, Storing
    <2>3. CASE pull[q].page # {}
      <3> DEFINE v == CHOOSE v \in pull[q].page : TRUE
      <3>1. mirror' = [mirror EXCEPT ![e] = v]
        BY <2>1, <2>3 DEF Store
      <3>2. v \in Values(e)
        BY <1>1, <2>2, <2>3, PageIsTyped
      <3> HIDE DEF v
      <3>3. CASE e = "product"
        BY <1>1, <3>1, <3>2, <3>3 DEF Values, Catalogue
      <3>4. CASE e = "variant"
        BY <1>1, <3>1, <3>2, <3>4 DEF Values, Catalogue
      <3> QED BY <3>3, <3>4 DEF Entities
    <2>4. CASE pull[q].page = {}
      BY <1>1, <2>1, <2>4, AbsentIsOne DEF Store, RetireMissing
    <2> QED BY <2>3, <2>4
  <1>4. CASE ~ Record /\ ~ \E q \in Pullers, e \in Entities : Store(q, e)
    <2>1. UNCHANGED mirror
      BY <1>4 DEF Next, vars, AutoRun, Begin, DiffRead, DiffList, DiffWrite, ApproveAuto, HandApply, Apply, JudgeMaster, Check, Look,
                  ClearVariants, Send, End, KillPush, BeginPull, PullStep, Walk, KillPull,
                  RequestedPull, WorldChanges, TeamEdits
    <2> QED BY <1>1, <2>1
  <1> QED BY <1>2, <1>3, <1>4

(* A pull goes to another place with a page of its own kind.                 *)
LEMMA PullsAfter ==
    ASSUME pull \in [Pullers -> Pull], Paged, NEW q \in Pullers, NEW p \in Pull,
           p.page \subseteq Values(p.entity), pull' = [pull EXCEPT ![q] = p]
    PROVE  Pulls'
  <1>1. pull' \in [Pullers -> Pull]
    OBVIOUS
  <1>2. \A r \in Pullers : pull'[r] = IF r = q THEN p ELSE pull[r]
    OBVIOUS
  <1>3. Paged'
    BY <1>2 DEF Paged, Values
  <1> QED BY <1>1, <1>3, PullsAre

(* A walk reads one kind of thing into its page.                             *)
LEMMA PullTypes == ASSUME PimInv, [Next]_vars PROVE Pulls'
  <1>1. Pulls /\ pim \in Catalogue
    BY DEF PimInv, Typed, TypeOK, Catalogue
  <1>2. pull \in [Pullers -> Pull] /\ Paged
    BY <1>1, PullsAre
  <1>3. AtRest \in Pull /\ AtRest.page = {}
    BY DEF AtRest, Pull, Entities
  <1>4. CASE \E q \in Pullers, e \in Entities : Walk(q, e)
    <2>1. PICK q \in Pullers, e \in Entities : Walk(q, e)
      BY <1>4
    <2>2. PICK page : /\ page = {} \/ page = {pim[e]}
                      /\ pull' = [pull EXCEPT ![q].pc = "store", ![q].page = page]
      BY <2>1 DEF Walk
    <2>3. page \subseteq Values(e) /\ page \subseteq Product \cup Variant /\ pull[q].entity = e
      BY <1>1, <2>1, <2>2 DEF Values, Catalogue, Walk, Fetching, Entities
    <2> DEFINE p == [pull[q] EXCEPT !.pc = "store", !.page = page]
    <2>4. pull' = [pull EXCEPT ![q] = p]
      BY <1>2, <2>2
    <2>5. p \in Pull /\ p.page = page /\ p.entity = e
      BY <1>2, <2>3 DEF Pull
    <2> HIDE DEF p
    <2> QED BY <1>2, <2>3, <2>4, <2>5, PullsAfter
  <1>5. CASE \E q \in Pullers, e \in Entities : Store(q, e)
    <2>1. PICK q \in Pullers, e \in Entities : Store(q, e)
      BY <1>5
    <2>2. PICK p : /\ pull' = [pull EXCEPT ![q] = p]
                   /\ p.page = {} /\ p \in Pull
      <3>1. CASE e = "product"
        <4> DEFINE p == [pull[q] EXCEPT !.pc = "fetch", !.entity = "variant", !.page = {}]
        <4>1. pull' = [pull EXCEPT ![q] = p]
          BY <2>1, <3>1 DEF Store, Turn
        <4>2. p \in Pull /\ p.page = {}
          BY <1>2 DEF Pull, Entities
        <4> HIDE DEF p
        <4> QED BY <4>1, <4>2
      <3>2. CASE e = "variant" /\ q = "cron"
        BY <1>2, <1>3, <2>1, <3>2 DEF Store
      <3>3. CASE e = "variant" /\ q # "cron"
        <4>1. [AtRest EXCEPT !.pc = "done"] \in Pull /\ [AtRest EXCEPT !.pc = "done"].page = {}
          BY <1>3 DEF Pull
        <4> QED BY <2>1, <3>3, <4>1 DEF Store, Entities
      <3> QED BY <3>1, <3>2, <3>3 DEF Entities
    <2> QED BY <1>2, <2>2, PullsAfter
  <1>6. CASE \E q \in Pullers : KillPull(q)
    <2>1. PICK q \in Pullers : pull' = [pull EXCEPT ![q] = AtRest]
      BY <1>6 DEF KillPull
    <2> QED BY <1>2, <1>3, <2>1, PullsAfter
  <1>7. CASE Begin \/ RequestedPull \/ \E full \in BOOLEAN : BeginPull(full)
    <2>1. PICK q \in Pullers, p \in Pull : pull' = [pull EXCEPT ![q] = p] /\ p.page = {}
      <3>1. CASE Begin
        BY <1>3, <3>1 DEF Begin, Pullers
      <3>2. CASE RequestedPull
        <4>1. [AtRest EXCEPT !.pc = "fetch"] \in Pull /\ [AtRest EXCEPT !.pc = "fetch"].page = {}
          BY <1>3 DEF Pull
        <4> QED BY <3>2, <4>1 DEF RequestedPull, Entities, Pullers
      <3>3. CASE \E full \in BOOLEAN : BeginPull(full)
        <4>1. PICK full \in BOOLEAN : BeginPull(full)
          BY <3>3
        <4>2. /\ [AtRest EXCEPT !.pc = "fetch", !.full = full] \in Pull
              /\ [AtRest EXCEPT !.pc = "fetch", !.full = full].page = {}
          BY <1>3 DEF Pull
        <4> QED BY <4>1, <4>2 DEF BeginPull, Entities, Pullers
      <3> QED BY <1>7, <3>1, <3>2, <3>3
    <2> QED BY <1>2, <2>1, PullsAfter
  <1>8. CASE UNCHANGED pull
    BY <1>1, <1>8 DEF Pulls
  <1>9. CASE DiffRead \/ DiffList \/ DiffWrite \/ ApproveAuto \/ HandApply \/ Apply \/ JudgeMaster \/ KillPush
             \/ WorldChanges \/ TeamEdits \/ UNCHANGED vars
    <2>1. UNCHANGED pull
      BY <1>9 DEF vars, DiffRead, DiffList, DiffWrite, ApproveAuto, HandApply, Apply, JudgeMaster, Check, Look,
                  ClearVariants, Send, Record, End, KillPush, WorldChanges, TeamEdits, Rest
    <2> QED BY <2>1, <1>8
  <1> QED BY <1>4, <1>5, <1>6, <1>7, <1>9 DEF Next, AutoRun, PullStep

(* Proposals are rows, and stay rows.                                        *)
LEMMA RowTypes == ASSUME PimInv, [Next]_vars PROVE rows' \subseteq Row
  <1>1. rows \subseteq Row
    BY DEF PimInv, Typed, TypeOK
  <1>2. CASE Begin
    BY <1>1, <1>2, RowsStay DEF Begin
  <1>3. CASE DiffWrite
    BY <1>1, <1>3, DiffIsRows DEF DiffWrite
  <1>4. CASE ApproveAuto
    <2>1. PICK beside :
             LET left == {r \in rows : r.old \/ Braked(r, beside)}
             IN  rows' = left \cup {[r EXCEPT !.status = "approved"] : r \in rows \ left}
      BY <1>4 DEF ApproveAuto
    <2> DEFINE left == {r \in rows : r.old \/ Braked(r, beside)}
    <2>2. {[r EXCEPT !.status = "approved"] : r \in rows \ left} \subseteq Row
      BY <1>1, RowsStay
    <2> QED BY <1>1, <2>1, <2>2
  <1>5. CASE HandApply
    <2>1. PICK old \in BOOLEAN :
             rows' = {r \in rows : r.old # old}
                       \cup {[r EXCEPT !.status = "approved"] : r \in {x \in rows : x.old = old}}
      BY <1>5 DEF HandApply
    <2>2. {[r EXCEPT !.status = "approved"] : r \in {x \in rows : x.old = old}} \subseteq Row
      BY <1>1, RowsStay
    <2> QED BY <1>1, <2>1, <2>2
  <1>6. CASE Record
    BY <1>1, <1>6 DEF Record
  <1>7. CASE ~ (Begin \/ DiffWrite \/ ApproveAuto \/ HandApply \/ Record)
    <2>1. UNCHANGED rows
      BY <1>7 DEF Next, vars, AutoRun, DiffRead, DiffList, Apply, JudgeMaster, Check, Look, ClearVariants, Send, End, KillPush,
                  BeginPull, PullStep, Walk, Store, KillPull, RequestedPull, WorldChanges, TeamEdits,
                  PullRest
    <2> QED BY <1>1, <2>1
  <1> QED BY <1>2, <1>3, <1>4, <1>5, <1>6, <1>7

LEMMA WorldTypes == ASSUME PimInv, [Next]_vars PROVE world' \in World
  <1>1. world \in World
    BY DEF PimInv, Typed
  <1>2. CASE WorldChanges
    BY <1>1, <1>2 DEF WorldChanges, World
  <1>3. CASE ~ WorldChanges
    <2>1. UNCHANGED world
      BY <1>3 DEF Next, vars, AutoRun, Begin, DiffRead, DiffList, DiffWrite, ApproveAuto, HandApply, Apply, JudgeMaster, Check, Look,
                  ClearVariants, Send, Record, End, KillPush, BeginPull, PullStep, Walk, Store,
                  KillPull, RequestedPull, TeamEdits, PullRest
    <2> QED BY <1>1, <2>1
  <1> QED BY <1>2, <1>3

(* A requested pull and a push take turns.                                   *)
TakeTurns == pull["worker"].pc \in {"fetch", "store"} => Goes("idle")

LEMMA TurnsTaken == ASSUME PimInv, [Next]_vars PROVE TakeTurns'
  <1>1. /\ push \in Push /\ pull \in [Pullers -> Pull] /\ "worker" \in Pullers /\ "cron" \in Pullers
        /\ pull["worker"].pc \in {"fetch", "store"} => push.pc = "idle"
    BY PullsAre DEF PimInv, Typed, TypeOK, Goes, Pullers
  <1> USE DEF TakeTurns, Goes
  <1>2. CASE Begin
    <2>1. pull' = [pull EXCEPT !["worker"] = AtRest]
      BY <1>2 DEF Begin
    <2> QED BY <1>1, <2>1 DEF AtRest
  <1>3. CASE HandApply
    BY <1>1, <1>3 DEF HandApply, LockFree, Rest
  <1>4. CASE RequestedPull
    BY <1>1, <1>4 DEF RequestedPull, LockFree, PullRest
  <1>5. CASE \E full \in BOOLEAN : BeginPull(full)
    <2>1. pull'["worker"] = pull["worker"] /\ push' = push
      BY <1>1, <1>5 DEF BeginPull, PullRest
    <2> QED BY <1>1, <2>1
  <1>6. CASE \E q \in Pullers, e \in Entities : Walk(q, e) \/ Store(q, e)
    <2>1. PICK q \in Pullers, e \in Entities : Walk(q, e) \/ Store(q, e)
      BY <1>6
    <2>2. push' = push /\ pull[q].pc \in {"fetch", "store"}
      BY <2>1 DEF Walk, Store, PullRest, Fetching, Storing
    <2>3. CASE q = "worker"
      BY <1>1, <2>2, <2>3
    <2>4. CASE q # "worker"
      <3>1. PICK p : pull' = [pull EXCEPT ![q] = p]
        <4>1. CASE Walk(q, e)
          BY <1>1, <4>1 DEF Walk, Pull
        <4>2. CASE Store(q, e)
          BY <4>2 DEF Store
        <4> QED BY <2>1, <4>1, <4>2
      <3> QED BY <1>1, <2>2, <2>4, <3>1
    <2> QED BY <2>3, <2>4
  <1>7. CASE \E q \in Pullers : KillPull(q)
    BY <1>1, <1>7 DEF KillPull, AtRest
  <1>8. CASE DiffRead \/ DiffList \/ DiffWrite \/ ApproveAuto \/ Check \/ JudgeMaster \/ Look \/ ClearVariants \/ Send \/ Record \/ End \/ KillPush
    <2>1. pull' = pull
      BY <1>8 DEF DiffRead, DiffList, DiffWrite, ApproveAuto, Check, JudgeMaster, Look, ClearVariants, Send, Record, End, KillPush, Rest
    <2>2. push.pc # "idle" \/ push' = Quiet
      BY <1>8 DEF DiffRead, DiffList, DiffWrite, ApproveAuto, Check, JudgeMaster, Look, ClearVariants, Send, Record, End, KillPush
    <2> QED BY <1>1, <2>1, <2>2 DEF Quiet
  <1>9. CASE WorldChanges
    BY <1>1, <1>9 DEF WorldChanges, Notice, Push
  <1>10. CASE TeamEdits \/ UNCHANGED vars
    BY <1>1, <1>10 DEF TeamEdits, vars
  <1> QED BY <1>2, <1>3, <1>4, <1>5, <1>6, <1>7, <1>8, <1>9, <1>10 DEF Next, AutoRun, Apply, PullStep

(* A step that neither the push nor the world takes part in.                 *)
LEMMA PushKept ==
    ASSUME PimInv, UNCHANGED <<push, world>> PROVE push' \in Push /\ Underway' /\ Reasons'
  BY ReasonsKept DEF PimInv, Typed, Underway

LEMMA PimStep == PimInv /\ [Next]_vars => PimInv'
  <1> SUFFICES ASSUME PimInv, [Next]_vars PROVE PimInv'
    OBVIOUS
  <1>1. push' \in Push /\ Underway' /\ Reasons'
    <2>1. CASE AutoRun \/ HandApply \/ Apply \/ JudgeMaster \/ KillPush \/ WorldChanges
      BY <2>1, PushTypes, PushReasons
    <2>2. CASE ~ (AutoRun \/ HandApply \/ Apply \/ JudgeMaster \/ KillPush \/ WorldChanges)
      <3>1. UNCHANGED <<push, world>>
        BY <2>2 DEF Next, vars, BeginPull, PullStep, Walk, Store, KillPull, RequestedPull, TeamEdits, PullRest
      <3> QED BY <3>1, PushKept
    <2> QED BY <2>1, <2>2
  <1>2. TypeOK'
    BY PimTypes, MirrorTypes, RowTypes, TurnsTaken DEF TypeOK, Pims, TakeTurns, Catalogue, Goes
  <1> QED BY <1>1, <1>2, WorldTypes, PullTypes DEF PimInv, Typed

-----------------------------------------------------------------------------
(* A push deletes a product only where the source its row names was whole    *)
(* since the push began to send (the presence set: since it took up the row) *)
(* and then or later did not list the product, whatever an earlier diff      *)
(* proposed or a person approved, and whatever the sources, pulls, other     *)
(* people, failures and kills do in between (apply_row of push_pim.py looks  *)
(* the reason of a removal up again, in two statements, before it sends it). *)
THEOREM NoneGoesUnasked == Spec => SparedStays
  <1>1. Init => PimInv
    BY InitPim
  <1>2. PimInv /\ [Next]_vars => PimInv'
    BY PimStep
  <1>3. PimInv => TypeOK
    BY DEF PimInv, Typed
  <1>4. PimInv /\ [Next]_vars =>
          [Goes("send") /\ push'.pc = "record" /\ pim.product # "none" /\ pim'.product = "none"
             => push.row.action = "product_remove" /\ Source(push.row) \in push.denied]_vars
    <2> SUFFICES ASSUME PimInv, Next, push.pc = "send", push'.pc = "record",
                        pim.product # "none", pim'.product = "none"
                 PROVE  push.row.action = "product_remove" /\ Source(push.row) \in push.denied
      BY DEF Goes
    <2>1. CASE Send
      <3>1. /\ push.row.action \in Actions
            /\ pim \in Catalogue /\ (pim.variant.attached => pim.product # "none")
        BY DEF PimInv, Typed, TypeOK, Catalogue, Underway, Row
      <3>2. push.row.action = "product_remove"
        BY <2>1, <3>1, SentKeeps DEF Send
      <3> QED BY <3>2 DEF PimInv, Reasons, Reasoned
    <2>2. CASE TeamEdits
      <3>1. push' = push
        BY <2>2 DEF TeamEdits
      <3> QED BY <3>1
    <2>3. CASE Check \/ JudgeMaster \/ Look \/ ClearVariants \/ Record
      BY <2>3 DEF Check, JudgeMaster, Look, ClearVariants, Record, Goes
    <2>4. CASE WorldChanges \/ RequestedPull \/ End \/ KillPush
      <3>1. UNCHANGED pim
        BY <2>4 DEF WorldChanges, RequestedPull, End, KillPush, PullRest
      <3> QED BY <3>1
    <2>5. CASE AutoRun \/ HandApply
      <3>1. UNCHANGED pim
        BY <2>5 DEF AutoRun, Begin, DiffRead, DiffList, DiffWrite, ApproveAuto, HandApply
      <3> QED BY <3>1
    <2>6. CASE \/ \E full \in BOOLEAN : BeginPull(full)
               \/ \E q \in Pullers : PullStep(q) \/ KillPull(q)
      <3>1. UNCHANGED pim
        BY <2>6 DEF BeginPull, PullStep, Walk, Store, KillPull, PullRest
      <3> QED BY <3>1
    <2> QED BY <2>1, <2>2, <2>3, <2>4, <2>5, <2>6 DEF Next, Apply
  <1> QED BY <1>1, <1>2, <1>3, <1>4, PTL DEF Spec, SparedStays
==============================================================================
