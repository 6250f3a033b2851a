------------------------------- MODULE PimPush -------------------------------
(* The PIM and its mirror (infra/push_pim.py, pull_pim.py,                   *)
(* pim_push_worker.py, logo-admin/routes_pim.py).                            *)
(*                                                                           *)
(* A pull copies what changed in the PIM into pim.api_*; a push compares     *)
(* that mirror with FDM4 and with what the Woo stores carry, writes a change *)
(* set and sends it row by row, each row checked against the PIM first.  The *)
(* hourly push and the worker of the app take one lock, the hourly pull      *)
(* another; a person at a shell waits for both.  One product with one        *)
(* variant stands for the catalogue: rows of different products never read   *)
(* one another, except that they share the brakes and the judgement of FDM4. *)
EXTENDS Integers, FiniteSets

CONSTANTS
    MaxFlips,      \* PIM_AUTO_MAX_FLIPS
    MaxRemovals,   \* PIM_AUTO_MAX_REMOVALS
    MaxOrphans,    \* PIM_AUTO_MAX_ORPHANS
    MaxBeside,     \* bound: rows of one kind that a diff proposes for other products
    RetirePercent, \* RETIRE_MAX_FRACTION
    OtherRows,     \* rows of the mirror beside the product's or the variant's
    MaxChanges,    \* bound: changes of Woo, FDM4 and the PIM by others
    MaxFaults      \* bound: failed or unanswered calls, processes killed

ASSUME PimAssumption ==
    /\ RetirePercent \in 0..100
    /\ {MaxFlips, MaxRemovals, MaxOrphans, MaxBeside} \subseteq Nat
    /\ {OtherRows, MaxChanges, MaxFaults} \subseteq Nat

VARIABLES
    pim,       \* the product and its variant in Sales Layer
    dirty,     \* which of them changed after the watermark of the mirror
    mirror,    \* pim.api_product, pim.api_variant; "none": absent or retired
    world,     \* pim.woo_presence and fdm4.item
    rows,      \* rows of pim.push_change_row that are not finished
    push,      \* the push that runs
    pull,      \* who pulls: the cron job, and a requested push
    changes, faults

vars == <<pim, dirty, mirror, world, rows, push, pull, changes, faults>>

Entities == {"product", "variant"}
Product == {"none", "D", "V"}                  \* prod_stat
Variant == [stat : {"none", "D", "V"}, attached : BOOLEAN, colour : BOOLEAN]
NoVariant == [stat |-> "none", attached |-> FALSE, colour |-> FALSE]
Catalogue == [product : Product, variant : Variant]
Exists(cat, e) == IF e = "product" THEN cat.product # "none" ELSE cat.variant.stat # "none"
Absent(cat, e) == IF e = "product" THEN [cat EXCEPT !.product = "none"]
                  ELSE [cat EXCEPT !.variant = NoVariant]

Removals == {"product_remove", "variant_orphan_remove"}
Flips == {"product_publish", "variant_publish"}
Brakes == {"flips", "removals", "orphans"}
Order == <<"product_create", "color_fix", "variant_create", "product_publish", "variant_publish",
           "product_remove", "variant_orphan_remove">>
Actions == {Order[i] : i \in DOMAIN Order}
Row == [action : Actions, about : {"", "visible", "draft", "not live in Woo", "not in FDM4"},
        status : {"proposed", "approved"}, old : BOOLEAN]
NoRow == [action |-> "none"]

(* master: _fdm4_master_ok of the process.  whole and denied are history:    *)
(* the sources that were whole at some moment since this process began to    *)
(* send (the presence set: since it took up its row), and those of them that *)
(* then, or later, did not list the product.                                 *)
Sources == {"fdm4", "woo"}
Quiet == [pc |-> "idle", todo |-> {}, row |-> NoRow, seen |-> {}, applied |-> FALSE,
          master |-> "unread", whole |-> {}, denied |-> {}]
Pullers == {"cron", "worker"}
AtRest == [pc |-> "idle", entity |-> "product", full |-> FALSE, page |-> {}]

-----------------------------------------------------------------------------
(* What the sources say.                                                     *)

PresenceOk == world.presence \in {"full", "short"}
PresenceFull == world.presence = "full"
MasterOk == world.master
Known == world.known

Wanted == PresenceFull /\ world.carried /\ MasterOk /\ Known
Unwanted == (MasterOk /\ ~Known) \/ (PresenceFull /\ ~world.carried)

(* Nothing is in the PIM yet, or a product that the stores do not carry.     *)
Init ==
    /\ \/ /\ pim = [product |-> "none", variant |-> NoVariant]
          /\ world = [presence |-> "full", carried |-> TRUE, known |-> TRUE, master |-> TRUE]
       \/ /\ pim = [product |-> "D", variant |-> [stat |-> "V", attached |-> TRUE, colour |-> FALSE]]
          /\ world = [presence |-> "full", carried |-> FALSE, known |-> TRUE, master |-> TRUE]
    /\ dirty = {e \in Entities : Exists(pim, e)}
    /\ mirror = [product |-> "none", variant |-> NoVariant]
    /\ rows = {}
    /\ push = Quiet /\ pull = [q \in Pullers |-> AtRest]
    /\ changes = 0 /\ faults = 0

-----------------------------------------------------------------------------
(* The diff.  It judges the presence set, then reads what that set and FDM4  *)
(* list, then writes the rows from the mirror: each statement sees the       *)
(* database as it is when it runs.                                           *)

InMirror(e) == Exists(mirror, e)
Judged == {f \in {"ok", "full"} : IF f = "ok" THEN PresenceOk ELSE PresenceFull}
Listing == {f \in {"carried", "master", "known", "mirrored"} :
              CASE f = "carried" -> "ok" \in push.seen /\ world.carried
                [] f = "master" -> MasterOk [] f = "known" -> Known
                [] f = "mirrored" -> InMirror("product")}

(* live_product and known_product hold what the mirror held at the first     *)
(* transaction; wh and live_style are of FDM4 and the stores alone.          *)
Listed(seen) == {"carried", "mirrored"} \subseteq seen
NotKnown(seen) == "master" \in seen /\ ~({"known", "mirrored"} \subseteq seen)

(* A product nobody carries, or FDM4 does not know, leaves the PIM.          *)
Unlisted(seen) == ("full" \in seen /\ ~Listed(seen)) \/ NotKnown(seen)
Reason(seen) == IF NotKnown(seen) THEN "not in FDM4" ELSE "not live in Woo"
CreatesListed(seen) ==                 \* fault: creates by live_product, not by live_style
    "known" \in seen /\ Listed(seen) /\ ~InMirror("product") /\ ~InMirror("variant")
Creates(seen) == {"known", "carried"} \subseteq seen /\ ~InMirror("product") /\ ~InMirror("variant")

Proposes(a, seen) ==
    CASE a = "color_fix" -> "known" \in seen /\ InMirror("variant") /\ ~mirror.variant.colour
      [] a = "variant_create" ->
           \/ Creates(seen)
           \/ /\ "known" \in seen /\ ~InMirror("variant") /\ InMirror("product")
              /\ "ok" \notin seen \/ Listed(seen)
      [] a = "product_create" -> Creates(seen)
      [] a = "product_publish" -> Listed(seen) /\ mirror.product = "D"
      [] a = "variant_publish" ->
           /\ Listed(seen) /\ InMirror("product")
           /\ mirror.variant.attached /\ mirror.variant.stat = "D"
      [] a = "product_remove" -> InMirror("product") /\ Unlisted(seen)
      [] a = "variant_orphan_remove" -> InMirror("variant") /\ ~mirror.variant.attached

About(a, seen) ==
    CASE a = "product_remove" -> Reason(seen)
      [] a = "variant_create" ->
           IF mirror.product = "V" \/ Listed(seen) \/ Creates(seen) THEN "visible" ELSE "draft"
      [] OTHER -> ""

Diff(seen) == {[action |-> a, about |-> About(a, seen), status |-> "proposed", old |-> FALSE] :
                 a \in {b \in Actions : Proposes(b, seen)}}

-----------------------------------------------------------------------------
(* A push.                                                                   *)

Goes(pc) == push.pc = pc
Step(pc) == push' = [push EXCEPT !.pc = pc]
Rest == <<pull, changes, faults>>

(* Proposals of earlier sets are closed: the diff proposes again what still  *)
(* applies.  Approved removals are left out.                                 *)
Superseded(r) == r.status = "proposed" \/ r.action \notin Removals
Begin ==
    /\ Goes("idle") /\ pull["worker"].pc \in {"idle", "done"}
    /\ rows' = {[r EXCEPT !.old = TRUE] : r \in {x \in rows : ~Superseded(x)}}
    /\ Step("read")
    /\ pull' = [pull EXCEPT !["worker"] = AtRest]
    /\ UNCHANGED <<pim, dirty, mirror, world, changes, faults>>

DiffRead ==
    /\ Goes("read")
    /\ push' = [push EXCEPT !.pc = "list", !.seen = Judged]
    /\ UNCHANGED <<pim, dirty, mirror, world, rows, Rest>>

DiffList ==
    /\ Goes("list")
    /\ push' = [push EXCEPT !.pc = "write", !.seen = @ \cup Listing]
    /\ UNCHANGED <<pim, dirty, mirror, world, rows, Rest>>

DiffWrite ==
    /\ Goes("write")
    /\ rows' = rows \cup Diff(push.seen)
    /\ push' = [push EXCEPT !.pc = "approve", !.seen = {}]
    /\ UNCHANGED <<pim, dirty, mirror, world, Rest>>

(* The brakes: too many rows of a kind in the set, the product's own and     *)
(* those of other products (beside), stay proposed and wait for a person.    *)
Braking(k) == CASE k = "flips" -> Flips
                [] k = "removals" -> {"product_remove"}
                [] k = "orphans" -> {"variant_orphan_remove"}
Limit(k) == CASE k = "flips" -> MaxFlips [] k = "removals" -> MaxRemovals [] k = "orphans" -> MaxOrphans
Count(k, beside) == beside[k] + Cardinality({x \in rows : ~x.old /\ x.action \in Braking(k)})
Braked(r, beside) == \E k \in Brakes : r.action \in Braking(k) /\ Count(k, beside) > Limit(k)

(* What the sources say at this moment, of those that removals name.         *)
Source(r) == IF r.about = "not in FDM4" THEN "fdm4" ELSE "woo"
Named(S) == {Source(r) : r \in {x \in S : x.action = "product_remove"}}
IsWhole(s) == IF s = "fdm4" THEN MasterOk ELSE PresenceFull
Whole(S) == {s \in Named(S) : IsWhole(s)}
Lists(s) == IF s = "fdm4" THEN Known ELSE world.carried
Unlisting(S) == {s \in S : ~Lists(s)}

ApproveAuto ==
    /\ Goes("approve")
    /\ \E beside \in [Brakes -> 0..MaxBeside] :
         LET left == {r \in rows : r.old \/ Braked(r, beside)}
             approved == {[r EXCEPT !.status = "approved"] : r \in rows \ left}
         IN /\ rows' = left \cup approved
            /\ push' = [push EXCEPT !.pc = "next", !.todo = approved,
                                    !.whole = Whole(approved), !.denied = Unlisting(Whole(approved))]
    /\ UNCHANGED <<pim, dirty, mirror, world, Rest>>

LockFree == Goes("idle") /\ pull["worker"].pc = "idle"

(* approve and --apply --allow-removals by hand, of any open set.            *)
HandApply ==
    /\ LockFree /\ rows # {}
    /\ \E old \in BOOLEAN :
         LET approved == {[r EXCEPT !.status = "approved"] : r \in {x \in rows : x.old = old}}
         IN /\ approved # {}
            /\ rows' = {r \in rows : r.old # old} \cup approved
            /\ push' = [push EXCEPT !.pc = "next", !.todo = approved,
                                    !.whole = Whole(approved), !.denied = Unlisting(Whole(approved))]
    /\ UNCHANGED <<pim, dirty, mirror, world, Rest>>

-----------------------------------------------------------------------------
(* A row: look at the PIM, and at the source for a removal; send; record.    *)

First(S) == CHOOSE r \in S : \A x \in S : \A i, j \in DOMAIN Order :
                Order[i] = r.action /\ Order[j] = x.action => i <= j

(* The reason of a removal is looked up again, in two statements: is the     *)
(* source whole, and does it list the product.  Of FDM4 the first is asked   *)
(* once in the life of the process, be it for a row of another product.      *)
MasterJudged == IF push.master # "unread" THEN push.master ELSE IF MasterOk THEN "whole" ELSE "short"
AsProposed(r) == TRUE                  \* fault: sends a removal as it was proposed
StillUnlisted(r) == ~Lists(Source(r))
SourceWhole(r) == IF Source(r) = "fdm4" THEN MasterJudged = "whole" ELSE PresenceFull

Holds(r) ==
    CASE r.action = "color_fix" -> Exists(pim, "variant") /\ ~pim.variant.colour
      [] r.action = "variant_create" -> ~Exists(pim, "variant") /\ Exists(pim, "product")
      [] r.action = "product_create" -> ~Exists(pim, "product")
      [] r.action = "product_publish" -> pim.product = "D"
      [] r.action = "variant_publish" -> pim.variant.stat = "D"
      [] r.action = "product_remove" -> Exists(pim, "product") /\ SourceWhole(r)
      [] r.action = "variant_orphan_remove" -> Exists(pim, "variant") /\ ~pim.variant.attached

Check ==
    /\ Goes("next")
    /\ IF push.todo = {} THEN Step("end")
       ELSE LET r == First(push.todo)
                asks == r.action = "product_remove" /\ Exists(pim, "product") /\ Source(r) = "fdm4"
                whole == (push.whole \ {"woo"}) \cup Whole(push.todo)
            IN push' = [push EXCEPT !.row = r, !.todo = @ \ {r}, !.applied = FALSE,
                                    !.master = IF asks THEN MasterJudged ELSE @,
                                    !.whole = whole,
                                    !.denied = (@ \ {"woo"}) \cup Unlisting(whole),
                                    !.pc = IF ~Holds(r) THEN "record"
                                              ELSE IF r.action = "product_remove" THEN "look"
                                              ELSE "send"]
    /\ UNCHANGED <<pim, dirty, mirror, world, rows, Rest>>

(* A removal of another product, before or after, judges FDM4 for all.       *)
JudgeMaster ==
    /\ Goes("next") /\ push.master = "unread" /\ "fdm4" \in Named(push.todo)
    /\ push' = [push EXCEPT !.master = MasterJudged]
    /\ UNCHANGED <<pim, dirty, mirror, world, rows, Rest>>

Look ==
    /\ Goes("look")
    /\ Step(IF StillUnlisted(push.row) THEN "clear" ELSE "record")
    /\ UNCHANGED <<pim, dirty, mirror, world, rows, Rest>>

(* delete_product_variants, before the product: the API would detach them.   *)
ClearVariants ==
    /\ Goes("clear")
    /\ pim' = IF pim.variant.attached THEN Absent(pim, "variant") ELSE pim
    /\ dirty' = IF pim.variant.attached THEN dirty \ {"variant"} ELSE dirty
    /\ Step("send")
    /\ UNCHANGED <<mirror, world, rows, Rest>>

(* What a request does in the PIM, and whether it is accepted.  A product    *)
(* that goes leaves its variants behind, detached and as drafts.             *)
Detached(v) == IF v.attached THEN [v EXCEPT !.attached = FALSE, !.stat = "D"] ELSE v
Accepts(r) ==
    CASE r.action = "variant_create" -> ~Exists(pim, "variant") /\ Exists(pim, "product")
      [] r.action = "product_create" -> ~Exists(pim, "product")
      [] r.action \in {"product_publish", "product_remove"} -> Exists(pim, "product")
      [] OTHER -> Exists(pim, "variant")
Sent(r) ==
    CASE r.action = "color_fix" -> [pim EXCEPT !.variant.colour = TRUE]
      [] r.action = "variant_create" ->
           [pim EXCEPT !.variant = [stat |-> IF r.about = "draft" THEN "D" ELSE "V",
                                    attached |-> TRUE, colour |-> TRUE]]
      [] r.action \in {"product_create", "product_publish"} -> [pim EXCEPT !.product = "V"]
      [] r.action = "variant_publish" -> [pim EXCEPT !.variant.stat = "V"]
      [] r.action = "product_remove" ->
           [product |-> "none", variant |-> Detached(pim.variant)]
      [] r.action = "variant_orphan_remove" -> Absent(pim, "variant")
Touched(old, new) == {e \in Entities : Exists(new, e) /\ old[e] # new[e]}
Gone(new) == {e \in Entities : ~Exists(new, e)}

(* An answer may be lost: the call has worked and is reported as failed.     *)
Send ==
    LET r == push.row
    IN /\ Goes("send")
       /\ \E fault \in {"none", "failed", "lost"} :
            /\ IF fault = "none" THEN UNCHANGED faults ELSE faults < MaxFaults /\ faults' = faults + 1
            /\ pim' = IF Accepts(r) /\ fault # "failed" THEN Sent(r) ELSE pim
            /\ push' = [push EXCEPT !.pc = "record", !.applied = Accepts(r) /\ fault = "none"]
       /\ dirty' = (dirty \cup Touched(pim, pim')) \ Gone(pim')
       /\ UNCHANGED <<mirror, world, rows, pull, changes>>

(* The outcome of the row, and with a removal the mirror, in one commit.     *)
Retired(r) ==
    CASE r.action = "product_remove" ->
           [product |-> "none",
            variant |-> IF mirror.variant.attached THEN NoVariant ELSE mirror.variant]
      [] r.action = "variant_orphan_remove" -> Absent(mirror, "variant")
      [] OTHER -> mirror

Record ==
    /\ Goes("record")
    /\ rows' = {x \in rows : ~(x.action = push.row.action /\ x.old = push.row.old)}
    /\ mirror' = IF push.applied THEN Retired(push.row) ELSE mirror
    /\ push' = [push EXCEPT !.pc = "next", !.row = NoRow, !.applied = FALSE]
    /\ UNCHANGED <<pim, dirty, world, Rest>>

End ==
    /\ Goes("end")
    /\ push' = Quiet
    /\ UNCHANGED <<pim, dirty, mirror, world, rows, Rest>>

Apply == Check \/ Look \/ ClearVariants \/ Send \/ Record \/ End
AutoRun == Begin \/ DiffRead \/ DiffList \/ DiffWrite \/ ApproveAuto

-----------------------------------------------------------------------------
(* A pull: products, then variants, each walk and its rows one transaction.  *)

Turn == [product |-> "variant", variant |-> "done"]
Fetching(q, e) == pull[q].pc = "fetch" /\ pull[q].entity = e
Storing(q, e) == pull[q].pc = "store" /\ pull[q].entity = e
PullRest == <<pim, world, rows, push, changes, faults>>

BeginPull(full) ==
    /\ pull["cron"].pc = "idle"
    /\ pull' = [pull EXCEPT !["cron"] = [AtRest EXCEPT !.pc = "fetch", !.full = full]]
    /\ UNCHANGED <<dirty, mirror, PullRest>>

(* A requested push pulls first, under the lock of the push.                 *)
RequestedPull ==
    /\ LockFree
    /\ pull' = [pull EXCEPT !["worker"] = [AtRest EXCEPT !.pc = "fetch"]]
    /\ UNCHANGED <<dirty, mirror, PullRest>>

(* Everything, or what changed after the watermark (and shortly before it).  *)
Walk(q, e) ==
    LET found == Exists(pim, e) /\ (pull[q].full \/ e \in dirty)
    IN /\ Fetching(q, e)
       /\ pull' = [pull EXCEPT ![q].pc = "store", ![q].page = IF found THEN {pim[e]} ELSE {}]
       /\ dirty' = IF found THEN dirty \ {e} ELSE dirty
       /\ UNCHANGED <<mirror, PullRest>>

(* Rows a full walk did not see are retired, unless that were too many.      *)
RetireMissing(e) ==
    IF Exists(mirror, e) /\ 100 <= (OtherRows + 1) * RetirePercent THEN Absent(mirror, e) ELSE mirror

(* A row that comes back is set live again.  The watermark becomes the       *)
(* newest of the rows of this walk, also where another walk was ahead.       *)
Store(q, e) ==
    LET found == pull[q].page # {}
    IN /\ Storing(q, e)
       /\ mirror' = IF found THEN [mirror EXCEPT ![e] = CHOOSE v \in pull[q].page : TRUE]
                    ELSE IF pull[q].full THEN RetireMissing(e) ELSE mirror
       /\ dirty' = IF found /\ Exists(pim, e) /\ {pim[e]} # pull[q].page THEN dirty \cup {e} ELSE dirty
       /\ pull' = [pull EXCEPT ![q] = IF e = "product" THEN [@ EXCEPT !.pc = "fetch", !.entity = Turn[e], !.page = {}]
                                      ELSE IF q = "cron" THEN AtRest ELSE [AtRest EXCEPT !.pc = "done"]]
       /\ UNCHANGED PullRest

PullStep(q) == \E e \in Entities : Walk(q, e) \/ Store(q, e)

-----------------------------------------------------------------------------
(* Others, and what can fail.                                                *)

Notice == LET whole == push.whole \cup {s \in Named(push.todo \cup {push.row}) : IsWhole(s)'}
          IN push' = [push EXCEPT !.whole = whole, !.denied = @ \cup {s \in whole : ~Lists(s)'}]

(* Presence and FDM4 may be cut short, and may have lost the product then.   *)
WorldChanges ==
    /\ changes < MaxChanges /\ changes' = changes + 1
    /\ \/ \E kind \in {"full", "short", "stale"}, carried \in BOOLEAN :
             world' = [world EXCEPT !.presence = kind, !.carried = carried]
       \/ \E whole, known \in BOOLEAN :
             world' = [world EXCEPT !.master = whole, !.known = known]
    /\ Notice
    /\ UNCHANGED <<pim, dirty, mirror, rows, pull, faults>>

(* The PIM team: takes a product or a variant away, or back to a draft.      *)
TeamEdits ==
    /\ changes < MaxChanges /\ changes' = changes + 1
    /\ pim' \in {Sent([action |-> "product_remove"]), Sent([action |-> "variant_orphan_remove"]),
                 [pim EXCEPT !.product = IF @ = "V" THEN "D" ELSE @],
                 [pim EXCEPT !.variant.stat = IF @ = "V" THEN "D" ELSE @]}
    /\ dirty' = (dirty \cup Touched(pim, pim')) \ Gone(pim')
    /\ UNCHANGED <<mirror, world, rows, push, pull, faults>>

Fault == faults < MaxFaults /\ faults' = faults + 1
Unread(q) == IF pull[q].page = {} THEN {} ELSE {pull[q].entity}

(* A pull or a push is cut off by its time limit.                            *)
KillPull(q) ==
    /\ Fault /\ pull[q].pc \in {"fetch", "store"}
    /\ dirty' = (dirty \cup Unread(q)) \ Gone(pim)
    /\ pull' = [pull EXCEPT ![q] = AtRest]
    /\ UNCHANGED <<pim, mirror, world, rows, push, changes>>

KillPush ==
    /\ Fault /\ ~Goes("idle")
    /\ push' = Quiet
    /\ UNCHANGED <<pim, dirty, mirror, world, rows, pull, changes>>

Next ==
    \/ AutoRun \/ HandApply \/ Apply \/ JudgeMaster \/ KillPush
    \/ \E full \in BOOLEAN : BeginPull(full)
    \/ \E q \in Pullers : PullStep(q) \/ KillPull(q)
    \/ RequestedPull \/ WorldChanges \/ TeamEdits

(* The timers of cron fire; what has begun goes on until it ends or is       *)
(* killed.  A full pull comes every week.                                    *)
Fairness ==
    /\ WF_vars(AutoRun) /\ WF_vars(Apply)
    /\ SF_vars(BeginPull(TRUE)) /\ \A q \in Pullers : WF_vars(PullStep(q))
Spec == Init /\ [][Next]_vars /\ Fairness

-----------------------------------------------------------------------------
(* Properties.                                                               *)

(* Every variable keeps the shape of what it models; a variant is attached   *)
(* only to a product that is there; a requested pull and a push take turns.  *)
TypeOK ==
    /\ pim \in [product : Product, variant : Variant]
    /\ mirror \in [product : Product, variant : Variant]
    /\ dirty \subseteq {e \in Entities : Exists(pim, e)}
    /\ rows \subseteq Row
    /\ pim.variant.attached => pim.product # "none"
    /\ pull["worker"].pc \in {"fetch", "store"} => Goes("idle")

(* A push deletes a product only where the source that its row names was     *)
(* whole, at some moment since the process began to send (the presence set:  *)
(* since it took up the row), and then or later did not list the product:    *)
(* whatever row an earlier diff proposed or a person approved, and whatever  *)
(* the sources, the pulls and other people do meanwhile.                     *)
SparedStays ==
    /\ []TypeOK
    /\ [][Goes("send") /\ push'.pc = "record" /\ pim.product # "none" /\ pim'.product = "none"
            => push.row.action = "product_remove" /\ Source(push.row) \in push.denied]_vars

(* "The PIM carries exactly the FDM4 products the Woo stores carry, and all  *)
(* of it visible": once the sources and the people are quiet, the product    *)
(* and its variant are there and visible, or they are gone and no orphan is  *)
(* left, unless a brake keeps leaving their rows proposed for a person: of   *)
(* what is wanted its flips, or an orphan in its place; of what is not the   *)
(* removals.                                                                 *)
Carries == pim.product = "V" /\ pim.variant = [stat |-> "V", attached |-> TRUE, colour |-> TRUE]
Empty == pim.product = "none" /\ pim.variant = NoVariant
HeldBack(actions) ==
    ~Goes("approve") /\ \E r \in rows : r.action \in actions /\ ~r.old /\ r.status = "proposed"
PimSettles ==
    /\ <>[]Wanted => <>[]Carries \/ []<>HeldBack(Flips \cup {"variant_orphan_remove"})
    /\ <>[]Unwanted => <>[]Empty \/ []<>HeldBack(Removals)
==============================================================================
