---------------------------- MODULE CategoryPlan ----------------------------
(* The category editor of logo-admin: the draft tree and its overrides per   *)
(* store (categories_draft.py), the mapping of live slugs, the rules and the *)
(* product assignments (categories_mapping.py), the plan they make for a     *)
(* store's snapshot (categories_planner.py) and the import of snapshots      *)
(* (categories_service.py, categories_api.py).  Every request to the draft   *)
(* holds lock_draft to the end of its transaction and is one action.  How a  *)
(* run carries a plan to WordPress phase by phase is CategoryRuns; here an   *)
(* apply is one step, or the step of one that stopped after parking terms.   *)
(*                                                                           *)
(* Names, descriptions and sort orders are left out, and a product is its    *)
(* own SKU.  A term wears its slug, or Temp(t) while the broker has parked   *)
(* it; its slug field is always the logical one (parked_from).               *)
EXTENDS Integers, FiniteSets

CONSTANTS
    Blogs,
    Terms,         \* term ids of a store; a seeded node takes its term's id
    Extras,        \* override ids of kind extra_node
    Slugs, Products,
    First,         \* the store the draft was first seeded from
    Stores,        \* the stores' categories at the beginning
    MaxEdits,      \* bound: requests and changes in WordPress
    None

ASSUME PlanAssumption ==
    /\ Terms \subseteq Nat \ {0} /\ First \in Blogs /\ MaxEdits \in Nat
    /\ None \notin Terms \cup Extras \cup Slugs

VARIABLES
    node,      \* catmgr.node
    exclude,   \* catmgr.node_store_override of kind exclude
    extra,     \* catmgr.node_store_override of kind extra_node
    slugMap,   \* catmgr.slug_map
    rules,     \* catmgr.assignment_rule: nodes with a rule, which matches every product
    assigned,  \* catmgr.product_assignment
    acked,     \* catmgr.uncategorized_ack
    snapshot,  \* the warehouse copy of each store: wp_term, wp_term_product
    store,     \* WordPress
    export,    \* an export that has been fetched and not yet stored
    edits      \* bound: how many edits there have been

draft == <<node, exclude, extra, slugMap, rules, assigned, acked>>
vars == <<draft, snapshot, store, export, edits>>

Nodes == Terms
Temp(t) == <<t>>                           \* catmgrtmp-<term id>
AnySlug == Slugs \cup {Temp(t) : t \in Terms}
Term == [slug : AnySlug, parent : Terms \cup {0}, parked : BOOLEAN]
Categories(s) == /\ DOMAIN s.term \subseteq Terms /\ \A t \in DOMAIN s.term : s.term[t] \in Term
                 /\ s.member \in [Products -> SUBSET DOMAIN s.term]

Node == [parent : Nodes \cup {None}, slug : AnySlug]
Extra == [blog : Blogs, slug : AnySlug, previous : AnySlug \cup {None},
          parent : Nodes \cup {None}]
Row(action, target, primary) == [action |-> action, target |-> target, primary |-> primary]
MapRow == [action : {"map", "delete", "store_custom"}, target : Nodes \cup Extras \cup {None},
           primary : BOOLEAN]
Kinds == {"no", "self", "tree"}            \* self: include_descendants is off
Modes == {"none", "add", "remove"}

(* seed_from_snapshot: a node for every term, under the slug the term wears  *)
Worn(s, t) == IF s.term[t].parked THEN Temp(t) ELSE s.term[t].slug
Seeded(s) == [n \in Nodes |->
    IF n \notin DOMAIN s.term THEN None
    ELSE [slug |-> Worn(s, n),
          parent |-> IF s.term[n].parent \in DOMAIN s.term THEN s.term[n].parent ELSE None]]

Init ==
    /\ store = Stores /\ snapshot = Stores /\ export = [b \in Blogs |-> None]
    /\ node = Seeded(Stores[First])
    /\ exclude = [b \in Blogs |-> [n \in Nodes |-> "no"]]
    /\ extra = [e \in Extras |-> None]
    /\ slugMap = [s \in AnySlug |-> None]
    /\ rules = {} /\ assigned = [n \in Nodes |-> [p \in Products |-> "none"]]
    /\ acked = {} /\ edits = 0

-----------------------------------------------------------------------------
(* The draft.                                                                *)

Drawn == {n \in Nodes : node[n] # None}
Grafted == {e \in Extras : extra[e] # None}
NodesAt(s) == {n \in Drawn : node[n].slug = s}
ExtrasAt(s) == {e \in Grafted : extra[e].slug = s}

(* slug_is_live: any store's snapshot, by the logical slug                   *)
SlugsOf(s) == {s.term[t].slug : t \in DOMAIN s.term}
IsLive(s) == \E b \in Blogs : s \in SlugsOf(snapshot[b])

Lowest(S) == CHOOSE t \in S : \A u \in S : t <= u

(* _slug_owner                                                               *)
TakenForNode(s, n) == NodesAt(s) \ {n} # {} \/ ExtrasAt(s) # {}
TakenForExtra(s, e, b) == NodesAt(s) # {} \/ \E x \in ExtrasAt(s) \ {e} : extra[x].blog = b

(* A node and all the nodes above it.                                        *)
Lineage(n) ==
    LET above(S) == {node[m].parent : m \in S} \ {None}
        up[k \in 0..Cardinality(Nodes)] ==
            IF k = 0 THEN {n} ELSE LET m == up[k - 1] IN m \cup above(m)
    IN up[Cardinality(Nodes)]
Subtree(n) == {m \in Drawn : n \in Lineage(m)}          \* _subtree_ids

CreateNode(n, parent, s) ==
    /\ Nodes # Drawn /\ n = Lowest(Nodes \ Drawn) /\ parent \in Drawn \cup {None}
    /\ ~TakenForNode(s, n)
    /\ node' = [node EXCEPT ![n] = [parent |-> parent, slug |-> s]]
    /\ UNCHANGED <<exclude, extra, slugMap, rules, assigned, acked>>

(* _carry_identity_mapping: the live slug a node gives up stays mapped to it *)
PrimaryOf(n) == {s \in AnySlug : slugMap[s] # None /\ slugMap[s].target = n /\ slugMap[s].primary}
Carried(n, old) ==
    LET stale == {s \in PrimaryOf(n) : ~IsLive(s)}
    IN IF ~IsLive(old) \/ slugMap[old] # None THEN slugMap
       ELSE [s \in AnySlug |->
                IF s = old THEN Row("map", n, PrimaryOf(n) \ stale = {})
                ELSE IF s \in stale THEN Row("map", n, FALSE) ELSE slugMap[s]]

Reslug(n, s) ==
    /\ n \in Drawn /\ s # node[n].slug /\ ~TakenForNode(s, n)
    /\ node' = [node EXCEPT ![n].slug = s]
    /\ slugMap' = Carried(n, node[n].slug)
    /\ UNCHANGED <<exclude, extra, rules, assigned, acked>>

NoCycle(n, parent) == parent # None => n \notin Lineage(parent)
MoveNode(n, parent) ==
    /\ n \in Drawn /\ parent \in Drawn \cup {None} /\ parent # node[n].parent
    /\ NoCycle(n, parent)
    /\ node' = [node EXCEPT ![n].parent = parent]
    /\ UNCHANGED <<exclude, extra, slugMap, rules, assigned, acked>>

(* Deleting nodes and extras, with what the foreign keys take along.         *)
Delete(nodes, extras) ==
    /\ exclude' = [b \in Blogs |-> [n \in Nodes |->
                      IF n \in nodes THEN "no" ELSE exclude[b][n]]]
    /\ extra' = [e \in Extras |->
                    IF e \notin Grafted \ extras THEN None
                    ELSE IF extra[e].parent \in nodes THEN [extra[e] EXCEPT !.parent = None]
                    ELSE extra[e]]
    /\ slugMap' = [s \in AnySlug |->
                      IF slugMap[s] # None /\ slugMap[s].target \in nodes \cup extras
                      THEN None ELSE slugMap[s]]
    /\ rules' = rules \ nodes
    /\ assigned' = [n \in Nodes |->
                       IF n \in nodes THEN [p \in Products |-> "none"] ELSE assigned[n]]
    /\ UNCHANGED acked

DeleteNode(n, cascade) ==
    /\ n \in Drawn /\ (cascade <=> Subtree(n) # {n})
    /\ node' = [m \in Nodes |-> IF m \in Subtree(n) THEN None ELSE node[m]]
    /\ Delete(Subtree(n), {})

(* seed_from_snapshot, with force where the draft has nodes                  *)
SeedDraft(b) ==
    /\ DOMAIN snapshot[b].term # {}
    /\ node' = Seeded(snapshot[b])
    /\ exclude' = [c \in Blogs |-> [n \in Nodes |-> "no"]]
    /\ extra' = [e \in Extras |-> None]
    /\ slugMap' = [s \in AnySlug |->
                      IF slugMap[s] # None /\ slugMap[s].target \in Nodes \cup Extras
                      THEN None ELSE slugMap[s]]
    /\ rules' = {} /\ assigned' = [n \in Nodes |-> [p \in Products |-> "none"]]
    /\ UNCHANGED acked

(* set_override                                                              *)
SetExclude(b, n, kind) ==
    /\ n \in Drawn /\ kind # exclude[b][n]
    /\ exclude' = [exclude EXCEPT ![b][n] = kind]
    /\ UNCHANGED <<node, extra, slugMap, rules, assigned, acked>>

(* _extra_live_slug: the slug an extra's term wears in its store now         *)
NoLineage(e, s) == None                    \* fault: a re-slug forgets the term
LiveSlug(e, s) ==
    LET old == ({extra[e].slug, extra[e].previous} \ {None, s}) \cap SlugsOf(snapshot[extra[e].blog])
        at(t) == snapshot[extra[e].blog].term[t].slug \in old
    IN IF old = {} THEN None
       ELSE LET t == CHOOSE u \in DOMAIN snapshot[extra[e].blog].term :
                        /\ at(u)
                        /\ \A v \in DOMAIN snapshot[extra[e].blog].term : at(v) => u <= v
            IN snapshot[extra[e].blog].term[t].slug
SetExtra(e, b, s, parent) ==
    /\ parent \in Drawn \cup {None} /\ ~TakenForExtra(s, e, b)
    /\ \/ /\ e \notin Grafted
          /\ extra' = [extra EXCEPT ![e] =
                          [blog |-> b, slug |-> s, previous |-> None, parent |-> parent]]
       \/ /\ e \in Grafted /\ extra[e].blog = b /\ <<s, parent>> # <<extra[e].slug, extra[e].parent>>
          /\ extra' = [extra EXCEPT ![e] = [blog |-> b, slug |-> s, previous |-> LiveSlug(e, s),
                                            parent |-> parent]]
    /\ UNCHANGED <<node, exclude, slugMap, rules, assigned, acked>>
DeleteExtra(e) == e \in Grafted /\ Delete({}, {e}) /\ UNCHANGED node

(* set_mapping, for a row of a request: primary is what the request says, or *)
(* None to let the server decide                                             *)
OtherPrimary(n, s) == PrimaryOf(n) \ {s} # {}
Elected(n, s) == ~OtherPrimary(n, s) /\ (node[n].slug = s \/ ~IsLive(node[n].slug))
MapSlug(s, n, primary) ==
    /\ IsLive(s) /\ n \in Drawn
    /\ primary = TRUE => ~OtherPrimary(n, s)
    /\ slugMap' = [slugMap EXCEPT ![s] =
                      Row("map", n, IF primary = None THEN Elected(n, s) ELSE primary)]
    /\ UNCHANGED <<node, exclude, extra, rules, assigned, acked>>
DropSlug(s) ==
    /\ IsLive(s) /\ slugMap' = [slugMap EXCEPT ![s] = Row("delete", None, FALSE)]
    /\ UNCHANGED <<node, exclude, extra, rules, assigned, acked>>
LeaveSlug(s, e) ==
    /\ IsLive(s) /\ e \in Grafted \cup {None}
    /\ slugMap' = [slugMap EXCEPT ![s] = Row("store_custom", e, FALSE)]
    /\ UNCHANGED <<node, exclude, extra, rules, assigned, acked>>
ClearMapping(s) ==
    /\ slugMap[s] # None /\ slugMap' = [slugMap EXCEPT ![s] = None]
    /\ UNCHANGED <<node, exclude, extra, rules, assigned, acked>>

SetRule(n) == /\ n \in Drawn \ rules /\ rules' = rules \cup {n}
              /\ UNCHANGED <<node, exclude, extra, slugMap, assigned, acked>>
DeleteRule(n) == /\ n \in rules /\ rules' = rules \ {n}
                 /\ UNCHANGED <<node, exclude, extra, slugMap, assigned, acked>>
(* set_assignments removes the opposite mode; delete_assignment is "none"    *)
Assign(n, p, mode) ==
    /\ n \in Drawn /\ assigned[n][p] # mode
    /\ assigned' = [assigned EXCEPT ![n][p] = mode]
    /\ UNCHANGED <<node, exclude, extra, slugMap, rules, acked>>
Acknowledge(p) == /\ acked' = (acked \ {p}) \cup ({p} \ acked)    \* set_acks, delete_ack
                  /\ UNCHANGED <<node, exclude, extra, slugMap, rules, assigned>>

-----------------------------------------------------------------------------
(* The plan of a store, from its snapshot.                                   *)

(* effective_tree, blog_target: hidden nodes pass their children up          *)
Kept(b) == {n \in Drawn : /\ exclude[b][n] # "self"
                          /\ \A m \in Lineage(n) : exclude[b][m] # "tree"}
ExtrasHere(b) == {e \in Grafted : extra[e].blog = b /\ extra[e].parent \in Kept(b) \cup {None}}
SlugOf(x) == IF x \in Nodes THEN node[x].slug ELSE extra[x].slug
OwnParent(x, kept) ==                      \* fault: the parent may be hidden
    IF x \in Extras THEN extra[x].parent ELSE node[x].parent
ParentOf(x, kept) ==
    LET above == kept \cap (IF x \in Extras THEN {extra[x].parent} ELSE Lineage(x) \ {x})
    IN IF above = {} THEN None ELSE CHOOSE m \in above : above \subseteq Lineage(m)
Wanted(x, kept) ==
    [slug |-> SlugOf(x),
     parent |-> IF ParentOf(x, kept) = None THEN None ELSE SlugOf(ParentOf(x, kept))]

(* load_dispositions: explicit rows, then nodes, then extras                 *)
Disposition(s) ==
    IF slugMap[s] # None THEN slugMap[s]
    ELSE IF NodesAt(s) # {} THEN Row("map", CHOOSE n \in NodesAt(s) : TRUE, FALSE)
    ELSE IF \E e \in Grafted : s \in {extra[e].slug, extra[e].previous}
         THEN Row("store_custom", None, FALSE)
    ELSE None
Live(s) == DOMAIN s.term
LiveSlugAt(s, t) == s.term[t].slug
Unmapped == \E b \in Blogs : \E s \in SlugsOf(snapshot[b]) : Disposition(s) = None

(* extras_by_slug: an extra's draft slug goes before another's previous one  *)
OwnExtra(extras, slug) ==
    LET now == {e \in extras : extra[e].slug = slug}
    IN IF now # {} THEN now ELSE {e \in extras : extra[e].previous = slug}
(* What a live term turns into here: a node or an extra of the store, or none *)
EntryOf(kept, extras, slug) ==
    LET d == Disposition(slug)
        heirs == IF d.action = "map" THEN {d.target} \cap kept
                 ELSE IF d.action = "store_custom" THEN OwnExtra(extras, slug) ELSE {}
    IN IF heirs = {} THEN None ELSE CHOOSE x \in heirs : TRUE

Survey(b, s) ==
    LET kept == Kept(b)
        extras == ExtrasHere(b)
    IN [kept |-> kept, extras |-> extras,
        entry |-> [t \in Live(s) |-> EntryOf(kept, extras, LiveSlugAt(s, t))],
        custom |-> {t \in Live(s) : Disposition(LiveSlugAt(s, t)).action = "store_custom"}]

(* _elect_survivors; of an extra's terms the first                           *)
AnySurvivor(s, x, live) == Lowest(live)    \* fault: not the one that has the slug
Survivor(s, x, live) ==
    LET explicit == {t \in live : slugMap[LiveSlugAt(s, t)] # None /\ slugMap[LiveSlugAt(s, t)].primary}
        identity == {t \in live : LiveSlugAt(s, t) = SlugOf(x)}
    IN Lowest(IF x \in Extras THEN live
              ELSE IF explicit # {} THEN explicit
              ELSE IF identity # {} THEN identity ELSE live)

(* Where the products of a term go: kept_current and merge_target_slug       *)
Destination(s, v, t) ==
    IF v.entry[t] # None THEN {SlugOf(v.entry[t])}
    ELSE IF t \in v.custom THEN {LiveSlugAt(s, t)} ELSE {}
Taken(s, v, p) == UNION {Destination(s, v, t) : t \in s.member[p]}
Adds(n, p) == (n \in rules \/ assigned[n][p] = "add") /\ assigned[n][p] # "remove"
Removes(v, p) == {n \in v.kept : assigned[n][p] = "remove"}
Final(s, v, p) == (Taken(s, v, p) \cup {node[n].slug : n \in {m \in v.kept : Adds(m, p)}})
                    \ {node[n].slug : n \in Removes(v, p)}

(* build_blog_plan                                                           *)
Plan(s, v) ==
    LET entries == v.kept \cup v.extras
        heir(x) == Survivor(s, x, {t \in Live(s) : v.entry[t] = x})
        updated == {heir(x) : x \in {v.entry[t] : t \in Live(s)} \ {None}}
        untouched == {t \in v.custom : v.entry[t] = None}
        doomed == Live(s) \ (untouched \cup updated)
    IN [update |-> [t \in updated |-> Wanted(v.entry[t], v.kept)],
        create |-> {Wanted(x, v.kept) : x \in entries \ {v.entry[t] : t \in updated}},
        delete |-> doomed,
        keep |-> untouched,
        member |-> [p \in {q \in Products : \/ s.member[q] \cap doomed # {}
                                            \/ Final(s, v, q) # Taken(s, v, q)}
                      |-> Final(s, v, p)],
        zero |-> {p \in Products : /\ Final(s, v, p) = {}
                                   /\ s.member[p] # {} \/ Removes(v, p) # {}}]
PlanOf(b, s) == CHOOSE plan \in {Plan(s, v) : v \in {Survey(b, s)}} : TRUE

(* preview: what stops a run before it starts                                *)
Slugged(S) == {x.slug : x \in S}
Finals(plan) == Slugged({plan.update[t] : t \in DOMAIN plan.update}) \cup Slugged(plan.create)
Distinct(s, plan) ==                       \* fault: slugs left alone are not looked at
    Cardinality(Finals(plan)) # Cardinality(DOMAIN plan.update) + Cardinality(plan.create)
Collides(s, plan) ==                       \* _plan_slug_collisions, absorbed_slugs
    \/ Cardinality(Finals(plan)) # Cardinality(DOMAIN plan.update) + Cardinality(plan.create)
    \/ \E t \in plan.keep : LiveSlugAt(s, t) \in Finals(plan)
Recreates(s, plan) ==                      \* _plan_recreated_slugs
    \E t \in plan.delete : LiveSlugAt(s, t) \in Slugged(plan.create)
Abandoned(plan) == plan.zero \ acked
Clear(s, plan) == ~Collides(s, plan) /\ ~Recreates(s, plan) /\ Abandoned(plan) = {}

(* emit_update marks a term changed; a store has converged when nothing is   *)
Changed(s, plan, t) ==
    LET term == s.term[t]
        live == IF term.parent \in Live(s) THEN LiveSlugAt(s, term.parent) ELSE None
    IN term.parked \/ term.slug # plan.update[t].slug \/ live # plan.update[t].parent
NothingToDo(s, plan) ==
    /\ plan.create = {} /\ plan.delete = {} /\ DOMAIN plan.member = {}
    /\ \A t \in DOMAIN plan.update : ~Changed(s, plan, t)

-----------------------------------------------------------------------------
(* The stores.                                                               *)

(* What the broker leaves: the survivors in place, new terms, the products   *)
(* in their final terms, and the doomed terms gone, their children moved up  *)
Top(s) == CHOOSE t \in Live(s) \cup {0} : \A u \in Live(s) : u <= t
NewTerms(s, plan) == Top(s) + 1 .. Top(s) + Cardinality(plan.create)
Above(s, plan, t) ==
    LET up[k \in 0..Cardinality(Terms)] ==
            IF k = 0 THEN s.term[t].parent
            ELSE LET m == up[k - 1] IN IF m \in plan.delete THEN s.term[m].parent ELSE m
    IN up[Cardinality(Terms)]
Converged(s, plan) ==
    LET new == CHOOSE f \in [NewTerms(s, plan) -> plan.create] :
                   \A t, u \in NewTerms(s, plan) : t # u => f[t] # f[u]
        at(t) == IF t \in DOMAIN plan.update THEN plan.update[t] ELSE new[t]
        owner(slug) ==
            LET wear == {t \in DOMAIN plan.update \cup NewTerms(s, plan) : at(t).slug = slug}
            IN IF wear = {} THEN 0 ELSE Lowest(wear)
        term == [t \in plan.keep \cup DOMAIN plan.update \cup NewTerms(s, plan) |->
                   IF t \in plan.keep
                   THEN [s.term[t] EXCEPT !.parent = Above(s, plan, t)]
                   ELSE [slug |-> at(t).slug, parent |-> owner(at(t).parent), parked |-> FALSE]]
    IN [term |-> term,
        member |-> [p \in Products |->
            IF p \in DOMAIN plan.member THEN {t \in DOMAIN term : term[t].slug \in plan.member[p]}
            ELSE s.member[p]]]

(* A run of one store: previewed, and the store is what the plan was made of *)
Ready(s, plan) == Clear(s, plan) /\ NewTerms(s, plan) \subseteq Terms
Apply(b) ==
    /\ store[b] = snapshot[b] /\ ~Unmapped
    /\ \E plan \in {PlanOf(b, store[b])} :
          /\ Ready(store[b], plan) /\ ~NothingToDo(store[b], plan)
          /\ store' = [store EXCEPT ![b] = Converged(store[b], plan)]
    /\ snapshot' = [snapshot EXCEPT ![b] = store'[b]]
    /\ UNCHANGED <<draft, export, edits>>
(* The broker has parked the terms whose slug changes, and stopped           *)
StopParked(b) ==
    /\ store[b] = snapshot[b] /\ ~Unmapped
    /\ \E plan \in {PlanOf(b, store[b])} :
          LET moving == plan.delete \cup
                  {t \in DOMAIN plan.update : LiveSlugAt(store[b], t) # plan.update[t].slug}
          IN /\ Ready(store[b], plan) /\ \E t \in moving : ~store[b].term[t].parked
             /\ store' = [store EXCEPT ![b].term = [t \in Live(store[b]) |->
                    IF t \in moving THEN [@[t] EXCEPT !.parked = TRUE] ELSE @[t]]]
    /\ UNCHANGED <<draft, snapshot, export>>

(* Import: the export is fetched first and stored in a transaction of its own *)
Fetch(b) == /\ export[b] = None /\ store[b] # snapshot[b]
            /\ export' = [export EXCEPT ![b] = store[b]]
            /\ UNCHANGED <<draft, snapshot, store, edits>>
StoreExport(b) == /\ export[b] # None
                  /\ snapshot' = [snapshot EXCEPT ![b] = export[b]]
                  /\ export' = [export EXCEPT ![b] = None]
                  /\ UNCHANGED <<draft, store, edits>>

(* Anyone else in WordPress                                                  *)
Categorize(b, p, ids) ==
    /\ ids # store[b].member[p] /\ store' = [store EXCEPT ![b].member[p] = ids]
    /\ UNCHANGED <<draft, snapshot, export>>

Edit ==
    \/ \E n \in Nodes, m \in Nodes \cup {None} :
           MoveNode(n, m) \/ \E s \in Slugs : CreateNode(n, m, s)
    \/ \E n \in Nodes, s \in Slugs : Reslug(n, s)
    \/ \E n \in Nodes, cascade \in BOOLEAN : DeleteNode(n, cascade)
    \/ \E b \in Blogs : SeedDraft(b)
    \/ \E b \in Blogs, n \in Nodes, kind \in Kinds : SetExclude(b, n, kind)
    \/ \E e \in Extras, b \in Blogs, s \in Slugs, m \in Nodes \cup {None} : SetExtra(e, b, s, m)
    \/ \E e \in Extras : DeleteExtra(e)
    \/ \E s \in Slugs, n \in Nodes, primary \in BOOLEAN \cup {None} : MapSlug(s, n, primary)
    \/ \E s \in Slugs : DropSlug(s) \/ ClearMapping(s)
    \/ \E s \in Slugs, e \in Extras \cup {None} : LeaveSlug(s, e)
    \/ \E n \in Nodes : SetRule(n) \/ DeleteRule(n)
    \/ \E n \in Nodes, p \in Products, mode \in Modes : Assign(n, p, mode)
    \/ \E p \in Products : Acknowledge(p)

Next ==
    \/ /\ edits < MaxEdits /\ edits' = edits + 1
       /\ \/ Edit /\ UNCHANGED <<snapshot, store, export>>
          \/ \E b \in Blogs : StopParked(b)
          \/ \E b \in Blogs, p \in Products, t \in Terms :
                 t \in DOMAIN store[b].term /\ (Categorize(b, p, {t}) \/ Categorize(b, p, {}))
    \/ \E b \in Blogs : Apply(b) \/ Fetch(b) \/ StoreExport(b)

Spec == Init /\ [][Next]_vars

-----------------------------------------------------------------------------
(* Properties.                                                               *)

(* The draft and the stores have the shapes the tables give them.            *)
TypeOK ==
    /\ node \in [Nodes -> Node \cup {None}] /\ exclude \in [Blogs -> [Nodes -> Kinds]]
    /\ extra \in [Extras -> Extra \cup {None}] /\ slugMap \in [AnySlug -> MapRow \cup {None}]
    /\ rules \subseteq Drawn /\ assigned \in [Nodes -> [Products -> Modes]]
    /\ acked \subseteq Products /\ edits \in 0..MaxEdits
    /\ \A b \in Blogs : /\ Categories(store[b]) /\ Categories(snapshot[b])
                        /\ export[b] # None => Categories(export[b])

(* What lets a plan be made of any draft the requests can leave: the tree    *)
(* has no cycle, a slug has one owner in every store, a category one slug    *)
(* that survives, and no row names a node that is gone.                      *)
DraftIsSound ==
    /\ \A n \in Drawn : Lineage(n) \subseteq Drawn
    /\ \A n \in Drawn : node[n].parent # None => n \notin Lineage(node[n].parent)
    /\ \A b \in Blogs, s \in AnySlug :
           Cardinality(NodesAt(s)) + Cardinality({e \in ExtrasAt(s) : extra[e].blog = b}) <= 1
    /\ \A n \in Nodes : Cardinality(PrimaryOf(n)) <= 1
    /\ \A s \in AnySlug : slugMap[s] # None /\ slugMap[s].target \in Nodes => slugMap[s].target \in Drawn

(* The steps in which a run converges a store: nothing else writes both.     *)
Applied(b) == store[b] = snapshot[b] /\ store'[b] = snapshot'[b] /\ store'[b] # store[b]

TreeIsCarried(b) ==
    /\ \A x \in Kept(b) \cup ExtrasHere(b) : \E t \in DOMAIN store'[b].term :
           LET m == store'[b].term[t].parent
           IN /\ store'[b].term[t].slug = SlugOf(x)
              /\ IF ParentOf(x, Kept(b)) = None THEN m = 0
                 ELSE m # 0 /\ store'[b].term[m].slug = SlugOf(ParentOf(x, Kept(b)))
    /\ Cardinality(SlugsOf(store'[b])) = Cardinality(DOMAIN store'[b].term)
ProductsAreCarried(b) == \A p \in Products :
    /\ store[b].member[p] # {} /\ p \notin acked => store'[b].member[p] # {}
    /\ \A t \in store[b].member[p] :
           LET d == Disposition(LiveSlugAt(store[b], t))
           IN d.action = "map" /\ d.target \in Kept(b) /\ assigned[d.target][p] # "remove"
              => \E u \in store'[b].member[p] : store'[b].term[u].slug = node[d.target].slug
(* After a run every category of the store's tree is one live term, under    *)
(* the nearest category above it that the store keeps, and no slug is worn   *)
(* twice: two categories never converge into one.  The run leaves no product *)
(* without a category that had one, unless somebody acknowledged it; and the *)
(* products of a category that is merged into another, or renamed, are in    *)
(* that one afterwards unless a row removes them.                            *)
CarriesTheTree ==
    [][\A b \in Blogs : Applied(b) => TreeIsCarried(b) /\ ProductsAreCarried(b)]_vars

CustomsStay(b) == \A e \in ExtrasHere(b), t \in Live(store[b]) :
    LET s == LiveSlugAt(store[b], t)
    IN /\ {extra[e].slug, extra[e].previous} \cap SlugsOf(store[b]) = {s}
       /\ slugMap[s] = None /\ NodesAt(s) = {} /\ ExtrasAt(s) \subseteq {e}
       => /\ t \in DOMAIN store'[b].term /\ store'[b].term[t].slug = extra[e].slug
          /\ \A p \in Products : t \in store[b].member[p] => t \in store'[b].member[p]
WearersStay(b) == \A n \in Kept(b), t \in Live(store[b]) :
    LiveSlugAt(store[b], t) = node[n].slug /\ slugMap[node[n].slug] = None
      /\ PrimaryOf(n) = {}
    => t \in DOMAIN store'[b].term /\ store'[b].term[t].slug = node[n].slug
(* A category that only this store has stays the same term with its          *)
(* products, through a re-slug of its entry too, as long as it has one live  *)
(* term and no row and no node takes the slug that term wears; and a term    *)
(* that wears the slug of its category stays that category's term whatever   *)
(* is merged into it ("map X into Y" must not "silently rename X's term to   *)
(* Y's slug and delete the real Y", set_mapping), unless a row names another *)
(* survivor.                                                                 *)
KeepsItsTerm == [][\A b \in Blogs : Applied(b) => CustomsStay(b) /\ WearersStay(b)]_vars

(* Giving a category another slug leaves no live slug without a disposition, *)
(* nor does an extra's new slug where its store has one term of it: the      *)
(* store can still be planned (_carry_identity_mapping, _extra_live_slug).   *)
ReslugStaysMapped == [][\A s \in AnySlug :
    IsLive(s) /\ Disposition(s) # None /\ Disposition(s)' = None =>
        /\ \A n \in Nodes, new \in Slugs : ~Reslug(n, new)
        /\ \A e \in Extras, b \in Blogs, new \in Slugs, m \in Nodes \cup {None} :
               SetExtra(e, b, new, m) =>
                   {extra[e].slug, extra[e].previous} \cap SlugsOf(snapshot[b]) # {s}]_vars

(* A slug of which the draft says two things: a row sends it away while an   *)
(* entry of the store is still to be made under it.                          *)
Contradicted(b) == \E x \in Kept(b) \cup ExtrasHere(b) :
    slugMap[SlugOf(x)] # None /\ slugMap[SlugOf(x)].target # x

(* "a converged blog re-plan[s] to zero changes" (load_dispositions): after  *)
(* a run the next plan of that store is empty, where the draft does not      *)
(* contradict itself; and every draft the requests can leave is sound.       *)
Settled(b) == NothingToDo(store'[b], PlanOf(b, store'[b]))   \* the draft stays
ReplansToNothing ==
    /\ [](TypeOK /\ DraftIsSound)
    /\ [][\A b \in Blogs : Applied(b) /\ ~Contradicted(b) => Settled(b)]_vars
=============================================================================
