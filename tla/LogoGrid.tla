------------------------------- MODULE LogoGrid -------------------------------
(* The logo grid of one store: what each editor operation and each journaled *)
(* batch does to the rows of logo.assignment, what the batch writes in its   *)
(* journal, and what its undo makes of both (logo-admin/mutations.py).       *)
(*                                                                           *)
(* A row lives in a slot: style, garment color, option row, position.        *)
(* Position 1 is the anchor of its option row, the others its companions.    *)
(* Every operation holds the scope locks of the styles it touches, so each   *)
(* is one step; BulkBatch opens the transactions up.  The imports of files   *)
(* and the mirroring of images hold none: here each is one step too.         *)
EXTENDS Integers, FiniteSets, Sequences, SequencesExt, FiniteSetsExt

CONSTANTS
    Styles, Colors, Designs, Urls, None,
    RowNums, Positions,   \* intervals from 1
    Live,        \* <<style, color>> sold by the store (woo.store_product_state)
    Class,       \* the classes of each color: light, dark, both or none
    HasArt,      \* designs FDM4 has art of for this store
    Start,       \* the grids the store may begin with
    Clipboards,  \* clipboards of the editor: <<option row, position>> to values
    Saved,       \* the values the editor saves
    Files,       \* files to import: sequences of [slot, value]
    Mirror,      \* image URLs of the old site: to their copies on the media server
    MaxSteps     \* bound on batches and operations together

VARIABLES
    grid,     \* logo.assignment of the store: slots to rows, or None
    image,    \* logo.design_image of the store: designs to an image, or None
    batches,  \* logo.bulk_batch with its rows, in order
    edits,    \* operations that kept no journal
    loaded,   \* slots whose row updated_by ascribes to the seed or the legacy import
    wrote,    \* ghost: the batch that wrote a slot last, 0 for anything else
    settled   \* ghost: the batch nothing has happened after, 0 for none

vars == <<grid, image, batches, edits, loaded, wrote, settled>>

Channels == Styles \X Colors
Slots == Styles \X Colors \X RowNums \X Positions
Channel(k) == <<k[1], k[2]>>
Slot(ch, o, p) == <<ch[1], ch[2], o, p>>
Of(ch) == {k \in Slots : Channel(k) = ch}
Anchor(k) == [k EXCEPT ![4] = 1]
Companions(k) == {j \in Slots : Anchor(j) = Anchor(k) /\ j[4] > 1}
Rows == [design : Designs, url : Urls \cup {None}, order : Nat, active : BOOLEAN, ver : Nat]
Content(r) == IF r = None THEN None ELSE [r EXCEPT !.ver = 0]
Value(d, u, n, a) == [design |-> d, url |-> u, order |-> n, active |-> a, ver |-> 0]

Now == Len(batches) + edits + Cardinality({b \in DOMAIN batches : batches[b].undone}) + 1
Filled(g, S) == {k \in S : g[k] # None}
Active(g, k) == g[k] # None /\ g[k].active
Anchored(g, k) == Active(g, k) => Active(g, Anchor(k))

-----------------------------------------------------------------------------
(* One row.                                                                  *)

(* An anchor written inactive takes its companions with it.                  *)
Cascade(g, k, v) == IF k[4] = 1 /\ ~v.active THEN {j \in Companions(k) : Active(g, j)} ELSE {}

Upsert(g, k, v) ==
    LET taken == Cascade(g, k, v)
    IN [j \in Slots |-> IF j = k THEN [v EXCEPT !.ver = Now]
                        ELSE IF j \in taken THEN [g[j] EXCEPT !.active = FALSE, !.ver = Now]
                        ELSE g[j]]

(* An image excuses a row that exists from the check of its art.             *)
Valid(g, k, v) ==
    /\ Channel(k) \in Live \/ g[k] # None
    /\ k[4] > 1 /\ v.active => Active(g, Anchor(k))
    /\ v.design \in HasArt \/ (v.url # None /\ g[k] # None)

(* A row of a CSV file: the image alone excuses it.                          *)
CsvValid(g, k, v) ==
    /\ Channel(k) \in Live \/ g[k] # None
    /\ k[4] > 1 /\ v.active => Active(g, Anchor(k))
    /\ v.design \in HasArt \/ v.url # None

(* A row of the old logo sheets: what the store sells is not asked.          *)
SheetValid(v) == v.design \in HasArt \/ v.url # None

Deactivated(g, S) ==
    [k \in Slots |-> IF k \in S /\ g[k] # None THEN [g[k] EXCEPT !.active = FALSE, !.ver = Now]
                     ELSE g[k]]
Deleted(g, S) == [k \in Slots |-> IF k \in S THEN None ELSE g[k]]
Removed(g, S, hard) == IF hard THEN Deleted(g, S) ELSE Deactivated(g, S)

-----------------------------------------------------------------------------
(* A batch under way: the grid it has written and the journal it keeps.      *)

Opened == [g |-> grid, j |-> [k \in Slots |-> None]]

JournalBefore(w, S) ==
    [w EXCEPT !.j = [k \in Slots |-> IF k \in S /\ w.j[k] = None
                                     THEN [before |-> w.g[k], after |-> None] ELSE w.j[k]]]
JournalAfter(w, S) ==
    [w EXCEPT !.j = [k \in Slots |-> IF k \in S THEN [w.j[k] EXCEPT !.after = w.g[k]] ELSE w.j[k]]]
KeepJournaled(w, S) == w                \* fault: what was not written stays journaled
Unjournal(w, S) ==
    [w EXCEPT !.j = [k \in Slots |-> IF k \in S THEN None ELSE w.j[k]]]

(* Clipboard rows onto one option row, anchor first.                         *)
WrittenOnly(w, at, S) == S              \* fault: journals the written slots only
OptionRow(w, at, S) == S \cup Filled(w.g, {j \in Slots : Anchor(j) = Anchor(at)})

PasteOptionRow(w, ch, from, to, clip, overwrite) ==
    LET ps == {p \in Positions : <<from, p>> \in DOMAIN clip}
        journaled == OptionRow(w, Slot(ch, to, 1), {Slot(ch, to, p) : p \in ps})
        Put(x, p) ==
            LET k == Slot(ch, to, p)
                v == clip[<<from, p>>]
            IN IF (x.g[k] # None /\ ~overwrite) \/ ~Valid(x.g, k, v) THEN x
               ELSE [g |-> Upsert(x.g, k, v), wrote |-> x.wrote \cup {k},
                     fell |-> x.fell \/ (p = 1 /\ ~v.active)]
        x == FoldLeft(Put, [g |-> w.g, wrote |-> {}, fell |-> FALSE], SetToSortSeq(ps, <))
        recorded == x.wrote \cup IF x.fell THEN {k \in journaled : k[4] > 1 /\ w.g[k] # None} ELSE {}
        mine == {k \in journaled : w.j[k] = None}
        after == [JournalBefore(w, journaled) EXCEPT !.g = x.g]
    IN Unjournal(JournalAfter(after, recorded), mine \ recorded)

(* Clipboard rows onto a channel, in place or below what it has.             *)
Base(g, ch) == Max({0} \cup {k[3] : k \in Filled(g, Of(ch))})
Target(w, ch, clip, asNew, o) ==
    IF asNew THEN Base(w.g, ch) + Cardinality({q \in {s[1] : s \in DOMAIN clip} : q <= o}) ELSE o

PasteChannel(w, ch, clip, overwrite, asNew) ==
    IF ch \notin Live THEN w
    ELSE FoldLeft(LAMBDA x, o : PasteOptionRow(x, ch, o, Target(w, ch, clip, asNew, o), clip, overwrite),
                  w, SetToSortSeq({s[1] : s \in DOMAIN clip}, <))

Fits(ch, clip) == Base(grid, ch) + Cardinality({s[1] : s \in DOMAIN clip}) \in RowNums

(* The rows of a channel as a clipboard.                                     *)
RowsOf(g, ch, S) ==
    [s \in {<<k[3], k[4]>> : k \in Filled(g, Of(ch)) \cap S} |-> Content(g[Slot(ch, s[1], s[2])])]

-----------------------------------------------------------------------------
Init ==
    /\ grid \in Start
    /\ image = [d \in Designs |-> None]
    /\ batches = <<>>
    /\ edits = 0
    /\ loaded \in {{}, Filled(grid, Slots)}
    /\ wrote = [k \in Slots |-> 0]
    /\ settled = 0

(* A row that is written is ascribed to the user who wrote it.               *)
StillLoaded(g) == {k \in loaded : g[k] = grid[k]}

(* A batch is committed: w is what it wrote, target what its header says.    *)
Close(kind, target, w) ==
    LET b == Len(batches) + 1
    IN /\ grid' = w.g
       /\ batches' = Append(batches, [kind |-> kind, target |-> target, j |-> w.j, undone |-> FALSE,
                                      was |-> [grid |-> [k \in Slots |-> Content(grid[k])],
                                               image |-> image, wrote |-> wrote,
                                               changed |-> {k \in Slots : w.g[k] # grid[k]}]])
       /\ wrote' = [k \in Slots |-> IF w.g[k] # grid[k] THEN b ELSE wrote[k]]
       /\ settled' = b
       /\ loaded' = StillLoaded(w.g)
       /\ UNCHANGED edits

KeepsImages == UNCHANGED image

Paste(chans, clip, overwrite, asNew) ==
    /\ \A ch \in chans : asNew => Fits(ch, clip)
    /\ Close("paste", chans,
             FoldSet(LAMBDA ch, w : PasteChannel(w, ch, clip, overwrite, asNew), Opened, chans))
    /\ KeepsImages

(* The colors of a class, as the store names them; a clipboard goes to those *)
(* of a style.                                                               *)
Classified(class) == {c \in Colors : class \in Class[c]}
Scoped(s, class) == {ch \in Live : ch[1] = s /\ ch[2] \in Classified(class)}

(* The style's own logos onto its colors that have none, or onto the colors  *)
(* the plan of the editor named.                                             *)
Configured(g, s) == {c \in Colors : \E k \in Of(<<s, c>>) : Active(g, k)}
Scope(s) == {ch \in Live : ch[1] = s}
Gaps(s) == {ch \in Scope(s) : ch[2] \notin Configured(grid, s)}

FillGaps(s, source, chans, overwrite) ==
    LET clip == RowsOf(grid, <<s, source>>, {k \in Slots : Active(grid, k)})
    IN /\ source \in Configured(grid, s) /\ <<s, source>> \notin chans
       /\ Close("fill_gaps", chans,
                FoldSet(LAMBDA ch, w : PasteChannel(w, ch, clip, overwrite, FALSE), Opened, chans))
       /\ KeepsImages

(* Which channel of the source feeds a channel of the target: its own color, *)
(* or with "like" the fullest channel of its class.                          *)
Template(source, c) ==
    LET rows(e) == Cardinality(Filled(grid, Of(<<source, e>>)))
        same == {e \in Colors : rows(e) > 0 /\ Class[e] = Class[c] /\ Class[c] # {}}
    IN {e \in same : \A f \in same : rows(f) <= rows(e)}

Feeds(source, match, c) ==
    IF Filled(grid, Of(<<source, c>>)) # {} THEN {c}
    ELSE IF match = "like" THEN Template(source, c) ELSE {}

ClearChannel(w, ch) ==
    LET S == Filled(w.g, Of(ch))
    IN [JournalBefore(w, S) EXCEPT !.g = Deleted(@, S)]

CopyStyle(source, s, match, mode) ==
    LET targets == {ch \in Live : ch[1] = s /\ Feeds(source, match, ch[2]) # {}}
        feed(ch) == <<source, CHOOSE e \in Feeds(source, match, ch[2]) : TRUE>>
        Copy(ch, w) ==
            PasteChannel(IF mode = "replace" THEN ClearChannel(w, ch) ELSE w, ch,
                         RowsOf(grid, feed(ch), Slots), mode # "merge", FALSE)
    IN /\ s # source /\ Filled(grid, {k \in Slots : k[1] = source}) # {}
       /\ Close("copy_style_batch", targets, FoldSet(Copy, Opened, targets))
       /\ KeepsImages

-----------------------------------------------------------------------------
(* Batches that change rows in place.                                        *)

(* The rows in the domain of new rewritten by it, journaled one by one.      *)
Stamped(r) == [r EXCEPT !.ver = Now]
Rewrite(new) ==
    LET w == JournalBefore(Opened, DOMAIN new)
    IN JournalAfter([w EXCEPT !.g = [k \in Slots |-> IF k \in DOMAIN new THEN new[k] ELSE grid[k]]],
                    DOMAIN new)

(* Option rows are ordered by the design of their first position.            *)
Identity(ch, o) ==
    grid[Slot(ch, o, Min({k[4] : k \in Filled(grid, {j \in Of(ch) : j[3] = o})}))].design
OptionRows(ch) == {k[3] : k \in Filled(grid, Of(ch))}
SortOf(ch, o) == Min({grid[k].order : k \in Filled(grid, {j \in Of(ch) : j[3] = o})})

(* The place of a design in the dragged order; of the designs the dragged    *)
(* color does not carry, their place after it.                               *)
DenseRank(ch, order, other, o) ==       \* fault: every color is renumbered from the first place
    Cardinality({q \in OptionRows(other) : SortOf(other, q) < SortOf(other, o)})
Rank(ch, order, other, o) ==
    LET places(d) == {i \in DOMAIN order : Identity(ch, order[i]) = d}
        extra == {q \in OptionRows(other) : places(Identity(other, q)) = {}}
        first(d) == Min({SortOf(other, q) * 1000 + q : q \in {r \in extra : Identity(other, r) = d}})
        d == Identity(other, o)
    IN IF places(d) # {} THEN Min(places(d)) - 1
       ELSE Len(order) + Cardinality({e \in {Identity(other, q) : q \in extra} : first(e) < first(d)})

NewSort(ch, order, k) ==
    10 * (1 + IF Channel(k) = ch THEN (CHOOSE i \in DOMAIN order : order[i] = k[3]) - 1
              ELSE Rank(ch, order, Channel(k), k[3]))

Reorder(ch, order, applyTo) ==
    LET S == Filled(grid, IF applyTo = "color" THEN Of(ch) ELSE {k \in Slots : k[1] = ch[1]})
    IN /\ OptionRows(ch) # {} /\ Range(order) = OptionRows(ch) /\ Len(order) = Cardinality(OptionRows(ch))
       /\ Close("reorder", [ch |-> ch, order |-> [i \in DOMAIN order |-> Identity(ch, order[i])],
                            applyTo |-> applyTo],
                Rewrite([k \in S |-> IF grid[k].order = NewSort(ch, order, k) THEN grid[k]
                                    ELSE Stamped([grid[k] EXCEPT !.order = NewSort(ch, order, k)])]))
       /\ KeepsImages

(* The picture a row of a design gets: the store's own, else one the design  *)
(* shows already (which of them depends on their dates, left out here).      *)
Shows(d) == {k \in Slots : Active(grid, k) /\ grid[k].design = d /\ grid[k].url # None}
Pictures(d) == IF image[d] # None THEN {image[d]}
               ELSE IF Shows(d) = {} THEN {None} ELSE {grid[k].url : k \in Shows(d)}

(* The rows a swap would change, as they would be: a manual save would take  *)
(* them.                                                                     *)
Swapped(k, to, u) == Stamped([grid[k] EXCEPT !.design = to, !.url = IF @ = None THEN None ELSE u])
SwapPlan(from, to, styles, u) ==
    {k \in Slots : k[1] \in styles /\ grid[k] # None /\ grid[k].design = from
                   /\ Valid(grid, k, Swapped(k, to, u))}

DesignSwap(from, to, styles) ==
    \E u \in Pictures(to) :
       /\ from # to /\ SwapPlan(from, to, styles, u) # {}
       /\ Close("design_swap", to, Rewrite([k \in SwapPlan(from, to, styles, u) |-> Swapped(k, to, u)]))
       /\ KeepsImages

(* One logo as the anchor of option row o of the colors of a class, where it *)
(* has none or everywhere: as the preview listed them.                       *)
Candidates(class, o, overwrite) ==
    {k \in Slots : /\ Channel(k) \in Live /\ k[2] \in Classified(class) /\ k[3] = o /\ k[4] = 1
                   /\ overwrite \/ ~Active(grid, k)}

BulkApply(class, o, d, overwrite) ==
    LET S == Candidates(class, o, overwrite)
    IN \E u \in Pictures(d) :
         /\ d \in HasArt /\ S # {}
         /\ Close("bulk_apply", d, Rewrite([k \in S |-> Stamped(Value(d, u, 0, TRUE))]))
         /\ KeepsImages

-----------------------------------------------------------------------------
(* The store's own image of a design, and the rows that show it.             *)

SetImage(d, u) ==
    LET rows == {k \in Slots : grid[k] # None /\ grid[k].design = d}
        w == Rewrite([k \in {r \in rows : grid[r].url # u} |-> Stamped([grid[k] EXCEPT !.url = u])])
    IN /\ rows # {} \/ d \in HasArt
       /\ Close("design_image", [design |-> d, url |-> u, previous |-> image[d]], w)
       /\ image' = [image EXCEPT ![d] = u]

StillShows(t) == image[t.design] = t.url

RestoredImages(b) ==
    LET t == batches[b].target
    IN IF batches[b].kind = "design_image" /\ StillShows(t)
       THEN [image EXCEPT ![t.design] = t.previous] ELSE image

(* The undo puts back each journaled row that still is what the batch left.  *)
PutsBack(r, e) == IF e.after = None THEN r = None /\ e.before # None ELSE r = e.after

Undo(b) ==
    LET j == batches[b].j
        S == {k \in Slots : j[k] # None /\ PutsBack(grid[k], j[k])}
    IN /\ ~batches[b].undone
       /\ grid' = [k \in Slots |->
             IF k \notin S THEN grid[k]
             ELSE IF j[k].before = None THEN None ELSE [j[k].before EXCEPT !.ver = Now]]
       /\ image' = RestoredImages(b)
       /\ batches' = [batches EXCEPT ![b].undone = TRUE]
       /\ wrote' = [k \in Slots |-> IF k \in S THEN batches[b].was.wrote[k] ELSE wrote[k]]
       /\ settled' = 0
       /\ loaded' = StillLoaded(grid')
       /\ UNCHANGED edits

-----------------------------------------------------------------------------
(* Operations without a journal.                                             *)

Touched(g) ==
    /\ g # grid
    /\ grid' = g /\ edits' = edits + 1
    /\ wrote' = [k \in Slots |-> IF g[k] # grid[k] THEN 0 ELSE wrote[k]]
    /\ settled' = 0
    /\ UNCHANGED <<image, batches>>
Edited(g) == Touched(g) /\ loaded' = StillLoaded(g)

Save(k, v, createOnly) ==
    /\ Valid(grid, k, v) /\ (createOnly => grid[k] = None)
    /\ Edited(Upsert(grid, k, v))

(* Removing an anchor removes its option row.                                *)
AnchorAlone(k) == {k}                   \* fault: the companions of the anchor stay
Reach(k) == IF k[4] = 1 THEN {k} \cup Companions(k) ELSE {k}
RemoveRow(k, hard) ==
    /\ Filled(grid, Reach(k)) # {}
    /\ Edited(Removed(grid, Reach(k), hard))

RemoveColor(ch, hard) ==
    Edited(Removed(grid, {k \in Of(ch) : hard \/ Active(grid, k)}, hard))

Revivable(s) == {k \in Slots : k[1] = s /\ (k[4] = 1 \/ grid[Anchor(k)] # None)}
SetStyleActive(s, a) == {k \in Slots : k[1] = s /\ grid[k] # None /\ (~a \/ k \in Revivable(s))}
SetStylesActive(styles, a) ==
    LET S == UNION {SetStyleActive(s, a) : s \in styles}
    IN Edited([k \in Slots |-> IF k \in S THEN [grid[k] EXCEPT !.active = a, !.ver = Now] ELSE grid[k]])

(* Rows v of slots S, one after the other, where nothing stands in the way.  *)
Copied(S, v, overwrite) ==
    FoldLeft(LAMBDA g, k : IF (g[k] # None /\ ~overwrite) \/ (k[4] > 1 /\ v[k].active /\ ~Active(g, Anchor(k)))
                           THEN g ELSE Upsert(g, k, v[k]),
             grid, SetToSortSeq(S, LAMBDA i, j : i[4] < j[4]))

ApplyToColors(k, overwrite) ==
    LET S == {j \in Slots : Channel(j) \in Live /\ j[1] = k[1] /\ j[3] = k[3] /\ j[4] = k[4]
                            /\ (k[4] > 1 => Active(grid, Anchor(j)))}
    IN /\ grid[k] # None /\ Anchored(grid, k)
       /\ Edited(Copied(S, [j \in S |-> Content(grid[k])], overwrite))

CopyStyleRows(source, s, overwrite) ==
    LET from(k) == [k EXCEPT ![1] = source]
        S == {k \in Slots : k[1] = s /\ Channel(k) \in Live /\ grid[from(k)] # None}
    IN /\ s # source
       /\ Edited(Copied(S, [k \in S |-> Content(grid[from(k)])], overwrite))

(* A design leaves a style: with its option row where it is the anchor.      *)
RemoveDesign(d, s, hard) ==
    LET hit == {k \in Slots : k[1] = s /\ grid[k] # None /\ grid[k].design = d}
        S == hit \cup {k \in Slots : Anchor(k) \in hit}
    IN Edited(Removed(grid, {k \in S : hard \/ Active(grid, k)}, hard))

ClearImage(d) ==
    /\ image[d] # None
    /\ image' = [image EXCEPT ![d] = None]
    /\ edits' = edits + 1 /\ settled' = 0
    /\ UNCHANGED <<grid, batches, wrote, loaded>>

-----------------------------------------------------------------------------
(* Files, row by row in one transaction: a row that fails a check is         *)
(* reported and left out, as is one whose slot an earlier row has taken.     *)

ImportCsv(file) ==
    LET Put(x, e) ==
            IF e.slot \in x.seen \/ ~CsvValid(x.g, e.slot, e.value) THEN x
            ELSE [g |-> Upsert(x.g, e.slot, e.value), seen |-> x.seen \cup {e.slot}]
    IN Edited(FoldLeft(Put, [g |-> grid, seen |-> {}], file).g)

(* The sheets of the old site: rows come active, and those that people wrote *)
(* are left alone when the import preserves them.                            *)
Ours(preserve, g, by, k) == ~preserve \/ g[k] = None \/ k \in by
ImportSheets(file, preserve) ==
    LET Put(x, e) ==
            LET k == e.slot
            IN IF k \in x.seen \/ ~SheetValid(e.value) \/ (k[4] > 1 /\ ~Active(x.g, Anchor(k))) THEN x
               ELSE IF ~Ours(preserve, x.g, x.by, k) THEN [x EXCEPT !.seen = @ \cup {k}]
               ELSE [g |-> [x.g EXCEPT ![k] = [e.value EXCEPT !.active = TRUE, !.ver = Now]],
                     seen |-> x.seen \cup {k}, by |-> x.by \cup {k}]
        end == FoldLeft(Put, [g |-> grid, seen |-> {}, by |-> loaded], file)
    IN /\ Touched(end.g)
       /\ loaded' = end.by

(* Copies of images on the old site replace them in every row that still     *)
(* shows them; downloads may fail.                                           *)
MirrorImages(urls) ==
    Edited([k \in Slots |->
        IF grid[k] # None /\ grid[k].url \in urls
        THEN [grid[k] EXCEPT !.url = Mirror[@], !.ver = Now] ELSE grid[k]])

-----------------------------------------------------------------------------
(* The requests of the editor and of the agent.                              *)

PasteRequest ==
    \E clip \in Clipboards, overwrite, asNew \in BOOLEAN :
       \/ \E ch \in Live : Paste({ch}, clip, overwrite, asNew)
       \/ \E s \in Styles, class \in {"light", "dark"} : Paste(Scoped(s, class), clip, overwrite, asNew)

FillRequest ==
    \E s \in Styles, c \in Colors, overwrite \in BOOLEAN :
       \E chans \in {Gaps(s)} \cup {{ch} : ch \in Scope(s)} : FillGaps(s, c, chans, overwrite)

CopyRequest ==
    \E s, t \in Styles, match \in {"exact", "like"}, mode \in {"merge", "overwrite", "replace"} :
       CopyStyle(s, t, match, mode)

ReorderRequest ==
    \E ch \in Channels, applyTo \in {"color", "style"} :
       \E order \in SetToSeqs(OptionRows(ch)) : Reorder(ch, order, applyTo)

SwapRequest ==
    \E from, to \in Designs, styles \in {{s} : s \in Styles} \cup {Styles} : DesignSwap(from, to, styles)

ApplyRequest ==
    \E o \in RowNums, d \in Designs, overwrite \in BOOLEAN, class \in {"light", "dark"} :
       BulkApply(class, o, d, overwrite)

ImageRequest == \E d \in Designs, u \in Urls : SetImage(d, u)

Batch ==
    /\ Len(batches) + edits < MaxSteps
    /\ \/ PasteRequest \/ FillRequest \/ CopyRequest \/ ReorderRequest
       \/ SwapRequest \/ ApplyRequest \/ ImageRequest

Operation ==
    /\ Len(batches) + edits < MaxSteps
    /\ \/ \E k \in Slots, v \in Saved, createOnly \in BOOLEAN : Save(k, v, createOnly)
       \/ \E k \in Slots, hard \in BOOLEAN : RemoveRow(k, hard)
       \/ \E ch \in Channels, hard \in BOOLEAN : RemoveColor(ch, hard)
       \/ \E styles \in SUBSET Styles, a \in BOOLEAN : SetStylesActive(styles, a)
       \/ \E k \in Slots, overwrite \in BOOLEAN : ApplyToColors(k, overwrite)
       \/ \E s, t \in Styles, overwrite \in BOOLEAN : CopyStyleRows(s, t, overwrite)
       \/ \E d \in Designs, s \in Styles, hard \in BOOLEAN : RemoveDesign(d, s, hard)
       \/ \E d \in Designs : ClearImage(d)
       \/ \E file \in Files :
             ImportCsv(file) \/ \E preserve \in BOOLEAN : ImportSheets(file, preserve)
       \/ \E urls \in SUBSET DOMAIN Mirror : MirrorImages(urls)

Next == Batch \/ Operation \/ \E b \in DOMAIN batches : Undo(b)

Spec == Init /\ [][Next]_vars

-----------------------------------------------------------------------------
(* Properties.                                                               *)

TypeOK ==
    /\ \A k \in Filled(grid, Slots) : grid[k] \in Rows /\ grid[k].ver <= Now
    /\ image \in [Designs -> Urls \cup {None}]
    /\ loaded \subseteq Filled(grid, Slots)

Undoes(b) == batches'[b].undone /\ ~batches[b].undone

(* "position 2/3 requires an active position-1 assignment in the same option *)
(* row": whatever an operation or a batch does, it leaves no active          *)
(* companion without the active anchor it had.  (The undo of a batch can:    *)
(* it decides row by row.)                                                   *)
AnchorsHold ==
    [][\A k \in Slots : Anchored(grid, k) =>
         Anchored(grid', k) \/ \E b \in DOMAIN batches : Undoes(b)]_vars

(* A batch undone before anything else happens gives back the grid and the   *)
(* images it found: whatever it wrote, cleared, or made fall with an anchor  *)
(* is in its journal.                                                        *)
UndoneAtOnce ==
    [][\A b \in DOMAIN batches : Undoes(b) /\ settled = b =>
         /\ [k \in Slots |-> Content(grid'[k])] = batches[b].was.grid
         /\ image' = batches[b].was.image]_vars

(* The undo of a batch, however late, changes only rows this batch had       *)
(* changed and was the last to write, but for one it had deleted whose slot  *)
(* stands empty again: what it only looked at stays as it is, gone or edited.*)
OnlyItsOwn ==
    [][\A b \in DOMAIN batches, k \in Slots :
         Undoes(b) /\ Content(grid'[k]) # Content(grid[k]) =>
           /\ k \in batches[b].was.changed
           /\ wrote[k] = b \/ grid[k] = None]_vars

(* "a logo that moved first on the dragged color moves first everywhere it   *)
(* appears": the storefront orders the logos of a style by their lowest sort *)
(* value over all of its colors, and after a style-wide reorder that order   *)
(* is the dragged one, with the other logos behind.                          *)
Logos(s) == {<<k[2], k[3]>> : k \in Filled(grid, {j \in Slots : j[1] = s})}
Lowest(s, d) == Min({SortOf(<<s, x[1]>>, x[2]) : x \in {y \in Logos(s) : Identity(<<s, y[1]>>, y[2]) = d}})
Sorted(t) ==
    LET s == t.ch[1]
        place(d) == Min({Len(t.order) + 1} \cup {i \in DOMAIN t.order : t.order[i] = d})
        carried == {Identity(<<s, x[1]>>, x[2]) : x \in Logos(s)}
    IN \A d, e \in carried : place(d) < place(e) => Lowest(s, d) < Lowest(s, e)
ReorderWins == TypeOK /\
    (settled # 0 /\ batches[settled].kind = "reorder" /\ batches[settled].target.applyTo = "style"
      => Sorted(batches[settled].target))
==============================================================================
