------------------------------ MODULE CatalogPage ------------------------------
(***************************************************************************)
(* The web page of the vehicle catalog: an administrator picks a make and  *)
(* a model; the page shows the model's pictures, asked for once per model  *)
(* (ModelGallery), and its modifications, narrowed by filters              *)
(* (ModificationsTable).  Lists are kept by the page's query cache and     *)
(* fetched again when they are old; a modification is known here by the    *)
(* one value the filters look at.                                          *)
(***************************************************************************)
EXTENDS Naturals, FiniteSets

CONSTANTS
  Models,      \* of the make that is picked; the catalog has others
  Values,      \* of a modification's field
  None,
  MaxPicks,    \* bound on picks of a model
  MaxChanges   \* bound on changes of the catalog

VARIABLES
  rows,        \* values of the modifications in the catalog, by model
  cached,      \* what the page has of them; None: not fetched
  stale,       \* lists that are to be fetched again
  picked,      \* the model
  filters,     \* the values that are let through; {}: all
  images,      \* the gallery's pictures: of which model
  source,      \* and their source
  loading,
  asked,       \* the request for the pictures of the model
  aborted,     \* a request for those of the model before has yet to end
  picks, changes,
  kept,        \* the gallery was on another model before
  overtaken,   \* an aborted request ended before the one that replaced it
  refetched    \* the list changed under the filters

listVars == <<rows, cached, stale, changes>>
galleryVars == <<images, source, loading, asked, aborted, kept, overtaken>>
vars == <<listVars, picked, filters, picks, refetched, galleryVars>>

Init ==
  /\ rows \in [Models -> SUBSET Values]
  /\ cached = [m \in Models |-> None] /\ stale = {} /\ changes = 0
  /\ picked = None /\ filters = {} /\ picks = 0 /\ refetched = FALSE
  /\ images = None /\ source = None /\ loading = FALSE /\ asked = FALSE /\ aborted = FALSE
  /\ kept = FALSE /\ overtaken = FALSE

Mods == IF picked = None THEN {} ELSE IF cached[picked] = None THEN {} ELSE cached[picked]

(* The chips: shown when there is a choice, and not while the list loads.  *)
Offered == IF Cardinality(Mods) > 1 THEN Mods ELSE {}
Shown == IF filters = {} THEN Mods ELSE Mods \intersect filters

-----------------------------------------------------------------------------
(* The catalog changes under the page: an import, or an administrator.     *)
Change(m, set) ==
  /\ changes < MaxChanges /\ changes' = changes + 1
  /\ set # rows[m] /\ rows' = [rows EXCEPT ![m] = set]
  /\ UNCHANGED <<cached, stale, picked, filters, picks, refetched, galleryVars>>

(* A minute passes and the window gets the focus, or an import was started *)
(* and everything is invalidated.                                          *)
Age ==
  /\ stale' = {m \in Models : cached[m] # None} /\ stale' # stale
  /\ UNCHANGED <<rows, cached, changes, picked, filters, picks, refetched, galleryVars>>

FetchList(m) ==
  /\ m = picked /\ (cached[m] = None \/ m \in stale)
  /\ cached' = [cached EXCEPT ![m] = rows[m]] /\ stale' = stale \ {m}
  /\ refetched' = (refetched \/ (cached[m] # None /\ filters # {}))
  /\ UNCHANGED <<rows, changes, picked, filters, picks, galleryVars>>

(* Mutant: the filters stay when the model changes.                        *)
FiltersStay(m) == filters' = filters /\ refetched' = FALSE

Refilter(m) == filters' = {} /\ refetched' = FALSE

(* The gallery's effect: the old request is aborted, the pictures go, the  *)
(* source of the old ones does not.                                        *)
Mount ==
  /\ images' = None /\ source' = None /\ loading' = TRUE /\ asked' = TRUE /\ aborted' = FALSE
  /\ kept' = FALSE /\ overtaken' = FALSE

Remodel ==
  /\ images' = None /\ loading' = TRUE /\ asked' = TRUE /\ aborted' = (aborted \/ asked)
  /\ kept' = TRUE /\ overtaken' = FALSE /\ UNCHANGED source

Unmount ==
  /\ images' = None /\ source' = None /\ loading' = FALSE /\ asked' = FALSE
  /\ aborted' = FALSE /\ kept' = FALSE /\ overtaken' = FALSE

(* handleSelectModel: the same once more is none.                          *)
SelectModel(m) ==
  /\ picks < MaxPicks /\ picks' = picks + 1
  /\ Refilter(m)
  /\ IF m = picked THEN picked' = None /\ Unmount
     ELSE picked' = m /\ IF picked = None THEN Mount ELSE Remodel
  /\ UNCHANGED listVars

(* handleSelectMake: the model is dropped, whatever the make.              *)
SelectMake ==
  /\ picked # None /\ picked' = None /\ Unmount /\ Refilter(None)
  /\ UNCHANGED <<listVars, picks>>

(* The pictures, and where they are from, when the API knows.              *)
Pictures ==
  /\ asked /\ asked' = FALSE /\ loading' = FALSE
  /\ images' \in {picked, None}
  /\ source' \in {picked, source}
  /\ UNCHANGED <<aborted, kept, overtaken, picked, filters, picks, refetched, listVars>>

(* A request that was aborted ends, and with it the loading.               *)
AbortedEnds ==
  /\ aborted /\ aborted' = FALSE /\ loading' = FALSE
  /\ overtaken' = (overtaken \/ asked)
  /\ UNCHANGED <<images, source, asked, kept, picked, filters, picks, refetched, listVars>>

(* toggleChip, clearAll.                                                   *)
Toggle(v) ==
  /\ v \in Offered
  /\ filters' = IF v \in filters THEN filters \ {v} ELSE filters \union {v}
  /\ UNCHANGED <<picked, picks, refetched, listVars, galleryVars>>

ClearAll ==
  /\ filters # {} /\ filters' = {} /\ refetched' = FALSE
  /\ UNCHANGED <<picked, picks, listVars, galleryVars>>

Next ==
  \/ \E m \in Models : SelectModel(m) \/ FetchList(m) \/ \E set \in SUBSET Values : Change(m, set)
  \/ Age \/ SelectMake \/ Pictures \/ AbortedEnds \/ ClearAll
  \/ \E v \in Values : Toggle(v)

Spec == Init /\ [][Next]_vars

-----------------------------------------------------------------------------
(* Pictures are of the model that is shown; so is their source, unless the *)
(* API named none and the gallery was on another model before              *)
(* (model-gallery.tsx:21-40).                                              *)
GalleryShowsModel ==
  /\ images \in {None, picked}
  /\ images # None => source \in {None, picked} \/ kept

(* A gallery that neither loads nor shows has its answer, unless the end   *)
(* of an aborted request passed for it (model-gallery.tsx:38).             *)
EmptyIsAnswered == picked # None /\ ~loading /\ images = None => ~asked \/ overtaken

(* A filter that narrows the table can be taken back where it was set,     *)
(* unless the list was fetched anew; with it the table never shows less    *)
(* than one row (modifications-table.tsx:296-306, 406-418).                *)
FiltersAreOffered ==
  filters # {} /\ ~refetched => filters \subseteq Offered /\ Shown # {}

PageExplained == GalleryShowsModel /\ EmptyIsAnswered /\ FiltersAreOffered
=============================================================================
