----------------------------- MODULE VehiclePicker -----------------------------
(***************************************************************************)
(* The mobile application's choice of make, model and modification from    *)
(* the vehicle catalog (VehicleCatalogPicker and its sheets), on the form  *)
(* of what a talon was read as and on the form filled by hand.  The picker *)
(* looks up by itself what the talon says, while its user may already be   *)
(* choosing; it keeps its choice, and its form the texts.                  *)
(***************************************************************************)
EXTENDS Naturals, Sequences, FiniteSets

CONSTANTS
  Makes, None,
  MaxPicks,    \* bound on choices
  MaxMounts,   \* bound on times the picker is built
  MaxOpen,     \* bound on sheets open or waited for
  MaxTyped     \* bound on queries typed into one sheet

Models(make) == [make: {make}, no: {1, 2}]
Modifications(model) == [model: {model}, no: {1, 2}]
AllModels == UNION {Models(k) : k \in Makes}
AllModifications == UNION {Modifications(m) : m \in AllModels}
HasPower(mod) == mod.no = 1                  \* of the others the catalog has none

VARIABLES
  host,        \* the form the picker is part of
  read,        \* what the talon was read as
  texts,       \* the texts the picker was built with
  picked,      \* its choice
  form,        \* the texts of the form; of the power, the modification it is of
  auto,        \* what the picker is looking up by itself
  lists,       \* models whose modifications were asked for
  sheets,      \* open sheets, the last on top
  mounts, picks,
  chosen,      \* make of the last choice
  touched,     \* a choice was made since the picker was built
  crossed,     \* a choice or a look-up ended in a picker that had moved on
  rebuilt,     \* the picker was built anew since the last choice
  unknown,     \* the catalog did not answer for a text, or does not have it
  disordered   \* a sheet was answered for a query after a newer one

sheetVars == <<lists, sheets, disordered>>
ghosts == <<chosen, touched, crossed, rebuilt, unknown>>
vars == <<host, read, texts, picked, form, auto, sheetVars, mounts, picks, ghosts>>

Choice(make, model, mod) == [make |-> make, model |-> model, mod |-> mod]
Nothing == Choice(None, None, None)

Readings ==
  {Nothing} \union
  LET k == CHOOSE make \in Makes : TRUE
      m == [make |-> k, no |-> 1]
  IN  {Choice(k, None, None), Choice(k, m, None), Choice(k, m, [model |-> m, no |-> 1])}

Populate(given) == IF given.make = None THEN None ELSE "make"

Init ==
  /\ host \in {"results", "validation"} /\ read \in Readings
  /\ host = "validation" => read.mod = None
  /\ texts = read /\ picked = Nothing /\ auto = Populate(read)
  /\ form = [make |-> read.make, model |-> read.model, mod |-> read.mod, power |-> "talon"]
  /\ lists = <<>> /\ sheets = <<>> /\ mounts = 1 /\ picks = 0
  /\ chosen = None /\ touched = FALSE /\ crossed = FALSE /\ rebuilt = FALSE /\ unknown = FALSE
  /\ disordered = FALSE

(* _onCatalogSelection, and what the other form does with a selection: the *)
(* texts are replaced, the power only by a power.  The form filled by hand *)
(* has no text for the modification.                                       *)
OnChanged(choice) ==
  form' = [make  |-> choice.make,
           model |-> choice.model,
           mod   |-> IF host = "results" THEN choice.mod ELSE None,
           power |-> IF choice.mod # None /\ HasPower(choice.mod) THEN choice.mod ELSE form.power]

-----------------------------------------------------------------------------
(* _autoPopulate: make, model and modification, each looked up with the    *)
(* text of the talon once the one before it is found.                      *)
Found(at, set, choice, next) ==
  /\ auto = at /\ auto' = next
  /\ picked' = set /\ OnChanged(choice)
  /\ crossed' = (crossed \/ touched)
  /\ UNCHANGED unknown

FindMake ==
  Found("make", [picked EXCEPT !.make = texts.make], Choice(texts.make, None, None),
        IF texts.model = None THEN None ELSE "model")

FindModel ==
  Found("model", [picked EXCEPT !.model = texts.model], Choice(texts.make, texts.model, None),
        IF texts.mod = None THEN None ELSE "mod")

FindModification == Found("mod", [picked EXCEPT !.mod = texts.mod], texts, None)

(* Nothing is found, or the request fails: it goes no further.             *)
NotFound ==
  /\ auto # None /\ auto' = None
  /\ unknown' = TRUE
  /\ UNCHANGED <<picked, form, crossed>>

AutoPopulate ==
  /\ FindMake \/ FindModel \/ FindModification \/ NotFound
  /\ UNCHANGED <<host, read, texts, sheetVars, mounts, picks, chosen, touched, rebuilt>>

-----------------------------------------------------------------------------
(* Sheets.  While one is open the picker below takes no taps; the list of  *)
(* modifications is fetched before its sheet opens.                        *)
Top == sheets[Len(sheets)]
Room == Len(lists) + Len(sheets) < MaxOpen
Below == SubSeq(sheets, 1, Len(sheets) - 1)

Sheet(kind, make, model) ==
  [kind |-> kind, make |-> make, model |-> model,
   typed |-> 1, waiting |-> IF kind = "mod" THEN {} ELSE {1},
   items |-> IF kind = "mod" THEN 1 ELSE 0, failed |-> FALSE]

OpenSheet(kind) ==
  /\ sheets = <<>> /\ Room /\ picks < MaxPicks
  /\ kind = "model" => picked.make # None
  /\ sheets' = <<Sheet(kind, picked.make, None)>>
  /\ UNCHANGED <<host, read, texts, picked, form, auto, lists, disordered, mounts, picks, ghosts>>

AskModifications ==
  /\ sheets = <<>> /\ Room /\ picks < MaxPicks
  /\ picked.make # None /\ picked.model # None
  /\ lists' = Append(lists, Choice(picked.make, picked.model, None))
  /\ UNCHANGED <<host, read, texts, picked, form, auto, sheets, disordered, mounts, picks, ghosts>>

(* A request that fails opens no sheet and says nothing.                   *)
ModificationsArrive(i) ==
  /\ lists' = SubSeq(lists, 1, i - 1) \o SubSeq(lists, i + 1, Len(lists))
  /\ \/ sheets' = Append(sheets, Sheet("mod", lists[i].make, lists[i].model))
     \/ UNCHANGED sheets
  /\ UNCHANGED <<host, read, texts, picked, form, auto, disordered, mounts, picks, ghosts>>

(* A pause in the typing sends the query; that of the modifications is     *)
(* answered from the list that came with the sheet.                        *)
TypeQuery ==
  /\ sheets # <<>> /\ Top.kind # "mod" /\ Top.typed < MaxTyped
  /\ sheets' = Append(Below, [Top EXCEPT !.typed = @ + 1, !.waiting = @ \union {Top.typed + 1},
                                         !.failed = FALSE])
  /\ UNCHANGED <<host, read, texts, picked, form, auto, lists, disordered, mounts, picks, ghosts>>

(* _loadItems: whichever answer comes last is the list, and a failure      *)
(* stays on the sheet until something is typed.                            *)
QueryAnswered(q) ==
  /\ sheets # <<>> /\ q \in Top.waiting
  /\ \/ sheets' = Append(Below, [Top EXCEPT !.waiting = @ \ {q}, !.items = q])
     \/ sheets' = Append(Below, [Top EXCEPT !.waiting = @ \ {q}, !.failed = TRUE])
  /\ disordered' = (disordered \/ \E p \in 1..Top.typed : p > q /\ p \notin Top.waiting)
  /\ UNCHANGED <<host, read, texts, picked, form, auto, lists, mounts, picks, ghosts>>

Dismiss ==
  /\ sheets # <<>> /\ sheets' = Below
  /\ UNCHANGED <<host, read, texts, picked, form, auto, lists, disordered, mounts, picks, ghosts>>

-----------------------------------------------------------------------------
(* Choices: an item of the sheet on top, for the make and model it was     *)
(* opened with.                                                            *)
Choose(kind, make, stale) ==
  /\ sheets # <<>> /\ Top.kind = kind /\ sheets' = Below
  /\ Top.items # 0 /\ ~Top.failed
  /\ picks < MaxPicks /\ picks' = picks + 1
  /\ chosen' = make /\ touched' = TRUE /\ rebuilt' = FALSE /\ crossed' = (crossed \/ stale)
  /\ UNCHANGED <<host, read, texts, auto, lists, disordered, mounts, unknown>>

(* Mutant: the model of another make stays.                                *)
PickMakeOnly(make) ==
  /\ Choose("make", make, FALSE)
  /\ IF make # picked.make
     THEN picked' = [picked EXCEPT !.make = make] /\ OnChanged(Choice(make, None, None))
     ELSE UNCHANGED <<picked, form>>

PickMake(make) ==
  /\ Choose("make", make, FALSE)
  /\ IF make # picked.make
     THEN picked' = Choice(make, None, None) /\ OnChanged(Choice(make, None, None))
     ELSE UNCHANGED <<picked, form>>

PickModel(model) ==
  /\ Choose("model", Top.make, Top.make # picked.make) /\ model.make = Top.make
  /\ IF model # picked.model
     THEN /\ picked' = Choice(picked.make, model, None)
          /\ OnChanged(Choice(Top.make, model, None))
     ELSE UNCHANGED <<picked, form>>

PickModification(mod) ==
  /\ Choose("mod", Top.make, Top.model # picked.model \/ Top.make # picked.make) /\ mod.model = Top.model
  /\ picked' = [picked EXCEPT !.mod = mod]
  /\ OnChanged(Choice(Top.make, Top.model, mod))

(* The list the picker is on drops what is scrolled away, and the other    *)
(* form gives way to the views of a validation; built anew, the picker     *)
(* knows nothing of its choice.  One that is gone finishes nothing.        *)
Rebuild ==
  /\ sheets = <<>> /\ mounts < MaxMounts /\ mounts' = mounts + 1
  /\ texts' = IF host = "results" THEN read ELSE Choice(form.make, form.model, None)
  /\ picked' = Nothing /\ auto' = Populate(texts') /\ lists' = <<>>
  /\ touched' = FALSE /\ rebuilt' = TRUE
  /\ UNCHANGED <<host, read, form, sheets, disordered, picks, chosen, crossed, unknown>>

Next ==
  \/ AutoPopulate \/ AskModifications \/ TypeQuery \/ Dismiss \/ Rebuild
  \/ \E kind \in {"make", "model"} : OpenSheet(kind)
  \/ \E i \in 1..Len(lists) : ModificationsArrive(i)
  \/ \E q \in 1..MaxTyped : QueryAnswered(q)
  \/ \E make \in Makes : PickMake(make)
  \/ \E model \in AllModels : PickModel(model)
  \/ \E mod \in AllModifications : PickModification(mod)

Spec == Init /\ [][Next]_vars

-----------------------------------------------------------------------------
(* What is picked is one vehicle: a model of the make, a modification of   *)
(* the model (vehicle_catalog_picker.dart:45-245).                         *)
PickIsOneVehicle ==
  \/ crossed
  \/ /\ picked.model # None => picked.model.make = picked.make
     /\ picked.mod # None => picked.mod.model = picked.model

(* The form says what is picked, and of a power the catalog knows, that    *)
(* one (ocr_results_view.dart:51-72).                                      *)
FormSaysThePick ==
  \/ crossed \/ picked.make = None
  \/ /\ form.make = picked.make /\ form.model = picked.model
     /\ host = "results" => form.mod = picked.mod
     /\ picked.mod # None /\ HasPower(picked.mod) => form.power = picked.mod

(* What was read of the model is replaced by a choice only: or the look-up *)
(* found the make and not the model, and the form lost it, or the picker   *)
(* was built anew between the two (vehicle_catalog_picker.dart:62-78).     *)
ReadModelIsKept ==
  form.model # read.model /\ auto = None =>
    picks > 0 \/ unknown \/ (host = "validation" /\ mounts > 1)

(* What the talon said comes back over a choice only when the picker was   *)
(* built anew, or was still looking it up as the choice was made           *)
(* (vehicle_catalog_picker.dart:44-95, ocr_results_view.dart:140-170).     *)
ChoiceStands == chosen # None => form.make = chosen \/ crossed \/ rebuilt

(* An idle sheet lists what its query asks for, unless answers changed     *)
(* places (catalog_search_sheet.dart:52-70).                               *)
SheetIsCurrent ==
  sheets # <<>> /\ Top.waiting = {} => disordered \/ Top.failed \/ Top.items = Top.typed

PickerExplained ==
  PickIsOneVehicle /\ FormSaysThePick /\ ReadModelIsKept /\ ChoiceStands /\ SheetIsCurrent
=============================================================================
