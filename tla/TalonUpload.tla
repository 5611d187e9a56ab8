---------------------------- MODULE TalonUpload ----------------------------
(***************************************************************************)
(* The talon on the web's quotes page: up to three of its sides are        *)
(* photographed and cropped into slots, read by the OCR service when the   *)
(* form is sent, and fill the fields nobody typed into.  A super admin     *)
(* sees beside each slot what the service makes of it.  All readings come  *)
(* to the service from one address, the web server's, and it limits them   *)
(* per address.  The service reads one side of a talon from its            *)
(* machine-readable lines, whose place it takes from their order.          *)
(***************************************************************************)
EXTENDS Naturals, Sequences, FiniteSets, FiniteSetsExt

CONSTANTS
  Steps,        \* sides of the talon that a run follows, of 1..3
  Photos, Quads,
  Fields,       \* of the form that a run follows
  Texts,        \* what a user types
  Limit, Window,
  MaxPicks,     \* bound on croppings
  MaxAsks,      \* bound on readings asked for
  MaxClock,     \* bound on time
  None

VARIABLES
  slots,        \* of the upload section
  talonSlots,   \* of the page
  crop,         \* the crop editor
  formValues, typed,
  reading,      \* the submission under way
  panels,       \* the debug panels
  session,      \* the vehicle data last saved for the session
  bucket, admitted, clock,   \* the service's rate limit: the readings it remembers, and when
                             \* each reading was admitted
  late,         \* fields typed into while the photos were read
  changed,      \* slots changed since they were sent
  torn,         \* a reading lost the first or second machine-readable line
  picks, asks

pageVars == <<slots, talonSlots, crop, picks>>
formVars == <<formValues, typed, late>>
limitVars == <<bucket, admitted, clock>>
vars == <<pageVars, formVars, reading, panels, session, limitVars, changed, torn, asks>>

Lines == 1..3
DefaultQuad == CHOOSE q \in Quads : TRUE
Picture == [photo: Photos, points: Quads]
Slot == [photo: Photos, points: Quads, preview: Quads, moved: BOOLEAN]
Read == [step: Steps, photo: Photos, points: Quads, own: BOOLEAN]
Values == [Fields -> Texts \union Read \union {None}]
Panel == [asked: Picture \union {None}, data: Picture \union {None}]
NoPanel == [asked |-> None, data |-> None]
PictureIn(slot) == IF slot = None THEN None ELSE [photo |-> slot.photo, points |-> slot.points]

TypeOK ==
  /\ slots \in [Steps -> Slot \union {None}] /\ talonSlots \in [Steps -> Slot \union {None}]
  /\ crop = None \/ crop \in [slot: Steps, photo: Photos, quad: Quads, asked: Quads \union {None},
                              phase: {"edit", "loading", "preview"}, moved: BOOLEAN]
  /\ formValues \in Values /\ session \in Values \union {None}
  /\ typed \in [Fields -> Texts \union {None}]
  /\ reading = None
       \/ reading \in [phase: {"reading", "quoting"}, values: Values, waiting: SUBSET Steps,
                        pictures: [Steps -> Picture \union {None}],
                        answers: [Steps -> [Fields -> Read \union {None}]]]
  /\ panels \in [Steps -> Panel]
  /\ admitted \in Seq(0..MaxClock) /\ bucket \subseteq DOMAIN admitted /\ clock \in 0..MaxClock
  /\ late \subseteq Fields /\ changed \subseteq Steps /\ torn \in BOOLEAN
  /\ picks \in 0..MaxPicks /\ asks \in 0..MaxAsks

Init ==
  /\ slots = [i \in Steps |-> None] /\ talonSlots = slots /\ crop = None
  /\ formValues = [f \in Fields |-> None] /\ typed = formValues /\ late = {}
  /\ reading = None /\ session = None /\ panels = [i \in Steps |-> NoPanel]
  /\ bucket = {} /\ admitted = <<>> /\ clock = 0
  /\ changed = {} /\ torn = FALSE /\ picks = 0 /\ asks = 0
-----------------------------------------------------------------------------
(* The slots and the crop editor, which stands in their place while it is  *)
(* open; the form and the panels stay.                                     *)

Editor(i, p) ==
  [slot |-> i, photo |-> p, quad |-> DefaultQuad, asked |-> None, phase |-> "edit", moved |-> FALSE]

Crop(i, p) ==
  /\ crop = None /\ picks < MaxPicks
  /\ crop' = Editor(i, p) /\ picks' = picks + 1
  /\ UNCHANGED <<slots, talonSlots, formVars, reading, panels, session, limitVars, changed, torn, asks>>

(* A photo is chosen for an empty slot.                                    *)
HandleFileChange(i) == slots[i] = None /\ \E p \in Photos : Crop(i, p)

(* The photo of a slot is cropped again, from the editor's first corners.  *)
HandleReCrop(i) == slots[i] # None /\ Crop(i, slots[i].photo)

Edit(c) ==
  /\ crop' = c
  /\ UNCHANGED <<slots, talonSlots, picks, formVars, reading, panels, session, limitVars,
                 changed, torn, asks>>

(* Corners can be moved until the preview is shown, also while it is made. *)
Drag ==
  /\ crop # None /\ crop.phase # "preview"
  /\ \E q \in Quads \ {crop.quad} :
       Edit([crop EXCEPT !.quad = q, !.moved = (crop.phase = "loading")])

HandleConfirmClick ==
  /\ crop # None /\ crop.phase = "edit"
  /\ Edit([crop EXCEPT !.phase = "loading", !.asked = crop.quad, !.moved = FALSE])

PreviewArrives ==
  /\ crop # None /\ crop.phase = "loading"
  /\ \/ Edit([crop EXCEPT !.phase = "preview"])
     \/ Edit([crop EXCEPT !.phase = "edit", !.asked = None])

Back == crop # None /\ crop.phase = "preview" /\ Edit([crop EXCEPT !.phase = "edit"])

HandleCropCancel == crop # None /\ crop.phase # "preview" /\ Edit(None)

(* The slots that a value of the form, or the submission under way, has    *)
(* been read from.                                                         *)
InUse(i) ==
  \/ reading # None /\ reading.phase = "reading"
  \/ \E f \in Fields : formValues[f] \in Read /\ formValues[f].step = i

ChangeSlot(i, slot) ==
  /\ slots' = [slots EXCEPT ![i] = slot] /\ talonSlots' = slots'
  /\ changed' = IF slots[i] # None /\ InUse(i) THEN changed \union {i} ELSE changed
  /\ UNCHANGED <<picks, formVars, reading, session, limitVars, torn, asks>>

HandleCropConfirm ==
  /\ crop # None /\ crop.phase = "preview"
  /\ ChangeSlot(crop.slot, [photo |-> crop.photo, points |-> crop.quad, preview |-> crop.asked,
                            moved |-> crop.moved])
  /\ crop' = None
  /\ UNCHANGED panels

(* The panel of a slot lives as long as the slot holds some photo.         *)
HandleRemove(i) ==
  /\ crop = None /\ slots[i] # None
  /\ ChangeSlot(i, None)
  /\ panels' = [panels EXCEPT ![i] = NoPanel]
  /\ UNCHANGED crop
-----------------------------------------------------------------------------
(* The form.                                                               *)

Reading == reading # None /\ reading.phase = "reading"

SetField(f, text) ==
  /\ formValues[f] # text
  /\ formValues' = [formValues EXCEPT ![f] = text]
  /\ typed' = [typed EXCEPT ![f] = text]
  /\ late' = IF Reading THEN late \union {f} ELSE late \ {f}
  /\ UNCHANGED <<pageVars, reading, panels, session, limitVars, changed, torn, asks>>

(* Sending the form has the photos of that moment read, and adds what they *)
(* say to the values of that moment.                                       *)
HandleSubmit ==
  /\ reading = None /\ asks < MaxAsks
  /\ reading' = [phase |-> "reading", values |-> formValues,
                 pictures |-> [i \in Steps |-> PictureIn(talonSlots[i])],
                 waiting |-> {i \in Steps : talonSlots[i] # None},
                 answers |-> [i \in Steps |-> [f \in Fields |-> None]]]
  /\ asks' = asks + 1
  /\ UNCHANGED <<pageVars, formVars, panels, session, limitVars, changed, torn>>

(* The middleware of the service: who is admitted, and what it remembers.  *)
Live == {n \in bucket : clock - admitted[n] <= Window}
Admits == Cardinality(Live) < Limit
Arrive ==
  /\ bucket' = IF Admits THEN Live \union {Len(admitted) + 1} ELSE Live
  /\ admitted' = IF Admits THEN Append(admitted, clock) ELSE admitted
  /\ UNCHANGED clock

(* The machine-readable lines that were found, in their order: the plate   *)
(* is looked for in the first, the VIN in the second.  Printed, the first  *)
(* holds the plate and the second the VIN; some plates and surnames pass   *)
(* for the other.  Of fewer than two lines, any text that looks right is   *)
(* taken.                                                                  *)
Holds(line, own) == IF line = own THEN {TRUE} ELSE {FALSE}
ParsePlate(lines) ==
  IF Cardinality(lines) >= 2 THEN Holds(Min(lines), 1) ELSE BOOLEAN
ParseVin(lines) ==
  IF Cardinality(lines) >= 2 THEN Holds(Min(lines \ {Min(lines)}), 2) ELSE BOOLEAN

(* What a side of the talon may yield: per field, whether the text is the  *)
(* field's own.  The first side's make and model are those of its VIN.     *)
Yields(i, lines) ==
  LET own(f) == IF i > 1 THEN {TRUE} ELSE IF f = "reg_number" THEN ParsePlate(lines)
                                          ELSE ParseVin(lines)
      printed == CASE i = 1 -> {"reg_number", "vin", "make", "model"}
                   [] i = 2 -> {"reg_number", "vin", "make", "model", "year"}
                   [] i = 3 -> {"year"}
  IN {y \in [Fields -> BOOLEAN \union {None}] :
        \A f \in Fields : y[f] = None \/ (f \in printed /\ y[f] \in own(f))}

ReadBy(i, picture, y) ==
  [f \in Fields |-> IF y[f] = None THEN None
                    ELSE [step |-> i, photo |-> picture.photo, points |-> picture.points, own |-> y[f]]]

(* A side is read, or is not: refused, or the reader failed twice.         *)
ReadSide(i) ==
  /\ Reading /\ i \in reading.waiting
  /\ Arrive
  /\ \/ /\ Admits
        /\ \E lines \in SUBSET Lines : \E y \in Yields(i, lines) :
             /\ reading' = [reading EXCEPT !.waiting = @ \ {i},
                                           !.answers[i] = ReadBy(i, reading.pictures[i], y)]
             /\ torn' = (torn \/ (i = 1 /\ ~({1, 2} \subseteq lines)))
     \/ reading' = [reading EXCEPT !.waiting = @ \ {i}] /\ UNCHANGED torn
  /\ UNCHANGED <<pageVars, formVars, panels, session, changed, asks>>

FirstDefined(f, answers) ==
  LET with == {i \in Steps : answers[i][f] # None}
  IN IF with = {} THEN None ELSE answers[Min(with)][f]

Merged ==
  [f \in Fields |-> IF reading.values[f] # None THEN reading.values[f]
                    ELSE FirstDefined(f, reading.answers)]

MergeOcrResults ==
  /\ Reading /\ reading.waiting = {}
  /\ formValues' = IF \A i \in Steps : reading.pictures[i] = None THEN formValues ELSE Merged
  /\ session' = Merged
  /\ reading' = [reading EXCEPT !.phase = "quoting"]
  /\ UNCHANGED <<pageVars, typed, late, panels, limitVars, changed, torn, asks>>

QuotesArrive ==
  /\ reading # None /\ reading.phase = "quoting"
  /\ reading' = None
  /\ UNCHANGED <<pageVars, formVars, panels, session, limitVars, changed, torn, asks>>
-----------------------------------------------------------------------------
(* The debug panels.                                                       *)

ShowPipeline(i) ==
  /\ talonSlots[i] # None /\ panels[i].asked = None /\ asks < MaxAsks
  /\ panels' = [panels EXCEPT ![i].asked = PictureIn(talonSlots[i])]
  /\ asks' = asks + 1
  /\ UNCHANGED <<pageVars, formVars, reading, session, limitVars, changed, torn>>

(* Both answers are awaited: the stages, and a reading like any other.     *)
PipelineArrives(i) ==
  /\ panels[i].asked # None
  /\ Arrive
  /\ \/ panels' = [panels EXCEPT ![i] = [asked |-> None, data |-> panels[i].asked]]
     \/ panels' = [panels EXCEPT ![i].asked = None]
  /\ UNCHANGED <<pageVars, formVars, reading, session, changed, torn, asks>>

(* Other visitors' readings reach the service from the same address; they  *)
(* are followed from the second instant on.                                *)
OthersRead ==
  /\ clock > 0 /\ Len(admitted) < Limit /\ Arrive
  /\ UNCHANGED <<pageVars, formVars, reading, panels, session, changed, torn, asks>>

TimePasses ==
  /\ clock < MaxClock /\ clock' = clock + 1
  /\ UNCHANGED <<pageVars, formVars, reading, panels, session, bucket, admitted, changed, torn, asks>>

SlotNext(i) == HandleFileChange(i) \/ HandleReCrop(i) \/ HandleRemove(i)
EditorNext ==
  Drag \/ HandleConfirmClick \/ PreviewArrives \/ Back \/ HandleCropCancel \/ HandleCropConfirm

Next ==
  \/ EditorNext
  \/ \E i \in Steps : SlotNext(i) \/ ReadSide(i) \/ ShowPipeline(i) \/ PipelineArrives(i)
  \/ \E f \in Fields, text \in Texts \union {None} : SetField(f, text)
  \/ HandleSubmit \/ MergeOcrResults \/ QuotesArrive
  \/ OthersRead \/ TimePasses

Spec == Init /\ [][Next]_vars
-----------------------------------------------------------------------------
(* The photo of a slot is cropped at the corners its preview was made of,  *)
(* unless they were moved while the preview was made                       *)
(* (crop-editor.tsx:207-235,258).                                          *)
SlotsAsPreviewed ==
  \A i \in Steps : slots[i] # None => slots[i].points = slots[i].preview \/ slots[i].moved

(* A field that was read from a photo was read from the photo in its slot, *)
(* cropped as it is there, unless the slot has been changed since; and its *)
(* text is the field's own unless a reading lost one of the first two      *)
(* machine-readable lines (page.tsx:93-104, mrz_parser.py:102-149).        *)
FieldsAsPhotographed ==
  \A f \in Fields : formValues[f] \in Read =>
    LET value == formValues[f] IN
    /\ \/ PictureIn(slots[value.step]) = [photo |-> value.photo, points |-> value.points]
       \/ value.step \in changed
    /\ value.own \/ torn

(* What the user typed last stays, unless it was typed while the photos    *)
(* were read (page.tsx:76-104).                                            *)
TypedStays ==
  \A f \in Fields : typed[f] # None => formValues[f] = typed[f] \/ f \in late

(* A panel shows the photo of its slot, if not at its present corners      *)
(* (ocr-pipeline-debug.tsx:268-279).                                       *)
PanelsShowTheirPhoto ==
  \A i \in Steps : panels[i].data # None => slots[i] # None /\ slots[i].photo = panels[i].data.photo

(* In no window of time are more readings admitted than the limit          *)
(* (main.py:22-48).                                                        *)
ReadingsAreLimited ==
  \A t \in 0..MaxClock :
    Cardinality({n \in DOMAIN admitted : admitted[n] \in t..t + Window}) <= Limit

(* Each photo, field and panel of the page can be explained, and so can    *)
(* each reading the service admits.                                        *)
UploadExplained ==
  /\ SlotsAsPreviewed /\ FieldsAsPhotographed /\ TypedStays
  /\ PanelsShowTheirPhoto /\ ReadingsAreLimited
=============================================================================
