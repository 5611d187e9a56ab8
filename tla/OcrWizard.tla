------------------------------ MODULE OcrWizard ------------------------------
(***************************************************************************)
(* The mobile application's scan of a vehicle's talon: its sides are       *)
(* photographed by hand or automatically, cropped one after another, and   *)
(* sent side by side.  An event is handled at once; the screen is drawn    *)
(* again a frame later, and until then taps are made on the screen before. *)
(* A scan holds the lists of photos and corners themselves, not a copy.    *)
(***************************************************************************)
EXTENDS Naturals, Sequences, FiniteSets

CONSTANTS
  TotalSteps,  \* sides of a talon
  MaxPhotos,   \* bound on photos
  MaxScans,    \* bound on scans
  None

VARIABLES
  state,       \* of the bloc
  shown,       \* state the screen was last drawn from
  images,      \* photos taken: [no, side]
  corners,     \* per cropped photo: the one they were drawn on
  loaded,      \* the photo to crop is on the screen
  ready, auto, \* the camera; automatic capture
  stream,      \* step the frames are analysed for
  shot,        \* the picture being taken: step of the event, side before the lens
  scans,       \* per scan: the next side, and the steps that answered
  sent,        \* what the OCR service was sent
  slipped,     \* an event met another state than the one it was made in
  photos

cameraVars == <<ready, auto, stream>>
takenVars == <<images, corners>>
scanVars == <<scans, sent>>
vars == <<state, shown, takenVars, loaded, cameraVars, shot, scanVars, slipped, photos>>

Steps == 0..TotalSteps - 1
Photo == [no: 1..MaxPhotos, side: Steps]
States ==
  [view: {"capture", "processing", "results", "left"}, step: Steps, photo: {None}]
    \union [view: {"crop"}, step: 0..MaxPhotos, photo: Photo]

Capture(step) == [view |-> "capture", step |-> step, photo |-> None]
Crop(step, list) == [view |-> "crop", step |-> step, photo |-> list[step + 1]]
View(name) == [view |-> name, step |-> 0, photo |-> None]

TypeOK ==
  /\ state \in States /\ shown \in States
  /\ images \in Seq(Photo) /\ corners \in Seq(0..MaxPhotos)
  /\ loaded \in BOOLEAN /\ ready \in BOOLEAN /\ auto \in BOOLEAN
  /\ stream \in Steps \union {None}
  /\ shot \in [step: Steps, side: Steps] \union {None}
  /\ scans \in Seq([next: Nat, got: SUBSET Nat])
  /\ slipped \in BOOLEAN /\ photos \in 0..MaxPhotos

Init ==
  /\ state = Capture(0) /\ shown = Capture(0)
  /\ images = <<>> /\ corners = <<>> /\ loaded = FALSE
  /\ ready = TRUE /\ auto = FALSE /\ stream = None /\ shot = None
  /\ scans = <<>> /\ sent = {} /\ slipped = FALSE /\ photos = 0

-----------------------------------------------------------------------------
(* What the screens offer.                                                 *)
CameraOffers == shown.view = "capture"
CropOffers == shown.view = "crop"
ResultsOffer == shown.view = "results"

(* The picture shows the side the screen asks for.                         *)
Snap(step) ==
  /\ shot = None /\ photos < MaxPhotos /\ photos' = photos + 1
  /\ shot' = [step |-> step, side |-> shown.step]

Redraw ==
  /\ shown # state /\ shown' = state
  /\ loaded' = (loaded /\ state.view = "crop" /\ shown.step = state.step)
  /\ UNCHANGED <<state, takenVars, cameraVars, shot, scanVars, slipped, photos>>

LoadImage ==
  /\ CropOffers /\ ~loaded /\ loaded' = TRUE
  /\ UNCHANGED <<state, shown, takenVars, cameraVars, shot, scanVars, slipped, photos>>

TapCapture ==
  /\ CameraOffers /\ ready /\ Snap(shown.step)
  /\ UNCHANGED <<state, shown, takenVars, loaded, cameraVars, scanVars, slipped>>

(* The frames have been steady for two seconds, so the screen is drawn.    *)
(* They are analysed for the step the stream was started for.              *)
AutoCapture ==
  /\ stream # None /\ CameraOffers /\ shown = state
  /\ stream' = None
  /\ IF shot = None THEN Snap(stream) ELSE UNCHANGED <<shot, photos>>
  /\ UNCHANGED <<state, shown, takenVars, loaded, ready, auto, scanVars, slipped>>

StartStream(step, on) ==
  stream' = IF ready /\ on /\ stream = None THEN step ELSE stream

ToggleAutoCapture ==
  /\ CameraOffers /\ auto' = ~auto
  /\ IF auto THEN stream' = None
     ELSE StartStream(IF state.view = "capture" THEN state.step ELSE 0, TRUE)
  /\ UNCHANGED <<state, shown, takenVars, loaded, ready, shot, scanVars, slipped, photos>>

(* The listener of the bloc's states.                                      *)
Emit(s) ==
  /\ state' = s
  /\ CASE s.view = "capture" -> StartStream(s.step, auto)
       [] s.view \in {"crop", "processing"} -> stream' = None
       [] OTHER -> UNCHANGED stream

Slip(step) == slipped' = (slipped \/ state.view # shown.view \/ state.step # step)

ImageCaptured ==
  /\ shot # None /\ shot' = None
  /\ images' = Append(images, [no |-> photos, side |-> shot.side])
  /\ Emit(IF shot.step + 1 < TotalSteps THEN Capture(shot.step + 1) ELSE Crop(0, images'))
  /\ slipped' = (slipped \/ state # Capture(shot.step))
  /\ UNCHANGED <<shown, corners, loaded, ready, auto, scanVars, photos>>

PictureFails ==
  /\ shot # None /\ shot' = None
  /\ UNCHANGED <<state, shown, takenVars, loaded, cameraVars, scanVars, slipped, photos>>

(* 0: the corners of the screen, the photo is not there yet.               *)
ScanSubmitted ==
  IF images = <<>> THEN UNCHANGED <<state, stream, scans>>
  ELSE /\ Len(scans) < MaxScans
       /\ scans' = Append(scans, [next |-> 1, got |-> {}])
       /\ Emit(View("processing"))

CropConfirmed ==
  /\ CropOffers
  /\ Len(corners) < MaxPhotos
  /\ corners' = Append(corners, IF loaded THEN shown.photo.no ELSE 0)
  /\ IF shown.step + 1 < Len(images)
     THEN Emit(Crop(shown.step + 1, images)) /\ UNCHANGED scans
     ELSE ScanSubmitted
  /\ Slip(shown.step)
  /\ UNCHANGED <<shown, images, loaded, ready, auto, shot, sent, photos>>

RetakeKeepingCorners ==
  /\ CropOffers
  /\ images' = <<>> /\ UNCHANGED corners
  /\ Emit(Capture(0)) /\ Slip(shown.step)
  /\ UNCHANGED <<shown, loaded, ready, auto, shot, scanVars, photos>>

PreviewRetake ==
  /\ CropOffers
  /\ images' = <<>> /\ corners' = <<>>
  /\ Emit(Capture(0)) /\ Slip(shown.step)
  /\ UNCHANGED <<shown, loaded, ready, auto, shot, scanVars, photos>>

(* The application goes to the background and comes back.                  *)
Inactive ==
  /\ ready /\ state.view # "left"
  /\ ready' = FALSE /\ stream' = None /\ shot' = None
  /\ UNCHANGED <<state, shown, takenVars, loaded, auto, scanVars, slipped, photos>>

Resumed ==
  /\ ~ready /\ ready' = TRUE
  /\ UNCHANGED <<state, shown, takenVars, loaded, auto, stream, shot, scanVars, slipped, photos>>

(* The rest of the list is looked at when its turn comes.  A call that     *)
(* fails leaves out its side.                                              *)
HasNext(s) == scans[s].next <= Len(images) /\ scans[s].next <= TotalSteps

CallStep(s) ==
  /\ s \in DOMAIN scans /\ HasNext(s)
  /\ LET i == scans[s].next IN
     /\ sent' = sent \union
          {[step |-> i - 1, photo |-> images[i],
            corners |-> IF i <= Len(corners) THEN corners[i] ELSE 0]}
     /\ \E answered \in {{}, {i - 1}} :
          scans' = [scans EXCEPT ![s] = [next |-> i + 1, got |-> @.got \union answered]]
  /\ UNCHANGED <<state, shown, takenVars, loaded, cameraVars, shot, slipped, photos>>

Completed(s) ==
  /\ s \in DOMAIN scans /\ ~HasNext(s) /\ scans[s].next <= TotalSteps + 1
  /\ scans' = [scans EXCEPT ![s].next = TotalSteps + 2]
  /\ Emit(View("results"))
  /\ UNCHANGED <<shown, takenVars, loaded, ready, auto, shot, sent, slipped, photos>>

(* On with the fields read, or to the form instead.                        *)
Leave ==
  /\ CameraOffers \/ ResultsOffer
  /\ state' = View("left") /\ shown' = View("left")
  /\ stream' = None /\ shot' = None /\ scans' = <<>>
  /\ UNCHANGED <<takenVars, loaded, ready, auto, sent, slipped, photos>>

Scan == \E s \in 1..MaxScans : CallStep(s) \/ Completed(s)

Next ==
  \/ Redraw \/ LoadImage \/ TapCapture \/ AutoCapture \/ ToggleAutoCapture
  \/ ImageCaptured \/ PictureFails \/ CropConfirmed \/ PreviewRetake
  \/ Inactive \/ Resumed \/ Scan \/ Leave

Spec == Init /\ [][Next]_vars

-----------------------------------------------------------------------------
(* Each side is sent as the side it is, with corners drawn on its own      *)
(* photo (or none), unless an event slipped: a tap on a screen that was    *)
(* about to change, or the automatic capture of a step that a manual photo *)
(* has already taken (ocr_wizard_bloc.dart:66-180,                         *)
(* branivo_ocr_repository.dart:12-16,33-70).                               *)
SidesExplained ==
  \A x \in sent :
    slipped \/ (x.photo.side = x.step /\ x.corners \in {0, x.photo.no})
=============================================================================
