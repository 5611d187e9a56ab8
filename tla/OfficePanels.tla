---------------------------- MODULE OfficePanels ----------------------------
(***************************************************************************)
(* The panels of the web application in which the office and the brokers   *)
(* edit one record each: branding, the flags of a tenant, its plan, the    *)
(* commission rates, the role of a user and the integration of an insurer. *)
(* A tab keeps a copy of the record (react-query), a form filled from the  *)
(* copy or from defaults, and requests that are on their way.  Each panel  *)
(* sends other parts of its form, and does something else when the answer  *)
(* comes; none of them sends the version it has seen.                      *)
(***************************************************************************)
EXTENDS Naturals

CONSTANTS
  Tabs,        \* tabs in which the panel is open
  Values,      \* values of a field; 0 is an empty input, or a flag that is off
  MaxSaves,    \* bound: saves sent
  MaxLoads,    \* bound: loads sent
  MaxFaults,   \* bound: saves that fail
  None

Panels == {"branding", "flags", "plan", "rates", "role", "wizard"}

Fields(panel) == IF panel \in {"plan", "role"} THEN {"a"} ELSE {"a", "b"}

VARIABLES
  panel,     \* the panel this behaviour follows
  stored,    \* the record: a value for each field
  copy,      \* copy[t]: the record as the tab last received it, None before
  form,      \* form[t]: what the inputs hold, None while nothing is edited
  typed,     \* typed[t]: the fields its user has changed in the form
  load,      \* load[t]: None, or [stage, answer] of the load on its way
  saves,     \* saves[t]: the saves of the tab on their way
  preview,   \* preview[t] of the plan: None, or [for, stage]
  modal,     \* modal[t] of the plan: the confirmation is asked for
  stale,     \* ghost: stale[t]: another tab's save was handled after the tab's load
  undone,    \* ghost: undone[t]: a save of t changed a field its user had not touched
  misapplied,\* ghost: a plan was applied other than the one in the confirmation
  reselected,\* ghost: another plan was selected while a preview was on its way
  used       \* bounds: saves, loads and faults used

vars == <<panel, stored, copy, form, typed, load, saves, preview, modal, stale, undone,
          misapplied, reselected, used>>

ghosts == <<stale, undone, misapplied, reselected>>

Init ==
  /\ panel \in Panels
  /\ stored = [f \in Fields(panel) |-> 1]
  /\ copy = [t \in Tabs |-> None] /\ form = [t \in Tabs |-> None]
  /\ typed = [t \in Tabs |-> {}]
  /\ load = [t \in Tabs |-> None] /\ saves = [t \in Tabs |-> {}]
  /\ preview = [t \in Tabs |-> None] /\ modal = [t \in Tabs |-> FALSE]
  /\ stale = [t \in Tabs |-> FALSE] /\ undone = [t \in Tabs |-> FALSE]
  /\ misapplied = FALSE /\ reselected = FALSE
  /\ used = [saves |-> 0, loads |-> 0, faults |-> 0]

-----------------------------------------------------------------------------
(* The copy.  A load that is started again forgets the one on its way.     *)

Reload(t) ==
  IF used.loads < MaxLoads
  THEN load' = [load EXCEPT ![t] = [stage |-> "sent", answer |-> None]] /\ used' = [used EXCEPT !.loads = @ + 1]
  ELSE load' = [load EXCEPT ![t] = None] /\ UNCHANGED used

(* The branding panel loads nothing.                                       *)
Open(t) ==
  /\ copy[t] = None /\ load[t] = None /\ panel # "branding" /\ used.loads < MaxLoads
  /\ Reload(t)
  /\ UNCHANGED <<panel, stored, copy, form, typed, saves, preview, modal, ghosts>>

ServeLoad(t) ==
  /\ load[t] # None /\ load[t].stage = "sent"
  /\ load' = [load EXCEPT ![t] = [stage |-> "done", answer |-> stored]]
  /\ stale' = [stale EXCEPT ![t] = FALSE]
  /\ UNCHANGED <<panel, stored, copy, form, typed, saves, preview, modal, undone, misapplied,
                 reselected, used>>

(* The user's role fills the form as it arrives; the others wait for a     *)
(* click.                                                                  *)
Loaded(t) ==
  /\ load[t] # None /\ load[t].stage = "done"
  /\ copy' = [copy EXCEPT ![t] = load[t].answer]
  /\ load' = [load EXCEPT ![t] = None]
  /\ form' = IF panel = "role" THEN [form EXCEPT ![t] = load[t].answer] ELSE form
  /\ UNCHANGED <<panel, stored, typed, saves, preview, modal, ghosts, used>>

-----------------------------------------------------------------------------
(* The forms.                                                              *)

(* The branding form opens with the colours and the font of the            *)
(* application, whatever the tenant has chosen.                            *)
BrandingForm(t) == panel = "branding" /\ form' = [form EXCEPT ![t] = [f \in Fields(panel) |-> 0]]

(* The wizard of an insurer fills all of its steps from the copy, once.    *)
WizardForm(t) == panel = "wizard" /\ copy[t] # None /\ form' = [form EXCEPT ![t] = copy[t]]

(* A row of the rates: another row may be under edit, or be saved.         *)
RateForm(t) ==
  /\ panel = "rates" /\ copy[t] # None
  /\ \E f \in Fields(panel) : form' = [form EXCEPT ![t] = [g \in {f} |-> copy[t][g]]]

(* Selecting a plan drops the preview that is shown.                       *)
handlePlanSelect(t) ==
  /\ panel = "plan" /\ copy[t] # None
  /\ \E v \in Values \ {copy[t].a} : form' = [form EXCEPT ![t] = [f \in {"a"} |-> v]]
  /\ preview' = IF preview[t] # None /\ preview[t].stage = "shown"
                THEN [preview EXCEPT ![t] = None] ELSE preview
  /\ reselected' = (reselected \/ (preview[t] # None /\ preview[t].stage = "sent"))
  /\ UNCHANGED <<panel, stored, copy, typed, load, saves, modal, stale, undone, misapplied, used>>

Fill(t) ==
  /\ (form[t] = None \/ panel = "rates") /\ (BrandingForm(t) \/ WizardForm(t) \/ RateForm(t))
  /\ typed' = [typed EXCEPT ![t] = {}]
  /\ UNCHANGED <<panel, stored, copy, load, saves, preview, modal, ghosts, used>>

Type(t) ==
  /\ form[t] # None /\ panel \notin {"flags", "plan"}
  /\ \E f \in DOMAIN form[t], v \in Values :
       /\ form[t][f] # v
       /\ form' = [form EXCEPT ![t][f] = v]
       /\ typed' = [typed EXCEPT ![t] = @ \cup {f}]
  /\ UNCHANGED <<panel, stored, copy, load, saves, preview, modal, ghosts, used>>

(* A flag is shown as the user set it until its answer comes.              *)
Shown(t, f) == IF form[t] # None /\ f \in DOMAIN form[t] THEN form[t][f] ELSE copy[t][f]

-----------------------------------------------------------------------------
(* The requests.                                                           *)

Send(t, values, touched) ==
  /\ used.saves < MaxSaves
  /\ used' = [used EXCEPT !.saves = @ + 1]
  /\ saves' = [saves EXCEPT ![t] = @ \cup
                 {[values |-> values, touched |-> touched, stage |-> "sent", answer |-> None]}]

(* A bug someone could write: the whole record, with the flag changed.     *)
SendAllFlags(t, f, v) ==
  Send(t, [g \in Fields(panel) |-> IF g = f THEN v ELSE Shown(t, g)], {f})

updateFeatureFlag(t, f, v) == Send(t, [g \in {f} |-> v], {f})

(* The switch of a flag: disabled while its own save is on its way.        *)
handleToggle(t) ==
  /\ panel = "flags" /\ copy[t] # None
  /\ \E f \in Fields(panel) :
       LET v == IF Shown(t, f) = 0 THEN 1 ELSE 0 IN
       /\ \A s \in saves[t] : f \notin s.touched
       /\ updateFeatureFlag(t, f, v)
       /\ form' = [form EXCEPT ![t] = [g \in {f} \cup (IF @ = None THEN {} ELSE DOMAIN @) |->
                                        IF g = f THEN v ELSE @[g]]]
  /\ UNCHANGED <<panel, stored, copy, typed, load, preview, modal, ghosts>>

(* All of the branding form; one step of the wizard, without inputs that   *)
(* are empty; the row of the rate; the role, changed or not.               *)
Sent(t) ==
  CASE panel = "wizard" -> {[g \in {f} |-> form[t][g]] : f \in {g \in DOMAIN form[t] : form[t][g] # 0}}
    [] OTHER -> {form[t]}

handleSubmit(t) ==
  /\ panel \in {"branding", "wizard", "rates", "role"} /\ form[t] # None
  /\ saves[t] = {}
  /\ \E values \in Sent(t) : Send(t, values, typed[t])
  /\ UNCHANGED <<panel, stored, copy, form, typed, load, preview, modal, ghosts>>

handlePreview(t) ==
  /\ panel = "plan" /\ form[t] # None
  /\ preview[t] # None => preview[t].stage = "shown"
  /\ preview' = [preview EXCEPT ![t] = [plan |-> form[t].a, stage |-> "sent"]]
  /\ UNCHANGED <<panel, stored, copy, form, typed, load, saves, modal, ghosts, used>>

PreviewArrives(t) ==
  /\ preview[t] # None /\ preview[t].stage = "sent"
  /\ preview' = [preview EXCEPT ![t].stage = "shown"]
  /\ modal' = [modal EXCEPT ![t] = TRUE]
  /\ UNCHANGED <<panel, stored, copy, form, typed, load, saves, ghosts, used>>

(* The confirmation shows the preview and sends the selected plan.         *)
handleConfirm(t) ==
  /\ modal[t] /\ preview[t] # None /\ preview[t].stage = "shown" /\ form[t] # None
  /\ saves[t] = {}
  /\ Send(t, form[t], {"a"})
  /\ misapplied' = (misapplied \/ form[t].a # preview[t].plan)
  /\ UNCHANGED <<panel, stored, copy, form, typed, load, preview, modal, stale, undone,
                 reselected>>

Cancel(t) ==
  /\ form[t] # None
  /\ \/ panel = "plan" /\ modal[t] /\ modal' = [modal EXCEPT ![t] = FALSE] /\ UNCHANGED form
     \/ panel = "rates" /\ saves[t] = {} /\ form' = [form EXCEPT ![t] = None] /\ UNCHANGED modal
  /\ UNCHANGED <<panel, stored, copy, typed, load, saves, preview, ghosts, used>>

(* The server writes the columns it was sent.                              *)
Handle(t) ==
  \E s \in {s \in saves[t] : s.stage = "sent"} :
    /\ stored' = [f \in DOMAIN stored |-> IF f \in DOMAIN s.values THEN s.values[f] ELSE stored[f]]
    /\ saves' = [saves EXCEPT ![t] = (@ \ {s}) \cup {[s EXCEPT !.stage = "done", !.answer = stored']}]
    /\ stale' = [u \in Tabs |-> stale[u] \/ u # t]
    /\ undone' = [undone EXCEPT ![t] = @ \/ \E f \in DOMAIN s.values \ s.touched :
                                              s.values[f] # stored[f]]
    /\ UNCHANGED <<panel, copy, form, typed, load, preview, modal, misapplied, reselected, used>>

Refuse(t) ==
  \E s \in {s \in saves[t] : s.stage = "sent"} :
    /\ used.faults < MaxFaults
    /\ used' = [used EXCEPT !.faults = @ + 1]
    /\ saves' = [saves EXCEPT ![t] = (@ \ {s}) \cup {[s EXCEPT !.stage = "failed"]}]
    /\ UNCHANGED <<panel, stored, copy, form, typed, load, preview, modal, ghosts>>

(* A bug someone could write: what the user set stays in front of the copy.*)
KeepShowing(t, s) == form[t]

(* The switch falls back to the copy; the copy is loaded again only after  *)
(* a success.  The form of a rate closes, whichever row it is for.         *)
Forget(t, s) ==
  CASE panel = "flags" ->
         LET left == DOMAIN form[t] \ s.touched
         IN IF left = {} THEN None ELSE [f \in left |-> form[t][f]]
    [] panel \in {"rates", "plan"} /\ s.stage = "done" -> None
    [] OTHER -> form[t]

Answer(t) ==
  \E s \in {s \in saves[t] : s.stage # "sent"} :
    /\ saves' = [saves EXCEPT ![t] = @ \ {s}]
    /\ form' = [form EXCEPT ![t] = Forget(t, s)]
    /\ IF s.stage = "done"
       THEN /\ IF panel \in {"flags", "plan", "rates"} THEN Reload(t) ELSE UNCHANGED <<load, used>>
            /\ copy' = IF panel = "wizard" THEN [copy EXCEPT ![t] = s.answer] ELSE copy
            /\ preview' = [preview EXCEPT ![t] = None]
            /\ modal' = [modal EXCEPT ![t] = FALSE]
       ELSE UNCHANGED <<load, used, copy, preview, modal>>
    /\ UNCHANGED <<panel, stored, typed, stale, undone, misapplied, reselected>>

Next ==
  \E t \in Tabs :
    \/ Open(t) \/ ServeLoad(t) \/ Loaded(t)
    \/ Fill(t) \/ Type(t) \/ handlePlanSelect(t)
    \/ handleToggle(t) \/ handleSubmit(t)
    \/ handlePreview(t) \/ PreviewArrives(t) \/ handleConfirm(t) \/ Cancel(t)
    \/ Handle(t) \/ Refuse(t) \/ Answer(t)

Spec == Init /\ [][Next]_vars

-----------------------------------------------------------------------------
(* A save of a flag or a plan changes only what its user touched.  The     *)
(* other panels send inputs as they were filled, and may so undo what was  *)
(* saved since: branding even in a single tab, for it opens with defaults, *)
(* a rate even after one's own save, until the copy has been loaded again. *)
UntouchedStays == \A t \in Tabs : undone[t] => panel \notin {"flags", "plan"}

(* The plan that is applied is the one of the confirmation, unless another *)
(* was selected while its preview was on its way (handlePreview awaits,    *)
(* handleConfirm reads selectedPlan).                                      *)
ConfirmedIsApplied == misapplied => reselected

(* When nothing is on its way, a tab shows what is stored, unless another  *)
(* tab has saved since it loaded.                                          *)
QuietShowsStored ==
  \A t \in Tabs :
    panel \in {"flags", "plan", "rates"} /\ copy[t] # None /\ saves[t] = {} /\ load[t] = None
      /\ ~stale[t] /\ used.loads < MaxLoads =>
        \A f \in Fields(panel) :
          (IF panel = "flags" THEN Shown(t, f) ELSE copy[t][f]) = stored[f]

PanelsExplained == UntouchedStays /\ ConfirmedIsApplied /\ QuietShowsStored
=============================================================================
