---------------------------- MODULE VersionedTexts ----------------------------
(***************************************************************************)
(* The texts a broker publishes for its clients, in versions and languages:*)
(* TosService, PrivacyPolicyService, CookiePolicyService; and what the     *)
(* mobile application asks of a client about them before its home screen,  *)
(* the acceptance of the terms and the consent to cookies.  The three      *)
(* kinds have tables of their own; one is followed.                        *)
(***************************************************************************)
EXTENDS Naturals, FiniteSetsExt

CONSTANTS
  Editors, Languages, Phones,   \* the phones are one client's
  MaxVersion,                   \* bound on the versions of a language
  MaxFaults,
  None

VARIABLES
  kind,
  texts, published,      \* <<language, version>>
  epc, draft,            \* per editor
  accepted,              \* texts the client has accepted
  ppc, shown,            \* per phone: its step; the text to be accepted
  asked,                 \* the newest version when it asked, or None if it got no answer
  choice, number,        \* consent on the phone; version of the policy its request found
  record, last,          \* consent at the server; the phone it came from
  unsynced,              \* phones whose latest choice did not get there
  faults

textVars == <<texts, published>>
editorVars == <<epc, draft>>
termsVars == <<accepted, shown, asked>>
consentVars == <<choice, number, record, last, unsynced>>
vars == <<kind, textVars, editorVars, termsVars, ppc, consentVars, faults>>

Text == Languages \X (1..MaxVersion)
Versions == 1..MaxVersion \union {None}

TypeOK ==
  /\ kind \in {"tos", "privacy", "cookie"}
  /\ texts \subseteq Text /\ published \subseteq texts
  /\ epc \in [Editors -> {"idle", "insert", "save"}] /\ draft \in [Editors -> Text \union {None}]
  /\ accepted \subseteq Text
  /\ ppc \in [Phones -> {"start", "terms", "home", "sheet", "find", "upsert"}]
  /\ shown \in [Phones -> Text \union {None}]
  /\ asked \in [Phones -> 0..MaxVersion \union {None}]
  /\ choice \in [Phones -> BOOLEAN \union {None}] /\ number \in [Phones -> Versions]
  /\ record \in [marketing: BOOLEAN, version: Versions] \union {None}
  /\ last \in Phones \union {None} /\ unsynced \subseteq Phones /\ faults \in 0..MaxFaults

Init ==
  /\ kind \in {"tos", "privacy", "cookie"}
  /\ texts = {} /\ published = {} /\ accepted = {}
  /\ epc = [e \in Editors |-> "idle"] /\ draft = [e \in Editors |-> None]
  /\ ppc = [p \in Phones |-> "start"] /\ shown = [p \in Phones |-> None]
  /\ asked = [p \in Phones |-> None] /\ choice = [p \in Phones |-> None]
  /\ number = [p \in Phones |-> None]
  /\ record = None /\ last = None /\ unsynced = {} /\ faults = 0

-----------------------------------------------------------------------------
(* The broker's side.  The MAX is read, then the row inserted: the unique  *)
(* key refuses the second of two that read the same.                       *)
MaxOf(set) == IF set = {} THEN 0 ELSE Max({t[2] : t \in set})

EditorStep(e, from, to) == epc[e] = from /\ epc' = [epc EXCEPT ![e] = to]

ReadMaxVersion(e, language) ==
  LET version == MaxOf({t \in texts : t[1] = language}) + 1 IN
  /\ version <= MaxVersion
  /\ EditorStep(e, "idle", "insert")
  /\ draft' = [draft EXCEPT ![e] = <<language, version>>]
  /\ UNCHANGED <<kind, textVars, termsVars, ppc, consentVars, faults>>

Create(e) ==
  /\ EditorStep(e, "insert", "idle") /\ texts' = texts \union {draft[e]}
  /\ draft' = [draft EXCEPT ![e] = None]
  /\ UNCHANGED <<kind, published, termsVars, ppc, consentVars, faults>>

(* Only the terms refuse a version that is published already.              *)
FindText(e, text) ==
  /\ text \in texts /\ ~(kind = "tos" /\ text \in published)
  /\ EditorStep(e, "idle", "save") /\ draft' = [draft EXCEPT ![e] = text]
  /\ UNCHANGED <<kind, textVars, termsVars, ppc, consentVars, faults>>

Publish(e) ==
  /\ EditorStep(e, "save", "idle") /\ draft' = [draft EXCEPT ![e] = None]
  /\ published' = published \union {draft[e]}
  /\ UNCHANGED <<kind, texts, termsVars, ppc, consentVars, faults>>

-----------------------------------------------------------------------------
(* The phone's side.  First the status of the terms: the newest version in *)
(* any language, against the newest accepted one in any language.  An      *)
(* error, or another kind of text, leads on.                               *)
PhoneStep(p, from, to) == ppc[p] = from /\ ppc' = [ppc EXCEPT ![p] = to]

RequiresAcceptance == MaxOf(accepted) < MaxOf(published)

GetStatus(p) ==
  /\ IF RequiresAcceptance
     THEN /\ PhoneStep(p, "start", "terms")
          /\ \E t \in published : t[2] = MaxOf(published) /\ shown' = [shown EXCEPT ![p] = t]
     ELSE PhoneStep(p, "start", "home") /\ UNCHANGED shown
  /\ asked' = [asked EXCEPT ![p] = MaxOf(published)]
  /\ kind = "tos"
  /\ UNCHANGED <<kind, textVars, editorVars, accepted, consentVars, faults>>

StatusFails(p) ==
  /\ PhoneStep(p, "start", "home") /\ asked' = [asked EXCEPT ![p] = None]
  /\ \/ kind # "tos" /\ UNCHANGED faults
     \/ kind = "tos" /\ faults < MaxFaults /\ faults' = faults + 1
  /\ UNCHANGED <<kind, textVars, editorVars, accepted, shown, consentVars>>

(* Mutant: the screen is left when the request fails.                      *)
AcceptAnyway(p) ==
  /\ shown[p] \in published
  /\ PhoneStep(p, "terms", "home")
  /\ accepted' \in {accepted, accepted \union {shown[p]}}
  /\ UNCHANGED <<kind, textVars, editorVars, shown, asked, consentVars, faults>>

Accept(p) ==
  /\ shown[p] \in published
  /\ PhoneStep(p, "terms", "home") /\ accepted' = accepted \union {shown[p]}
  /\ UNCHANGED <<kind, textVars, editorVars, shown, asked, consentVars, faults>>

(* The screen cannot be left but by accepting, or by ending the application.*)
Restart(p) ==
  /\ kind = "tos" /\ ppc[p] \in {"terms", "home"} /\ ppc' = [ppc EXCEPT ![p] = "start"]
  /\ shown' = [shown EXCEPT ![p] = None]
  /\ UNCHANGED <<kind, textVars, editorVars, accepted, asked, consentVars, faults>>

(* The sheet is shown once unasked, and from the settings whenever wanted. *)
ShowCookieConsent(p) ==
  /\ kind = "cookie" /\ PhoneStep(p, "home", "sheet")
  /\ UNCHANGED <<kind, textVars, editorVars, termsVars, consentVars, faults>>

SaveConsent(p) ==
  /\ PhoneStep(p, "sheet", "find")
  /\ \E marketing \in BOOLEAN : choice' = [choice EXCEPT ![p] = marketing]
  /\ unsynced' = unsynced \union {p}
  /\ UNCHANGED <<kind, textVars, editorVars, termsVars, number, record, last, faults>>

FindPolicy(p) ==
  /\ PhoneStep(p, "find", "upsert")
  /\ number' = [number EXCEPT ![p] = IF published = {} THEN None ELSE MaxOf(published)]
  /\ UNCHANGED <<kind, textVars, editorVars, termsVars, choice, record, last, unsynced, faults>>

(* The consent's row is the client's.                                      *)
UpsertConsent(p) ==
  /\ PhoneStep(p, "upsert", "home")
  /\ record' = [marketing |-> choice[p], version |-> number[p]] /\ last' = p
  /\ unsynced' = unsynced \ {p}
  /\ UNCHANGED <<kind, textVars, editorVars, termsVars, choice, number, faults>>

(* The request is lost or the application ends; nobody sends it again.     *)
SyncFails(p) ==
  /\ ppc[p] \in {"find", "upsert"} /\ ppc' = [ppc EXCEPT ![p] = "home"]
  /\ faults < MaxFaults /\ faults' = faults + 1
  /\ UNCHANGED <<kind, textVars, editorVars, termsVars, consentVars>>

Next ==
  \/ \E e \in Editors :
       \/ Create(e) \/ Publish(e)
       \/ \E language \in Languages : ReadMaxVersion(e, language)
       \/ \E t \in texts : FindText(e, t)
  \/ \E p \in Phones :
       \/ GetStatus(p) \/ StatusFails(p) \/ Accept(p) \/ Restart(p)
       \/ ShowCookieConsent(p) \/ SaveConsent(p) \/ FindPolicy(p) \/ UpsertConsent(p)
       \/ SyncFails(p)

Spec == Init /\ [][Next]_vars

-----------------------------------------------------------------------------
(* Whoever reaches the home screen has accepted terms numbered at least as *)
(* the newest that were published when the phone asked, unless the phone   *)
(* got no answer; only published terms are accepted                        *)
(* (tos.service.ts:121-202, home_screen.dart:47-66).                       *)
TermsKnown ==
  kind = "tos" =>
    /\ accepted \subseteq published
    /\ \A p \in Phones :
         ppc[p] = "home" /\ asked[p] # None => MaxOf(accepted) >= asked[p]

(* The consent at the server is the one on the phone it came from, unless  *)
(* that phone has changed it and its request was lost or is on its way; it *)
(* names a published version (cookie-consent.service.ts:24-72,             *)
(* cookie_consent_service.dart:24-57).                                     *)
ConsentKept ==
  record # None =>
    /\ last \in unsynced \/ record.marketing = choice[last]
    /\ record.version # None => \E t \in published : t[2] = record.version

(* The versions of a language have no gap, whoever creates them at once    *)
(* (tos.service.ts:34-70).                                                 *)
NoGaps == \A t \in texts, v \in 1..MaxVersion : v < t[2] => <<t[1], v>> \in texts

TextsExplained == TermsKnown /\ ConsentKept /\ NoGaps
=============================================================================
