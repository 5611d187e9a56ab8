------------------------------- MODULE MCOffice -------------------------------
(***************************************************************************)
(* What a broker's office does, for TLC: the export of a fleet's policies, *)
(* and the texts published for the clients.  They share no row: side says  *)
(* which of them a behaviour follows.  Of the texts, the privacy policy    *)
(* has two editors, the terms one editor and one phone, the cookies one    *)
(* text and two phones.                                                    *)
(***************************************************************************)
EXTENDS FleetExport

CONSTANTS
  Editors, Languages, Phones, MaxVersion       \* of VersionedTexts

VARIABLES
  side,
  kind, texts, published, epc, draft, accepted, ppc, shown, asked, choice, number, record,
  last, unsynced, textFaults

textVars == <<kind, texts, published, epc, draft, accepted, ppc, shown, asked, choice,
              number, record, last, unsynced, textFaults>>

Texts == INSTANCE VersionedTexts WITH faults <- textFaults

OfficeInit ==
  /\ side \in {"export", "texts"}
  /\ Init /\ Texts!Init
  /\ side # "texts" => kind = "tos"

Alone(x, set) == x = CHOOSE y \in set : TRUE

Busy(e) == epc'[e] # "idle"

OfficeNext ==
  \/ /\ side = "export" /\ Next
     /\ UNCHANGED <<side, textVars>>
  \/ /\ side = "texts" /\ Texts!Next
     /\ \A e \in Editors : kind = "privacy" \/ Alone(e, Editors) \/ ~Busy(e)
     /\ \A p \in Phones : kind = "cookie" \/ Alone(p, Phones) \/ ppc'[p] = "start"
     /\ Cardinality(texts') <= (CASE kind = "tos" -> 4 [] kind = "privacy" -> 3 [] OTHER -> 1)
     /\ UNCHANGED <<side, vars>>

(* The fairness is the export's: a behaviour in which it is not followed   *)
(* is not fair, and only its states are checked.                           *)
OfficeSpec == OfficeInit /\ [][OfficeNext]_<<side, vars, textVars>> /\ Fairness

TextsExplained == Texts!TextsExplained
=============================================================================
