----------------------------- MODULE VehicleChecks -----------------------------
(***************************************************************************)
(* The checks of a vehicle: POST /vehicles/validate asks the traffic       *)
(* police (KAT) and then the Guarantee Fund, and notes the outcome in the  *)
(* client's anonymous session; GET /vehicles/enrich looks for a policy in  *)
(* force, then asks both.  The Fund's answers are kept in Redis by VIN.    *)
(* The mobile application's validation screen sends the first; KAT and the *)
(* Fund are external, and fail.                                            *)
(***************************************************************************)
EXTENDS Naturals

CONSTANTS
  Cars, None,
  MaxCalls,    \* bound on requests
  MaxErrors    \* bound on failures of Redis, of the services and of the network

Pairs == [vin: Cars \union {None}, plate: Cars]     \* None: no VIN was given
Calls == 1..MaxCalls

VARIABLES
  mock,        \* the mobile application makes its answers up (_mockValidation)
  stolen, listed, \* cars KAT and the Fund know of
  insured,     \* cars with a policy in force
  tenant,      \* the session names its tenant
  fund,        \* the Fund's answers in Redis by VIN, each with the pair it was about
  anon,        \* request whose outcome the session holds (0: none); None: it is gone
  calls, made, \* the requests, and how many there were
  view,        \* the validation screen
  waits,       \* the request it shows
  opened,      \* why it opened the offers
  reports,     \* requests whose car was mailed to the broker
  errors,
  crossed      \* requests that write the session overlapped

world == <<mock, stolen, listed, insured, tenant>>
screen == <<view, waits, opened>>
vars == <<world, fund, anon, calls, made, screen, reports, errors, crossed>>

Listed(pair) == pair.vin \in listed \/ pair.plate \in listed
InFlight == {n \in Calls : calls[n] # None /\ calls[n].at # "done"}
Writing == {n \in InFlight : calls[n].kind = "validate"}

Init ==
  /\ mock \in BOOLEAN /\ tenant \in BOOLEAN
  /\ stolen \in SUBSET Cars /\ listed \in SUBSET Cars /\ insured \in SUBSET Cars
  /\ fund = [k \in Cars \union {None} |-> None]
  /\ anon = 0 /\ calls = [n \in Calls |-> None] /\ made = 0
  /\ view = "form" /\ waits = 0 /\ opened = None
  /\ reports = {} /\ errors = 0 /\ crossed = FALSE

Fault == errors < MaxErrors /\ errors' = errors + 1

Request(kind, pair) ==
  /\ made < MaxCalls /\ made' = made + 1
  /\ calls' = [calls EXCEPT ![made'] =
       [kind |-> kind, pair |-> pair, at |-> IF kind = "validate" THEN "kat" ELSE "policy",
        kat |-> None, gf |-> None, of |-> None, policy |-> None, copy |-> None]]

-----------------------------------------------------------------------------
(* The mobile screen: a valid form is sent; a made-up answer is a success. *)
Validate(pair) ==
  /\ view = "form" /\ pair.vin # None
  /\ IF mock THEN /\ view' = "success" /\ opened' = "mock"
                  /\ UNCHANGED <<calls, made, waits, crossed>>
             ELSE /\ view' = "loading" /\ Request("validate", pair) /\ waits' = made'
                  /\ crossed' = (crossed \/ Writing # {}) /\ UNCHANGED opened
  /\ UNCHANGED <<world, fund, anon, reports, errors>>

(* The same is asked again, and this time KAT's part is not looked at.     *)
ConfirmByHand ==
  /\ view = "kat" /\ view' = "byhand" /\ Request("validate", calls[waits].pair)
  /\ waits' = made' /\ crossed' = (crossed \/ Writing # {})
  /\ UNCHANGED <<world, fund, anon, opened, reports, errors>>

(* Mutant: the answer of KAT by hand counts as a success.                  *)
AfterByHand(call) ==
  IF view = "byhand" THEN "success" ELSE
  CASE call.gf = None -> "error"
    [] call.gf = "flagged" -> "blocked"
    [] call.kat = "manual_fallback" -> "kat"
    [] call.gf = "unavailable" -> "gf"
    [] OTHER -> "success"

(* The state the answer puts the screen into; a success opens the offers.  *)
After(call) ==
  CASE call.gf = None -> "error"
    [] call.gf = "flagged" -> "blocked"
    [] view = "loading" /\ call.kat = "manual_fallback" -> "kat"
    [] call.gf = "unavailable" -> "gf"
    [] OTHER -> "success"

Show ==
  /\ view \in {"loading", "byhand"}
  /\ \/ calls[waits].at = "done" /\ view' = After(calls[waits]) /\ UNCHANGED errors
     \/ Fault /\ view' = "error"                         \* the request is given up
  /\ opened' = IF view' = "success" THEN "success" ELSE opened
  /\ UNCHANGED <<world, fund, anon, calls, made, waits, reports, crossed>>

(* "Continue" on the screen that says the Fund does not answer.            *)
GoOn ==
  /\ view = "gf" /\ opened = None /\ opened' = "unavailable"
  /\ UNCHANGED <<world, fund, anon, calls, made, view, waits, reports, errors, crossed>>

(* Another try after an error, or the screen is left and opened anew.      *)
Restart ==
  /\ view \notin {"form", "loading", "byhand"}
  /\ view' = "form" /\ waits' = 0 /\ opened' = None
  /\ UNCHANGED <<world, fund, anon, calls, made, reports, errors, crossed>>

Enrich(pair) ==
  /\ Request("enrich", pair)
  /\ UNCHANGED <<world, fund, anon, screen, reports, errors, crossed>>

-----------------------------------------------------------------------------
(* The API.                                                                *)
At(n, kind, step) == calls[n] # None /\ calls[n].kind = kind /\ calls[n].at = step

(* validateVehicle: a VIN of the wrong form is refused.                    *)
RefuseVin(n) ==
  /\ At(n, "validate", "kat")
  /\ calls' = [calls EXCEPT ![n].at = "done"]
  /\ UNCHANGED <<world, fund, anon, made, screen, reports, errors, crossed>>

(* runKatValidation: a stolen car is not looked up any further.            *)
AskKat(n) ==
  /\ At(n, "validate", "kat")
  /\ \/ /\ calls[n].pair.vin \in stolen /\ UNCHANGED errors
        /\ calls' = [calls EXCEPT ![n].kat = "failed", ![n].gf = "unavailable", ![n].at = "session"]
     \/ /\ calls[n].pair.vin \notin stolen /\ UNCHANGED errors
        /\ calls' = [calls EXCEPT ![n].kat = "ok", ![n].at = "cache"]
     \/ /\ Fault
        /\ \E s \in {"manual_fallback", "unavailable"} :
             calls' = [calls EXCEPT ![n].kat = s, ![n].at = "cache"]
  /\ UNCHANGED <<world, fund, anon, made, screen, reports, crossed>>

(* checkExistingPolicy, by plate; an answer that takes too long is taken   *)
(* for none.                                                               *)
FindPolicy(n) ==
  /\ At(n, "enrich", "policy")
  /\ \/ /\ calls[n].pair.plate \in insured /\ UNCHANGED errors
        /\ calls' = [calls EXCEPT ![n].policy = "found", ![n].at = "done"]
     \/ /\ calls[n].pair.plate \notin insured /\ UNCHANGED errors
        /\ calls' = [calls EXCEPT ![n].policy = "none", ![n].at = "cache"]
     \/ /\ Fault
        /\ \E p \in {"none", "timeout"} :
             calls' = [calls EXCEPT ![n].policy = p, ![n].at = "cache"]
  /\ UNCHANGED <<world, fund, anon, made, screen, reports, crossed>>

Then(n) == IF calls[n].kind = "validate" THEN "session" ELSE "done"

(* Mutant: one answer is kept for every car.                               *)
OneKey(pair) == None

(* checkVehicle: the answer kept for the VIN, whatever the plate it was    *)
(* given for, or the Fund's.                                               *)
Key(pair) == pair.vin

ReadCache(n) ==
  /\ calls[n] # None /\ calls[n].at = "cache"
  /\ LET kept == fund[Key(calls[n].pair)] IN
     \/ /\ kept = None /\ calls' = [calls EXCEPT ![n].at = "fund"] /\ UNCHANGED errors
     \/ /\ kept # None /\ UNCHANGED errors
        /\ calls' = [calls EXCEPT ![n].gf = IF kept.listed THEN "flagged" ELSE "clean",
                                  ![n].of = kept.of, ![n].at = Then(n)]
     \/ Fault /\ calls' = [calls EXCEPT ![n].gf = "unavailable", ![n].at = Then(n)]
  /\ UNCHANGED <<world, fund, anon, made, screen, reports, crossed>>

(* callGfApi: the answer is kept before it is given; what is too late for  *)
(* the one who asks is kept all the same.                                  *)
AskFund(n) ==
  /\ calls[n] # None /\ calls[n].at = "fund"
  /\ LET pair == calls[n].pair
         kept == [fund EXCEPT ![Key(pair)] = [listed |-> Listed(pair), of |-> pair]]
     IN
     \/ /\ fund' = kept /\ UNCHANGED errors
        /\ calls' = [calls EXCEPT ![n].gf = IF Listed(pair) THEN "flagged" ELSE "clean",
                                  ![n].of = pair, ![n].at = Then(n)]
     \/ /\ Fault /\ fund' \in {fund, kept}
        /\ calls' = [calls EXCEPT ![n].gf = "unavailable", ![n].at = Then(n)]
  /\ UNCHANGED <<world, anon, made, screen, reports, crossed>>

(* updateValidationStatus: read, merge, write; a failure is logged.  A     *)
(* flagged car is mailed to the broker of the session's tenant, and nobody *)
(* waits for that.                                                         *)
Report(n) ==
  IF calls[n].gf = "flagged" /\ tenant
  THEN reports' = reports \union {n} ELSE UNCHANGED reports

ReadSession(n) ==
  /\ At(n, "validate", "session")
  /\ \/ /\ anon # None /\ UNCHANGED <<reports, errors>>
        /\ calls' = [calls EXCEPT ![n].copy = anon, ![n].at = "write"]
     \/ /\ calls' = [calls EXCEPT ![n].at = "done"] /\ Report(n)
        /\ (anon = None /\ UNCHANGED errors) \/ Fault
  /\ UNCHANGED <<world, fund, anon, made, screen, crossed>>

WriteSession(n) ==
  /\ At(n, "validate", "write")
  /\ \/ anon' = n /\ UNCHANGED errors
     \/ Fault /\ UNCHANGED anon
  /\ calls' = [calls EXCEPT ![n].at = "done"] /\ Report(n)
  /\ UNCHANGED <<world, fund, made, screen, crossed>>

(* The session becomes an account's, or expires.                           *)
EndSession ==
  /\ anon # None /\ anon' = None
  /\ UNCHANGED <<world, fund, calls, made, screen, reports, errors, crossed>>

Next ==
  \/ \E pair \in Pairs : Validate(pair) \/ Enrich(pair)
  \/ ConfirmByHand \/ Show \/ GoOn \/ Restart \/ EndSession
  \/ \E n \in Calls : \/ RefuseVin(n) \/ AskKat(n) \/ FindPolicy(n) \/ ReadCache(n)
                      \/ AskFund(n) \/ ReadSession(n) \/ WriteSession(n)

Spec == Init /\ [][Next]_vars

-----------------------------------------------------------------------------
(* What the Fund is reported to say of a car is what it says, unless the   *)
(* answer was kept for a pair with another plate, or for another car, both *)
(* without a VIN (garantsionen-fond.adapter.ts:62-67,                      *)
(* vehicle-enrichment.service.ts:196-199).                                 *)
AnswerIsOfThisCar ==
  \A n \in Calls : calls[n] # None /\ calls[n].gf \in {"clean", "flagged"} =>
    \/ (calls[n].gf = "flagged") = Listed(calls[n].pair)
    \/ calls[n].of.vin = calls[n].pair.vin /\ calls[n].of.plate # calls[n].pair.plate

(* A checked car's offers open when both services let it pass, when its    *)
(* user vouched for the VIN, or when the Fund did not answer.  A car the   *)
(* police look for is told from none of the last: its offers open too      *)
(* (vehicle_validation_bloc.dart:31-39, vehicles.service.ts:102-107).      *)
OffersAreEarned ==
  /\ opened = "success" =>
       /\ calls[waits].gf = "clean"
       /\ calls[waits].kat # "ok" => errors > 0
  /\ opened = "unavailable" =>
       calls[waits].gf = "unavailable" /\ (errors > 0 \/ calls[waits].pair.vin \in stolen)
  /\ waits # 0 /\ opened # None => calls[waits].gf # "flagged"

(* The session holds the outcome of the newest check, unless checks        *)
(* overlapped or a write failed.  It comes from a check that had read it:  *)
(* one that is gone comes back only with it (vehicles.service.ts:230-264). *)
SessionTellsTheNewest ==
  /\ anon \notin {0, None} /\ ~crossed /\ errors = 0 =>
       \A n \in Calls : calls[n] # None /\ calls[n].kind = "validate" /\ calls[n].at = "done"
                        /\ calls[n].gf # None => n <= anon
  /\ anon \notin {0, None} => calls[anon].copy # None /\ calls[anon].gf # None

(* A car the Fund lists is reported to the broker, if the session named    *)
(* one; without a session nobody is told (vehicles.service.ts:113-127).    *)
FlaggedIsReported ==
  /\ \A n \in Calls : calls[n] # None /\ At(n, "validate", "done") /\ calls[n].gf = "flagged" =>
       (n \in reports) = tenant
  /\ \A n \in reports : calls[n].gf = "flagged"

(* An enrichment that found no policy is of a car without one, unless the  *)
(* database failed or took too long (vehicle-enrichment.service.ts:118-127).*)
NoPolicyMeansNone ==
  \A n \in Calls : calls[n] # None /\ calls[n].policy = "none" /\ errors = 0 =>
    calls[n].pair.plate \notin insured

VehiclesExplained ==
  /\ AnswerIsOfThisCar /\ OffersAreEarned /\ SessionTellsTheNewest
  /\ FlaggedIsReported /\ NoPolicyMeansNone
=============================================================================
