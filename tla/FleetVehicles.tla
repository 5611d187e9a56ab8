----------------------------- MODULE FleetVehicles -----------------------------
(***************************************************************************)
(* The fleet's requests beside the export (FleetExport): the list of its   *)
(* vehicles with the state of their insurance, who drives which, and the   *)
(* purchase of many quotes at once.  A purchase asks for each quote as a   *)
(* client's does (PolicyActivation), all at the same time, and answers     *)
(* which of them it got an intent for.                                     *)
(***************************************************************************)
EXTENDS Naturals, Sequences, FiniteSetsExt, SequencesExt

CONSTANTS
  FleetSize, PageSize,
  Users,
  Offered, Rates,
  MaxPolicies,  \* bound on a vehicle's policies
  MaxAssigns,   \* bound on assignments under way
  MaxCalls,     \* bound on quotes asked for
  MaxErrors,    \* bound on failures of Stripe and of the database
  None

VARIABLES
  cover,        \* of each vehicle: its active policies, the newest last
  answer,       \* the last page of the list
  outlasted,    \* vehicles that got a policy ending before one they had
  role, driver, \* of users, of vehicles
  assigns,      \* assignments checked and not yet written
  demoted,      \* users who were drivers
  rate,         \* the platform's fee
  calls,        \* quotes asked for, with how far each is
  intents,      \* at Stripe, by quote: the fee
  payments,     \* rows, by quote: the fee
  errors,
  lost          \* quotes whose intent was made and not recorded by the call that made it

listVars == <<cover, answer, outlasted>>
driverVars == <<role, driver, assigns, demoted>>
bulkVars == <<rate, calls, intents, payments, errors, lost>>
vars == <<listVars, driverVars, bulkVars>>

Fleet == 1..FleetSize      \* the newest first

Init ==
  /\ cover = [v \in Fleet |-> <<>>] /\ answer = None /\ outlasted = {}
  /\ role \in [Users -> {"driver", "agent"}]
  /\ driver = [v \in Fleet |-> None] /\ assigns = {} /\ demoted = {}
  /\ rate \in Rates /\ calls = <<>> /\ errors = 0 /\ lost = {}
  /\ intents = [q \in Offered |-> None] /\ payments = [q \in Offered |-> None]

-----------------------------------------------------------------------------
(* Days left are more than thirty, at least one, or none: 2, 1 or 0.  The  *)
(* policy that counts is the one created last.                             *)
Status(v) ==
  IF cover[v] = <<>> THEN "red" ELSE <<"red", "yellow", "green">>[Last(cover[v]) + 1]

Outlasts(v, left) == \E i \in DOMAIN cover[v] : cover[v][i] > left

(* By the broker: the policies of purchases name no vehicle.               *)
CreatePolicy(v, left) ==
  /\ Len(cover[v]) < MaxPolicies
  /\ cover' = [cover EXCEPT ![v] = Append(@, left)]
  /\ outlasted' = IF Outlasts(v, left) THEN outlasted \union {v} ELSE outlasted
  /\ UNCHANGED <<answer, driverVars, bulkVars>>

CancelPolicy(v, i) ==
  /\ cover' = [cover EXCEPT ![v] = RemoveAt(@, i)]
  /\ UNCHANGED <<answer, outlasted, driverVars, bulkVars>>

TimePasses ==
  /\ \E v \in Fleet : \E i \in DOMAIN cover[v] : cover[v][i] > 0
  /\ cover' = [v \in Fleet |-> [i \in DOMAIN cover[v] |->
                  IF cover[v][i] = 0 THEN 0 ELSE cover[v][i] - 1]]
  /\ UNCHANGED <<answer, outlasted, driverVars, bulkVars>>

OnPage(p) == {v \in Fleet : (p - 1) * PageSize < v /\ v <= p * PageSize}

(* The page is cut out of the whole fleet, and the status looked at on it. *)
List(s, p) ==
  LET found == {v \in OnPage(p) : s # None => Status(v) = s}
  IN  /\ answer' = [status |-> s, page |-> p, rows |-> found,
                    total |-> IF s = None THEN FleetSize ELSE Cardinality(found),
                    all |-> {v \in Fleet : s # None => Status(v) = s}]
      /\ UNCHANGED <<cover, outlasted, driverVars, bulkVars>>

ListNext ==
  \/ TimePasses
  \/ \E v \in Fleet, left \in 1..2 : CreatePolicy(v, left)
  \/ \E v \in Fleet : \E i \in DOMAIN cover[v] : CancelPolicy(v, i)
  \/ \E s \in {None, "red", "yellow", "green"}, p \in 1..FleetSize : List(s, p)

-----------------------------------------------------------------------------
(* The user is read, then the vehicle's row is written.                    *)
CheckDriver(v, u) ==
  /\ Cardinality(assigns) < MaxAssigns
  /\ u # None => role[u] = "driver"
  /\ assigns' = assigns \union {<<v, u>>}
  /\ UNCHANGED <<listVars, role, driver, demoted, bulkVars>>

AssignDriver(a) ==
  /\ a \in assigns /\ assigns' = assigns \ {a}
  /\ driver' = [driver EXCEPT ![a[1]] = a[2]]
  /\ UNCHANGED <<listVars, role, demoted, bulkVars>>

(* The roles that can be given are the broker's: none is a driver again.   *)
UpdateRole(u) ==
  /\ role' = [role EXCEPT ![u] = "agent"]
  /\ demoted' = IF role[u] = "driver" THEN demoted \union {u} ELSE demoted
  /\ UNCHANGED <<listVars, driver, assigns, bulkVars>>

DriverNext ==
  \/ \E v \in Fleet, u \in Users \union {None} : CheckDriver(v, u)
  \/ \E a \in assigns : AssignDriver(a)
  \/ \E u \in Users : UpdateRole(u)

-----------------------------------------------------------------------------
(* The quotes of a request are asked for at once, and may repeat.          *)
BulkPurchase(items) ==
  /\ Len(calls) + Len(items) <= MaxCalls
  /\ calls' = calls \o [i \in DOMAIN items |-> [quote |-> items[i], at |-> "find", fee |-> None]]
  /\ UNCHANGED <<listVars, driverVars, rate, intents, payments, errors, lost>>

Quote(c) == calls[c].quote
Goes(c, to) == calls' = [calls EXCEPT ![c].at = to]

(* A payment that is there is answered as it is.                           *)
FindPayment(c) ==
  /\ calls[c].at = "find"
  /\ Goes(c, IF payments[Quote(c)] = None THEN "load" ELSE "ok")
  /\ UNCHANGED <<listVars, driverVars, rate, intents, payments, errors, lost>>

(* The quote, the rate and the tenant; one of them may not do.             *)
LoadQuote(c) ==
  /\ calls[c].at = "load"
  /\ \/ calls' = [calls EXCEPT ![c].at = "charge", ![c].fee = rate]
     \/ Goes(c, "unavailable")
  /\ UNCHANGED <<listVars, driverVars, rate, intents, payments, errors, lost>>

Fails == errors < MaxErrors /\ errors' = errors + 1

(* Stripe answers a key it has seen with the intent it made for it, and    *)
(* refuses it when what is asked is not the same.                          *)
CreateIntent(c) ==
  /\ calls[c].at = "charge"
  /\ LET q == Quote(c)
     IN  \/ /\ intents[q] \in {None, calls[c].fee} /\ Goes(c, "save")
            /\ intents' = [intents EXCEPT ![q] = calls[c].fee] /\ UNCHANGED <<errors, lost>>
         \/ /\ intents[q] \notin {None, calls[c].fee} /\ Goes(c, "refused")
            /\ UNCHANGED <<intents, errors, lost>>
         \/ Fails /\ Goes(c, "failed") /\ UNCHANGED <<intents, lost>>
         \/ /\ Fails /\ intents[q] = None /\ Goes(c, "failed")
            /\ intents' = [intents EXCEPT ![q] = calls[c].fee] /\ lost' = lost \union {q}
  /\ UNCHANGED <<listVars, driverVars, rate, payments>>

(* The key is unique among the rows.                                       *)
SavePayment(c) ==
  /\ calls[c].at = "save"
  /\ LET q == Quote(c)
     IN  \/ /\ payments[q] = None /\ payments' = [payments EXCEPT ![q] = calls[c].fee]
            /\ Goes(c, "ok") /\ UNCHANGED <<errors, lost>>
         \/ payments[q] # None /\ Goes(c, "taken") /\ UNCHANGED <<payments, errors, lost>>
         \/ /\ payments[q] = None /\ Fails /\ Goes(c, "failed")
            /\ lost' = lost \union {q} /\ UNCHANGED payments
  /\ UNCHANGED <<listVars, driverVars, rate, intents>>

ChangeRate(r) ==
  /\ rate # r /\ rate' = r
  /\ UNCHANGED <<listVars, driverVars, calls, intents, payments, errors, lost>>

BulkNext ==
  \/ \E q \in Offered : BulkPurchase(<<q>>)
  \/ \E q, s \in Offered : BulkPurchase(<<q, s>>)
  \/ \E c \in DOMAIN calls : FindPayment(c) \/ LoadQuote(c) \/ CreateIntent(c) \/ SavePayment(c)
  \/ \E r \in Rates : ChangeRate(r)

Next == ListNext \/ DriverNext \/ BulkNext

-----------------------------------------------------------------------------
(* A list by status counts fewer vehicles than there are of that status    *)
(* only when the fleet has more than a page.                               *)
ListIsOfPage ==
  answer # None => answer.total <= Cardinality(answer.all) /\ answer.rows \subseteq answer.all /\
    (answer.total < Cardinality(answer.all) => FleetSize > PageSize \/ answer.page > 1)

(* A vehicle is shown less insured than it is only where a later policy    *)
(* ends before an earlier one.                                             *)
StatusExplained ==
  \A v \in Fleet : (\E i \in DOMAIN cover[v] : cover[v][i] > Last(cover[v])) => v \in outlasted

(* Who drives a vehicle is a driver, or was one.                           *)
DriverExplained ==
  \A v \in Fleet : driver[v] # None => role[driver[v]] = "driver" \/ driver[v] \in demoted

(* A quote answered as got has a row and an intent, for the same fee.      *)
GotIsPayable ==
  \A c \in DOMAIN calls : calls[c].at = "ok" =>
    payments[Quote(c)] # None /\ payments[Quote(c)] = intents[Quote(c)]

(* An item is answered as failed for a row that is there only next to      *)
(* another that got it; and Stripe refuses a key only after the rate was   *)
(* changed between two calls: while the first is not done, when it got it, *)
(* or when what it made was lost, and then no later call gets it either.   *)
FailureExplained ==
  \A c \in DOMAIN calls :
    LET others == {b \in DOMAIN calls \ {c} : Quote(b) = Quote(c)}
    IN  /\ calls[c].at = "taken" => \E b \in others : calls[b].at = "ok"
        /\ calls[c].at = "refused" =>
             /\ calls[c].fee # intents[Quote(c)]
             /\ Quote(c) \in lost \/ \E b \in others : calls[b].at \in {"save", "ok"}

FleetExplained ==
  ListIsOfPage /\ StatusExplained /\ DriverExplained /\ GotIsPayable /\ FailureExplained
=============================================================================
