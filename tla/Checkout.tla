------------------------------- MODULE Checkout -------------------------------
(***************************************************************************)
(* The mobile application from the offers to the confirmation: the list of *)
(* offers (OffersScreen, QuoteBloc), the gate of who is not signed in, the *)
(* choice of instalments, and the payment (PaymentScreen, PaymentBloc)     *)
(* with Stripe's sheet over it.  Pages are pushed one over another, or one *)
(* replaces them all (GoRouter's push and go); the routes that need an     *)
(* account are checked against the storage when they are opened.  What the *)
(* API does for an intent is PolicyActivation's: here an offer has one     *)
(* intent, found by its idempotency key, whoever asks and however often.   *)
(***************************************************************************)
EXTENDS Naturals, Sequences, FiniteSets

CONSTANTS
  Offers,
  Counts,     \* of instalments
  None,
  MaxPages    \* bound on the pages opened

VARIABLES
  mock,       \* offers are the built-in ones; the API knows none of them
  signedIn,   \* the storage holds the tokens
  phone,      \* phone_verified, there: "unset", "no" or "yes"
  quotes,     \* the list: "loading", "partial", "shown" or "error"
  statuses,   \* of the offers
  tab,        \* the count the list is shown for
  turning,    \* pages asked for and not yet there: a read of the storage is awaited
  stack, pages,
  asks,       \* requests for an intent that are under way
  sheet,      \* the payment page Stripe's sheet is over
  intents,    \* of the offers: "none", "open" or "paid"
  charged,    \* times the client paid
  expired     \* the tokens were refused and thrown away

listVars == <<mock, quotes, statuses, tab>>
tokenVars == <<signedIn, phone, expired>>
stripeVars == <<sheet, intents, charged>>
vars == <<listVars, tokenVars, turning, stack, pages, asks, stripeVars>>

Init ==
  /\ mock \in BOOLEAN /\ signedIn \in BOOLEAN /\ phone = "unset" /\ expired = FALSE
  /\ quotes = "loading" /\ tab = 1
  /\ statuses \in [Offers -> {"success", "pending"}]
  /\ mock => \A o \in Offers : statuses[o] = "success"
  /\ turning = {} /\ pages = 1 /\ asks = {}
  /\ stack = <<[id |-> 1, at |-> "offers", offer |-> None, count |-> 1, to |-> None,
               auth |-> None, bloc |-> None]>>
  /\ sheet = None /\ intents = [o \in Offers |-> "none"] /\ charged = [o \in Offers |-> 0]

Top == stack[Len(stack)]
OnStack(id) == \E i \in 1..Len(stack) : stack[i].id = id

(* A card can be tapped when the insurer has answered.                     *)
Tappable(o) == quotes \in {"partial", "shown"} /\ statuses[o] = "success"

(* Neither Stripe's sheet nor the dialog about the phone is in front.      *)
Free == stack # <<>> /\ sheet = None /\ \A i \in 1..Len(stack) : stack[i].bloc # "phone"

Page(at, from) == [from EXCEPT !.id = pages + 1, !.at = at, !.auth = "unread", !.bloc = "initial"]

(* The router's redirect.  A page of its own accord carries no AuthRedirect *)
(* to the form of login, so what was to be paid is forgotten.              *)
Guarded(p) ==
  IF p.at \in {"home", "payment", "confirmed"} /\ ~signedIn
  THEN [p EXCEPT !.at = "login", !.to = None] ELSE p

Count == pages < MaxPages /\ pages' = pages + 1
Push(p) == stack' = Append(stack, p)
SetBloc(id, s) ==
  stack' = [i \in DOMAIN stack |-> [stack[i] EXCEPT !.bloc = IF stack[i].id = id THEN s ELSE @]]

-----------------------------------------------------------------------------
(* The list.  Offers that are pending stay so: nothing asks for them again. *)
Load ==
  /\ quotes = "loading"
  /\ quotes' \in IF mock THEN {"shown"}
                 ELSE IF \E o \in Offers : statuses[o] = "pending" THEN {"partial", "error"}
                 ELSE {"shown", "error"}
  /\ UNCHANGED <<mock, statuses, tab, tokenVars, turning, stack, pages, asks, stripeVars>>

SwitchTab(n) ==
  /\ Free /\ Top.at = "offers" /\ n # tab /\ tab' = n
  /\ UNCHANGED <<mock, quotes, statuses, tokenVars, turning, stack, pages, asks, stripeVars>>

(* The list can be tapped again while the storage is read.                 *)
Tap(o) ==
  /\ Free /\ Top.at = "offers" /\ Tappable(o)
  /\ Count /\ turning' = turning \union {Page("select", [Top EXCEPT !.offer = o])}
  /\ UNCHANGED <<listVars, tokenVars, stack, asks, stripeVars>>

(* The read ends: the count is the one of the tab that is open by then.    *)
OpenSelection(p) ==
  /\ p \in turning /\ p.at = "select" /\ turning' = turning \ {p}
  /\ LET q == [p EXCEPT !.count = tab]
     IN  IF ~OnStack(1) THEN UNCHANGED stack
         ELSE IF signedIn THEN Push(q) ELSE Push([q EXCEPT !.at = "gate", !.to = "select"])
  /\ UNCHANGED <<listVars, tokenVars, pages, asks, stripeVars>>

-----------------------------------------------------------------------------
FromGate(form) ==
  /\ Free /\ Top.at = "gate" /\ Count /\ Push(Page(form, Top))
  /\ UNCHANGED <<listVars, tokenVars, turning, asks, stripeVars>>

(* Login's link to the other form does not pass the redirect on.           *)
RegisterInstead ==
  /\ Free /\ Top.at = "login" /\ Count /\ Push(Page("registration", [Top EXCEPT !.to = None]))
  /\ UNCHANGED <<listVars, tokenVars, turning, asks, stripeVars>>

(* A registration's answer is never taken for one (CodeScreens): only a    *)
(* login goes on.                                                          *)
LogIn(verified) ==
  /\ Free /\ Top.at = "login" /\ Count
  /\ signedIn' = TRUE /\ phone' = verified
  /\ stack' = <<Page(IF Top.to = None THEN "home" ELSE Top.to, [Top EXCEPT !.to = None])>>
  /\ UNCHANGED <<listVars, expired, turning, asks, stripeVars>>

Back ==
  /\ Free /\ Len(stack) > 1 /\ stack' = SubSeq(stack, 1, Len(stack) - 1)
  /\ UNCHANGED <<listVars, tokenVars, turning, pages, asks, stripeVars>>

-----------------------------------------------------------------------------
(* The choice of instalments takes the client for a new one until it has   *)
(* read the storage.  Tokens are written and deleted together, so the third *)
(* answer, an account that is not logged in, is never read.                *)
ReadStatus(i) ==
  /\ stack[i].at = "select" /\ stack[i].auth = "unread"
  /\ stack' = [stack EXCEPT ![i].auth = IF signedIn THEN "in" ELSE "new"]
  /\ UNCHANGED <<listVars, tokenVars, turning, pages, asks, stripeVars>>

ChooseCount(n) ==
  /\ Free /\ Top.at = "select" /\ n # Top.count
  /\ stack' = [stack EXCEPT ![Len(stack)].count = n]
  /\ UNCHANGED <<listVars, tokenVars, turning, pages, asks, stripeVars>>

(* The router awaits the storage before it opens the payment; the button   *)
(* can be pressed again.                                                   *)
Continue ==
  /\ Free /\ Top.at = "select" /\ Count
  /\ IF Top.auth = "in"
     THEN turning' = turning \union {Page("payment", Top)} /\ UNCHANGED stack
     ELSE /\ Push([Page("registration", Top) EXCEPT !.to = "payment", !.auth = Top.auth])
          /\ UNCHANGED turning
  /\ UNCHANGED <<listVars, tokenVars, asks, stripeVars>>

OpenPayment(p) ==
  /\ p \in turning /\ p.at = "payment" /\ turning' = turning \ {p} /\ Push(Guarded(p))
  /\ UNCHANGED <<listVars, tokenVars, pages, asks, stripeVars>>

-----------------------------------------------------------------------------
Ask(p) == asks' = asks \union {[page |-> p.id, offer |-> p.offer]} /\ SetBloc(p.id, "loading")

CheckPhone(i) ==
  /\ stack[i].at = "payment" /\ stack[i].bloc = "initial"
  /\ IF phone = "no" THEN SetBloc(stack[i].id, "phone") /\ UNCHANGED asks ELSE Ask(stack[i])
  /\ UNCHANGED <<listVars, tokenVars, turning, pages, stripeVars>>

VerifyPhone(i) ==
  /\ stack[i].bloc = "phone" /\ phone' = "yes" /\ Ask(stack[i])
  /\ UNCHANGED <<listVars, signedIn, expired, turning, pages, stripeVars>>

(* The page closes whichever page is in front.                             *)
DeclinePhone(i) ==
  /\ stack[i].bloc = "phone"
  /\ LET left == [stack EXCEPT ![i].bloc = "declined"] IN stack' = SubSeq(left, 1, Len(left) - 1)
  /\ UNCHANGED <<listVars, tokenVars, turning, pages, asks, stripeVars>>

(* The API finds the intent of the offer, or makes it.  The id of a        *)
(* built-in offer is no UUID: the request is refused.                      *)
Answered(a) ==
  /\ a \in asks /\ asks' = asks \ {a} /\ ~mock /\ signedIn
  /\ intents' = [intents EXCEPT ![a.offer] = IF @ = "none" THEN "open" ELSE @]
  /\ SetBloc(a.page, "ready")
  /\ UNCHANGED <<listVars, tokenVars, turning, pages, sheet, charged>>

AskFails(a) ==
  /\ a \in asks /\ asks' = asks \ {a} /\ SetBloc(a.page, "failed")
  /\ UNCHANGED <<listVars, tokenVars, turning, pages, stripeVars>>

(* The token has expired, and so ends the refresh (MobileSession): all that *)
(* is stored is deleted.                                                   *)
AskRefused(a) ==
  /\ a \in asks /\ asks' = asks \ {a} /\ SetBloc(a.page, "failed")
  /\ signedIn /\ signedIn' = FALSE /\ phone' = "unset" /\ expired' = TRUE
  /\ UNCHANGED <<listVars, turning, pages, stripeVars>>

Retry ==
  /\ Free /\ Top.at = "payment" /\ Top.bloc = "failed" /\ Ask(Top)
  /\ UNCHANGED <<listVars, tokenVars, turning, pages, stripeVars>>

-----------------------------------------------------------------------------
Pay ==
  /\ Free /\ Top.at = "payment" /\ Top.bloc = "ready"
  /\ sheet' = Top.id /\ SetBloc(Top.id, "processing")
  /\ UNCHANGED <<listVars, tokenVars, turning, pages, asks, intents, charged>>

Under == CHOOSE p \in {stack[i] : i \in 1..Len(stack)} : p.id = sheet

(* Stripe takes money for an intent that is open, and once.                *)
Charge ==
  /\ intents[Under.offer] = "open"
  /\ intents' = [intents EXCEPT ![Under.offer] = "paid"]
  /\ charged' = [charged EXCEPT ![Under.offer] = @ + 1]

SheetPaid ==
  /\ sheet # None /\ Charge /\ sheet' = None
  /\ stack' = <<Guarded(Page("confirmed", Under))>>
  /\ UNCHANGED <<listVars, tokenVars, turning, pages, asks>>

(* The card was charged and the answer was lost.                           *)
SheetLosesAnswer ==
  /\ sheet # None /\ Charge /\ sheet' = None /\ SetBloc(sheet, "failed")
  /\ UNCHANGED <<listVars, tokenVars, turning, pages, asks>>

(* Closed; or refused, as it is for an intent that is paid; or an exception *)
(* that is not Stripe's, which nobody catches: the wheel turns on.         *)
SheetCloses(s) ==
  /\ sheet # None /\ sheet' = None /\ SetBloc(sheet, s)
  /\ UNCHANGED <<listVars, tokenVars, turning, pages, asks, intents, charged>>

GoHome ==
  /\ Free /\ Top.at = "confirmed"
  /\ stack' = <<Guarded(Page("home", [Top EXCEPT !.offer = None]))>>
  /\ UNCHANGED <<listVars, tokenVars, turning, pages, asks, stripeVars>>

Next ==
  \/ Load \/ RegisterInstead \/ Back \/ Continue \/ Retry \/ Pay
  \/ SheetPaid \/ SheetLosesAnswer \/ GoHome
  \/ \E n \in Counts : SwitchTab(n) \/ ChooseCount(n)
  \/ \E o \in Offers : Tap(o)
  \/ \E p \in turning : OpenSelection(p) \/ OpenPayment(p)
  \/ \E form \in {"login", "registration"} : FromGate(form)
  \/ \E v \in {"no", "yes"} : LogIn(v)
  \/ \E i \in 1..Len(stack) : ReadStatus(i) \/ CheckPhone(i) \/ VerifyPhone(i) \/ DeclinePhone(i)
  \/ \E a \in asks : Answered(a) \/ AskFails(a) \/ AskRefused(a)
  \/ \E s \in {"ready", "failed", "processing"} : SheetCloses(s)

-----------------------------------------------------------------------------
(* An offer is paid for once, however often its payment was opened, asked  *)
(* for and tried.                                                          *)
ChargedOnce == \A o \in Offers : charged[o] <= 1

(* The confirmation is of an offer that was paid.                          *)
ConfirmedIsPaid == \A i \in 1..Len(stack) :
  stack[i].at = "confirmed" => intents[stack[i].offer] = "paid"

(* A client who came through the gate or the offers to the instalments is  *)
(* asked to register only for pressing the button before the storage was   *)
(* read, or for having lost the session.                                   *)
RegistersExplained == \A i \in 1..Len(stack) :
  stack[i].at = "registration" /\ stack[i].to = "payment" =>
    stack[i].auth = "unread" \/ expired

(* The form of login forgets what was to be paid only in a session that    *)
(* was lost under the client.                                              *)
ForgottenExplained == \A i \in 1..Len(stack) :
  stack[i].at = "login" /\ stack[i].to = None => expired

(* Declining the dialog closes a page, and never the last one: a payment   *)
(* is always over the page it was opened from.                             *)
NeverBlank == stack # <<>>

CheckoutExplained ==
  /\ ChargedOnce /\ ConfirmedIsPaid /\ RegistersExplained /\ ForgottenExplained /\ NeverBlank
=============================================================================
