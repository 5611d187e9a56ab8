----------------------------- MODULE QuoteFanOut -----------------------------
(***************************************************************************)
(* Quotes of one session: each request stores a pending quote per active   *)
(* insurer, asks all of them at once, stores what came back, scores and    *)
(* marks the best offer, and answers with every quote of the session       *)
(* (quotes.service.ts).  A session may ask again while a request is under  *)
(* way: the form is sent twice, or the page is opened again.  Prices are   *)
(* left open, so any priced offer may score best.                          *)
(***************************************************************************)
EXTENDS Naturals, FiniteSets

CONSTANTS
  Insurers,
  Requests,
  MaxFaults    \* bound on failing statements

VARIABLES
  quote,       \* per request and insurer: status of the row
  marked,      \* quotes with is_recommended
  result,      \* per request and insurer: how the call settled
  rpc,
  answer,      \* per request: the status it answered
  faults

vars == <<quote, marked, result, rpc, answer, faults>>

Rows == Requests \X Insurers

TypeOK ==
  /\ quote \in [Rows -> {"none", "pending", "success", "timeout", "error"}]
  /\ marked \subseteq Rows
  /\ result \in [Rows -> {"none", "calling", "price", "timeout", "error", "stored"}]
  /\ rpc \in [Requests -> {"idle", "check", "insurers", "create", "call", "store", "score",
                           "audit", "find", "done", "failed"}]
  /\ answer \in [Requests -> {"none", "pending", "complete", "error"}]
  /\ faults \in 0..MaxFaults

Init ==
  /\ quote = [x \in Rows |-> "none"] /\ marked = {}
  /\ result = [x \in Rows |-> "none"]
  /\ rpc = [r \in Requests |-> "idle"] /\ answer = [r \in Requests |-> "none"]
  /\ faults = 0

Goto(r, from, to) == rpc[r] = from /\ rpc' = [rpc EXCEPT ![r] = to]

Of(r) == {x \in Rows : x[1] = r}
Priced(r) == {x \in Of(r) : quote[x] = "success"}

-----------------------------------------------------------------------------
Submit(r) ==
  /\ Goto(r, "idle", "check")
  /\ UNCHANGED <<quote, marked, result, answer, faults>>

(* The tenant may be stripe_revoked. *)
CheckTenant(r) ==
  /\ \/ Goto(r, "check", "insurers") /\ UNCHANGED answer
     \/ Goto(r, "check", "failed") /\ answer' = [answer EXCEPT ![r] = "error"]
  /\ UNCHANGED <<quote, marked, result, faults>>

(* Those that no administrator has switched off by then. *)
FindActiveInsurers(r) ==
  /\ Goto(r, "insurers", "create")
  /\ \E active \in SUBSET Insurers : result' =
       [x \in Rows |-> IF x \in Of(r) /\ x[2] \in active THEN "calling" ELSE result[x]]
  /\ UNCHANGED <<quote, marked, answer, faults>>

BulkCreate(r) ==
  /\ Goto(r, "create", "call")
  /\ quote' = [x \in Rows |-> IF x \in Of(r) /\ result[x] = "calling" THEN "pending" ELSE quote[x]]
  /\ UNCHANGED <<marked, result, answer, faults>>

(* The breaker fires the call: it has one insurer's calls of one request,  *)
(* for the service lives as long as a request does, and never opens.  The  *)
(* breaker's timer and the request's own are both of five seconds; which   *)
(* of them rejects decides between error and timeout.                      *)
CallSettles(x) ==
  /\ rpc[x[1]] = "call" /\ result[x] = "calling"
  /\ \E s \in {"price", "timeout", "error"} : result' = [result EXCEPT ![x] = s]
  /\ UNCHANGED <<quote, marked, rpc, answer, faults>>

AllSettled(r) ==
  /\ \A x \in Of(r) : result[x] # "calling"
  /\ Goto(r, "call", "store")
  /\ UNCHANGED <<quote, marked, result, answer, faults>>

(* Mutant: a rejected call keeps its pending quote. *)
StorePricesOnly(x) ==
  /\ rpc[x[1]] = "store" /\ result[x] \in {"price", "timeout", "error"}
  /\ quote' = IF result[x] = "price" THEN [quote EXCEPT ![x] = "success"] ELSE quote
  /\ result' = [result EXCEPT ![x] = "stored"]
  /\ UNCHANGED <<marked, rpc, answer, faults>>

(* updateQuoteStatus, one quote after the other. *)
StoreResult(x) ==
  /\ rpc[x[1]] = "store" /\ result[x] \in {"price", "timeout", "error"}
  /\ quote' = [quote EXCEPT ![x] = IF result[x] = "price" THEN "success" ELSE result[x]]
  /\ result' = [result EXCEPT ![x] = "stored"]
  /\ UNCHANGED <<marked, rpc, answer, faults>>

ScoreOffers(r) ==
  /\ \A x \in Of(r) : result[x] \in {"none", "stored"}
  /\ Goto(r, "store", IF Priced(r) # {} THEN "score" ELSE "find")
  /\ UNCHANGED <<quote, marked, result, answer, faults>>

MarkRecommended(r) ==
  /\ Goto(r, "score", "audit")
  /\ \E x \in Priced(r) : marked' = marked \union {x}
  /\ UNCHANGED <<quote, result, answer, faults>>

LogScoringAudit(r) ==
  /\ Goto(r, "audit", "find")
  /\ UNCHANGED <<quote, marked, result, answer, faults>>

(* buildResponse looks at the quotes of every request of the session. *)
Respond(r) ==
  /\ Goto(r, "find", "done")
  /\ answer' = [answer EXCEPT ![r] =
       IF \E x \in Rows : quote[x] = "pending" THEN "pending" ELSE "complete"]
  /\ UNCHANGED <<quote, marked, result, faults>>

RequestFails(r) ==
  /\ faults < MaxFaults /\ faults' = faults + 1
  /\ \E from \in {"check", "insurers", "create", "store", "score", "find"} :
       Goto(r, from, "failed")
  /\ answer' = [answer EXCEPT ![r] = "error"]
  /\ UNCHANGED <<quote, marked, result>>

(* What the pages show. *)
Pending == {x \in Rows : quote[x] = "pending"}

(* rankWithPreference joins the scores to the quotes by insurer. *)
Ranked(best) == {x \in Rows : quote[x] # "none" /\ x[2] = best[2]}

(* The status bulkGetQuotes gives a vehicle, from all quotes of its session. *)
BulkStatus ==
  LET offers == {x \in Rows : quote[x] # "none"}
      good   == {x \in offers : quote[x] = "success"}
  IN  IF good = offers /\ offers # {} THEN "success"
      ELSE IF good # {} THEN "partial" ELSE "failed"

-----------------------------------------------------------------------------
Step(r) ==
  \/ CheckTenant(r) \/ FindActiveInsurers(r) \/ BulkCreate(r) \/ AllSettled(r)
  \/ ScoreOffers(r) \/ MarkRecommended(r) \/ LogScoringAudit(r) \/ Respond(r)

Next ==
  \/ \E r \in Requests : Submit(r) \/ Step(r) \/ RequestFails(r)
  \/ \E x \in Rows : CallSettles(x) \/ StoreResult(x)

Spec == Init /\ [][Next]_vars

-----------------------------------------------------------------------------
(* A request that was answered leaves no quote pending, and says so unless *)
(* the session had another request; an error leaves them pending.  One     *)
(* offer of a request is recommended; the ranking by preference recommends *)
(* a failed offer, or several, only when the session asked more than once  *)
(* (quotes.service.ts:125-183, 206-256, 299-304).                          *)
OffersExplained ==
  /\ \A x \in Pending : rpc[x[1]] # "done"
  /\ \A r \in Requests :
       /\ Cardinality(marked \intersect Of(r)) <= 1
       /\ marked \intersect Of(r) \subseteq Priced(r)
       /\ answer[r] = "complete" /\ Of(r) \intersect Pending = {} /\ Priced(r) # {} =>
            marked \intersect Of(r) # {}
  /\ \A r \in Requests : (\A q \in Requests \ {r} : rpc[q] = "idle") =>
       /\ answer[r] # "pending"
       /\ \A x \in Priced(r) : Ranked(x) = {x}
       /\ BulkStatus = "success" => \A x \in Of(r) : quote[x] \in {"none", "success"}
=============================================================================
