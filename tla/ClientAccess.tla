----------------------------- MODULE ClientAccess -----------------------------
(***************************************************************************)
(* An end client before and at registration: the anonymous session in      *)
(* Redis (anonymous-sessions.service.ts), which the client, the OCR result *)
(* and the migration all read first and write or delete afterwards, and    *)
(* the one-time code of one phone number (client-auth.service.ts), asked   *)
(* for and typed by several pages: the registration form, the phone dialog *)
(* of the application.  One session id and one phone number; rate limits   *)
(* on sending are left out.                                                *)
(***************************************************************************)
EXTENDS Naturals, FiniteSets

CONSTANTS
  Pages,          \* pages on which the phone number is verified
  Requests,       \* handlers that touch the session
  None,
  MaxOtpAttempts,
  MaxFaults       \* bound on failing statements

VARIABLES
  here,        \* is the session's key in Redis?
  session,     \* the data there is, or was
  stored,      \* the client's storage holds the session id
  latest,      \* the data if every write were a single step
  torn,        \* a write or delete has followed a read that was out of date
  takers,      \* requests and pages that took the data over
  rpc, copy,   \* per request and page: its next statement on the session; what it read
  code,        \* a code is in Redis
  attempts,    \* wrong codes counted
  client,      \* the end_clients row
  pc,          \* per page: phase of the form, or statement of its request
  faults

sessionVars == <<here, session, stored, latest, torn, takers, rpc, copy>>
otpVars == <<code, attempts, client, pc>>
vars == <<sessionVars, otpVars, faults>>

Actors == Pages \union Requests
Data == [vehicle: SUBSET Requests, quote: Requests \union {None}]
Empty == [vehicle |-> {}, quote |-> None]

TypeOK ==
  /\ here \in {"absent", "live", "gone"} /\ session \in Data
  /\ stored \in BOOLEAN /\ torn \in BOOLEAN
  /\ latest \in Data
  /\ takers \subseteq Actors
  /\ rpc \in [Actors -> {"idle", "vehicle", "quote", "ocr", "delete", "done"}]
  /\ copy \in [Actors -> Data]
  /\ code \in BOOLEAN
  /\ attempts \in Nat
  /\ client \in {"none", "row", "verified"}
  /\ pc \in [Pages -> {"phone", "otp", "compare", "wrong", "consume", "find", "create",
                       "mark", "tokens", "migrate", "success", "error"}]
  /\ faults \in 0..MaxFaults

Init ==
  /\ here = "absent" /\ session = Empty /\ stored = FALSE
  /\ latest = Empty /\ torn = FALSE /\ takers = {}
  /\ rpc = [a \in Actors |-> "idle"] /\ copy = [a \in Actors |-> Empty]
  /\ code = FALSE /\ attempts = 0 /\ client = "none"
  /\ pc = [p \in Pages |-> "phone"]
  /\ faults = 0

-----------------------------------------------------------------------------
(* The anonymous session.  The client keeps its id until told it is gone. *)
CreateSession ==
  /\ here = "absent"
  /\ here' = "live" /\ stored' = TRUE
  /\ UNCHANGED <<session, latest, torn, takers, rpc, copy, otpVars, faults>>

SessionExpires ==
  /\ here = "live" /\ here' = "gone"
  /\ UNCHANGED <<session, stored, latest, torn, takers, rpc, copy, otpVars, faults>>

(* The read of a handler; a client told 404 forgets the id. *)
ReadSession(a, next) ==
  \/ /\ here = "live"
     /\ rpc' = [rpc EXCEPT ![a] = next] /\ copy' = [copy EXCEPT ![a] = session]
     /\ UNCHANGED stored
  \/ /\ here # "live"
     /\ rpc' = [rpc EXCEPT ![a] = "done"]
     /\ stored' = (stored /\ next = "ocr") /\ UNCHANGED copy

StartRequest(q) ==
  /\ stored /\ rpc[q] = "idle"
  /\ \E next \in {"vehicle", "quote", "ocr", "delete"} : ReadSession(q, next)
  /\ UNCHANGED <<here, session, latest, torn, takers, otpVars, faults>>

(* The field that a PUT or the OCR result changes; OCR adds to the vehicle, *)
(* the form replaces it.                                                    *)
Changed(d, q) ==
  CASE rpc[q] = "vehicle" -> [d EXCEPT !.vehicle = {q}]
    [] rpc[q] = "ocr"     -> [d EXCEPT !.vehicle = @ \union {q}]
    [] rpc[q] = "quote"   -> [d EXCEPT !.quote = q]

OutOfDate(a) == here # "live" \/ session # copy[a]

(* Mutant: the PUT keeps only the fields it carries. *)
ReplaceSession(q) ==
  /\ rpc[q] \in {"vehicle", "quote", "ocr"}
  /\ here' = "live" /\ session' = Changed(Empty, q)
  /\ latest' = Changed(latest, q)
  /\ torn' = (torn \/ OutOfDate(q))
  /\ rpc' = [rpc EXCEPT ![q] = "done"]
  /\ UNCHANGED <<stored, takers, copy, otpVars, faults>>

WriteSession(q) ==
  /\ rpc[q] \in {"vehicle", "quote", "ocr"}
  /\ here' = "live" /\ session' = Changed(copy[q], q)
  /\ latest' = Changed(latest, q)
  /\ torn' = (torn \/ OutOfDate(q))
  /\ rpc' = [rpc EXCEPT ![q] = "done"]
  /\ UNCHANGED <<stored, takers, copy, otpVars, faults>>

(* migrateSession: a failed DEL is only logged. *)
TakeOver(a) ==
  /\ rpc[a] = "delete"
  /\ \/ here' = "gone" /\ UNCHANGED faults
     \/ faults < MaxFaults /\ faults' = faults + 1 /\ UNCHANGED here
  /\ takers' = takers \union {a}
  /\ torn' = (torn \/ OutOfDate(a))
  /\ rpc' = [rpc EXCEPT ![a] = "done"]

Migrate(q) ==
  /\ TakeOver(q)
  /\ UNCHANGED <<session, stored, latest, copy, otpVars>>

-----------------------------------------------------------------------------
(* The code.  SETEX replaces the one before it. *)
Goto(p, from, to) ==
  /\ pc[p] = from
  /\ pc' = [pc EXCEPT ![p] = to]

RequestOtp(p) ==
  /\ \E from \in {"phone", "otp", "error"} : Goto(p, from, "otp")
  /\ code' = TRUE
  /\ UNCHANGED <<sessionVars, attempts, client, faults>>

(* A page's own countdown; the code may still be there. *)
PageTimesOut(p) ==
  /\ Goto(p, "otp", "error")
  /\ UNCHANGED <<sessionVars, code, attempts, client, faults>>

KeyExpires ==
  /\ \/ code /\ code' = FALSE /\ UNCHANGED attempts
     \/ attempts # 0 /\ attempts' = 0 /\ UNCHANGED code
  /\ UNCHANGED <<sessionVars, client, pc, faults>>

(* Mutant: one attempt too many. *)
ReadCodeLate(p) ==
  /\ attempts <= MaxOtpAttempts /\ code
  /\ Goto(p, "otp", "consume") \/ Goto(p, "otp", "wrong")
  /\ UNCHANGED <<sessionVars, code, attempts, client, faults>>

(* The limit, then whether there is a code, then whether it is the one     *)
(* that was typed.                                                         *)
ReadCode(p) ==
  /\ attempts < MaxOtpAttempts /\ code
  /\ Goto(p, "otp", "consume") \/ Goto(p, "otp", "wrong")
  /\ UNCHANGED <<sessionVars, code, attempts, client, faults>>

CountAttempt(p) ==
  /\ Goto(p, "wrong", "otp")
  /\ attempts' = attempts + 1
  /\ UNCHANGED <<sessionVars, code, client, faults>>

(* Both keys go, the code even if it has been replaced meanwhile. *)
ConsumeCode(p) ==
  /\ Goto(p, "consume", "find")
  /\ code' = FALSE /\ attempts' = 0
  /\ UNCHANGED <<sessionVars, client, faults>>

FindClient(p) ==
  /\ Goto(p, "find", IF client = "none" THEN "create" ELSE "mark")
  /\ UNCHANGED <<sessionVars, code, attempts, client, faults>>

(* The unique index on tenant and phone refuses a second row. *)
CreateClient(p) ==
  /\ \/ client = "none" /\ client' = "row" /\ Goto(p, "create", "mark")
     \/ client # "none" /\ Goto(p, "create", "otp") /\ UNCHANGED client
  /\ UNCHANGED <<sessionVars, code, attempts, faults>>

MarkPhoneVerified(p) ==
  /\ Goto(p, "mark", "tokens")
  /\ client' = "verified"
  /\ UNCHANGED <<sessionVars, code, attempts, faults>>

(* generateTokens, then the read of migrateSession if the page has an id. *)
GenerateTokens(p) ==
  /\ pc[p] = "tokens"
  /\ \/ /\ stored /\ rpc[p] = "idle"
        /\ Goto(p, "tokens", "migrate")
        /\ ReadSession(p, "delete")
     \/ /\ Goto(p, "tokens", "success")
        /\ UNCHANGED <<rpc, copy, stored>>
  /\ UNCHANGED <<here, session, latest, torn, takers, code, attempts, client, faults>>

FinishRegistration(p) ==
  /\ Goto(p, "migrate", "success")
  /\ \/ TakeOver(p)
     \/ rpc[p] = "done" /\ UNCHANGED <<here, takers, torn, rpc, faults>>
  /\ UNCHANGED <<session, stored, latest, copy, code, attempts, client>>

(* Redis or the database fails; the page shows its form again. *)
VerifyFails(p) ==
  /\ pc[p] \in {"wrong", "consume", "find", "create", "mark", "tokens"}
  /\ faults < MaxFaults /\ faults' = faults + 1
  /\ pc' = [pc EXCEPT ![p] = "otp"]
  /\ UNCHANGED <<sessionVars, code, attempts, client>>

-----------------------------------------------------------------------------
Next ==
  \/ CreateSession \/ SessionExpires \/ KeyExpires
  \/ \E q \in Requests : StartRequest(q) \/ WriteSession(q) \/ Migrate(q)
  \/ \E p \in Pages :
       \/ RequestOtp(p) \/ PageTimesOut(p) \/ ReadCode(p) \/ CountAttempt(p)
       \/ ConsumeCode(p) \/ FindClient(p) \/ CreateClient(p) \/ MarkPhoneVerified(p)
       \/ GenerateTokens(p) \/ FinishRegistration(p) \/ VerifyFails(p)

Spec == Init /\ [][Next]_vars

-----------------------------------------------------------------------------
(* The session holds what was last written to each of its fields, is taken *)
(* over once, and is gone afterwards, unless two handlers overlapped on it *)
(* or a DEL failed (anonymous-sessions.service.ts:85-145,                  *)
(* ocr.service.ts:226-252).                                                *)
SessionLossExplained ==
  torn \/ faults > 0
  \/ /\ here = "live" => session = latest /\ takers = {}
     /\ Cardinality(takers) <= 1

(* However the verifications overlap, wrong codes are judged at most once  *)
(* per page beyond the limit (client-auth.service.ts:115-150).             *)
AttemptsBounded ==
  attempts + Cardinality({p \in Pages : pc[p] = "wrong"})
    < MaxOtpAttempts + Cardinality(Pages)
=============================================================================
