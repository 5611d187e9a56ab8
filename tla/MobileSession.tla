---------------------------- MODULE MobileSession ----------------------------
(***************************************************************************)
(* The sign-in state of the mobile application: the tokens in secure       *)
(* storage, the calls through the one Dio client, and the error queue of   *)
(* its interceptor (dio_client.dart), which is a QueuedInterceptorsWrapper *)
(* and handles one error at a time.  A 401 with a stored refresh token     *)
(* posts a refresh over the same client, with a field the API's RefreshDto *)
(* does not have: it is refused, and its error waits in that queue behind  *)
(* the error whose handler waits for it.                                   *)
(***************************************************************************)
EXTENDS Naturals, Sequences, SequencesExt

CONSTANTS
  Calls,
  None,        \* the refresh, in the error queue
  MaxFaults    \* bound on failing reads of the secure storage

VARIABLES
  page,
  token,       \* storage: access_token
  refresh,     \* storage: refresh_token
  call, kind,  \* per call: phase; what it asks for
  sent,        \* per call: the token in its header
  queue,       \* errors not handled; the first is in the handler
  faults

stored == <<token, refresh>>
calls == <<call, kind, sent>>
vars == <<page, stored, calls, queue, faults>>

Kinds == {"login", "google", "register", "api"}

TypeOK ==
  /\ page \in {"login", "lost", "app"}
  /\ token \in {"none", "valid", "expired"} /\ refresh \in BOOLEAN
  /\ call \in [Calls -> {"idle", "sent", "401", "failed", "refreshing", "save", "done",
                         "error"}]
  /\ kind \in [Calls -> Kinds]
  /\ sent \in [Calls -> {"none", "valid", "expired"}]
  /\ queue \in Seq(Calls \union {None})
  /\ faults \in 0..MaxFaults

Init ==
  /\ page = "login" /\ token = "none" /\ refresh = FALSE
  /\ call = [c \in Calls |-> "idle"] /\ kind = [c \in Calls |-> "api"]
  /\ sent = [c \in Calls |-> "none"]
  /\ queue = <<>> /\ faults = 0

Becomes(c, from, to) ==
  /\ call[c] = from
  /\ call' = [call EXCEPT ![c] = to]

(* The page that makes the call; registration is open to every page. *)
Asks(k) ==
  \/ k \in {"login", "google"} /\ page = "login"
  \/ k = "api" /\ page = "app"
  \/ k = "register"

Send(c) ==
  /\ Becomes(c, "idle", "sent")
  /\ \E k \in Kinds : Asks(k) /\ kind' = [kind EXCEPT ![c] = k]
  /\ sent' = [sent EXCEPT ![c] = token]
  /\ UNCHANGED <<page, stored, queue, faults>>

(* The first of the two writes of a sign-in. *)
SignedIn(c) ==
  /\ kind[c] = "login" /\ Becomes(c, "sent", "save")
  /\ token' = "valid"
  /\ UNCHANGED <<page, refresh, kind, sent, queue, faults>>

(* Google's answer has no refresh token, and the one before it stays. *)
GoogleSignedIn(c) ==
  /\ kind[c] = "google" /\ Becomes(c, "sent", "done")
  /\ token' = "valid" /\ page' = "app"
  /\ UNCHANGED <<refresh, kind, sent, queue, faults>>

SaveRefreshToken(c) ==
  /\ Becomes(c, "save", "done")
  /\ refresh' = TRUE /\ page' = "app"
  /\ UNCHANGED <<token, kind, sent, queue, faults>>

(* The login screen pushes /2fa, which the router does not have: the page  *)
(* that is shown offers nothing but the way home.                          *)
SecondFactorAsked(c) ==
  /\ kind[c] = "login" /\ Becomes(c, "sent", "done")
  /\ page' = "lost"
  /\ UNCHANGED <<stored, kind, sent, queue, faults>>

(* A client's refresh token comes as a cookie: its cast fails after the    *)
(* access token is stored, and the dialog reports an error.                *)
Registered(c) ==
  /\ kind[c] = "register" /\ Becomes(c, "sent", "error")
  /\ token' = "valid"
  /\ UNCHANGED <<page, refresh, kind, sent, queue, faults>>

Answered(c) ==
  /\ kind[c] = "api" /\ sent[c] = "valid"
  /\ Becomes(c, "sent", "done")
  /\ UNCHANGED <<page, stored, kind, sent, queue, faults>>

(* Refused with 401, or with another status, or not answered in time. *)
AnsweredWithError(c) ==
  /\ \/ Becomes(c, "sent", "failed")
     \/ /\ (kind[c] = "api" => sent[c] # "valid")
        /\ Becomes(c, "sent", "401")
  /\ queue' = Append(queue, c)
  /\ UNCHANGED <<page, stored, kind, sent, faults>>

(* Mutant: the handler returns without handing the error on. *)
HoldBack(c) ==
  /\ \/ Becomes(c, "failed", "error")
     \/ ~refresh /\ Becomes(c, "401", "401")
  /\ queue' = IF call[c] = "failed" THEN Tail(queue) ELSE queue
  /\ UNCHANGED <<page, stored, kind, sent, faults>>

(* onError: another status, or no refresh token, lets the error through. *)
PassOn(c) ==
  /\ \/ Becomes(c, "failed", "error")
     \/ ~refresh /\ Becomes(c, "401", "error")
  /\ queue' = Tail(queue)
  /\ UNCHANGED <<page, stored, kind, sent, faults>>

PostRefresh(c) ==
  /\ refresh /\ Becomes(c, "401", "refreshing")
  /\ queue' = Append(queue, None)
  /\ UNCHANGED <<page, stored, kind, sent, faults>>

(* The storage throws: everything in it is deleted. *)
StorageFails ==
  /\ queue # <<>> /\ Head(queue) # None
  /\ faults < MaxFaults /\ faults' = faults + 1
  /\ Becomes(Head(queue), "401", "error")
  /\ token' = "none" /\ refresh' = FALSE
  /\ queue' = Tail(queue)
  /\ UNCHANGED <<page, kind, sent>>

HandleError ==
  /\ queue # <<>> /\ Head(queue) # None
  /\ LET c == Head(queue) IN PassOn(c) \/ PostRefresh(c)

TokenExpires ==
  /\ token = "valid" /\ token' = "expired"
  /\ UNCHANGED <<page, refresh, calls, queue, faults>>

(* The router's redirect, on every navigation. *)
Navigate ==
  /\ page' = IF token = "none" THEN "login" ELSE "app"
  /\ UNCHANGED <<stored, calls, queue, faults>>

Logout ==
  /\ page = "app" /\ page' = "login"
  /\ token' = "none" /\ refresh' = FALSE
  /\ UNCHANGED <<calls, queue, faults>>

Returns(c) ==
  \/ SignedIn(c) \/ GoogleSignedIn(c) \/ SaveRefreshToken(c) \/ SecondFactorAsked(c)
  \/ Registered(c) \/ Answered(c) \/ AnsweredWithError(c)

Next ==
  \/ HandleError \/ StorageFails \/ TokenExpires \/ Navigate \/ Logout
  \/ \E c \in Calls : Send(c) \/ Returns(c)

(* A call is answered or times out, and the queue hands its first error to *)
(* the handler, whose reads of the storage need not fail.                  *)
Fairness ==
  /\ \A c \in Calls : WF_vars(Returns(c))
  /\ WF_vars(HandleError)

Spec == Init /\ [][Next]_vars /\ Fairness

(* Every call ends, with its answer or an error, unless a refresh of the   *)
(* expired token was posted from the error queue: its own error then waits *)
(* there, and every later error behind it (dio_client.dart:55-89).         *)
CallsEnd ==
  \A c \in Calls :
    call[c] = "sent" ~> call[c] \in {"done", "error"} \/ Contains(queue, None)
=============================================================================
