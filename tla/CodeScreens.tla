----------------------------- MODULE CodeScreens -----------------------------
(***************************************************************************)
(* The screens on which somebody proves who they are: the forgotten        *)
(* password on the web and on the phone, the registration by an SMS code   *)
(* and the login on the phone.  A screen holds an address and what it      *)
(* believes of the server; its requests are answered while the inputs are  *)
(* in use.  The password screens block their buttons while a request is on *)
(* its way but not their inputs; the other two block neither, and their    *)
(* blocs handle events side by side.                                       *)
(***************************************************************************)
EXTENDS Naturals, FiniteSets, TLC

CONSTANTS
  Addresses,   \* addresses, one account each
  MaxCalls,    \* bound: requests sent
  MaxFaults,   \* bound: requests that fail
  None

VARIABLES
  flow,        \* the screens this behaviour follows
  step,        \* what is in front of the user
  input,       \* the address in the input
  named,       \* registration: the address the form of the code was built with
  calls,       \* requests on their way
  loading,     \* the buttons are blocked
  cooldown,    \* web: a code may not be asked for again yet
  countdown,   \* registration: the seconds the form shows have run out
  codes,       \* server: the number of the code an address has, None without
  message,     \* the last message its user got: an address and a code
  proof,       \* the address the reset token was given for
  account,     \* the account whose tokens are stored, or whose password is new
  seen,        \* the account the application was opened with
  sentCalls, faults,          \* bounds
  edited,      \* ghost: the input was changed under a request
  overlapped,  \* ghost: two requests were on their way at once
  resent       \* ghost: a code was asked for from the form of the code

screen == <<step, input, named, loading, cooldown, countdown>>
server == <<codes, message>>
ghosts == <<edited, overlapped, resent>>
vars == <<flow, screen, calls, server, proof, account, seen, sentCalls, faults, ghosts>>

Blocking == {"web", "reset"}

Init ==
  /\ flow \in {"web", "reset", "register", "login"}
  /\ step = "address" /\ input \in Addresses /\ named = None
  /\ calls = {} /\ loading = FALSE /\ cooldown = FALSE /\ countdown = FALSE
  /\ codes = [a \in Addresses |-> None] /\ message = None
  /\ proof = None /\ account = None /\ seen = None
  /\ sentCalls = 0 /\ faults = 0
  /\ edited = FALSE /\ overlapped = FALSE /\ resent = FALSE

-----------------------------------------------------------------------------
(* What each screen lets its user do.                                      *)

Unless(blocked, controls) == IF blocked THEN {} ELSE controls

(* Six digits, typed or pasted, are asked for before a code can be sent.   *)
Digits == Unless(message = None, {"verify"})

WebOffers ==
  CASE step = "address" -> {"edit"} \cup Unless(loading, {"send"})
    [] step = "code" -> Unless(loading, Digits) \cup Unless(loading \/ cooldown, {"resend"})
    [] step = "password" -> Unless(loading, {"confirm"})
    [] OTHER -> {}

(* The phone's password screen cannot ask for a code again.                *)
ResetOffers ==
  CASE step = "address" -> {"edit"} \cup Unless(loading, {"send"})
    [] step = "code" -> Unless(loading, Digits)
    [] step = "password" -> Unless(loading, {"confirm"})
    [] OTHER -> {}

RegisterOffers ==
  CASE step = "address" -> {"edit"} \cup Unless(input = None, {"send"})
    [] step = "code" -> {"resend"} \cup Digits
    [] OTHER -> {}

(* The button of the login is blocked while the bloc is loading, but the   *)
(* keyboard submits, and so do the demo credentials.                       *)
LoginOffers == IF step = "address" THEN {"edit", "login"} ELSE {}

Offers ==
  CASE flow = "web" -> WebOffers
    [] flow = "reset" -> ResetOffers
    [] flow = "register" -> RegisterOffers
    [] flow = "login" -> LoginOffers

-----------------------------------------------------------------------------
(* The inputs.                                                             *)

Edit ==
  /\ "edit" \in Offers
  /\ \E a \in Addresses \ {input} : input' = a
  /\ edited' = (edited \/ calls # {})
  /\ UNCHANGED <<flow, step, named, calls, loading, cooldown, countdown, server, proof, account,
                 seen, sentCalls, faults, overlapped, resent>>

(* The address the form of the code shows, and sends with the code.        *)
Named == IF flow = "register" THEN named ELSE input

Send(kind, address, code) ==
  /\ sentCalls < MaxCalls /\ sentCalls' = sentCalls + 1
  /\ calls' = calls \cup {[id |-> sentCalls, kind |-> kind, address |-> address, code |-> code,
                           stage |-> "sent"]}
  /\ loading' = (flow \in Blocking)
  /\ overlapped' = (overlapped \/ calls # {})
  /\ UNCHANGED <<flow, server, proof, account, seen, faults, edited>>

(* _sendOtp, handleSendOtp, RequestOtpEvent.                               *)
SendOtp ==
  /\ "send" \in Offers
  /\ Send("send", input, None)
  /\ UNCHANGED <<step, input, named, cooldown, countdown, resent>>

(* handleResendOtp, ResendOtpEvent.                                        *)
Resend ==
  /\ "resend" \in Offers
  /\ Send("send", Named, None)
  /\ resent' = TRUE
  /\ UNCHANGED <<step, input, named, cooldown, countdown>>

(* _verifyOtp, handleVerifyOtp, VerifyOtpEvent, with the code of the last  *)
(* message.                                                                *)
Verify ==
  /\ "verify" \in Offers
  /\ Send("verify", Named, message.code)
  /\ step' = IF flow = "register" THEN "spinner" ELSE step
  /\ UNCHANGED <<input, named, cooldown, countdown, resent>>

(* _confirmReset, handleSetPassword.                                       *)
Confirm ==
  /\ "confirm" \in Offers
  /\ Send("confirm", proof, None)
  /\ UNCHANGED <<step, input, named, cooldown, countdown, resent>>

Login ==
  /\ "login" \in Offers
  /\ Send("login", input, None)
  /\ UNCHANGED <<step, input, named, cooldown, countdown, resent>>

-----------------------------------------------------------------------------
(* The server.  A code is one more than the last of its address.           *)

Move(c, stage) == calls' = (calls \ {c}) \cup {[c EXCEPT !.stage = stage]}

Accepted(c) ==
  c.kind = "verify" => /\ codes[c.address] = c.code
                       /\ message.address = c.address

Handle(c) ==
  /\ c.stage = "sent"
  /\ Move(c, IF Accepted(c) THEN "done" ELSE "refused")
  /\ codes' = CASE c.kind = "send" -> [codes EXCEPT ![c.address] = c.id]
                [] c.kind = "verify" /\ Accepted(c) -> [codes EXCEPT ![c.address] = None]
                [] OTHER -> codes
  /\ message' = IF c.kind = "send" THEN [address |-> c.address, code |-> c.id] ELSE message
  /\ account' = IF c.kind = "confirm" THEN c.address ELSE account
  /\ UNCHANGED <<flow, screen, proof, seen, sentCalls, faults, ghosts>>

Refuse(c) ==
  /\ c.stage = "sent" /\ faults < MaxFaults /\ faults' = faults + 1
  /\ Move(c, "refused")
  /\ UNCHANGED <<flow, screen, server, proof, account, seen, sentCalls, ghosts>>

(* A code expires as the countdown of the form that was opened with it     *)
(* ends; a form that is open is not built again for another code.          *)
Expire ==
  /\ step = "code" /\ flow = "register" /\ ~countdown /\ countdown' = TRUE
  /\ codes' = IF resent THEN codes ELSE [codes EXCEPT ![named] = None]
  /\ UNCHANGED <<flow, step, input, named, loading, cooldown, calls, message, proof, account,
                 seen, sentCalls, faults, ghosts>>

CoolDown ==
  /\ cooldown /\ cooldown' = FALSE
  /\ UNCHANGED <<flow, step, input, named, loading, countdown, calls, server, proof, account,
                 seen, sentCalls, faults, ghosts>>

-----------------------------------------------------------------------------
(* The answers.  A screen that has been left ignores them, but for the     *)
(* login: its tokens are stored before the bloc is asked for a new state.  *)

Left == step = "done"

(* A bug someone could write: the form is opened for what the input says.  *)
OpenFormForInput(c) ==
  /\ step' = "code" /\ named' = input
  /\ countdown' = (IF step = "code" THEN countdown ELSE FALSE)
  /\ resent' = (IF step = "code" THEN resent ELSE FALSE)

OpenForm(c) ==
  /\ step' = "code" /\ named' = c.address
  /\ countdown' = (IF step = "code" THEN countdown ELSE FALSE)
  /\ resent' = (IF step = "code" THEN resent ELSE FALSE)

CodeSent(c) ==
  /\ c.kind = "send" /\ c.stage = "done"
  /\ IF Left THEN UNCHANGED <<step, named, countdown, resent>> ELSE OpenForm(c)
  /\ cooldown' = (flow = "web")
  /\ UNCHANGED <<input, proof, account, seen>>

(* The registration stores the access token, finds no refresh token in the *)
(* answer (it is a cookie) and shows what it shows for a wrong code.       *)
Verified(c) ==
  /\ c.kind = "verify" /\ c.stage = "done"
  /\ IF flow = "register"
     THEN /\ account' = c.address /\ UNCHANGED proof
          /\ step' = "address" /\ input' = None
     ELSE step' = "password" /\ proof' = c.address /\ UNCHANGED <<account, input>>
  /\ UNCHANGED <<named, cooldown, countdown, resent, seen>>

Confirmed(c) ==
  /\ c.kind = "confirm" /\ c.stage = "done" /\ step' = "done"
  /\ UNCHANGED <<input, named, cooldown, countdown, resent, proof, account, seen>>

LoggedIn(c) ==
  /\ c.kind = "login" /\ c.stage = "done"
  /\ account' = c.address
  /\ step' = "done" /\ seen' = IF Left THEN seen ELSE c.address
  /\ UNCHANGED <<input, named, cooldown, countdown, resent, proof>>

(* An error leaves the password screens where they are.  The registration  *)
(* begins again with an empty form, whichever request it was.              *)
Failed(c) ==
  /\ c.stage = "refused"
  /\ IF flow = "register" /\ ~Left
     THEN step' = "address" /\ input' = (IF step = "address" THEN input ELSE None)
     ELSE UNCHANGED <<step, input>>
  /\ UNCHANGED <<named, cooldown, countdown, resent, proof, account, seen>>

Answer(c) ==
  /\ CodeSent(c) \/ Verified(c) \/ Confirmed(c) \/ LoggedIn(c) \/ Failed(c)
  /\ calls' = calls \ {c}
  /\ loading' = FALSE
  /\ UNCHANGED <<flow, server, sentCalls, faults, edited, overlapped>>

Next ==
  \/ Edit \/ SendOtp \/ Resend \/ Verify \/ Confirm \/ Login \/ Expire \/ CoolDown
  \/ \E c \in calls : Handle(c) \/ Refuse(c) \/ Answer(c)

Spec == Init /\ [][Next]_vars

-----------------------------------------------------------------------------
(* The form of the code names the address the last code went to: on the    *)
(* password screens unless the input was changed under the request (it is  *)
(* not disabled), in the registration unless two requests overlapped (the  *)
(* state carries the number that was asked for).                           *)
NamesTheAddress ==
  step = "code" /\ message # None /\ calls = {} /\ Named # message.address =>
    IF flow = "register" THEN overlapped ELSE edited

(* The new password is given to the account whose address is shown.        *)
ProofIsShown == step = "password" => proof = input

(* The tokens that are stored are of the account the application was       *)
(* opened with, unless two logins were on their way at once.               *)
OpenedForAccount == step = "done" /\ flow = "login" /\ account # seen => overlapped

(* A countdown that has run out means a code that has, unless it was asked *)
(* for again: the form goes on counting down the first one.                *)
CountdownIsTrue ==
  step = "code" /\ countdown /\ codes[named] # None => resent \/ overlapped

CodesExplained == NamesTheAddress /\ ProofIsShown /\ OpenedForAccount /\ CountdownIsTrue
=============================================================================
