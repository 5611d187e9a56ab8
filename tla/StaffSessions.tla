---------------------------- MODULE StaffSessions ----------------------------
(***************************************************************************)
(* The session of one staff user: auth.service.ts and the part of Redis    *)
(* and of the users row it keeps, with the browser that signs in, renews   *)
(* its cookies from several tabs at once and resets the password.          *)
(* A refresh key in Redis is rotated by get, del and set, three statements *)
(* of one request; a reset updates the password and then scans the keys.   *)
(* Other users' keys never match the owner the scan looks for, so that one *)
(* user is the general case.  Rate limits only refuse and are left out, as *)
(* is the hash itself: what matters of a new one is the scan that follows. *)
(***************************************************************************)
EXTENDS Naturals

CONSTANTS
  Tabs,
  MaxTokens,   \* bound on refresh tokens
  Resets,      \* visits of the forgot-password and reset-password pages
  None,
  MaxFailed,   \* wrong passwords that lock the account
  MaxFaults    \* bound on failing statements, crashes and lost answers

ASSUME SessionAssumption ==
  /\ MaxTokens \in Nat /\ None \notin 1..MaxTokens
  /\ MaxFailed \in Nat \ {0} /\ MaxFaults \in Nat

Tokens == 1..MaxTokens

VARIABLES
  failed, locked,
  live,         \* refresh keys in Redis
  issued,       \* refresh tokens issued, numbered from 1
  born,         \* born[k]: scans begun when k was issued
  cookie,       \* the browser's refresh token
  access,       \* the browser has an access token
  pc,           \* per tab: its page, or the statement its request is at
  held,         \* per tab: the refresh token its request presented
  got,          \* per tab: the token on its way back
  swept,        \* keys a reset has deleted
  otp, links,   \* the code in Redis; reset links not used or expired
  byLink,       \* resets by a link, not by a code
  rpc, todo,    \* per reset: page or statement; keys the scan has not returned
  scans,        \* scans begun
  faults

accountVars == <<failed, locked>>
tokenVars == <<live, issued, born, swept>>
tabVars == <<pc, held, got>>
browserVars == <<cookie, access, tabVars>>
resetVars == <<otp, links, byLink, rpc, todo, scans>>
vars == <<accountVars, tokenVars, browserVars, resetVars, faults>>

OnServer == {"compare", "get", "rotate", "issue", "deliver"}

TypeOK ==
  /\ failed \in 0..MaxFailed /\ locked \in BOOLEAN
  /\ issued \in 0..MaxTokens /\ live \subseteq 1..issued /\ swept \subseteq 1..issued
  /\ born \in [Tokens -> Nat]
  /\ cookie \in Tokens \union {None} /\ access \in BOOLEAN
  /\ pc \in [Tabs -> OnServer \union {"login", "otp", "app"}]
  /\ held \in [Tabs -> Tokens \union {None}]
  /\ got \in [Tabs -> Tokens \union {None}]
  /\ otp \in BOOLEAN /\ links \subseteq Resets
  /\ byLink \subseteq Resets
  /\ rpc \in [Resets -> {"start", "code", "del", "link", "new", "update", "scan", "mark",
                         "done", "failed"}]
  /\ todo \in [Resets -> SUBSET Tokens]
  /\ scans \in Nat /\ faults \in 0..MaxFaults

Init ==
  /\ failed = 0 /\ locked = FALSE
  /\ issued = 0 /\ live = {} /\ swept = {}
  /\ born = [k \in Tokens |-> 0]
  /\ cookie = None /\ access = FALSE
  /\ pc = [t \in Tabs |-> "login"]
  /\ held = [t \in Tabs |-> None] /\ got = [t \in Tabs |-> None]
  /\ otp = FALSE /\ links = {} /\ byLink = {}
  /\ rpc = [r \in Resets |-> "start"]
  /\ todo = [r \in Resets |-> {}]
  /\ scans = 0 /\ faults = 0

Fault == faults < MaxFaults /\ faults' = faults + 1

Goto(t, from, to) ==
  /\ pc[t] \in from
  /\ pc' = [pc EXCEPT ![t] = to]

-----------------------------------------------------------------------------
(* Sign-in.  The row is read, then bcrypt compares with what it held, then *)
(* the row is written.  Whether the user knows the password is open.       *)
SubmitLogin(t) ==
  /\ ~locked
  /\ Goto(t, {"login"}, "compare")
  /\ UNCHANGED <<accountVars, tokenVars, cookie, access, held, got, resetVars, faults>>

WrongPassword(t) ==
  /\ Goto(t, {"compare"}, "login")
  /\ failed' = IF failed < MaxFailed THEN failed + 1 ELSE failed
  /\ locked' = (locked \/ failed + 1 >= MaxFailed)
  /\ UNCHANGED <<tokenVars, cookie, access, held, got, resetVars, faults>>

(* The next page is the second factor's, if the user has one. *)
RightPassword(t) ==
  /\ \E to \in {"otp", "issue"} : Goto(t, {"compare"}, to)
  /\ failed' = 0 /\ locked' = FALSE
  /\ UNCHANGED <<tokenVars, cookie, access, held, got, resetVars, faults>>

Verify2FA(t) ==
  /\ Goto(t, {"otp"}, "issue")
  /\ UNCHANGED <<accountVars, tokenVars, cookie, access, held, got, resetVars, faults>>

BackToCredentials(t) ==
  /\ Goto(t, {"otp"}, "login")
  /\ UNCHANGED <<accountVars, tokenVars, cookie, access, held, got, resetVars, faults>>

LockExpires ==
  /\ locked /\ locked' = FALSE
  /\ UNCHANGED <<failed, tokenVars, browserVars, resetVars, faults>>

(* issueTokens, for a sign-in or for the rotation of held[t]. *)
IssueTokens(t) ==
  /\ Goto(t, {"issue"}, "deliver")
  /\ issued < MaxTokens /\ issued' = issued + 1
  /\ live' = live \union {issued'}
  /\ born' = [born EXCEPT ![issued'] = scans]
  /\ got' = [got EXCEPT ![t] = issued']
  /\ UNCHANGED <<accountVars, swept, cookie, access, held, resetVars, faults>>

(* Mutant: the refresh cookie keeps its old value. *)
SetAccessOnly(t) ==
  /\ Goto(t, {"deliver"}, "app")
  /\ access' = TRUE
  /\ got' = [got EXCEPT ![t] = None]
  /\ held' = [held EXCEPT ![t] = None]
  /\ cookie' = IF cookie = None THEN got[t] ELSE cookie
  /\ UNCHANGED <<accountVars, tokenVars, resetVars, faults>>

(* The answer sets both cookies, whatever other tabs did meanwhile. *)
SetCookies(t) ==
  /\ Goto(t, {"deliver"}, "app")
  /\ cookie' = got[t] /\ access' = TRUE
  /\ got' = [got EXCEPT ![t] = None]
  /\ held' = [held EXCEPT ![t] = None]
  /\ UNCHANGED <<accountVars, tokenVars, resetVars, faults>>

-----------------------------------------------------------------------------
(* The access cookie lives as long as its token. *)
AccessExpires ==
  /\ access /\ access' = FALSE
  /\ UNCHANGED <<accountVars, tokenVars, cookie, tabVars, resetVars, faults>>

(* A page or a fetch without an access token presents the refresh token;   *)
(* without one it ends at the login page.                                  *)
RenewSession(t) ==
  /\ ~access
  /\ \/ cookie # None /\ Goto(t, {"app"}, "get") /\ held' = [held EXCEPT ![t] = cookie]
     \/ cookie = None /\ Goto(t, {"app"}, "login") /\ UNCHANGED held
  /\ UNCHANGED <<accountVars, tokenVars, cookie, access, got, resetVars, faults>>

(* A tab opened with the cookies of another one. *)
OpenTab(t) ==
  /\ cookie # None
  /\ Goto(t, {"login"}, "app")
  /\ UNCHANGED <<accountVars, tokenVars, cookie, access, held, got, resetVars, faults>>

GetRefreshKey(t) ==
  /\ \/ held[t] \in live /\ Goto(t, {"get"}, "rotate") /\ UNCHANGED held
     \/ /\ held[t] \notin live
        /\ Goto(t, {"get"}, "login")
        /\ held' = [held EXCEPT ![t] = None]
  /\ UNCHANGED <<accountVars, tokenVars, cookie, access, got, resetVars, faults>>

DeleteRefreshKey(t) ==
  /\ Goto(t, {"rotate"}, "issue")
  /\ live' = live \ {held[t]}
  /\ UNCHANGED <<accountVars, issued, born, swept, cookie, access, held, got, resetVars, faults>>

(* The web's logout only clears the cookies. *)
Logout(t) ==
  /\ Goto(t, {"app"}, "login")
  /\ cookie' = None /\ access' = FALSE
  /\ UNCHANGED <<accountVars, tokenVars, held, got, resetVars, faults>>

(* The request dies, or its answer is lost: the page shows the login form. *)
(* Before the password is compared nothing is lost but a try.              *)
RequestFails(t) ==
  /\ Goto(t, OnServer \ {"compare"}, "login") /\ Fault
  /\ held' = [held EXCEPT ![t] = None] /\ got' = [got EXCEPT ![t] = None]
  /\ UNCHANGED <<accountVars, tokenVars, cookie, access, resetVars>>

-----------------------------------------------------------------------------
(* Password reset, by a code or by a link. *)
Advance(r, from, to) ==
  /\ rpc[r] = from
  /\ rpc' = [rpc EXCEPT ![r] = to]

ResetLeaves == <<failed, locked, issued, born, browserVars>>

SendOtp(r) ==
  /\ \E from \in {"start", "code"} : Advance(r, from, "code")
  /\ otp' = TRUE
  /\ UNCHANGED <<ResetLeaves, live, swept, links, byLink, todo, scans, faults>>

CheckOtp(r) ==
  /\ otp /\ Advance(r, "code", "del")
  /\ UNCHANGED <<ResetLeaves, live, swept, otp, links, byLink, todo, scans, faults>>

DeleteOtp(r) ==
  /\ Advance(r, "del", "new")
  /\ otp' = FALSE
  /\ UNCHANGED <<ResetLeaves, live, swept, links, byLink, todo, scans, faults>>

RequestLink(r) ==
  /\ Advance(r, "start", "link")
  /\ links' = links \union {r} /\ byLink' = byLink \union {r}
  /\ UNCHANGED <<ResetLeaves, live, swept, otp, todo, scans, faults>>

FindLink(r) ==
  /\ r \in links
  /\ Advance(r, "link", "new")
  /\ UNCHANGED <<ResetLeaves, live, swept, otp, links, byLink, todo, scans, faults>>

CodeOrLinkExpires ==
  /\ \/ otp /\ otp' = FALSE /\ UNCHANGED links
     \/ \E r \in links : links' = links \ {r} /\ UNCHANGED otp
  /\ UNCHANGED <<ResetLeaves, live, swept, byLink, rpc, todo, scans, faults>>

UpdatePassword(r) ==
  /\ Advance(r, "new", "update")
  /\ UNCHANGED <<ResetLeaves, live, swept, otp, links, byLink, todo, scans, faults>>

StartScan(r) ==
  /\ Advance(r, "update", "scan")
  /\ todo' = [todo EXCEPT ![r] = live]
  /\ scans' = scans + 1
  /\ UNCHANGED <<ResetLeaves, live, swept, otp, links, byLink, faults>>

(* SCAN returns what is there from its first call to its last; a key added *)
(* meanwhile it may return.                                                *)
ScanKey(r) ==
  /\ rpc[r] = "scan"
  /\ \E k \in todo[r] \union live :
       /\ live' = live \ {k} /\ swept' = swept \union {k}
       /\ todo' = [todo EXCEPT ![r] = @ \ {k}]
  /\ UNCHANGED <<ResetLeaves, otp, links, byLink, rpc, scans, faults>>

(* Mutant: the first page of the scan is taken for all of it. *)
FinishScanEarly(r) ==
  /\ Advance(r, "scan", IF r \in byLink THEN "mark" ELSE "done")
  /\ todo' = [todo EXCEPT ![r] = {}]
  /\ UNCHANGED <<ResetLeaves, live, swept, otp, links, byLink, scans, faults>>

FinishScan(r) ==
  /\ todo[r] = {}
  /\ Advance(r, "scan", IF r \in byLink THEN "mark" ELSE "done")
  /\ UNCHANGED <<ResetLeaves, live, swept, otp, links, byLink, todo, scans, faults>>

MarkLinksUsed(r) ==
  /\ Advance(r, "mark", "done")
  /\ links' = {}
  /\ UNCHANGED <<ResetLeaves, live, swept, otp, byLink, todo, scans, faults>>

(* The reset ends with an error; the password may be changed already.  The *)
(* token of a code stays valid, and so does a link that was not marked.    *)
ResetFails(r) ==
  /\ \E from \in {"update", "scan", "mark"} : Advance(r, from, "failed")
  /\ Fault
  /\ UNCHANGED <<ResetLeaves, live, swept, otp, links, byLink, todo, scans>>

RetryReset(r) ==
  /\ Advance(r, "failed", IF r \in byLink THEN "link" ELSE "new")
  /\ UNCHANGED <<ResetLeaves, live, swept, otp, links, byLink, todo, scans, faults>>

-----------------------------------------------------------------------------
SignIn(t) == SubmitLogin(t) \/ WrongPassword(t) \/ RightPassword(t) \/ Verify2FA(t)
             \/ BackToCredentials(t)
Session(t) == IssueTokens(t) \/ SetCookies(t) \/ RenewSession(t) \/ OpenTab(t)
              \/ GetRefreshKey(t) \/ DeleteRefreshKey(t) \/ Logout(t) \/ RequestFails(t)
ByCodeOrLink(r) == SendOtp(r) \/ CheckOtp(r) \/ DeleteOtp(r) \/ RequestLink(r) \/ FindLink(r)
NewPassword(r) == UpdatePassword(r) \/ StartScan(r) \/ ScanKey(r) \/ FinishScan(r)
                  \/ MarkLinksUsed(r) \/ ResetFails(r) \/ RetryReset(r)

Next ==
  \/ LockExpires \/ AccessExpires \/ CodeOrLinkExpires
  \/ \E t \in Tabs : SignIn(t) \/ Session(t)
  \/ \E r \in Resets : ByCodeOrLink(r) \/ NewPassword(r)

Spec == Init /\ [][Next]_vars

-----------------------------------------------------------------------------
(* A refresh token issued before the last scan began opens a session only  *)
(* while a reset still has to visit it, or was cut short and not repeated: *)
(* what survives a change of the password is at most a sign-in or refresh  *)
(* that was under way (auth.service.ts:398-481).                           *)
ResetEndsEarlierSessions ==
  \A k \in live : born[k] < scans =>
    \E r \in Resets : k \in todo[r] /\ rpc[r] \notin {"mark", "done"}

(* The refresh token the browser keeps opens a session, unless a reset     *)
(* has deleted it, a tab is just exchanging it, or a fault lost the answer *)
(* of the exchange: tabs that refresh at once, and whose answers arrive in *)
(* any order, never leave a dead cookie behind (auth.service.ts:160-208,   *)
(* middleware.ts:58-111, web-fetch.ts:13-52).                              *)
CookieOpensSession ==
  \/ cookie \in {None} \union live \union swept
  \/ faults > 0
  \/ \E t \in Tabs : held[t] = cookie /\ pc[t] \in {"issue", "deliver"}

(* The account is locked only after MaxFailed wrong passwords since the    *)
(* last right one, whichever requests overlap (users.repository.ts:102-128). *)
LockIsEarned == locked => failed = MaxFailed
=============================================================================
