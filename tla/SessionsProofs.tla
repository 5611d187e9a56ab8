--------------------------- MODULE SessionsProofs ---------------------------
(***************************************************************************)
(* Sessions.  What survives a reset of a member of staff's password, and   *)
(* what the browser's cookie is worth while tabs refresh it at once, for   *)
(* every number of tabs, resets and tokens.  What the overlapping requests *)
(* of an end client may and may not do to the anonymous session and to the *)
(* one-time code, for every number of requests and pages.  All of it for   *)
(* any number of faults.  And the screens on which a person meets them:    *)
(* the forms of a code, the first pages, the picker and the checks of a    *)
(* vehicle, the checkout.                                                  *)
(***************************************************************************)
EXTENDS MCRequests, SequenceTheorems, FiniteSetTheorems, TLAPS

TabStates == OnServer \union {"login", "otp", "app"}
ResetStates == {"start", "code", "del", "link", "new", "update", "scan", "mark", "done", "failed"}

(* The refresh tokens, and the scans of the resets. *)
ResetInv ==
  /\ issued \in 0..MaxTokens /\ live \subseteq Tokens
  /\ scans \in Nat /\ born \in [Tokens -> Nat]
  /\ rpc \in [Resets -> ResetStates]
  /\ todo \in [Resets -> SUBSET Tokens]
  /\ ResetEndsEarlierSessions

(* The tokens that are known to the browser or on their way to it.  One    *)
(* that is not delivered yet is presented by nobody.                       *)
Known == (1..issued) \union {None}

TokensOK ==
  /\ issued \in 0..MaxTokens /\ faults \in Nat
  /\ cookie \in Known
  /\ pc \in [Tabs -> TabStates]
  /\ held \in [Tabs -> Known] /\ got \in [Tabs -> Known]

UndeliveredInv ==
  /\ \A t \in Tabs : pc[t] = "deliver" =>
       /\ got[t] \in live \union swept
       /\ got[t] # None /\ got[t] # cookie
       /\ \A u \in Tabs : held[u] # got[t]
  /\ \A t, u \in Tabs :
       pc[t] = "deliver" /\ pc[u] = "deliver" /\ got[t] = got[u] => t = u

CookieInv == TokensOK /\ UndeliveredInv /\ CookieOpensSession

-----------------------------------------------------------------------------
LEMMA ResetInvInit == Init => ResetInv
  BY SessionAssumption DEF Init, ResetInv, Tokens, ResetStates, ResetEndsEarlierSessions

(* What the tabs do to the keys: a new one is younger than any scan.       *)
LEMMA TabsKeepResets ==
  ASSUME ResetInv, UNCHANGED <<scans, rpc, todo>>,
         \/ live' \subseteq live /\ UNCHANGED <<issued, born>>
         \/ /\ issued < MaxTokens /\ issued' = issued + 1
            /\ live' = live \union {issued'} /\ born' = [born EXCEPT ![issued'] = scans]
  PROVE  ResetInv'
<1>1. CASE live' \subseteq live /\ UNCHANGED <<issued, born>>
  BY <1>1 DEF ResetInv, ResetEndsEarlierSessions
<1>2. CASE /\ issued < MaxTokens /\ issued' = issued + 1
           /\ live' = live \union {issued'} /\ born' = [born EXCEPT ![issued'] = scans]
  <2>1. issued' \in Tokens /\ issued' \in 0..MaxTokens
    BY <1>2, SessionAssumption DEF ResetInv, Tokens
  <2>2. /\ born' \in [Tokens -> Nat] /\ born'[issued'] = scans
        /\ \A k \in Tokens \ {issued'} : born'[k] = born[k]
    BY <1>2, <2>1 DEF ResetInv
  <2>3. ResetEndsEarlierSessions'
    BY <1>2, <2>2 DEF ResetInv, ResetEndsEarlierSessions
  <2> QED
    BY <1>2, <2>1, <2>2, <2>3 DEF ResetInv
<1> QED
  BY <1>1, <1>2

(* A reset that goes on without leaving keys behind.                       *)
LEMMA ResetMoves ==
  ASSUME ResetInv, NEW r \in Resets, NEW to \in ResetStates,
         rpc' = [rpc EXCEPT ![r] = to], to \in {"mark", "done"} => todo[r] = {} \/ rpc[r] = "mark",
         UNCHANGED <<issued, live, scans, born, todo>>
  PROVE  ResetInv'
<1>1. rpc' \in [Resets -> ResetStates]
  BY DEF ResetInv
<1>2. ResetEndsEarlierSessions'
  <2> SUFFICES ASSUME NEW k \in live, born[k] < scans
               PROVE  \E q \in Resets : k \in todo[q] /\ rpc'[q] \notin {"mark", "done"}
    BY DEF ResetEndsEarlierSessions
  <2>1. PICK q \in Resets : k \in todo[q] /\ rpc[q] \notin {"mark", "done"}
    BY DEF ResetInv, ResetEndsEarlierSessions
  <2>2. q = r => to \notin {"mark", "done"}
    BY <2>1
  <2>3. rpc'[q] \notin {"mark", "done"}
    BY <2>1, <2>2 DEF ResetInv
  <2> QED
    BY <2>1, <2>3
<1> QED
  BY <1>1, <1>2 DEF ResetInv

(* A scan begins with every key there is ... *)
LEMMA StartScanKeeps ==
  ASSUME ResetInv, NEW r \in Resets, StartScan(r)
  PROVE  ResetInv'
<1>1. /\ rpc' = [rpc EXCEPT ![r] = "scan"] /\ todo' = [todo EXCEPT ![r] = live]
      /\ scans' = scans + 1 /\ UNCHANGED <<issued, live, born>>
  BY DEF StartScan, Advance, ResetLeaves
<1>2. /\ rpc' \in [Resets -> ResetStates] /\ rpc'[r] = "scan"
      /\ todo' \in [Resets -> SUBSET Tokens] /\ todo'[r] = live
  BY <1>1 DEF ResetInv, ResetStates
<1>3. ResetEndsEarlierSessions'
  BY <1>1, <1>2 DEF ResetEndsEarlierSessions
<1>4. scans' \in Nat
  BY <1>1 DEF ResetInv
<1> QED
  BY <1>1, <1>2, <1>3, <1>4 DEF ResetInv

(* ... and forgets one only when it is deleted. *)
LEMMA ScanKeyKeeps ==
  ASSUME ResetInv, NEW r \in Resets, ScanKey(r)
  PROVE  ResetInv'
<1>1. PICK k \in todo[r] \union live :
         live' = live \ {k} /\ todo' = [todo EXCEPT ![r] = @ \ {k}]
  BY DEF ScanKey
<1>2. UNCHANGED <<issued, scans, born, rpc>>
  BY DEF ScanKey, ResetLeaves
<1>3. todo' \in [Resets -> SUBSET Tokens] /\ live' \subseteq Tokens
  BY <1>1 DEF ResetInv
<1>4. \A q \in Resets : todo[q] \ {k} \subseteq todo'[q]
  BY <1>1 DEF ResetInv
<1>5. ResetEndsEarlierSessions'
  BY <1>1, <1>2, <1>4 DEF ResetInv, ResetEndsEarlierSessions
<1> QED
  BY <1>2, <1>3, <1>5 DEF ResetInv

LEMMA ResetInvStep ==
  ASSUME ResetInv, [Next]_vars
  PROVE  ResetInv'
<1> USE DEF accountVars, tokenVars, tabVars, browserVars, resetVars
<1>1. ASSUME UNCHANGED <<issued, live, scans, born, rpc, todo>>
      PROVE  ResetInv'
  BY <1>1 DEF ResetInv, ResetEndsEarlierSessions
<1>2. CASE LockExpires \/ AccessExpires \/ CodeOrLinkExpires
  BY <1>1, <1>2 DEF LockExpires, AccessExpires, CodeOrLinkExpires, ResetLeaves
<1>3. ASSUME NEW t \in Tabs, SignIn(t)
      PROVE  ResetInv'
  BY <1>1, <1>3 DEF SignIn, SubmitLogin, WrongPassword, RightPassword, Verify2FA,
                    BackToCredentials
<1>4. ASSUME NEW t \in Tabs, Session(t)
      PROVE  ResetInv'
  <2>1. CASE IssueTokens(t)
    BY <2>1, TabsKeepResets DEF IssueTokens
  <2>2. CASE DeleteRefreshKey(t)
    BY <2>2, TabsKeepResets DEF DeleteRefreshKey
  <2>3. CASE \/ SetCookies(t) \/ RenewSession(t) \/ OpenTab(t) \/ GetRefreshKey(t)
             \/ Logout(t) \/ RequestFails(t)
    BY <1>1, <2>3 DEF SetCookies, RenewSession, OpenTab, GetRefreshKey, Logout, RequestFails
  <2> QED
    BY <1>4, <2>1, <2>2, <2>3 DEF Session
<1>5. ASSUME NEW r \in Resets, ByCodeOrLink(r)
      PROVE  ResetInv'
  <2>1. PICK to \in {"code", "del", "new", "link"} : rpc' = [rpc EXCEPT ![r] = to]
    BY <1>5 DEF ByCodeOrLink, SendOtp, CheckOtp, DeleteOtp, RequestLink, FindLink, Advance
  <2>2. UNCHANGED <<issued, live, scans, born, todo>>
    BY <1>5 DEF ByCodeOrLink, SendOtp, CheckOtp, DeleteOtp, RequestLink, FindLink, ResetLeaves
  <2>3. to \in ResetStates /\ to \notin {"mark", "done"}
    BY <2>1 DEF ResetStates
  <2> QED
    BY <2>1, <2>2, <2>3, ResetMoves
<1>6. ASSUME NEW r \in Resets, NewPassword(r)
      PROVE  ResetInv'
  <2>1. CASE StartScan(r)
    BY <2>1, StartScanKeeps
  <2>2. CASE ScanKey(r)
    BY <2>2, ScanKeyKeeps
  <2>3. CASE FinishScan(r)
    <3>1. PICK to \in {"mark", "done"} : rpc' = [rpc EXCEPT ![r] = to]
      BY <2>3 DEF FinishScan, Advance
    <3>2. todo[r] = {} /\ UNCHANGED <<issued, live, scans, born, todo>>
      BY <2>3 DEF FinishScan, ResetLeaves
    <3> QED
      BY <3>1, <3>2, ResetMoves DEF ResetStates
  <2>4. CASE MarkLinksUsed(r)
    <3>1. rpc[r] = "mark" /\ rpc' = [rpc EXCEPT ![r] = "done"]
      BY <2>4 DEF MarkLinksUsed, Advance
    <3>2. UNCHANGED <<issued, live, scans, born, todo>>
      BY <2>4 DEF MarkLinksUsed, ResetLeaves
    <3> QED
      BY <3>1, <3>2, ResetMoves DEF ResetStates
  <2>5. CASE UpdatePassword(r) \/ ResetFails(r) \/ RetryReset(r)
    <3>1. PICK to \in {"update", "failed", "link", "new"} : rpc' = [rpc EXCEPT ![r] = to]
      BY <2>5 DEF UpdatePassword, ResetFails, RetryReset, Advance
    <3>2. UNCHANGED <<issued, live, scans, born, todo>>
      BY <2>5 DEF UpdatePassword, ResetFails, RetryReset, ResetLeaves
    <3>3. to \in ResetStates /\ to \notin {"mark", "done"}
      BY <3>1 DEF ResetStates
    <3> QED
      BY <3>1, <3>2, <3>3, ResetMoves
  <2> QED
    BY <1>6, <2>1, <2>2, <2>3, <2>4, <2>5 DEF NewPassword
<1>7. CASE UNCHANGED vars
  BY <1>1, <1>7 DEF vars
<1> QED
  BY <1>2, <1>3, <1>4, <1>5, <1>6, <1>7 DEF Next

(* What survives a change of the password is at most a sign-in or refresh  *)
(* that was under way, or waits for a scan that was cut short              *)
(* (auth.service.ts:398-481).                                              *)
THEOREM ResetEndsSessions == Spec => []ResetEndsEarlierSessions
<1>1. Init => ResetInv
  BY ResetInvInit
<1>2. ResetInv /\ [Next]_vars => ResetInv'
  BY ResetInvStep
<1>3. ResetInv => ResetEndsEarlierSessions
  BY DEF ResetInv
<1> QED
  BY <1>1, <1>2, <1>3, PTL DEF Spec

-----------------------------------------------------------------------------
LEMMA CookieInvInit == Init => CookieInv
  BY SessionAssumption
     DEF Init, CookieInv, TokensOK, Known, TabStates, UndeliveredInv, CookieOpensSession

(* A tab that has no answer on its way and exchanges nothing presents at   *)
(* most the cookie.                                                        *)
LEMMA TabMoves ==
  ASSUME CookieInv, NEW t \in Tabs, NEW to \in TabStates \ {"deliver"}, NEW k \in {held[t], cookie, None},
         pc[t] \notin {"issue", "deliver"},
         pc' = [pc EXCEPT ![t] = to], held' = [held EXCEPT ![t] = k],
         UNCHANGED <<issued, live, swept, cookie, got, faults>>
  PROVE  CookieInv'
<1>1. TokensOK'
  BY DEF CookieInv, TokensOK, Known
<1>2. \A u \in Tabs \ {t} : pc'[u] = pc[u] /\ held'[u] = held[u]
  BY DEF CookieInv, TokensOK
<1>3. pc'[t] # "deliver" /\ held'[t] = k
  BY DEF CookieInv, TokensOK
<1>4. UndeliveredInv'
  BY <1>2, <1>3 DEF CookieInv, UndeliveredInv
<1>5. CookieOpensSession'
  BY <1>2 DEF CookieInv, CookieOpensSession
<1> QED
  BY <1>1, <1>4, <1>5 DEF CookieInv

(* The keys in Redis move, the browser does not. *)
LEMMA KeysMove ==
  ASSUME CookieInv, UNCHANGED <<issued, cookie, pc, held, got>>,
         faults' = faults \/ faults' = faults + 1,
         live \union swept \subseteq live' \union swept'
  PROVE  CookieInv'
<1>1. TokensOK'
  BY DEF CookieInv, TokensOK, Known
<1>2. UndeliveredInv'
  BY DEF CookieInv, UndeliveredInv
<1>3. CookieOpensSession'
  BY DEF CookieInv, TokensOK, CookieOpensSession
<1> QED
  BY <1>1, <1>2, <1>3 DEF CookieInv

(* A new key is nobody's yet. *)
LEMMA IssueKeeps ==
  ASSUME CookieInv, NEW t \in Tabs, IssueTokens(t)
  PROVE  CookieInv'
<1>1. /\ pc[t] = "issue" /\ pc' = [pc EXCEPT ![t] = "deliver"]
      /\ issued' = issued + 1 /\ issued < MaxTokens
      /\ live' = live \union {issued'} /\ got' = [got EXCEPT ![t] = issued']
      /\ UNCHANGED <<swept, cookie, held, faults>>
  BY DEF IssueTokens, Goto
<1>2. /\ issued' \in 0..MaxTokens /\ issued' # None /\ issued' \notin Known
      /\ issued' \in Known' /\ Known \subseteq Known'
  BY <1>1, SessionAssumption DEF CookieInv, TokensOK, Known
<1>3. TokensOK'
  BY <1>1, <1>2 DEF CookieInv, TokensOK, TabStates, OnServer
<1>4. /\ got'[t] = issued' /\ pc'[t] = "deliver"
      /\ \A u \in Tabs \ {t} : got'[u] = got[u] /\ pc'[u] = pc[u]
  BY <1>1 DEF CookieInv, TokensOK
<1>5. \A u \in Tabs : held[u] # issued' /\ got[u] # issued'
  BY <1>2 DEF CookieInv, TokensOK
<1>6. cookie # issued'
  BY <1>2 DEF CookieInv, TokensOK
<1>7. UndeliveredInv'
  BY <1>1, <1>2, <1>4, <1>5, <1>6 DEF CookieInv, UndeliveredInv
<1>8. CookieOpensSession'
  BY <1>1, <1>4 DEF CookieInv, CookieOpensSession
<1> QED
  BY <1>3, <1>7, <1>8 DEF CookieInv

(* An answer that arrives brings a key that is alive, or that a reset has  *)
(* deleted, whatever other answers have arrived before it.                 *)
LEMMA SetCookiesKeeps ==
  ASSUME CookieInv, NEW t \in Tabs, SetCookies(t)
  PROVE  CookieInv'
<1>1. /\ pc[t] = "deliver" /\ pc' = [pc EXCEPT ![t] = "app"]
      /\ cookie' = got[t] /\ got' = [got EXCEPT ![t] = None] /\ held' = [held EXCEPT ![t] = None]
      /\ UNCHANGED <<issued, live, swept, faults>>
  BY DEF SetCookies, Goto, tokenVars
<1>2. TokensOK'
  BY <1>1 DEF CookieInv, TokensOK, Known, TabStates
<1>3. \A u \in Tabs \ {t} : pc'[u] = pc[u] /\ held'[u] = held[u] /\ got'[u] = got[u]
  BY <1>1 DEF CookieInv, TokensOK
<1>4. pc'[t] = "app" /\ held'[t] = None /\ got[t] \in live \union swept
  BY <1>1 DEF CookieInv, TokensOK, UndeliveredInv
<1>5. UndeliveredInv'
  BY <1>1, <1>3, <1>4 DEF CookieInv, UndeliveredInv
<1>6. CookieOpensSession'
  BY <1>1, <1>4 DEF CookieOpensSession
<1> QED
  BY <1>2, <1>5, <1>6 DEF CookieInv

(* The key that is exchanged goes before its successor comes. *)
LEMMA DeleteKeyKeeps ==
  ASSUME CookieInv, NEW t \in Tabs, DeleteRefreshKey(t)
  PROVE  CookieInv'
<1>1. /\ pc[t] = "rotate" /\ pc' = [pc EXCEPT ![t] = "issue"] /\ live' = live \ {held[t]}
      /\ UNCHANGED <<issued, swept, cookie, held, got, faults>>
  BY DEF DeleteRefreshKey, Goto
<1>2. TokensOK'
  BY <1>1 DEF CookieInv, TokensOK, Known, TabStates, OnServer
<1>3. pc'[t] = "issue" /\ \A u \in Tabs \ {t} : pc'[u] = pc[u]
  BY <1>1 DEF CookieInv, TokensOK
<1>4. UndeliveredInv'
  BY <1>1, <1>3 DEF CookieInv, UndeliveredInv
<1>5. CookieOpensSession'
  <2>1. CASE cookie = held[t]
    BY <1>1, <1>3, <2>1 DEF CookieOpensSession
  <2>2. CASE cookie # held[t]
    BY <1>1, <1>3, <2>2 DEF CookieInv, CookieOpensSession
  <2> QED
    BY <2>1, <2>2
<1> QED
  BY <1>2, <1>4, <1>5 DEF CookieInv

LEMMA LogoutKeeps ==
  ASSUME CookieInv, NEW t \in Tabs, Logout(t)
  PROVE  CookieInv'
<1>1. /\ pc[t] = "app" /\ pc' = [pc EXCEPT ![t] = "login"] /\ cookie' = None
      /\ UNCHANGED <<issued, live, swept, held, got, faults>>
  BY DEF Logout, Goto, tokenVars
<1>2. TokensOK'
  BY <1>1 DEF CookieInv, TokensOK, Known, TabStates
<1>3. pc'[t] = "login" /\ \A u \in Tabs \ {t} : pc'[u] = pc[u]
  BY <1>1 DEF CookieInv, TokensOK
<1>4. UndeliveredInv' /\ CookieOpensSession'
  BY <1>1, <1>3 DEF CookieInv, UndeliveredInv, CookieOpensSession
<1> QED
  BY <1>2, <1>4 DEF CookieInv

LEMMA RequestFailsKeeps ==
  ASSUME CookieInv, NEW t \in Tabs, RequestFails(t)
  PROVE  CookieInv'
<1>1. /\ pc' = [pc EXCEPT ![t] = "login"] /\ faults' = faults + 1
      /\ held' = [held EXCEPT ![t] = None] /\ got' = [got EXCEPT ![t] = None]
      /\ UNCHANGED <<issued, live, swept, cookie>>
  BY DEF RequestFails, Goto, Fault, tokenVars
<1>2. TokensOK' /\ faults' > 0
  BY <1>1 DEF CookieInv, TokensOK, Known, TabStates
<1>3. \A u \in Tabs \ {t} : pc'[u] = pc[u] /\ held'[u] = held[u] /\ got'[u] = got[u]
  BY <1>1 DEF CookieInv, TokensOK
<1>4. pc'[t] = "login" /\ held'[t] = None
  BY <1>1 DEF CookieInv, TokensOK
<1>5. UndeliveredInv'
  BY <1>1, <1>3, <1>4 DEF CookieInv, UndeliveredInv
<1> QED
  BY <1>2, <1>5 DEF CookieInv, CookieOpensSession

LEMMA CookieInvStep ==
  ASSUME CookieInv, [Next]_vars
  PROVE  CookieInv'
<1> USE DEF accountVars, tokenVars, tabVars, browserVars, resetVars
<1>1. ASSUME UNCHANGED <<tokenVars, cookie, tabVars, faults>>
      PROVE  CookieInv'
  BY <1>1, KeysMove
<1>2. CASE LockExpires \/ AccessExpires \/ CodeOrLinkExpires
  BY <1>2, KeysMove DEF LockExpires, AccessExpires, CodeOrLinkExpires, ResetLeaves
<1>3. ASSUME NEW t \in Tabs, SignIn(t)
      PROVE  CookieInv'
  <2>1. PICK to \in {"compare", "login", "otp", "issue"} : pc' = [pc EXCEPT ![t] = to]
    BY <1>3 DEF SignIn, SubmitLogin, WrongPassword, RightPassword, Verify2FA,
                BackToCredentials, Goto
  <2>2. pc[t] \notin {"issue", "deliver"} /\ UNCHANGED <<issued, live, swept, cookie, held, got, faults>>
    BY <1>3 DEF SignIn, SubmitLogin, WrongPassword, RightPassword, Verify2FA,
                BackToCredentials, Goto
  <2>3. to \in TabStates \ {"deliver"} /\ held' = [held EXCEPT ![t] = held[t]]
    BY <2>1, <2>2 DEF TabStates, OnServer, CookieInv, TokensOK
  <2> QED
    BY <2>1, <2>2, <2>3, TabMoves
<1>4. ASSUME NEW t \in Tabs, RenewSession(t) \/ OpenTab(t) \/ GetRefreshKey(t)
      PROVE  CookieInv'
  <2>1. PICK to \in {"get", "login", "app", "rotate"} : pc' = [pc EXCEPT ![t] = to]
    BY <1>4 DEF RenewSession, OpenTab, GetRefreshKey, Goto
  <2>2. pc[t] \notin {"issue", "deliver"} /\ UNCHANGED <<issued, live, swept, cookie, got, faults>>
    BY <1>4 DEF RenewSession, OpenTab, GetRefreshKey, Goto
  <2>3. PICK k \in {held[t], cookie, None} : held' = [held EXCEPT ![t] = k]
    BY <1>4 DEF RenewSession, OpenTab, GetRefreshKey, CookieInv, TokensOK
  <2>4. to \in TabStates \ {"deliver"}
    BY <2>1 DEF TabStates, OnServer
  <2> QED
    BY <2>1, <2>2, <2>3, <2>4, TabMoves
<1>5. ASSUME NEW t \in Tabs, Session(t)
      PROVE  CookieInv'
  BY <1>4, <1>5, IssueKeeps, SetCookiesKeeps, DeleteKeyKeeps, LogoutKeeps, RequestFailsKeeps
     DEF Session
<1>6. ASSUME NEW r \in Resets, ScanKey(r)
      PROVE  CookieInv'
  BY <1>6, KeysMove DEF ScanKey, ResetLeaves
<1>7. ASSUME NEW r \in Resets, ByCodeOrLink(r)
      PROVE  CookieInv'
  BY <1>7, KeysMove DEF ByCodeOrLink, SendOtp, CheckOtp, DeleteOtp, RequestLink, FindLink, ResetLeaves
<1>8. ASSUME NEW r \in Resets,
             \/ UpdatePassword(r) \/ StartScan(r) \/ FinishScan(r) \/ MarkLinksUsed(r)
             \/ ResetFails(r) \/ RetryReset(r)
      PROVE  CookieInv'
  BY <1>8, KeysMove DEF UpdatePassword, StartScan, FinishScan, MarkLinksUsed, ResetFails,
                        RetryReset, ResetLeaves, Fault
<1>9. CASE UNCHANGED vars
  BY <1>1, <1>9 DEF vars
<1> QED
  BY <1>2, <1>3, <1>5, <1>6, <1>7, <1>8, <1>9 DEF Next, NewPassword

(* Tabs that refresh at once, and whose answers arrive in any order, never *)
(* leave a dead cookie behind, unless a reset deleted its key or a fault   *)
(* lost an answer (auth.service.ts:160-208, middleware.ts:58-111).         *)
THEOREM CookieIsGood == Spec => []CookieOpensSession
<1>1. Init => CookieInv
  BY CookieInvInit
<1>2. CookieInv /\ [Next]_vars => CookieInv'
  BY CookieInvStep
<1>3. CookieInv => CookieOpensSession
  BY DEF CookieInv
<1> QED
  BY <1>1, <1>2, <1>3, PTL DEF Spec

-----------------------------------------------------------------------------
(* The session, as long as no two handlers have overlapped on it and no    *)
(* DEL has failed.  A session that was not begun has not been taken over.  *)
SessionInv ==
  /\ here \in {"absent", "live", "gone"} /\ torn \in BOOLEAN /\ faults \in Nat
  /\ torn \/ faults > 0
     \/ /\ here # "gone" => session = latest /\ takers = {}
        /\ takers = {} \/ \E a \in Client!Actors : takers = {a}

Wrong == {p \in Pages : cpc[p] = "wrong"}

Phases == {"phone", "otp", "compare", "wrong", "consume", "find", "create",
           "mark", "tokens", "migrate", "success", "error"}

AttemptsInv ==
  /\ cpc \in [Pages -> Phases]
  /\ attempts \in Nat
  /\ Client!AttemptsBounded

-----------------------------------------------------------------------------
LEMMA SessionInvInit == Client!Init => SessionInv
<1> SUFFICES ASSUME Client!Init
             PROVE  SessionInv
  OBVIOUS
<1>1. faults \in Nat
  BY DEF Client!Init
<1>2. here = "absent" /\ torn = FALSE /\ session = latest /\ takers = {}
  BY DEF Client!Init
<1> QED
  BY <1>1, <1>2 DEF SessionInv

(* Every handler but these leaves the session's key and its takers alone.  *)
LEMMA SessionUntouched ==
  ASSUME SessionInv, UNCHANGED <<here, session, latest, torn, takers>>,
         faults' = faults \/ faults' = faults + 1
  PROVE  SessionInv'
  BY DEF SessionInv

LEMMA TakeOverKeeps ==
  ASSUME SessionInv, NEW a \in Client!Actors, Client!TakeOver(a), UNCHANGED <<session, latest>>,
         (here' = "gone" /\ faults' = faults) \/ (faults' = faults + 1 /\ here' = here)
  PROVE  SessionInv'
<1>1. takers' = takers \union {a} /\ torn' = (torn \/ here # "live" \/ session # copy[a])
  BY DEF Client!TakeOver, Client!OutOfDate
<1>2. CASE torn \/ faults > 0 \/ here # "live" \/ faults' = faults + 1
  <2>1. torn' \in BOOLEAN /\ faults' \in Nat /\ here' \in {"absent", "live", "gone"}
    BY <1>1 DEF SessionInv
  <2>2. torn' \/ faults' > 0
    <3>1. faults' > 0 \/ torn \/ here # "live"
      BY <1>2 DEF SessionInv
    <3> QED
      BY <1>1, <3>1
  <2> QED
    BY <2>1, <2>2 DEF SessionInv
<1>3. CASE ~torn /\ ~(faults > 0) /\ here = "live" /\ faults' = faults /\ here' = "gone"
  <2>1. takers = {}
    BY <1>3 DEF SessionInv
  <2>2. takers' = {a}
    BY <1>1, <2>1
  <2> QED
    BY <1>1, <1>3, <2>2 DEF SessionInv
<1> QED
  BY <1>2, <1>3

LEMMA WriteKeeps ==
  ASSUME SessionInv, NEW q \in Requests, Client!WriteSession(q)
  PROVE  SessionInv'
<1>1. /\ here' = "live" /\ session' = Client!Changed(copy[q], q)
           /\ latest' = Client!Changed(latest, q)
      /\ torn' = (torn \/ here # "live" \/ session # copy[q])
      /\ takers' = takers /\ faults' = faults
  BY DEF Client!WriteSession, Client!OutOfDate
<1>2. CASE torn' \/ faults > 0
  BY <1>1, <1>2 DEF SessionInv
<1>3. CASE ~torn' /\ ~(faults > 0)
  <2>1. here = "live" /\ session = copy[q] /\ ~torn
    BY <1>1, <1>3
  <2>2. session = latest /\ takers = {}
    BY <1>3, <2>1 DEF SessionInv
  <2>3. session' = latest'
    BY <1>1, <2>1, <2>2
  <2> QED
    BY <1>1, <1>3, <2>2, <2>3 DEF SessionInv
<1> QED
  BY <1>2, <1>3

LEMMA SessionInvStep ==
  ASSUME SessionInv, [Client!Next]_Client!vars
  PROVE  SessionInv'
<1> USE DEF Client!sessionVars, Client!otpVars
<1>1. CASE Client!CreateSession \/ Client!SessionExpires
  BY <1>1 DEF Client!CreateSession, Client!SessionExpires, SessionInv
<1>2. CASE Client!KeyExpires
  BY <1>2, SessionUntouched DEF Client!KeyExpires
<1>3. ASSUME NEW q \in Requests, Client!StartRequest(q)
      PROVE  SessionInv'
  BY <1>3, SessionUntouched DEF Client!StartRequest
<1>4. ASSUME NEW q \in Requests, Client!WriteSession(q)
      PROVE  SessionInv'
  BY <1>4, WriteKeeps
<1>5. ASSUME NEW q \in Requests, Client!Migrate(q)
      PROVE  SessionInv'
  <2>1. q \in Client!Actors /\ Client!TakeOver(q) /\ UNCHANGED <<session, latest>>
    BY <1>5 DEF Client!Migrate, Client!Actors
  <2>2. (here' = "gone" /\ faults' = faults) \/ (faults' = faults + 1 /\ here' = here)
    BY <2>1 DEF Client!TakeOver
  <2> QED
    BY <2>1, <2>2, TakeOverKeeps
<1>6. ASSUME NEW p \in Pages,
             \/ Client!RequestOtp(p) \/ Client!PageTimesOut(p) \/ Client!ReadCode(p)
                  \/ Client!CountAttempt(p)
             \/ Client!ConsumeCode(p) \/ Client!FindClient(p) \/ Client!CreateClient(p)
                  \/ Client!MarkPhoneVerified(p)
             \/ Client!GenerateTokens(p)
      PROVE  SessionInv'
  BY <1>6, SessionUntouched
     DEF Client!RequestOtp, Client!PageTimesOut, Client!ReadCode, Client!CountAttempt,
         Client!ConsumeCode, Client!FindClient,
         Client!CreateClient, Client!MarkPhoneVerified, Client!GenerateTokens
<1>7. ASSUME NEW p \in Pages, Client!FinishRegistration(p)
      PROVE  SessionInv'
  <2>1. CASE Client!TakeOver(p)
    <3>1. p \in Client!Actors /\ UNCHANGED <<session, latest>>
      BY <1>7 DEF Client!FinishRegistration, Client!Actors
    <3>2. (here' = "gone" /\ faults' = faults) \/ (faults' = faults + 1 /\ here' = here)
      BY <2>1 DEF Client!TakeOver
    <3> QED
      BY <2>1, <3>1, <3>2, TakeOverKeeps
  <2>2. CASE UNCHANGED <<here, takers, torn, faults>>
    BY <1>7, <2>2, SessionUntouched DEF Client!FinishRegistration
  <2> QED
    BY <1>7, <2>1, <2>2 DEF Client!FinishRegistration
<1>8. ASSUME NEW p \in Pages, Client!VerifyFails(p)
      PROVE  SessionInv'
  BY <1>8, SessionUntouched DEF Client!VerifyFails
<1>9. CASE UNCHANGED Client!vars
  BY <1>9, SessionUntouched DEF Client!vars
<1> QED
  BY <1>1, <1>2, <1>3, <1>4, <1>5, <1>6, <1>7, <1>8, <1>9 DEF Client!Next

LEMMA SessionInvExplains == SessionInv => Client!SessionLossExplained
<1> SUFFICES ASSUME SessionInv, ~torn, ~(faults > 0)
             PROVE  (here = "live" => session = latest /\ takers = {}) /\ Cardinality(takers) <= 1
  BY DEF Client!SessionLossExplained, Client!Cardinality, Cardinality
<1>1. here = "live" => session = latest /\ takers = {}
  BY DEF SessionInv
<1>2. takers = {} \/ \E a \in Client!Actors : takers = {a}
  BY DEF SessionInv
<1>3. Cardinality(takers) \in {0, 1}
  BY <1>2, FS_EmptySet, FS_Singleton
<1> QED
  BY <1>1, <1>3

(* The session holds what was last written to each of its fields, is taken *)
(* over once, and is gone afterwards, unless two handlers overlapped on it *)
(* or a DEL failed (anonymous-sessions.service.ts:85-145,                  *)
(* ocr.service.ts:226-252).                                                *)
THEOREM SessionIsWhole == Client!Spec => []Client!SessionLossExplained
<1>1. Client!Init => SessionInv
  BY SessionInvInit
<1>2. SessionInv /\ [Client!Next]_Client!vars => SessionInv'
  BY SessionInvStep
<1>3. SessionInv => Client!SessionLossExplained
  BY SessionInvExplains
<1> QED
  BY <1>1, <1>2, <1>3, PTL DEF Client!Spec

-----------------------------------------------------------------------------
(* How the pages that have read a wrong code are counted when one moves.   *)
LEMMA WrongCount ==
  ASSUME IsFiniteSet(Pages), cpc \in [Pages -> Phases], NEW p \in Pages, NEW to \in Phases,
         cpc' = [cpc EXCEPT ![p] = to]
  PROVE  /\ Cardinality(Wrong) \in Nat /\ Cardinality(Wrong') \in Nat
         /\ Cardinality(Wrong') <= Cardinality(Pages)
         /\ Cardinality(Pages) \in Nat
         /\ to # "wrong" => Cardinality(Wrong') <= Cardinality(Wrong)
         /\ to # "wrong" /\ cpc[p] = "wrong" => Cardinality(Wrong') = Cardinality(Wrong) - 1
<1>1. IsFiniteSet(Wrong) /\ IsFiniteSet(Wrong') /\ Cardinality(Wrong') <= Cardinality(Pages)
  BY FS_Subset DEF Wrong
<1>2. Cardinality(Wrong) \in Nat /\ Cardinality(Wrong') \in Nat /\ Cardinality(Pages) \in Nat
  BY <1>1, FS_CardinalityType
<1>3. ASSUME to # "wrong"
      PROVE  /\ Cardinality(Wrong') <= Cardinality(Wrong)
             /\ cpc[p] = "wrong" => Cardinality(Wrong') = Cardinality(Wrong) - 1
  <2>1. Wrong' = Wrong \ {p}
    BY <1>3 DEF Wrong
  <2>2. p \in Wrong <=> cpc[p] = "wrong"
    BY DEF Wrong
  <2>3. Cardinality(Wrong') = IF p \in Wrong THEN Cardinality(Wrong) - 1 ELSE Cardinality(Wrong)
    BY <1>1, <2>1, FS_RemoveElement
  <2> QED
    BY <1>2, <2>2, <2>3
<1> QED
  BY <1>1, <1>2, <1>3

LEMMA AttemptsInvInit ==
  ASSUME IsFiniteSet(Pages), MaxOtpAttempts \in Nat \ {0}, Client!Init
  PROVE  AttemptsInv
<1>1. {p \in Pages : cpc[p] = "wrong"} = {}
  BY DEF Client!Init
<1>2. Cardinality({p \in Pages : cpc[p] = "wrong"}) = 0
  BY <1>1, FS_EmptySet
<1>3. Cardinality(Pages) \in Nat
  BY FS_CardinalityType
<1>4. Client!AttemptsBounded
  BY <1>2, <1>3 DEF Client!Init, Client!AttemptsBounded, Client!Cardinality, Cardinality
<1>5. cpc \in [Pages -> Phases] /\ attempts \in Nat
  BY DEF Client!Init, Phases
<1> QED
  BY <1>4, <1>5 DEF AttemptsInv

(* A page that moves without reading a code, and without a wrong one being *)
(* counted.                                                                *)
LEMMA MovesKeep ==
  ASSUME IsFiniteSet(Pages), MaxOtpAttempts \in Nat \ {0}, AttemptsInv,
         NEW p \in Pages, NEW to \in Phases \ {"wrong"}, cpc' = [cpc EXCEPT ![p] = to],
         attempts' \in {0, attempts}
  PROVE  AttemptsInv'
<1>1. cpc' \in [Pages -> Phases] /\ attempts' \in Nat
  BY DEF AttemptsInv
<1>2. /\ Cardinality(Wrong) \in Nat /\ Cardinality(Wrong') \in Nat /\ Cardinality(Pages) \in Nat
      /\ Cardinality(Wrong') <= Cardinality(Wrong)
  BY WrongCount DEF AttemptsInv
<1>3. attempts + Cardinality(Wrong) < MaxOtpAttempts + Cardinality(Pages)
  BY DEF AttemptsInv, Client!AttemptsBounded, Client!Cardinality, Cardinality, Wrong
<1>4. attempts \in Nat /\ attempts' <= attempts
  BY DEF AttemptsInv
<1>5. attempts' + Cardinality(Wrong') < MaxOtpAttempts + Cardinality(Pages)
  BY <1>1, <1>2, <1>3, <1>4
<1> QED
  BY <1>1, <1>5 DEF AttemptsInv, Client!AttemptsBounded, Client!Cardinality, Cardinality, Wrong

(* The limit is read before the code, and the wrong code counted later. *)
LEMMA ReadCodeKeeps ==
  ASSUME IsFiniteSet(Pages), MaxOtpAttempts \in Nat \ {0}, AttemptsInv,
         NEW p \in Pages, Client!ReadCode(p)
  PROVE  AttemptsInv'
<1>1. PICK to \in {"consume", "wrong"} : cpc' = [cpc EXCEPT ![p] = to]
  BY DEF Client!ReadCode, Client!Goto
<1>2. attempts' = attempts /\ attempts < MaxOtpAttempts /\ attempts \in Nat
  BY DEF Client!ReadCode, AttemptsInv
<1>3. cpc' \in [Pages -> Phases]
  BY <1>1 DEF AttemptsInv, Phases
<1>4. /\ Cardinality(Wrong') \in Nat /\ Cardinality(Pages) \in Nat
      /\ Cardinality(Wrong') <= Cardinality(Pages)
  BY <1>1, WrongCount DEF AttemptsInv, Phases
<1>5. attempts' + Cardinality(Wrong') < MaxOtpAttempts + Cardinality(Pages)
  BY <1>2, <1>4
<1> QED
  BY <1>2, <1>3, <1>5 DEF AttemptsInv, Client!AttemptsBounded, Client!Cardinality, Cardinality,
     Wrong

LEMMA CountKeeps ==
  ASSUME IsFiniteSet(Pages), MaxOtpAttempts \in Nat \ {0}, AttemptsInv,
         NEW p \in Pages, Client!CountAttempt(p)
  PROVE  AttemptsInv'
<1>1. cpc[p] = "wrong" /\ cpc' = [cpc EXCEPT ![p] = "otp"] /\ attempts' = attempts + 1
  BY DEF Client!CountAttempt, Client!Goto
<1>2. cpc' \in [Pages -> Phases] /\ attempts \in Nat /\ attempts' \in Nat
  BY <1>1 DEF AttemptsInv, Phases
<1>3. /\ Cardinality(Wrong) \in Nat /\ Cardinality(Pages) \in Nat
      /\ Cardinality(Wrong') = Cardinality(Wrong) - 1
  BY <1>1, WrongCount DEF AttemptsInv, Phases
<1>4. attempts + Cardinality(Wrong) < MaxOtpAttempts + Cardinality(Pages)
  BY DEF AttemptsInv, Client!AttemptsBounded, Client!Cardinality, Cardinality, Wrong
<1>5. attempts' + Cardinality(Wrong') < MaxOtpAttempts + Cardinality(Pages)
  BY <1>1, <1>2, <1>3, <1>4
<1> QED
  BY <1>2, <1>5 DEF AttemptsInv, Client!AttemptsBounded, Client!Cardinality, Cardinality, Wrong

LEMMA AttemptsInvStep ==
  ASSUME IsFiniteSet(Pages), MaxOtpAttempts \in Nat \ {0},
         AttemptsInv, [Client!Next]_Client!vars
  PROVE  AttemptsInv'
<1> USE DEF Client!sessionVars, Client!otpVars
<1>1. ASSUME UNCHANGED <<cpc, attempts>>
      PROVE  AttemptsInv'
  BY <1>1 DEF AttemptsInv, Client!AttemptsBounded, Client!Cardinality, Cardinality
<1>2. CASE Client!CreateSession \/ Client!SessionExpires
  BY <1>1, <1>2 DEF Client!CreateSession, Client!SessionExpires
<1>3. CASE Client!KeyExpires
  <2>1. CASE UNCHANGED attempts
    BY <1>1, <1>3, <2>1 DEF Client!KeyExpires
  <2>2. CASE attempts' = 0
    <3>1. cpc' = cpc
      BY <1>3 DEF Client!KeyExpires
    <3>2. IsFiniteSet(Wrong)
      BY FS_Subset DEF Wrong
    <3>3. Cardinality(Wrong) \in Nat /\ Cardinality(Pages) \in Nat /\ attempts \in Nat
      BY <3>2, FS_CardinalityType DEF AttemptsInv
    <3>4. attempts + Cardinality(Wrong) < MaxOtpAttempts + Cardinality(Pages)
      BY DEF AttemptsInv, Client!AttemptsBounded, Client!Cardinality, Cardinality, Wrong
    <3>5. Wrong' = Wrong
      BY <3>1 DEF Wrong
    <3>6. attempts' + Cardinality(Wrong') < MaxOtpAttempts + Cardinality(Pages)
      BY <2>2, <3>3, <3>4, <3>5
    <3> QED
      BY <2>2, <3>1, <3>6 DEF AttemptsInv, Client!AttemptsBounded, Client!Cardinality,
         Cardinality, Wrong
  <2> QED
    BY <1>3, <2>1, <2>2 DEF Client!KeyExpires
<1>4. ASSUME NEW q \in Requests, Client!StartRequest(q) \/ Client!WriteSession(q)
             \/ Client!Migrate(q)
      PROVE  AttemptsInv'
  BY <1>1, <1>4 DEF Client!StartRequest, Client!WriteSession, Client!Migrate
<1>5. ASSUME NEW p \in Pages, Client!ReadCode(p) \/ Client!CountAttempt(p)
      PROVE  AttemptsInv'
  BY <1>5, ReadCodeKeeps, CountKeeps
<1>6. ASSUME NEW p \in Pages,
             \/ Client!RequestOtp(p) \/ Client!PageTimesOut(p)
             \/ Client!ConsumeCode(p) \/ Client!FindClient(p) \/ Client!CreateClient(p)
                  \/ Client!MarkPhoneVerified(p)
             \/ Client!GenerateTokens(p) \/ Client!FinishRegistration(p)
                  \/ Client!VerifyFails(p)
      PROVE  AttemptsInv'
  <2>1. attempts' \in {0, attempts}
    BY <1>6 DEF Client!RequestOtp, Client!PageTimesOut, Client!ConsumeCode, Client!FindClient,
       Client!CreateClient,
                Client!MarkPhoneVerified, Client!GenerateTokens, Client!FinishRegistration,
                Client!VerifyFails
  <2>2. \E to \in Phases \ {"wrong"} : cpc' = [cpc EXCEPT ![p] = to]
    BY <1>6 DEF Client!RequestOtp, Client!PageTimesOut, Client!ConsumeCode, Client!FindClient,
       Client!CreateClient,
                Client!MarkPhoneVerified, Client!GenerateTokens, Client!FinishRegistration,
                Client!VerifyFails, Client!Goto, Phases
  <2> QED
    BY <2>1, <2>2, MovesKeep
<1>7. CASE UNCHANGED Client!vars
  BY <1>1, <1>7 DEF Client!vars
<1> QED
  BY <1>2, <1>3, <1>4, <1>5, <1>6, <1>7 DEF Client!Next

(* However the verifications of a code overlap, wrong codes are judged at  *)
(* most once per page beyond the limit (client-auth.service.ts:115-150).   *)
THEOREM AttemptsAreBounded ==
  ASSUME IsFiniteSet(Pages), MaxOtpAttempts \in Nat \ {0}
  PROVE  Client!Spec => []Client!AttemptsBounded
<1>1. Client!Init => AttemptsInv
  BY AttemptsInvInit
<1>2. AttemptsInv /\ [Client!Next]_Client!vars => AttemptsInv'
  BY AttemptsInvStep
<1>3. AttemptsInv => Client!AttemptsBounded
  BY DEF AttemptsInv
<1> QED
  BY <1>1, <1>2, <1>3, PTL DEF Client!Spec
-----------------------------------------------------------------------------
(* Among the other requests of the API: on the sides of a client only its  *)
(* own handlers step, and only they count its faults.                      *)
LEMMA ClientSides ==
  ASSUME [RequestsNext]_<<side, faults, apiVars, screenVars>>,
         side' \in {"client", "mistyped"}
  PROVE  side = side' /\ [Client!Next]_Client!vars
<1>1. CASE UNCHANGED <<side, faults, apiVars, screenVars>>
  BY <1>1 DEF apiVars, clientVars, Client!vars, Client!sessionVars, Client!otpVars
<1>2. CASE RequestsNext
  <2>1. side = side'
    BY <1>2 DEF RequestsNext
  <2>2. CASE ApiNext
    BY <2>1, <2>2 DEF ApiNext, StaffNext
  <2>3. CASE ScreensNext
    BY <2>1, <2>3 DEF ScreensNext
  <2> QED
    BY <1>2, <2>1, <2>2, <2>3 DEF RequestsNext
<1> QED
  BY <1>1, <1>2

(* What SessionIsWhole says of a client alone holds in the API. *)
THEOREM SessionInTheApi == RequestsSpec => []SessionLossExplained
<1> DEFINE Inv == side = "client" => SessionInv
<1>1. RequestsInit => Inv
  BY SessionInvInit DEF RequestsInit
<1>2. Inv /\ [RequestsNext]_<<side, faults, apiVars, screenVars>> => Inv'
  BY ClientSides, SessionInvStep
<1>3. Inv => SessionLossExplained
  BY SessionInvExplains DEF SessionLossExplained
<1> QED
  BY <1>1, <1>2, <1>3, PTL DEF RequestsSpec

(* What AttemptsAreBounded says of a code alone holds in the API. *)
THEOREM AttemptsInTheApi ==
  ASSUME IsFiniteSet(Pages), MaxOtpAttempts \in Nat \ {0}
  PROVE  RequestsSpec => []AttemptsBounded
<1> DEFINE Inv == side = "mistyped" => AttemptsInv
<1>1. RequestsInit => Inv
  BY AttemptsInvInit DEF RequestsInit
<1>2. Inv /\ [RequestsNext]_<<side, faults, apiVars, screenVars>> => Inv'
  BY ClientSides, AttemptsInvStep
<1>3. Inv => AttemptsBounded
  BY DEF AttemptsBounded, AttemptsInv
<1> QED
  BY <1>1, <1>2, <1>3, PTL DEF RequestsSpec

-----------------------------------------------------------------------------
(***************************************************************************)
(* The screens of a code.  The password screens send one request at a      *)
(* time; the registration and the login do until two have overlapped.      *)
(***************************************************************************)
CodeRequests ==
  [id : Nat, kind : {"send", "verify", "confirm", "login"}, address : Addresses \union {None},
   code : Nat \union {None}, stage : {"sent", "done", "refused"}]
CodeMessages == [address : Addresses, code : Nat]

CodesTypesOK ==
  /\ flow \in {"web", "reset", "register", "login"}
  /\ step \in {"address", "code", "spinner", "password", "done"}
  /\ input \in Addresses \union {None} /\ named \in Addresses \union {None}
  /\ proof \in Addresses \union {None}
  /\ calls \subseteq CodeRequests /\ sentCalls \in Nat
  /\ codes \in [Addresses -> Nat \union {None}]
  /\ message \in {None} \union CodeMessages
  /\ flow # "register" => input # None /\ ~countdown
  /\ flow = "register" /\ step = "code" => named # None
  /\ \A c \in calls : c.kind = "send" => c.address # None

OneCall == \A c, d \in calls : c = d

(* The step says what can be on its way; a message is of the address that  *)
(* is shown unless it was edited under the request.                        *)
BlockingInv ==
  flow \in Codes!Blocking =>
    /\ loading \/ calls = {}
    /\ OneCall
    /\ \A c \in calls :
         /\ step = "address" => c.kind = "send"
         /\ step = "code" => c.kind \in {"send", "verify"}
         /\ step = "password" => c.kind = "confirm"
         /\ step \notin {"done", "spinner"}
         /\ c.kind = "verify" => c.address = input
         /\ c.kind = "send" => c.address = input \/ edited
    /\ step = "address" /\ message # None =>
         \E c \in calls : c.kind = "send" /\ c.stage = "done"
    /\ edited \/ message = None \/ message.address = input
    /\ step = "password" => proof = input

RegisterInv ==
  flow = "register" =>
    /\ step \in {"address", "code", "spinner"}
    /\ \A c \in calls : c.kind \in {"send", "verify"}
    /\ \/ overlapped
       \/ /\ OneCall
          /\ \A c \in calls :
               /\ c.kind = "verify" => step = "spinner"
               /\ c.kind = "send" /\ c.stage = "done" =>
                    message # None /\ message.address = c.address
               /\ step = "code" => c.kind = "send" /\ c.address = named /\ resent
          /\ step = "code" /\ message # None => message.address = named
          /\ step = "code" /\ countdown => resent \/ codes[named] = None

LoginInv ==
  flow = "login" =>
    /\ step \in {"address", "done"}
    /\ \A c \in calls : c.kind = "login"
    /\ \/ overlapped
       \/ OneCall /\ (step = "done" => calls = {} /\ reset = seen)

CodesInv == CodesTypesOK /\ BlockingInv /\ RegisterInv /\ LoginInv

(* The placeholder is neither a number nor an e-mail.                      *)
CodesApart == None \notin Nat /\ None \notin CodeMessages

LEMMA CodesBegin ==
  ASSUME Codes!Init, None \notin Addresses
  PROVE  CodesInv
  BY DEF Codes!Init, CodesInv, CodesTypesOK, BlockingInv, RegisterInv, LoginInv, OneCall,
         Codes!Blocking

(* What is sent, from the address in front of its user. *)
LEMMA CodesSend ==
  ASSUME CodesInv, None \notin Addresses, CodesApart,
         NEW kind \in {"send", "verify", "confirm", "login"},
         NEW whom \in Addresses \union {None}, NEW number \in Nat \union {None},
         Codes!Send(kind, whom, number)
  PROVE  /\ calls' \subseteq CodeRequests /\ sentCalls' \in Nat
         /\ \A c \in calls' :
           c \in calls \/ (c.kind = kind /\ c.address = whom /\ c.stage = "sent")
         /\ calls # {} => overlapped'
         /\ calls = {} => \A c, d \in calls' : c = d
         /\ overlapped => overlapped'
         /\ flow \in Codes!Blocking => loading'
         /\ UNCHANGED <<flow, codes, message, proof, reset, seen, edited>>
<1> DEFINE new == [id |-> sentCalls, kind |-> kind, address |-> whom, code |-> number,
                   stage |-> "sent"]
<1>1. new \in CodeRequests /\ sentCalls + 1 \in Nat
  BY DEF CodesInv, CodesTypesOK, CodeRequests
<1>2. new.kind = kind /\ new.address = whom /\ new.stage = "sent"
  OBVIOUS
<1>3. calls' = calls \union {new} /\ sentCalls' = sentCalls + 1
  BY DEF Codes!Send
<1> HIDE DEF new
<1>4. calls' \subseteq CodeRequests /\ sentCalls' \in Nat
  BY <1>1, <1>3 DEF CodesInv, CodesTypesOK
<1>5. \A c \in calls' :
           c \in calls \/ (c.kind = kind /\ c.address = whom /\ c.stage = "sent")
  BY <1>2, <1>3
<1>6. calls = {} => \A c, d \in calls' : c = d
  BY <1>3
<1>7. /\ calls # {} => overlapped'
      /\ overlapped => overlapped'
      /\ flow \in Codes!Blocking => loading'
      /\ UNCHANGED <<flow, codes, message, proof, reset, seen, edited>>
  BY DEF Codes!Send, Codes!server
<1> QED
  BY <1>4, <1>5, <1>6, <1>7

(* A request that is handled or refused. *)
LEMMA CodesMove ==
  ASSUME CodesInv, NEW c \in calls, NEW to \in {"done", "refused"}, Codes!Move(c, to)
  PROVE  /\ calls' \subseteq CodeRequests /\ calls' # {}
         /\ \A d \in calls' :
              d \in calls \ {c} \/ (d.kind = c.kind /\ d.address = c.address /\ d.stage = to)
         /\ \E d \in calls' : d.kind = c.kind /\ d.stage = to
         /\ OneCall => OneCall'
<1> DEFINE new == [c EXCEPT !.stage = to]
<1>1. c \in CodeRequests
  BY DEF CodesInv, CodesTypesOK
<1>2. new \in CodeRequests /\ new.kind = c.kind /\ new.address = c.address /\ new.stage = to
  BY <1>1 DEF CodeRequests
<1>3. calls' = (calls \ {c}) \union {new}
  BY DEF Codes!Move
<1> HIDE DEF new
<1>4. calls' \subseteq CodeRequests /\ new \in calls'
  BY <1>2, <1>3 DEF CodesInv, CodesTypesOK
<1>5. \A d \in calls' : d \in calls \ {c} \/ d = new
  BY <1>3
<1>6. ASSUME OneCall
      PROVE  OneCall'
  <2>1. \A d \in calls' : d = new
    BY <1>5, <1>6 DEF OneCall
  <2> QED
    BY <2>1 DEF OneCall
<1> QED
  BY <1>2, <1>4, <1>5, <1>6

(* The input is open on the first step, whatever is on its way. *)
LEMMA CodesEdit ==
  ASSUME CodesInv, None \notin Addresses, CodesApart,
         Codes!Edit
  PROVE  CodesInv'
<1> USE DEF CodesInv, OneCall, Codes!Blocking
<1>1. CodesTypesOK'
  BY DEF CodesTypesOK, BlockingInv, RegisterInv, LoginInv, Codes!Edit, Codes!server, Codes!Offers, Codes!WebOffers, Codes!ResetOffers, Codes!RegisterOffers,
         Codes!LoginOffers, Codes!Unless, Codes!Digits
<1>2. BlockingInv'
  BY DEF CodesTypesOK, BlockingInv, RegisterInv, LoginInv, Codes!Edit, Codes!server, Codes!Offers, Codes!WebOffers, Codes!ResetOffers, Codes!RegisterOffers,
         Codes!LoginOffers, Codes!Unless, Codes!Digits
<1>3. RegisterInv'
  BY DEF CodesTypesOK, BlockingInv, RegisterInv, LoginInv, Codes!Edit, Codes!server, Codes!Offers, Codes!WebOffers, Codes!ResetOffers, Codes!RegisterOffers,
         Codes!LoginOffers, Codes!Unless, Codes!Digits
<1>4. LoginInv'
  BY DEF CodesTypesOK, BlockingInv, RegisterInv, LoginInv, Codes!Edit, Codes!server, Codes!Offers, Codes!WebOffers, Codes!ResetOffers, Codes!RegisterOffers,
         Codes!LoginOffers, Codes!Unless, Codes!Digits
<1> QED
  BY <1>1, <1>2, <1>3, <1>4

LEMMA CodesSendOtp ==
  ASSUME CodesInv, None \notin Addresses, CodesApart,
         Codes!SendOtp
  PROVE  CodesInv'
<1>a. input \in Addresses \union {None} /\ None \in Nat \union {None}
  BY DEF CodesInv, CodesTypesOK, Codes!Named, Codes!SendOtp, CodeMessages, Codes!Offers, Codes!WebOffers, Codes!ResetOffers, Codes!RegisterOffers,
         Codes!LoginOffers, Codes!Unless, Codes!Digits
<1>b. Codes!Send("send", input, None)
  BY DEF Codes!SendOtp
<1>c. /\ calls' \subseteq CodeRequests /\ sentCalls' \in Nat
      /\ \A c \in calls' :
           c \in calls \/ (c.kind = "send" /\ c.address = input /\ c.stage = "sent")
      /\ calls # {} => overlapped'
      /\ calls = {} => \A c, d \in calls' : c = d
      /\ overlapped => overlapped'
      /\ flow \in Codes!Blocking => loading'
      /\ UNCHANGED <<flow, codes, message, proof, reset, seen, edited>>
  BY <1>a, <1>b, CodesSend
<1> USE DEF CodesInv, OneCall, Codes!Blocking
<1>1. CodesTypesOK'
  BY <1>c DEF CodesTypesOK, BlockingInv, RegisterInv, LoginInv, Codes!SendOtp, Codes!Named,
         Codes!Offers, Codes!WebOffers, Codes!ResetOffers, Codes!RegisterOffers,
         Codes!LoginOffers, Codes!Unless, Codes!Digits
<1>2. BlockingInv'
  BY <1>c DEF CodesTypesOK, BlockingInv, RegisterInv, LoginInv, Codes!SendOtp, Codes!Named,
         Codes!Offers, Codes!WebOffers, Codes!ResetOffers, Codes!RegisterOffers,
         Codes!LoginOffers, Codes!Unless, Codes!Digits
<1>3. RegisterInv'
  BY <1>c DEF CodesTypesOK, BlockingInv, RegisterInv, LoginInv, Codes!SendOtp, Codes!Named,
         Codes!Offers, Codes!WebOffers, Codes!ResetOffers, Codes!RegisterOffers,
         Codes!LoginOffers, Codes!Unless, Codes!Digits
<1>4. LoginInv'
  BY <1>c DEF CodesTypesOK, BlockingInv, RegisterInv, LoginInv, Codes!SendOtp, Codes!Named,
         Codes!Offers, Codes!WebOffers, Codes!ResetOffers, Codes!RegisterOffers,
         Codes!LoginOffers, Codes!Unless, Codes!Digits
<1> QED
  BY <1>1, <1>2, <1>3, <1>4

LEMMA CodesResend ==
  ASSUME CodesInv, None \notin Addresses, CodesApart,
         Codes!Resend
  PROVE  CodesInv'
<1>a. Codes!Named \in Addresses \union {None} /\ None \in Nat \union {None}
  BY DEF CodesInv, CodesTypesOK, Codes!Named, Codes!Resend, CodeMessages, Codes!Offers, Codes!WebOffers, Codes!ResetOffers, Codes!RegisterOffers,
         Codes!LoginOffers, Codes!Unless, Codes!Digits
<1>b. Codes!Send("send", Codes!Named, None)
  BY DEF Codes!Resend
<1>c. /\ calls' \subseteq CodeRequests /\ sentCalls' \in Nat
      /\ \A c \in calls' :
           c \in calls \/ (c.kind = "send" /\ c.address = Codes!Named /\ c.stage = "sent")
      /\ calls # {} => overlapped'
      /\ calls = {} => \A c, d \in calls' : c = d
      /\ overlapped => overlapped'
      /\ flow \in Codes!Blocking => loading'
      /\ UNCHANGED <<flow, codes, message, proof, reset, seen, edited>>
  BY <1>a, <1>b, CodesSend
<1> USE DEF CodesInv, OneCall, Codes!Blocking
<1>1. CodesTypesOK'
  BY <1>c DEF CodesTypesOK, BlockingInv, RegisterInv, LoginInv, Codes!Resend, Codes!Named,
         Codes!Offers, Codes!WebOffers, Codes!ResetOffers, Codes!RegisterOffers,
         Codes!LoginOffers, Codes!Unless, Codes!Digits
<1>2. BlockingInv'
  BY <1>c DEF CodesTypesOK, BlockingInv, RegisterInv, LoginInv, Codes!Resend, Codes!Named,
         Codes!Offers, Codes!WebOffers, Codes!ResetOffers, Codes!RegisterOffers,
         Codes!LoginOffers, Codes!Unless, Codes!Digits
<1>3. RegisterInv'
  BY <1>c DEF CodesTypesOK, BlockingInv, RegisterInv, LoginInv, Codes!Resend, Codes!Named,
         Codes!Offers, Codes!WebOffers, Codes!ResetOffers, Codes!RegisterOffers,
         Codes!LoginOffers, Codes!Unless, Codes!Digits
<1>4. LoginInv'
  BY <1>c DEF CodesTypesOK, BlockingInv, RegisterInv, LoginInv, Codes!Resend, Codes!Named,
         Codes!Offers, Codes!WebOffers, Codes!ResetOffers, Codes!RegisterOffers,
         Codes!LoginOffers, Codes!Unless, Codes!Digits
<1> QED
  BY <1>1, <1>2, <1>3, <1>4

LEMMA CodesVerify ==
  ASSUME CodesInv, None \notin Addresses, CodesApart,
         Codes!Verify
  PROVE  CodesInv'
<1>a. Codes!Named \in Addresses \union {None} /\ message.code \in Nat \union {None}
  BY DEF CodesInv, CodesTypesOK, Codes!Named, Codes!Verify, CodeMessages, Codes!Offers, Codes!WebOffers, Codes!ResetOffers, Codes!RegisterOffers,
         Codes!LoginOffers, Codes!Unless, Codes!Digits
<1>b. Codes!Send("verify", Codes!Named, message.code)
  BY DEF Codes!Verify
<1>c. /\ calls' \subseteq CodeRequests /\ sentCalls' \in Nat
      /\ \A c \in calls' :
           c \in calls \/ (c.kind = "verify" /\ c.address = Codes!Named /\ c.stage = "sent")
      /\ calls # {} => overlapped'
      /\ calls = {} => \A c, d \in calls' : c = d
      /\ overlapped => overlapped'
      /\ flow \in Codes!Blocking => loading'
      /\ UNCHANGED <<flow, codes, message, proof, reset, seen, edited>>
  BY <1>a, <1>b, CodesSend
<1> USE DEF CodesInv, OneCall, Codes!Blocking
<1>1. CodesTypesOK'
  BY <1>c DEF CodesTypesOK, BlockingInv, RegisterInv, LoginInv, Codes!Verify, Codes!Named,
         Codes!Offers, Codes!WebOffers, Codes!ResetOffers, Codes!RegisterOffers,
         Codes!LoginOffers, Codes!Unless, Codes!Digits
<1>2. BlockingInv'
  BY <1>c DEF CodesTypesOK, BlockingInv, RegisterInv, LoginInv, Codes!Verify, Codes!Named,
         Codes!Offers, Codes!WebOffers, Codes!ResetOffers, Codes!RegisterOffers,
         Codes!LoginOffers, Codes!Unless, Codes!Digits
<1>3. RegisterInv'
  BY <1>c DEF CodesTypesOK, BlockingInv, RegisterInv, LoginInv, Codes!Verify, Codes!Named,
         Codes!Offers, Codes!WebOffers, Codes!ResetOffers, Codes!RegisterOffers,
         Codes!LoginOffers, Codes!Unless, Codes!Digits
<1>4. LoginInv'
  BY <1>c DEF CodesTypesOK, BlockingInv, RegisterInv, LoginInv, Codes!Verify, Codes!Named,
         Codes!Offers, Codes!WebOffers, Codes!ResetOffers, Codes!RegisterOffers,
         Codes!LoginOffers, Codes!Unless, Codes!Digits
<1> QED
  BY <1>1, <1>2, <1>3, <1>4

LEMMA CodesConfirm ==
  ASSUME CodesInv, None \notin Addresses, CodesApart,
         Codes!Confirm
  PROVE  CodesInv'
<1>a. proof \in Addresses \union {None} /\ None \in Nat \union {None}
  BY DEF CodesInv, CodesTypesOK, Codes!Named, Codes!Confirm, CodeMessages, Codes!Offers, Codes!WebOffers, Codes!ResetOffers, Codes!RegisterOffers,
         Codes!LoginOffers, Codes!Unless, Codes!Digits
<1>b. Codes!Send("confirm", proof, None)
  BY DEF Codes!Confirm
<1>c. /\ calls' \subseteq CodeRequests /\ sentCalls' \in Nat
      /\ \A c \in calls' :
           c \in calls \/ (c.kind = "confirm" /\ c.address = proof /\ c.stage = "sent")
      /\ calls # {} => overlapped'
      /\ calls = {} => \A c, d \in calls' : c = d
      /\ overlapped => overlapped'
      /\ flow \in Codes!Blocking => loading'
      /\ UNCHANGED <<flow, codes, message, proof, reset, seen, edited>>
  BY <1>a, <1>b, CodesSend
<1> USE DEF CodesInv, OneCall, Codes!Blocking
<1>1. CodesTypesOK'
  BY <1>c DEF CodesTypesOK, BlockingInv, RegisterInv, LoginInv, Codes!Confirm, Codes!Named,
         Codes!Offers, Codes!WebOffers, Codes!ResetOffers, Codes!RegisterOffers,
         Codes!LoginOffers, Codes!Unless, Codes!Digits
<1>2. BlockingInv'
  BY <1>c DEF CodesTypesOK, BlockingInv, RegisterInv, LoginInv, Codes!Confirm, Codes!Named,
         Codes!Offers, Codes!WebOffers, Codes!ResetOffers, Codes!RegisterOffers,
         Codes!LoginOffers, Codes!Unless, Codes!Digits
<1>3. RegisterInv'
  BY <1>c DEF CodesTypesOK, BlockingInv, RegisterInv, LoginInv, Codes!Confirm, Codes!Named,
         Codes!Offers, Codes!WebOffers, Codes!ResetOffers, Codes!RegisterOffers,
         Codes!LoginOffers, Codes!Unless, Codes!Digits
<1>4. LoginInv'
  BY <1>c DEF CodesTypesOK, BlockingInv, RegisterInv, LoginInv, Codes!Confirm, Codes!Named,
         Codes!Offers, Codes!WebOffers, Codes!ResetOffers, Codes!RegisterOffers,
         Codes!LoginOffers, Codes!Unless, Codes!Digits
<1> QED
  BY <1>1, <1>2, <1>3, <1>4

LEMMA CodesLogin ==
  ASSUME CodesInv, None \notin Addresses, CodesApart,
         Codes!Login
  PROVE  CodesInv'
<1>a. input \in Addresses \union {None} /\ None \in Nat \union {None}
  BY DEF CodesInv, CodesTypesOK, Codes!Named, Codes!Login, CodeMessages, Codes!Offers, Codes!WebOffers, Codes!ResetOffers, Codes!RegisterOffers,
         Codes!LoginOffers, Codes!Unless, Codes!Digits
<1>b. Codes!Send("login", input, None)
  BY DEF Codes!Login
<1>c. /\ calls' \subseteq CodeRequests /\ sentCalls' \in Nat
      /\ \A c \in calls' :
           c \in calls \/ (c.kind = "login" /\ c.address = input /\ c.stage = "sent")
      /\ calls # {} => overlapped'
      /\ calls = {} => \A c, d \in calls' : c = d
      /\ overlapped => overlapped'
      /\ flow \in Codes!Blocking => loading'
      /\ UNCHANGED <<flow, codes, message, proof, reset, seen, edited>>
  BY <1>a, <1>b, CodesSend
<1> USE DEF CodesInv, OneCall, Codes!Blocking
<1>1. CodesTypesOK'
  BY <1>c DEF CodesTypesOK, BlockingInv, RegisterInv, LoginInv, Codes!Login, Codes!Named,
         Codes!Offers, Codes!WebOffers, Codes!ResetOffers, Codes!RegisterOffers,
         Codes!LoginOffers, Codes!Unless, Codes!Digits
<1>2. BlockingInv'
  BY <1>c DEF CodesTypesOK, BlockingInv, RegisterInv, LoginInv, Codes!Login, Codes!Named,
         Codes!Offers, Codes!WebOffers, Codes!ResetOffers, Codes!RegisterOffers,
         Codes!LoginOffers, Codes!Unless, Codes!Digits
<1>3. RegisterInv'
  BY <1>c DEF CodesTypesOK, BlockingInv, RegisterInv, LoginInv, Codes!Login, Codes!Named,
         Codes!Offers, Codes!WebOffers, Codes!ResetOffers, Codes!RegisterOffers,
         Codes!LoginOffers, Codes!Unless, Codes!Digits
<1>4. LoginInv'
  BY <1>c DEF CodesTypesOK, BlockingInv, RegisterInv, LoginInv, Codes!Login, Codes!Named,
         Codes!Offers, Codes!WebOffers, Codes!ResetOffers, Codes!RegisterOffers,
         Codes!LoginOffers, Codes!Unless, Codes!Digits
<1> QED
  BY <1>1, <1>2, <1>3, <1>4

(* A countdown and the pause between two codes. *)
LEMMA CodesTimes ==
  ASSUME CodesInv, None \notin Addresses, CodesApart,
         Codes!Expire \/ Codes!CoolDown
  PROVE  CodesInv'
<1> USE DEF CodesInv, OneCall, Codes!Blocking
<1>1. CodesTypesOK'
  BY DEF CodesTypesOK, BlockingInv, RegisterInv, LoginInv, Codes!Expire, Codes!CoolDown, Codes!server,
         Codes!ghosts
<1>2. BlockingInv'
  BY DEF CodesTypesOK, BlockingInv, RegisterInv, LoginInv, Codes!Expire, Codes!CoolDown, Codes!server,
         Codes!ghosts
<1>3. RegisterInv'
  BY DEF CodesTypesOK, BlockingInv, RegisterInv, LoginInv, Codes!Expire, Codes!CoolDown, Codes!server,
         Codes!ghosts
<1>4. LoginInv'
  BY DEF CodesTypesOK, BlockingInv, RegisterInv, LoginInv, Codes!Expire, Codes!CoolDown, Codes!server,
         Codes!ghosts
<1> QED
  BY <1>1, <1>2, <1>3, <1>4

(* What the server makes of a request. *)
LEMMA CodesServed ==
  ASSUME CodesInv, None \notin Addresses, CodesApart,
         NEW c \in calls, Codes!Handle(c) \/ Codes!Refuse(c)
  PROVE  CodesInv'
<1>a. PICK to \in {"done", "refused"} :
         /\ Codes!Move(c, to)
         /\ \/ Codes!Handle(c) /\ (c.kind = "send" => to = "done")
            \/ Codes!Refuse(c) /\ to = "refused"
  BY DEF Codes!Handle, Codes!Refuse, Codes!Accepted
<1>b. /\ calls' \subseteq CodeRequests /\ calls' # {}
      /\ \A d \in calls' :
           d \in calls \ {c} \/ (d.kind = c.kind /\ d.address = c.address /\ d.stage = to)
      /\ \E d \in calls' : d.kind = c.kind /\ d.stage = to
      /\ OneCall => OneCall'
  BY <1>a, CodesMove
<1>c. /\ c.id \in Nat /\ c.address \in Addresses \union {None} /\ c.stage = "sent"
      /\ UNCHANGED <<flow, step, input, named, loading, cooldown, countdown, proof, seen,
                     sentCalls, edited, overlapped, resent>>
  BY DEF CodesInv, CodesTypesOK, CodeRequests, Codes!Handle, Codes!Refuse, Codes!screen,
         Codes!ghosts
<1>d. /\ codes' \in [Addresses -> Nat \union {None}]
      /\ \/ c.kind = "send" /\ to = "done" /\ message' \in CodeMessages
            /\ message'.address = c.address
         \/ /\ c.kind = "send" => to = "refused"
            /\ message' = message /\ (\A a \in Addresses : codes[a] = None => codes'[a] = None)
      /\ c.kind # "confirm" => reset' = reset
  BY <1>a, <1>c DEF CodesInv, CodesTypesOK, CodeMessages, Codes!Handle, Codes!Refuse, Codes!server
<1> USE DEF CodesInv, OneCall, Codes!Blocking
<1>1. CodesTypesOK'
  BY <1>a, <1>b, <1>c, <1>d DEF CodesTypesOK, BlockingInv, RegisterInv, LoginInv, CodeMessages
<1>2. BlockingInv'
  BY <1>a, <1>b, <1>c, <1>d DEF CodesTypesOK, BlockingInv, RegisterInv, LoginInv, CodeMessages
<1>3. RegisterInv'
  <2> SUFFICES ASSUME flow = "register"
               PROVE  RegisterInv'
    BY <1>c DEF RegisterInv
  <2>1. \A d \in calls' : d.kind \in {"send", "verify"}
    BY <1>b DEF RegisterInv
  <2>2. CASE overlapped
    BY <1>c, <2>1, <2>2 DEF RegisterInv
  <2>3. CASE ~overlapped
    <3>1. calls = {c} /\ \A d \in calls' : d.kind = c.kind /\ d.address = c.address /\ d.stage = to
      BY <1>b, <2>3 DEF RegisterInv
    <3>2. OneCall'
      BY <1>b, <2>3 DEF RegisterInv
    <3>3. /\ c.kind = "verify" => step = "spinner"
          /\ step = "code" => c.kind = "send" /\ c.address = named /\ resent
          /\ step = "code" /\ message # None => message.address = named
      BY <2>3 DEF RegisterInv
    <3>4. c.kind = "send" /\ to = "done" => message' # None /\ message'.address = c.address
      BY <1>d DEF CodesApart
    <3>5. step = "code" /\ message' # None => message'.address = named
      BY <1>d, <3>3
    <3>6. \A d \in calls' :
            /\ d.kind = "verify" => step = "spinner"
            /\ d.kind = "send" /\ d.stage = "done" => message' # None /\ message'.address = d.address
            /\ step = "code" => d.kind = "send" /\ d.address = named /\ resent
      BY <3>1, <3>3, <3>4
    <3>7. step = "code" => resent
      BY <3>3
    <3> QED
      BY <1>c, <2>1, <3>2, <3>5, <3>6, <3>7 DEF RegisterInv
  <2> QED
    BY <2>2, <2>3
<1>4. LoginInv'
  BY <1>a, <1>b, <1>c, <1>d DEF CodesTypesOK, BlockingInv, RegisterInv, LoginInv, CodeMessages
<1> QED
  BY <1>1, <1>2, <1>3, <1>4

LEMMA CodesCodeSent ==
  ASSUME CodesInv, None \notin Addresses, CodesApart,
         NEW c \in calls, Codes!Answer(c), Codes!CodeSent(c)
  PROVE  CodesInv'
<1>a. calls' = calls \ {c} /\ c \in CodeRequests /\ c.address \in Addresses \union {None}
  BY DEF Codes!Answer, CodesInv, CodesTypesOK, CodeRequests
<1>b. OneCall => calls' = {}
  BY <1>a DEF OneCall
<1> USE DEF CodesInv, OneCall, Codes!Blocking
<1>1. CodesTypesOK'
  BY <1>a, <1>b DEF CodesTypesOK, BlockingInv, RegisterInv, LoginInv, Codes!Answer, Codes!CodeSent,
         Codes!Left, Codes!OpenForm, Codes!server
<1>2. BlockingInv'
  BY <1>a, <1>b DEF CodesTypesOK, BlockingInv, RegisterInv, LoginInv, Codes!Answer, Codes!CodeSent,
         Codes!Left, Codes!OpenForm, Codes!server
<1>3. RegisterInv'
  BY <1>a, <1>b DEF CodesTypesOK, BlockingInv, RegisterInv, LoginInv, Codes!Answer, Codes!CodeSent,
         Codes!Left, Codes!OpenForm, Codes!server
<1>4. LoginInv'
  BY <1>a, <1>b DEF CodesTypesOK, BlockingInv, RegisterInv, LoginInv, Codes!Answer, Codes!CodeSent,
         Codes!Left, Codes!OpenForm, Codes!server
<1> QED
  BY <1>1, <1>2, <1>3, <1>4

LEMMA CodesVerified ==
  ASSUME CodesInv, None \notin Addresses, CodesApart,
         NEW c \in calls, Codes!Answer(c), Codes!Verified(c)
  PROVE  CodesInv'
<1>a. calls' = calls \ {c} /\ c \in CodeRequests /\ c.address \in Addresses \union {None}
  BY DEF Codes!Answer, CodesInv, CodesTypesOK, CodeRequests
<1>b. OneCall => calls' = {}
  BY <1>a DEF OneCall
<1> USE DEF CodesInv, OneCall, Codes!Blocking
<1>1. CodesTypesOK'
  BY <1>a, <1>b DEF CodesTypesOK, BlockingInv, RegisterInv, LoginInv, Codes!Answer, Codes!Verified,
         Codes!Left, Codes!OpenForm, Codes!server
<1>2. BlockingInv'
  BY <1>a, <1>b DEF CodesTypesOK, BlockingInv, RegisterInv, LoginInv, Codes!Answer, Codes!Verified,
         Codes!Left, Codes!OpenForm, Codes!server
<1>3. RegisterInv'
  BY <1>a, <1>b DEF CodesTypesOK, BlockingInv, RegisterInv, LoginInv, Codes!Answer, Codes!Verified,
         Codes!Left, Codes!OpenForm, Codes!server
<1>4. LoginInv'
  BY <1>a, <1>b DEF CodesTypesOK, BlockingInv, RegisterInv, LoginInv, Codes!Answer, Codes!Verified,
         Codes!Left, Codes!OpenForm, Codes!server
<1> QED
  BY <1>1, <1>2, <1>3, <1>4

LEMMA CodesConfirmed ==
  ASSUME CodesInv, None \notin Addresses, CodesApart,
         NEW c \in calls, Codes!Answer(c), Codes!Confirmed(c)
  PROVE  CodesInv'
<1>a. calls' = calls \ {c} /\ c \in CodeRequests /\ c.address \in Addresses \union {None}
  BY DEF Codes!Answer, CodesInv, CodesTypesOK, CodeRequests
<1>b. OneCall => calls' = {}
  BY <1>a DEF OneCall
<1> USE DEF CodesInv, OneCall, Codes!Blocking
<1>1. CodesTypesOK'
  BY <1>a, <1>b DEF CodesTypesOK, BlockingInv, RegisterInv, LoginInv, Codes!Answer, Codes!Confirmed,
         Codes!Left, Codes!OpenForm, Codes!server
<1>2. BlockingInv'
  BY <1>a, <1>b DEF CodesTypesOK, BlockingInv, RegisterInv, LoginInv, Codes!Answer, Codes!Confirmed,
         Codes!Left, Codes!OpenForm, Codes!server
<1>3. RegisterInv'
  BY <1>a, <1>b DEF CodesTypesOK, BlockingInv, RegisterInv, LoginInv, Codes!Answer, Codes!Confirmed,
         Codes!Left, Codes!OpenForm, Codes!server
<1>4. LoginInv'
  BY <1>a, <1>b DEF CodesTypesOK, BlockingInv, RegisterInv, LoginInv, Codes!Answer, Codes!Confirmed,
         Codes!Left, Codes!OpenForm, Codes!server
<1> QED
  BY <1>1, <1>2, <1>3, <1>4

LEMMA CodesLoggedIn ==
  ASSUME CodesInv, None \notin Addresses, CodesApart,
         NEW c \in calls, Codes!Answer(c), Codes!LoggedIn(c)
  PROVE  CodesInv'
<1>a. calls' = calls \ {c} /\ c \in CodeRequests /\ c.address \in Addresses \union {None}
  BY DEF Codes!Answer, CodesInv, CodesTypesOK, CodeRequests
<1>b. OneCall => calls' = {}
  BY <1>a DEF OneCall
<1> USE DEF CodesInv, OneCall, Codes!Blocking
<1>1. CodesTypesOK'
  BY <1>a, <1>b DEF CodesTypesOK, BlockingInv, RegisterInv, LoginInv, Codes!Answer, Codes!LoggedIn,
         Codes!Left, Codes!OpenForm, Codes!server
<1>2. BlockingInv'
  BY <1>a, <1>b DEF CodesTypesOK, BlockingInv, RegisterInv, LoginInv, Codes!Answer, Codes!LoggedIn,
         Codes!Left, Codes!OpenForm, Codes!server
<1>3. RegisterInv'
  BY <1>a, <1>b DEF CodesTypesOK, BlockingInv, RegisterInv, LoginInv, Codes!Answer, Codes!LoggedIn,
         Codes!Left, Codes!OpenForm, Codes!server
<1>4. LoginInv'
  BY <1>a, <1>b DEF CodesTypesOK, BlockingInv, RegisterInv, LoginInv, Codes!Answer, Codes!LoggedIn,
         Codes!Left, Codes!OpenForm, Codes!server
<1> QED
  BY <1>1, <1>2, <1>3, <1>4

LEMMA CodesFailed ==
  ASSUME CodesInv, None \notin Addresses, CodesApart,
         NEW c \in calls, Codes!Answer(c), Codes!Failed(c)
  PROVE  CodesInv'
<1>a. calls' = calls \ {c} /\ c \in CodeRequests /\ c.address \in Addresses \union {None}
  BY DEF Codes!Answer, CodesInv, CodesTypesOK, CodeRequests
<1>b. OneCall => calls' = {}
  BY <1>a DEF OneCall
<1> USE DEF CodesInv, OneCall, Codes!Blocking
<1>1. CodesTypesOK'
  BY <1>a, <1>b DEF CodesTypesOK, BlockingInv, RegisterInv, LoginInv, Codes!Answer, Codes!Failed,
         Codes!Left, Codes!OpenForm, Codes!server
<1>2. BlockingInv'
  BY <1>a, <1>b DEF CodesTypesOK, BlockingInv, RegisterInv, LoginInv, Codes!Answer, Codes!Failed,
         Codes!Left, Codes!OpenForm, Codes!server
<1>3. RegisterInv'
  BY <1>a, <1>b DEF CodesTypesOK, BlockingInv, RegisterInv, LoginInv, Codes!Answer, Codes!Failed,
         Codes!Left, Codes!OpenForm, Codes!server
<1>4. LoginInv'
  BY <1>a, <1>b DEF CodesTypesOK, BlockingInv, RegisterInv, LoginInv, Codes!Answer, Codes!Failed,
         Codes!Left, Codes!OpenForm, Codes!server
<1> QED
  BY <1>1, <1>2, <1>3, <1>4

LEMMA CodesStep ==
  ASSUME CodesInv, [Codes!Next]_Codes!vars, None \notin Addresses, CodesApart
  PROVE  CodesInv'
<1>1. CASE UNCHANGED Codes!vars
  BY <1>1 DEF Codes!vars, Codes!screen, Codes!server, Codes!ghosts, CodesInv, CodesTypesOK,
              BlockingInv, RegisterInv, LoginInv, OneCall
<1>2. ASSUME NEW c \in calls, Codes!Handle(c) \/ Codes!Refuse(c) \/ Codes!Answer(c)
      PROVE  CodesInv'
  BY <1>2, CodesServed, CodesCodeSent, CodesVerified, CodesConfirmed, CodesLoggedIn, CodesFailed
     DEF Codes!Answer
<1> QED
  BY <1>1, <1>2, CodesEdit, CodesSendOtp, CodesResend, CodesVerify, CodesConfirm, CodesLogin,
     CodesTimes DEF Codes!Next

(* What the screens of a code show and store is the address and the account *)
(* the user is dealing with, unless an input was edited under a request or *)
(* two requests overlapped (forgot-password-flow.tsx:80-176,               *)
(* auth_bloc.dart:60-233).                                                 *)
THEOREM CodesAreExplained ==
  ASSUME None \notin Addresses, CodesApart
  PROVE  RequestsSpec => [](side = "codes" => Codes!CodesExplained)
<1> DEFINE Inv == side = "codes" => CodesInv
<1>1. RequestsInit => Inv
  BY CodesBegin DEF RequestsInit
<1>2. ASSUME Inv, [RequestsNext]_<<side, faults, apiVars, screenVars>>
      PROVE  Inv'
  <2> SUFFICES ASSUME side' = "codes"
               PROVE  CodesInv'
    OBVIOUS
  <2>1. side = "codes" /\ CodesInv
    BY <1>2 DEF RequestsNext
  <2>2. Codes!Next \/ UNCHANGED <<faults, codeVars>>
    BY <1>2, <2>1 DEF RequestsNext, ApiNext, StaffNext, ScreensNext, screenVars
  <2>3. [Codes!Next]_Codes!vars
    BY <2>2 DEF codeVars, Codes!vars, Codes!screen, Codes!server, Codes!ghosts
  <2> QED
    BY <2>1, <2>3, CodesStep
<1>3. Inv => (side = "codes" => Codes!CodesExplained)
  <2> SUFFICES ASSUME CodesInv
               PROVE  Codes!CodesExplained
    OBVIOUS
  <2> USE DEF CodesInv, CodesTypesOK, BlockingInv, RegisterInv, LoginInv, Codes!Blocking, Codes!Named
  <2>1. Codes!NamesTheAddress
    BY DEF Codes!NamesTheAddress
  <2>2. Codes!ProofIsShown /\ Codes!OpenedForAccount /\ Codes!CountdownIsTrue
    BY DEF Codes!ProofIsShown, Codes!OpenedForAccount, Codes!CountdownIsTrue
  <2> QED
    BY <2>1, <2>2 DEF Codes!CodesExplained
<1> QED
  BY <1>1, <1>2, <1>3, PTL DEF RequestsSpec

-----------------------------------------------------------------------------
(***************************************************************************)
(* The first pages.  The splash's timer outlives its page only after a     *)
(* tap; a session that is on its way is the only one, but for a second     *)
(* press at the gate.                                                      *)
(***************************************************************************)
Fetches == [id : Nat, gone : BOOLEAN]
Awaited(S) == \E a \in S : ~a.gone
OneAwaited(S) == \A a, b \in S : ~a.gone /\ ~b.gone => a = b

StepsTypesOK ==
  /\ at \in {"onboarding", "login", "registration", "home", "policies"}
  /\ stage \in 0..4 /\ timer \in BOOLEAN /\ introduced \in BOOLEAN /\ wasSeen \in BOOLEAN
  /\ tapped \in BOOLEAN /\ rewound \in BOOLEAN /\ creating \in BOOLEAN
  /\ pressedAgain \in BOOLEAN
  /\ fetched \subseteq Fetches /\ wizards \in Seq(Nat) /\ numbered \in Nat

SplashInv ==
  /\ timer /\ stage # 0 => tapped
  /\ First!BackExplained /\ First!SeenOnce

SessionsInv ==
  /\ \/ pressedAgain
     \/ OneAwaited(fetched) /\ Len(wizards) <= 1 /\ (Awaited(fetched) => wizards = <<>>)
  /\ at # "onboarding" => OneAwaited(fetched) /\ (Awaited(fetched) => creating)
  /\ First!HeldIsAsked

StepsInv == StepsTypesOK /\ SplashInv /\ SessionsInv

LEMMA NoWizards == <<>> \in Seq(Nat) /\ Len(<<>>) = 0
  OBVIOUS

LEMMA Started ==
  ASSUME NEW seenBefore \in BOOLEAN
  PROVE  /\ First!Begin(seenBefore).timer \in BOOLEAN
         /\ First!Begin(seenBefore).at \in {"login", "onboarding"}
         /\ First!Begin(seenBefore).at = "onboarding" => ~seenBefore
  BY DEF First!Begin

LEMMA StepsBegin ==
  ASSUME First!Init
  PROVE  StepsInv
<1> DEFINE begun == First!Begin(introduced)
<1>a. introduced \in BOOLEAN
  BY DEF First!Init
<1>b. begun.timer \in BOOLEAN /\ begun.at \in {"login", "onboarding"}
      /\ (begun.at = "onboarding" => ~introduced)
  BY <1>a, Started
<1>c. at = begun.at /\ timer = begun.timer /\ wasSeen = introduced
  BY DEF First!Init
<1> HIDE DEF begun
<1>1. StepsTypesOK /\ SplashInv
  <2>1. wizards \in Seq(Nat) /\ fetched \subseteq Fetches
    BY NoWizards DEF First!Init
  <2>2. /\ tapped \in BOOLEAN /\ rewound \in BOOLEAN /\ creating \in BOOLEAN
        /\ pressedAgain \in BOOLEAN
    BY DEF First!Init
  <2>3. timer \in BOOLEAN /\ introduced \in BOOLEAN /\ wasSeen \in BOOLEAN
    BY <1>a, <1>b, <1>c
  <2>4. at \in {"onboarding", "login", "registration", "home", "policies"}
    BY <1>b, <1>c
  <2>5. stage \in 0..4 /\ numbered \in Nat
    BY DEF First!Init
  <2>6. SplashInv
    BY <1>b, <1>c DEF First!Init, SplashInv, First!BackExplained, First!SeenOnce
  <2> QED
    BY <2>1, <2>2, <2>3, <2>4, <2>5, <2>6 DEF StepsTypesOK
<1>2. SessionsInv
  BY NoWizards DEF First!Init, SessionsInv, OneAwaited, Awaited, First!HeldIsAsked
<1> QED
  BY <1>1, <1>2 DEF StepsInv

(* The onboarding's pages. *)
LEMMA StepsAdvance ==
  ASSUME StepsInv, NEW n \in {1, stage + 1, 4}, n \in 0..4, First!AdvanceTo(n),
         UNCHANGED <<at, wasSeen, First!scanVars>>,
         \/ n >= stage /\ UNCHANGED timer /\ (stage = 0 => tapped') /\ (tapped => tapped')
         \/ timer /\ ~timer' /\ UNCHANGED tapped,
         tapped' \in BOOLEAN, timer' \in BOOLEAN
  PROVE  StepsInv'
<1> USE DEF StepsInv, StepsTypesOK
<1>1. StepsTypesOK'
  BY DEF First!AdvanceTo, First!scanVars
<1>2. SplashInv'
  <2>1. \/ n >= stage /\ ~(n < stage) /\ UNCHANGED timer /\ (stage = 0 => tapped') /\ (tapped => tapped')
        \/ timer /\ ~timer' /\ UNCHANGED tapped /\ (n < stage => stage # 0)
    OBVIOUS
  <2>2. First!BackExplained'
    BY <2>1 DEF First!AdvanceTo, SplashInv, First!BackExplained
  <2>3. timer' /\ stage' # 0 => tapped'
    BY <2>1 DEF SplashInv
  <2>4. First!SeenOnce'
    BY DEF First!AdvanceTo, SplashInv, First!SeenOnce
  <2> QED
    BY <2>2, <2>3, <2>4 DEF SplashInv
<1>3. SessionsInv'
  BY DEF SessionsInv, First!HeldIsAsked, First!scanVars
<1> QED
  BY <1>1, <1>2, <1>3

(* Another page: whoever asked is gone. *)
LEMMA StepsGoTo ==
  ASSUME StepsInv, NEW place \in {"login", "registration", "home", "policies"}, First!GoTo(place)
  PROVE  StepsInv'
<1> USE DEF StepsInv
<1>1. \A a \in fetched : [a EXCEPT !.gone = TRUE] \in Fetches /\ [a EXCEPT !.gone = TRUE].gone
  BY DEF StepsTypesOK, Fetches
<1>2. fetched' \subseteq Fetches /\ \A a \in fetched' : a.gone
  BY <1>1 DEF First!GoTo
<1>3. StepsTypesOK'
  BY <1>2, NoWizards DEF First!GoTo, StepsTypesOK
<1>4. SplashInv'
  BY DEF First!GoTo, StepsTypesOK, SplashInv, First!BackExplained, First!SeenOnce
<1>5. SessionsInv'
  BY <1>2, NoWizards DEF First!GoTo, SessionsInv, OneAwaited, Awaited, First!HeldIsAsked
<1> QED
  BY <1>3, <1>4, <1>5

LEMMA StepsRestart ==
  ASSUME StepsInv, First!Restart
  PROVE  StepsInv'
<1> USE DEF StepsInv
<1> DEFINE begun == First!Begin(introduced)
<1>a. introduced \in BOOLEAN
  BY DEF StepsTypesOK
<1>b. begun.timer \in BOOLEAN /\ begun.at \in {"login", "onboarding"}
      /\ (begun.at = "onboarding" => ~introduced)
  BY <1>a, Started
<1>c. at' = begun.at /\ timer' = begun.timer /\ wasSeen' = introduced
  BY DEF First!Restart
<1> HIDE DEF begun
<1>1. StepsTypesOK'
  <2>1. wizards' \in Seq(Nat) /\ fetched' \subseteq Fetches
    BY NoWizards DEF First!Restart
  <2>2. /\ tapped' \in BOOLEAN /\ rewound' \in BOOLEAN /\ creating' \in BOOLEAN
        /\ pressedAgain' \in BOOLEAN
    BY DEF First!Restart
  <2>3. timer' \in BOOLEAN /\ introduced' \in BOOLEAN /\ wasSeen' \in BOOLEAN
    BY <1>a, <1>b, <1>c DEF First!Restart
  <2>4. at' \in {"onboarding", "login", "registration", "home", "policies"}
    BY <1>b, <1>c
  <2>5. stage' \in 0..4 /\ numbered' \in Nat
    BY DEF First!Restart, StepsTypesOK
  <2> QED
    BY <2>1, <2>2, <2>3, <2>4, <2>5 DEF StepsTypesOK
<1>2. SplashInv'
  BY <1>b, <1>c DEF First!Restart, StepsTypesOK, SplashInv, First!BackExplained, First!SeenOnce
<1>3. SessionsInv'
  BY NoWizards DEF First!Restart, SessionsInv, OneAwaited, Awaited, First!HeldIsAsked
<1> QED
  BY <1>1, <1>2, <1>3

(* A session is asked for. *)
LEMMA StepsAsk ==
  ASSUME StepsInv, First!ScanFromGate \/ First!ScanFromPage
  PROVE  StepsInv'
<1> DEFINE new == [id |-> numbered', gone |-> FALSE]
<1> USE DEF StepsInv
<1>1. fetched' = fetched \union {new} /\ numbered' \in Nat /\ wizards = <<>> /\ wizards' = wizards
  BY DEF First!ScanFromGate, First!ScanFromPage, First!Ask, First!Here, StepsTypesOK
<1>2. new \in Fetches /\ ~new.gone
  BY <1>1 DEF Fetches
<1> HIDE DEF new
<1>3. StepsTypesOK'
  BY <1>1, <1>2 DEF First!ScanFromGate, First!ScanFromPage, First!pageVars, StepsTypesOK
<1>4. SplashInv'
  BY DEF First!ScanFromGate, First!ScanFromPage, First!pageVars, SplashInv, First!BackExplained,
         First!SeenOnce
<1>5. ~Awaited(fetched) => OneAwaited(fetched')
  BY <1>1 DEF Awaited, OneAwaited
<1>6. Awaited(fetched')
  BY <1>1, <1>2 DEF Awaited
<1>7. SessionsInv'
  <2>1. CASE First!ScanFromGate
    <3>1. pressedAgain' \/ (~Awaited(fetched) /\ ~pressedAgain)
      BY <2>1 DEF First!ScanFromGate, Awaited
    <3>2. at' = "onboarding"
      BY <2>1 DEF First!ScanFromGate, First!Here, First!pageVars
    <3> QED
      BY <1>1, <1>5, <1>6, <3>1, <3>2 DEF SessionsInv, First!HeldIsAsked, Awaited
  <2>2. CASE First!ScanFromPage
    <3>1. ~Awaited(fetched)
      BY <2>2 DEF First!ScanFromPage, SessionsInv
    <3> QED
      BY <1>1, <1>5, <1>6, <2>2, <3>1 DEF First!ScanFromPage, SessionsInv, First!HeldIsAsked, Awaited
  <2> QED
    BY <2>1, <2>2
<1> QED
  BY <1>3, <1>4, <1>7

LEMMA StepsAnswered ==
  ASSUME StepsInv, NEW a \in fetched, First!SessionMade(a) \/ First!SessionRefused(a)
  PROVE  StepsInv'
<1> USE DEF StepsInv
<1>1. fetched' = fetched \ {a} /\ a \in Fetches
  BY DEF First!SessionMade, First!SessionRefused, StepsTypesOK
<1>2. \/ wizards' = wizards
      \/ ~a.gone /\ wizards' = Append(wizards, a.id)
  BY DEF First!SessionMade, First!SessionRefused
<1>3. wizards' \in Seq(Nat)
  BY <1>1, <1>2 DEF StepsTypesOK, Fetches
<1>4. StepsTypesOK'
  BY <1>1, <1>3 DEF First!SessionMade, First!SessionRefused, First!pageVars, StepsTypesOK, Fetches
<1>5. SplashInv'
  BY DEF First!SessionMade, First!SessionRefused, First!pageVars, SplashInv, First!BackExplained,
         First!SeenOnce
<1>6. OneAwaited(fetched) => OneAwaited(fetched')
  BY <1>1 DEF OneAwaited
<1>7. Awaited(fetched') => Awaited(fetched)
  BY <1>1 DEF Awaited
<1>8. a.gone /\ Awaited(fetched) => Awaited(fetched')
  BY <1>1 DEF Awaited
<1>9. ~a.gone => Awaited(fetched) /\ (OneAwaited(fetched) => ~Awaited(fetched'))
  BY <1>1 DEF Awaited, OneAwaited
<1>10. wizards = <<>> => Len(wizards') <= 1
  <2>1. wizards \in Seq(Nat) /\ a.id \in Nat
    BY <1>1 DEF StepsTypesOK, Fetches
  <2>2. Len(Append(wizards, a.id)) = Len(wizards) + 1
    BY <2>1
  <2>3. ASSUME wizards = <<>>
        PROVE  Len(wizards') = 0 \/ Len(wizards') = 1
    BY <1>2, <2>2, <2>3, NoWizards
  <2>4. \A n : n = 0 \/ n = 1 => n <= 1
    OBVIOUS
  <2> QED
    BY <2>3, <2>4
<1>11. UNCHANGED <<at, pressedAgain>>
  BY DEF First!SessionMade, First!SessionRefused, First!pageVars
<1>12. /\ a.gone => creating' = creating /\ wizards' = wizards
       /\ ~a.gone => creating' = FALSE
  BY DEF First!SessionMade, First!SessionRefused, StepsTypesOK
<1>13. First!HeldIsAsked'
  BY <1>8, <1>12 DEF SessionsInv, First!HeldIsAsked, Awaited
<1>14. SessionsInv'
  BY <1>6, <1>7, <1>8, <1>9, <1>10, <1>11, <1>12, <1>13 DEF SessionsInv
<1> QED
  BY <1>4, <1>5, <1>14

LEMMA StepsClose ==
  ASSUME StepsInv, First!CloseScan
  PROVE  StepsInv'
<1> USE DEF StepsInv
<1>1. wizards' \in Seq(Nat) /\ Len(wizards') = Len(wizards) - 1
  <2>1. wizards \in Seq(Nat) /\ Len(wizards) \in Nat /\ wizards # <<>>
    BY DEF First!CloseScan, StepsTypesOK
  <2>2. Len(wizards) # 0
    BY <2>1
  <2>3. /\ SubSeq(wizards, 1, Len(wizards) - 1) \in Seq(Nat)
        /\ Len(SubSeq(wizards, 1, Len(wizards) - 1)) = Len(wizards) - 1
    <3>1. \A i \in 1..(Len(wizards) - 1) : wizards[i] \in Nat
      BY <2>1
    <3>2. Len(wizards) - 1 \in Int /\ Len(wizards) >= 1
      BY <2>1, <2>2
    <3> DEFINE n == Len(wizards) - 1
    <3>3. /\ SubSeq(wizards, 1, n) \in Seq(Nat)
          /\ Len(SubSeq(wizards, 1, n)) = IF 1 <= n THEN n - 1 + 1 ELSE 0
      <4> HIDE DEF n
      <4> QED
        BY <3>1, <3>2, SubSeqProperties DEF n
    <3>4. (IF 1 <= n THEN n - 1 + 1 ELSE 0) = n
      <4>1. n \in Nat
        BY <2>1, <3>2
      <4> HIDE DEF n
      <4> QED
        BY <4>1
    <3> QED
      BY <3>3, <3>4
  <2> QED
    BY <2>3 DEF First!CloseScan
<1>2. StepsTypesOK'
  BY <1>1 DEF First!CloseScan, First!pageVars, StepsTypesOK
<1>3. SplashInv'
  BY DEF First!CloseScan, First!pageVars, SplashInv, First!BackExplained, First!SeenOnce
<1>4. Len(wizards) \in Nat
  BY DEF StepsTypesOK
<1>5. SessionsInv'
  BY <1>1, <1>4 DEF First!CloseScan, First!pageVars, SessionsInv, First!HeldIsAsked
<1> QED
  BY <1>2, <1>3, <1>5

LEMMA StepsStep ==
  ASSUME StepsInv, [First!Next]_First!vars
  PROVE  StepsInv'
<1>1. CASE UNCHANGED First!vars
  BY <1>1 DEF First!vars, First!pageVars, First!scanVars, StepsInv, StepsTypesOK, SplashInv,
              SessionsInv, First!BackExplained, First!SeenOnce, First!HeldIsAsked
<1>2. CASE First!Splash \/ First!TimerFires \/ First!NextSlide \/ First!Skip
  <2>1. CASE First!Splash
    BY <2>1, StepsAdvance DEF First!Splash, First!Here, StepsInv, StepsTypesOK
  <2>2. CASE First!TimerFires
    <3>1. /\ timer /\ ~timer' /\ First!AdvanceTo(1)
          /\ UNCHANGED <<at, wasSeen, tapped, First!scanVars>>
      BY <2>2 DEF First!TimerFires
    <3>2. tapped' \in BOOLEAN /\ timer' \in BOOLEAN
      BY <2>2 DEF First!TimerFires, StepsInv, StepsTypesOK
    <3> QED
      BY <3>1, <3>2, StepsAdvance
  <2>3. CASE First!NextSlide
    BY <2>3, StepsAdvance DEF First!NextSlide, StepsInv, StepsTypesOK
  <2>4. CASE First!Skip
    BY <2>4, StepsAdvance DEF First!Skip, StepsInv, StepsTypesOK
  <2> QED
    BY <1>2, <2>1, <2>2, <2>3, <2>4
<1>3. ASSUME NEW i \in Interests, First!Toggle(i)
      PROVE  StepsInv'
  BY <1>3 DEF First!Toggle, First!scanVars, StepsInv, StepsTypesOK, SplashInv,
              SessionsInv, First!BackExplained, First!SeenOnce, First!HeldIsAsked
<1>4. ASSUME \/ First!LogIn \/ First!LogOut \/ First!ToPolicies \/ First!ToHome
             \/ \E p \in {"login", "registration"} : First!Leave(p)
      PROVE  StepsInv'
  BY <1>4, StepsGoTo DEF First!LogIn, First!LogOut, First!ToPolicies, First!ToHome, First!Leave
<1> QED
  BY <1>1, <1>2, <1>3, <1>4, StepsRestart, StepsAsk, StepsAnswered, StepsClose DEF First!Next

(* The onboarding goes back only under who tapped the splash away, is not  *)
(* gone through twice, and two wizards lie one over another only for a     *)
(* second press at the gate (onboarding_screen.dart:41-118,                *)
(* entry_gate_step.dart:24-60).                                            *)
THEOREM StepsAreExplained == RequestsSpec => [](side = "first" => First!StepsExplained)
<1> DEFINE Inv == side = "first" => StepsInv
<1>1. RequestsInit => Inv
  BY StepsBegin DEF RequestsInit
<1>2. ASSUME Inv, [RequestsNext]_<<side, faults, apiVars, screenVars>>
      PROVE  Inv'
  <2> SUFFICES ASSUME side' = "first"
               PROVE  StepsInv'
    OBVIOUS
  <2>1. side = "first" /\ StepsInv
    BY <1>2 DEF RequestsNext
  <2>2. First!Next \/ UNCHANGED <<faults, firstVars>>
    BY <1>2, <2>1 DEF RequestsNext, ApiNext, StaffNext, ScreensNext, screenVars
  <2>3. [First!Next]_First!vars
    BY <2>2 DEF firstVars, First!vars, First!pageVars, First!scanVars
  <2> QED
    BY <2>1, <2>3, StepsStep
<1>3. Inv => (side = "first" => First!StepsExplained)
  <2> SUFFICES ASSUME StepsInv
               PROVE  First!StepsExplained
    OBVIOUS
  <2>1. First!OneScan
    BY DEF First!OneScan, StepsInv, StepsTypesOK, SessionsInv
  <2> QED
    BY <2>1 DEF First!StepsExplained, StepsInv, SplashInv, SessionsInv
<1> QED
  BY <1>1, <1>2, <1>3, PTL DEF RequestsSpec

-----------------------------------------------------------------------------
(* A sequence without one of its elements. *)
LEMMA OneRemoved ==
  ASSUME NEW S, NEW s \in Seq(S), NEW i \in 1..Len(s)
  PROVE  LET t == SubSeq(s, 1, i - 1) \o SubSeq(s, i + 1, Len(s))
         IN  /\ t \in Seq(S) /\ Len(t) = Len(s) - 1
             /\ \A a \in 1..Len(t) : t[a] = s[IF a < i THEN a ELSE a + 1]
<1> DEFINE n == Len(s)
           m == i - 1
           k == i + 1
           before == SubSeq(s, 1, m)
           after == SubSeq(s, k, n)
<1>1. n \in Nat /\ m \in 0..n /\ k \in 1..(n + 1) /\ m \in Int /\ k \in Int /\ 1 \in Int /\ n \in Int
  OBVIOUS
<1>2. (\A a \in 1..m : s[a] \in S) /\ (\A a \in k..n : s[a] \in S)
  BY <1>1
<1> HIDE DEF n, m, k
<1>3. /\ before \in Seq(S) /\ Len(before) = IF 1 <= m THEN m - 1 + 1 ELSE 0
      /\ \A a \in 1..m - 1 + 1 : before[a] = s[1 + a - 1]
  BY <1>1, <1>2, SubSeqProperties
<1>4. /\ after \in Seq(S) /\ Len(after) = IF k <= n THEN n - k + 1 ELSE 0
      /\ \A a \in 1..n - k + 1 : after[a] = s[k + a - 1]
  BY <1>1, <1>2, SubSeqProperties
<1>5. Len(before) = m /\ Len(after) = n - m - 1 /\ k = m + 2 /\ m + 1 <= n
  BY <1>1, <1>3, <1>4 DEF k, m, n
<1> DEFINE t == before \o after
<1>6. t = SubSeq(s, 1, i - 1) \o SubSeq(s, i + 1, Len(s))
  BY DEF n, m, k
<1> HIDE DEF before, after
<1>7. /\ t \in Seq(S) /\ Len(t) = Len(before) + Len(after)
      /\ \A a \in 1..Len(t) : t[a] = IF a <= Len(before) THEN before[a] ELSE after[a - Len(before)]
  BY <1>3, <1>4
<1>8. Len(t) = n - 1
  BY <1>1, <1>5, <1>7
<1>9. \A a \in 1..Len(t) : t[a] = s[IF a < i THEN a ELSE a + 1]
  <2> SUFFICES ASSUME NEW a \in 1..Len(t)
               PROVE  t[a] = s[IF a < i THEN a ELSE a + 1]
    OBVIOUS
  <2>1. a \in Nat /\ a >= 1 /\ a <= n - 1
    BY <1>1, <1>8
  <2>2. CASE a < i
    <3>1. a <= m /\ a \in 1..m - 1 + 1 /\ 1 + a - 1 = a
      BY <1>1, <2>1, <2>2 DEF m
    <3> QED
      BY <1>3, <1>5, <1>7, <2>2, <3>1
  <2>3. CASE ~(a < i)
    <3>1. ~(a <= m) /\ a - m \in 1..n - k + 1 /\ k + (a - m) - 1 = a + 1
      BY <1>1, <1>5, <2>1, <2>3 DEF m
    <3>2. t[a] = after[a - m]
      BY <1>5, <1>7, <3>1
    <3>3. after[a - m] = s[k + (a - m) - 1]
      BY <1>4, <3>1
    <3> QED
      BY <2>3, <3>1, <3>2, <3>3
  <2> QED
    BY <2>2, <2>3
<1> HIDE DEF t
<1> QED
  BY <1>6, <1>7, <1>8, <1>9 DEF n

(* A sequence whose last element is taken off, and another put in its place. *)
LEMMA LastReplaced ==
  ASSUME NEW S, NEW s \in Seq(S), s # <<>>, NEW e \in S
  PROVE  LET below == SubSeq(s, 1, Len(s) - 1)
             t == Append(below, e)
         IN  /\ Len(s) \in 1..Len(s) /\ s[Len(s)] \in S
             /\ below \in Seq(S) /\ Len(below) = Len(s) - 1
             /\ \A i \in 1..Len(below) : i \in 1..Len(s) /\ below[i] = s[i]
             /\ t \in Seq(S)
             /\ \A i \in 1..Len(t) : \/ i \in 1..Len(s) /\ t[i] = s[i]
                                     \/ t[i] = e
<1> DEFINE n == Len(s)
           m == n - 1
           below == SubSeq(s, 1, m)
<1>1. n \in Nat /\ n >= 1
  BY EmptySeq, LenProperties
<1>2. n \in 1..n /\ s[n] \in S /\ m \in Int /\ 1 \in Int /\ \A i \in 1..m : s[i] \in S
  BY <1>1
<1> HIDE DEF n, m
<1>3. /\ below \in Seq(S) /\ Len(below) = IF 1 <= m THEN m - 1 + 1 ELSE 0
      /\ \A i \in 1..m - 1 + 1 : below[i] = s[1 + i - 1]
  BY <1>2, SubSeqProperties
<1>4. Len(below) = m
  BY <1>1, <1>3 DEF m
<1>5. \A i \in 1..Len(below) : i \in 1..n /\ below[i] = s[i]
  <2> SUFFICES ASSUME NEW i \in 1..m
               PROVE  i \in 1..n /\ below[i] = s[i]
    BY <1>4
  <2>1. i \in 1..n /\ i \in 1..m - 1 + 1 /\ 1 + i - 1 = i
    BY <1>1, <1>2 DEF m
  <2> QED
    BY <1>3, <2>1
<1> HIDE DEF below
<1> DEFINE t == Append(below, e)
<1>6. /\ t \in Seq(S) /\ Len(t) = Len(below) + 1
      /\ \A i \in 1..Len(below) : t[i] = below[i]
      /\ t[Len(below) + 1] = e
  BY <1>3, AppendProperties
<1>7. \A i \in 1..Len(t) : i \in 1..Len(below) \/ i = Len(below) + 1
  BY <1>2, <1>4, <1>6
<1> HIDE DEF t
<1>8. \A i \in 1..Len(t) : (i \in 1..n /\ t[i] = s[i]) \/ t[i] = e
  BY <1>5, <1>6, <1>7
<1> QED
  BY <1>2, <1>3, <1>4, <1>5, <1>6, <1>8 DEF t, below, m, n

-----------------------------------------------------------------------------
(***************************************************************************)
(* The choice of a vehicle.  Until the picker has moved on under a choice, *)
(* what it has found is as far as its look-up is, and its form says the    *)
(* same; an open sheet waits for its query or lists it.                    *)
(***************************************************************************)
Vehicles == [make : Makes \union {None}, model : Picker!AllModels \union {None},
             mod : Picker!AllModifications \union {None}]
FormTexts == [make : Makes \union {None}, model : Picker!AllModels \union {None},
              mod : Picker!AllModifications \union {None},
              power : Picker!AllModifications \union {None, "talon"}]
ChoiceSheets == [kind : {"make", "model", "mod"}, make : Makes \union {None},
                 model : Picker!AllModels \union {None}, typed : Nat, waiting : SUBSET Nat,
                 items : Nat, failed : BOOLEAN]

OneVehicle(v) ==
  /\ v.model # None => v.model.make = v.make
  /\ v.mod # None => v.mod.model = v.model

PickTypesOK ==
  /\ host \in {"results", "validation"}
  /\ read \in Vehicles /\ OneVehicle(read) /\ texts \in Vehicles /\ picked \in Vehicles /\ choice \in FormTexts
  /\ auto \in {None, "make", "model", "mod"} /\ mounts \in Nat /\ mounts > 0 /\ picks \in Nat
  /\ lists \in Seq(Vehicles) /\ sheets \in Seq(ChoiceSheets)
  /\ chosen # None => touched \/ rebuilt

(* How far the look-up is, when nothing was chosen meanwhile. *)
Stage ==
  ~touched =>
    /\ auto = "make" => picked = Picker!Nothing
    /\ auto = "model" => picked = Picker!Choice(texts.make, None, None)
    /\ auto = "mod" => picked = Picker!Choice(texts.make, texts.model, None)

Says ==
  picked.make # None =>
    /\ choice.make = picked.make /\ choice.model = picked.model
    /\ host = "results" => choice.mod = picked.mod
    /\ picked.mod # None /\ Picker!HasPower(picked.mod) => choice.power = picked.mod

Straight ==
  ~crossed =>
    /\ OneVehicle(texts) /\ OneVehicle(picked) /\ Stage /\ Says
    /\ choice.model # None => choice.model.make = choice.make
    /\ chosen # None => choice.make = chosen \/ rebuilt
    /\ \A i \in 1..Len(lists) : OneVehicle(lists[i])

(* The form until the first choice. *)
ReadInv ==
  picks = 0 /\ ~unknown /\ ~(host = "validation" /\ mounts > 1) =>
    /\ texts = read
    /\ auto = None => choice.model = read.model
    /\ read.make = None => auto = None /\ choice.model = read.model

SheetOK(s, late, moved) ==
  /\ s.waiting \subseteq 1..s.typed
  /\ s.typed \in s.waiting \/ s.failed \/ s.items = s.typed \/ late
  /\ s.model = None \/ s.model.make = s.make \/ moved

SheetInv == \A i \in 1..Len(sheets) : SheetOK(sheets[i], disordered, crossed)

PickerInv == PickTypesOK /\ Straight /\ ReadInv /\ SheetInv

(* There is a make to choose, and the placeholder is no kind of sheet.     *)
PickerBounds == Makes # {} /\ None \notin {"make", "model", "mod"}

LEMMA Read ==
  ASSUME PickerBounds, NEW r \in Picker!Readings
  PROVE  r \in Vehicles /\ OneVehicle(r)
<1> DEFINE k == CHOOSE mk \in Makes : TRUE
           m == [make |-> k, no |-> 1]
           v == [model |-> m, no |-> 1]
<1>1. k \in Makes
  BY DEF PickerBounds
<1>2. r \in {Picker!Nothing, Picker!Choice(k, None, None), Picker!Choice(k, m, None), Picker!Choice(k, m, v)}
  BY DEF Picker!Readings
<1> HIDE DEF k
<1>3. m \in Picker!Models(k) /\ m.make = k
  BY DEF Picker!Models
<1>4. m \in Picker!AllModels
  BY <1>1, <1>3 DEF Picker!AllModels
<1> HIDE DEF m
<1>5. v \in Picker!Modifications(m) /\ v.model = m
  BY DEF Picker!Modifications
<1>6. v \in Picker!AllModifications
  BY <1>4, <1>5 DEF Picker!AllModifications
<1> HIDE DEF v
<1>7. /\ Picker!Nothing \in Vehicles /\ Picker!Choice(k, None, None) \in Vehicles
      /\ Picker!Choice(k, m, None) \in Vehicles /\ Picker!Choice(k, m, v) \in Vehicles
  BY <1>1, <1>4, <1>6 DEF Vehicles, Picker!Nothing, Picker!Choice
<1>8. /\ OneVehicle(Picker!Nothing) /\ OneVehicle(Picker!Choice(k, None, None))
      /\ OneVehicle(Picker!Choice(k, m, None)) /\ OneVehicle(Picker!Choice(k, m, v))
  BY <1>3, <1>5 DEF OneVehicle, Picker!Nothing, Picker!Choice
<1> QED
  BY <1>2, <1>7, <1>8

LEMMA PickerBegins ==
  ASSUME PickerBounds, Picker!Init
  PROVE  PickerInv
<1> USE DEF Picker!Init
<1>1. <<>> \in Seq(Vehicles) /\ <<>> \in Seq(ChoiceSheets) /\ Len(<<>>) = 0
  OBVIOUS
<1>2. read \in Vehicles /\ OneVehicle(read) /\ texts = read
  BY Read
<1>3. Picker!Nothing \in Vehicles /\ OneVehicle(Picker!Nothing) /\ Picker!Nothing.make = None
  BY DEF Vehicles, OneVehicle, Picker!Nothing, Picker!Choice
<1>4. /\ choice \in FormTexts /\ choice.make = read.make /\ choice.model = read.model
  BY <1>2 DEF FormTexts, Vehicles
<1>5. auto \in {None, "make"} /\ (read.make = None => auto = None)
  BY DEF Picker!Populate
<1>6. PickTypesOK
  BY <1>1, <1>2, <1>3, <1>4, <1>5 DEF PickTypesOK, OneVehicle
<1>7. Straight
  <2>1. Stage
    BY <1>5 DEF Stage, PickerBounds
  <2>2. Says
    BY <1>3 DEF Says
  <2>3. \A i \in 1..Len(lists) : OneVehicle(lists[i])
    BY <1>1
  <2> QED
    BY <1>2, <1>3, <1>4, <2>1, <2>2, <2>3 DEF Straight, OneVehicle
<1>8. ReadInv
  BY <1>2, <1>4, <1>5 DEF ReadInv
<1>9. SheetInv
  BY <1>1 DEF SheetInv
<1> QED
  BY <1>6, <1>7, <1>8, <1>9 DEF PickerInv

-----------------------------------------------------------------------------
(* What the form is told. *)
LEMMA FormTold ==
  ASSUME NEW v \in Vehicles, choice \in FormTexts, Picker!OnChanged(v)
  PROVE  /\ choice' \in FormTexts /\ choice'.make = v.make /\ choice'.model = v.model
         /\ host = "results" => choice'.mod = v.mod
         /\ v.mod # None /\ Picker!HasPower(v.mod) => choice'.power = v.mod
<1> DEFINE m == IF host = "results" THEN v.mod ELSE None
           p == IF v.mod # None /\ Picker!HasPower(v.mod) THEN v.mod ELSE choice.power
<1>1. choice' = [make |-> v.make, model |-> v.model, mod |-> m, power |-> p]
  BY DEF Picker!OnChanged
<1>2. /\ v.make \in Makes \union {None} /\ v.model \in Picker!AllModels \union {None}
      /\ v.mod \in Picker!AllModifications \union {None}
      /\ choice.power \in Picker!AllModifications \union {None, "talon"}
  BY DEF Vehicles, FormTexts
<1>3. m \in Picker!AllModifications \union {None} /\ p \in Picker!AllModifications \union {None, "talon"}
  BY <1>2
<1>4. /\ host = "results" => m = v.mod
      /\ v.mod # None /\ Picker!HasPower(v.mod) => p = v.mod
  OBVIOUS
<1> HIDE DEF m, p
<1>5. choice'.make = v.make /\ choice'.model = v.model /\ choice'.mod = m /\ choice'.power = p
  BY <1>1
<1>6. choice' \in FormTexts
  BY <1>1, <1>2, <1>3 DEF FormTexts
<1> QED
  BY <1>4, <1>5, <1>6

(* A step of the look-up. *)
LEMMA PickerFinds ==
  ASSUME PickerBounds, PickerInv, Picker!AutoPopulate
  PROVE  PickerInv'
<1> USE DEF PickerInv
<1>1. UNCHANGED <<host, read, texts, lists, sheets, disordered, mounts, picks, chosen, touched, rebuilt>>
  BY DEF Picker!AutoPopulate, Picker!sheetVars
<1>2. /\ read \in Vehicles /\ texts \in Vehicles /\ picked \in Vehicles /\ choice \in FormTexts
  BY DEF PickTypesOK, OneVehicle
<1>3. CASE Picker!NotFound
  <2>1. auto # None /\ auto' = None /\ unknown' = TRUE /\ UNCHANGED <<picked, choice, crossed>>
    BY <1>3 DEF Picker!NotFound
  <2>2. PickTypesOK'
    BY <1>1, <2>1 DEF PickTypesOK, OneVehicle
  <2>3. Stage'
    BY <2>1 DEF Stage, PickerBounds
  <2>4. Straight'
    BY <1>1, <2>1, <2>3 DEF Straight, Says, OneVehicle
  <2>5. ReadInv' /\ SheetInv'
    BY <1>1, <2>1 DEF ReadInv, SheetInv, SheetOK
  <2> QED
    BY <2>2, <2>4, <2>5
<1>4. ASSUME NEW new \in Vehicles, NEW told \in Vehicles, NEW next \in {None, "model", "mod"},
             picked' = new, Picker!OnChanged(told), auto' = next, auto # None,
             crossed' = (crossed \/ touched), UNCHANGED unknown,
             ~crossed /\ ~touched =>
               /\ OneVehicle(new) /\ new = told
               /\ next = "model" => new = Picker!Choice(texts.make, None, None)
               /\ next = "mod" => new = Picker!Choice(texts.make, texts.model, None),
             told.model # None => told.model = texts.model /\ told.make = texts.make,
             texts = read /\ next = None => told.model = read.model
      PROVE  PickerInv'
  <2>1. /\ choice' \in FormTexts /\ choice'.make = told.make /\ choice'.model = told.model
        /\ host = "results" => choice'.mod = told.mod
        /\ told.mod # None /\ Picker!HasPower(told.mod) => choice'.power = told.mod
    BY <1>2, <1>4, FormTold
  <2>2. PickTypesOK'
    BY <1>1, <1>4, <2>1 DEF PickTypesOK, OneVehicle
  <2>3. Straight'
    <3> SUFFICES ASSUME ~crossed, ~touched
                 PROVE  Straight'
      BY <1>4 DEF Straight
    <3>1. OneVehicle(texts)' /\ OneVehicle(picked)'
      BY <1>1, <1>4 DEF Straight, OneVehicle
    <3>2. Stage'
      BY <1>1, <1>4 DEF Stage, PickerBounds
    <3>3. Says'
      BY <1>1, <1>4, <2>1 DEF Says
    <3>4. choice'.model # None => choice'.model.make = choice'.make
      BY <1>4, <2>1 DEF Straight, OneVehicle
    <3>5. chosen = None \/ rebuilt
      BY DEF PickTypesOK, OneVehicle
    <3>6. \A i \in 1..Len(lists) : OneVehicle(lists[i])
      BY DEF Straight
    <3> QED
      BY <1>1, <3>1, <3>2, <3>3, <3>4, <3>5, <3>6 DEF Straight, OneVehicle
  <2>4. ReadInv'
    BY <1>1, <1>4, <2>1 DEF ReadInv
  <2>5. SheetInv'
    BY <1>1, <1>4 DEF SheetInv, SheetOK
  <2> QED
    BY <2>2, <2>3, <2>4, <2>5
<1>5. /\ texts.make \in Makes \union {None} /\ texts.model \in Picker!AllModels \union {None}
      /\ texts.mod \in Picker!AllModifications \union {None}
  BY <1>2 DEF Vehicles
<1>6. CASE Picker!FindMake
  <2> DEFINE new == [picked EXCEPT !.make = texts.make]
             told == Picker!Choice(texts.make, None, None)
             next == IF texts.model = None THEN None ELSE "model"
  <2>1. /\ auto = "make" /\ auto' = next /\ picked' = new /\ Picker!OnChanged(told)
        /\ crossed' = (crossed \/ touched) /\ UNCHANGED unknown
    BY <1>6 DEF Picker!FindMake, Picker!Found
  <2>2. new \in Vehicles /\ told \in Vehicles /\ next \in {None, "model", "mod"}
    BY <1>2, <1>5 DEF Vehicles, Picker!Choice
  <2>3. told.model = None /\ told.mod = None
    BY DEF Picker!Choice
  <2>4. ASSUME ~crossed, ~touched
        PROVE  new = told /\ OneVehicle(told) /\ next # "mod"
    <3>1. picked = Picker!Nothing
      BY <2>1, <2>4 DEF Straight, Stage
    <3>2. new = told
      BY <3>1 DEF Picker!Nothing, Picker!Choice
    <3> QED
      BY <2>3, <3>2 DEF OneVehicle, PickerBounds
  <2>5. auto # None
    BY <2>1 DEF PickerBounds
  <2>6. texts = read /\ next = None => told.model = read.model
    BY <2>3 DEF PickerBounds
  <2>7. told = Picker!Choice(texts.make, None, None)
    OBVIOUS
  <2> HIDE DEF new, told, next
  <2> QED
    BY <1>4, <2>1, <2>2, <2>3, <2>4, <2>5, <2>6, <2>7
<1>7. CASE Picker!FindModel
  <2> DEFINE new == [picked EXCEPT !.model = texts.model]
             told == Picker!Choice(texts.make, texts.model, None)
             next == IF texts.mod = None THEN None ELSE "mod"
  <2>1. /\ auto = "model" /\ auto' = next /\ picked' = new /\ Picker!OnChanged(told)
        /\ crossed' = (crossed \/ touched) /\ UNCHANGED unknown
    BY <1>7 DEF Picker!FindModel, Picker!Found
  <2>2. new \in Vehicles /\ told \in Vehicles /\ next \in {None, "model", "mod"}
    BY <1>2, <1>5 DEF Vehicles, Picker!Choice
  <2>3. told.make = texts.make /\ told.model = texts.model /\ told.mod = None
    BY DEF Picker!Choice
  <2>4. ASSUME ~crossed, ~touched
        PROVE  new = told /\ OneVehicle(told) /\ next # "model"
    <3>1. picked = Picker!Choice(texts.make, None, None) /\ OneVehicle(texts)
      BY <2>1, <2>4 DEF Straight, Stage
    <3>2. new = told
      BY <3>1 DEF Picker!Choice
    <3> QED
      BY <2>3, <3>1, <3>2 DEF OneVehicle, PickerBounds
  <2>5. auto # None
    BY <2>1 DEF PickerBounds
  <2>6. told = Picker!Choice(texts.make, texts.model, None)
    OBVIOUS
  <2> HIDE DEF new, told, next
  <2> QED
    BY <1>4, <2>1, <2>2, <2>3, <2>4, <2>5, <2>6
<1>8. CASE Picker!FindModification
  <2> DEFINE new == [picked EXCEPT !.mod = texts.mod]
  <2>1. /\ auto = "mod" /\ auto' = None /\ picked' = new /\ Picker!OnChanged(texts)
        /\ crossed' = (crossed \/ touched) /\ UNCHANGED unknown
    BY <1>8 DEF Picker!FindModification, Picker!Found
  <2>2. new \in Vehicles
    BY <1>2, <1>5 DEF Vehicles
  <2>4. ASSUME ~crossed, ~touched
        PROVE  new = texts /\ OneVehicle(texts)
    <3>1. picked = Picker!Choice(texts.make, texts.model, None) /\ OneVehicle(texts)
      BY <2>1, <2>4 DEF Straight, Stage
    <3>2. texts = [make |-> texts.make, model |-> texts.model, mod |-> texts.mod]
      BY <1>2 DEF Vehicles
    <3>3. new = [make |-> texts.make, model |-> texts.model, mod |-> texts.mod]
      BY <3>1 DEF Picker!Choice
    <3> QED
      BY <3>1, <3>2, <3>3
  <2>5. auto # None /\ None # "model" /\ None # "mod"
    BY <2>1 DEF PickerBounds
  <2> HIDE DEF new
  <2> QED
    BY <1>2, <1>4, <2>1, <2>2, <2>4, <2>5
<1> QED
  BY <1>3, <1>6, <1>7, <1>8 DEF Picker!AutoPopulate

-----------------------------------------------------------------------------
(* Sheets are opened, answered and closed over a picker that stays. *)
LEMMA PickerKeeps ==
  ASSUME PickerInv,
         UNCHANGED <<host, read, texts, picked, choice, auto, mounts, picks, chosen, touched,
                     crossed, rebuilt, unknown>>,
         disordered => disordered',
         lists' \in Seq(Vehicles),
         \A i \in 1..Len(lists') :
           (\E j \in 1..Len(lists) : lists'[i] = lists[j]) \/ OneVehicle(lists'[i]) \/ crossed,
         sheets' \in Seq(ChoiceSheets),
         \A i \in 1..Len(sheets') :
           \/ \E j \in 1..Len(sheets) : sheets'[i] = sheets[j]
           \/ SheetOK(sheets'[i], disordered', crossed)
  PROVE  PickerInv'
<1> USE DEF PickerInv
<1>1. PickTypesOK'
  BY DEF PickTypesOK, OneVehicle
<1>2. ReadInv'
  BY DEF ReadInv
<1>3. Straight'
  <2> SUFFICES ASSUME ~crossed
               PROVE  Straight'
    BY DEF Straight
  <2>1. \A i \in 1..Len(lists') : OneVehicle(lists'[i])
    BY DEF Straight
  <2>2. Stage' /\ Says'
    BY DEF Straight, Stage, Says
  <2> QED
    BY <2>1, <2>2 DEF Straight, OneVehicle
<1>4. SheetInv'
  <2>1. \A j \in 1..Len(sheets) : SheetOK(sheets[j], disordered', crossed)
    BY DEF SheetInv, SheetOK
  <2>2. \A i \in 1..Len(sheets') : SheetOK(sheets'[i], disordered', crossed)
    BY <2>1
  <2> QED
    BY <2>2 DEF SheetInv
<1> QED
  BY <1>1, <1>2, <1>3, <1>4

LEMMA PickerSheets ==
  ASSUME PickerBounds, PickerInv,
         \/ \E kind \in {"make", "model"} : Picker!OpenSheet(kind)
         \/ Picker!AskModifications \/ Picker!TypeQuery \/ Picker!Dismiss
         \/ \E i \in 1..Len(lists) : Picker!ModificationsArrive(i)
         \/ \E q \in 1..MaxTyped : Picker!QueryAnswered(q)
  PROVE  PickerInv'
<1> USE DEF PickerInv
<1>1. UNCHANGED <<host, read, texts, picked, choice, auto, mounts, picks, chosen, touched,
                  crossed, rebuilt, unknown>>
  BY DEF Picker!OpenSheet, Picker!AskModifications, Picker!TypeQuery, Picker!Dismiss,
         Picker!ModificationsArrive, Picker!QueryAnswered, Picker!ghosts
<1>2. /\ lists \in Seq(Vehicles) /\ sheets \in Seq(ChoiceSheets) /\ picked \in Vehicles
      /\ picked.make \in Makes \union {None} /\ picked.model \in Picker!AllModels \union {None}
  BY DEF PickTypesOK, Vehicles
<1>3. ASSUME UNCHANGED lists
      PROVE  /\ lists' \in Seq(Vehicles)
             /\ \A i \in 1..Len(lists') : \E j \in 1..Len(lists) : lists'[i] = lists[j]
  BY <1>2, <1>3
<1>4. ASSUME UNCHANGED sheets
      PROVE  /\ sheets' \in Seq(ChoiceSheets)
             /\ \A i \in 1..Len(sheets') : \E j \in 1..Len(sheets) : sheets'[i] = sheets[j]
  BY <1>2, <1>4
<1>5. ASSUME NEW kind \in {"make", "model", "mod"}, NEW mk \in Makes \union {None},
             NEW m \in Picker!AllModels \union {None}, NEW late, NEW moved,
             m = None \/ m.make = mk \/ moved
      PROVE  /\ Picker!Sheet(kind, mk, m) \in ChoiceSheets
             /\ SheetOK(Picker!Sheet(kind, mk, m), late, moved)
  <2> DEFINE waiting == IF kind = "mod" THEN {} ELSE {1}
             items == IF kind = "mod" THEN 1 ELSE 0
             s == [kind |-> kind, make |-> mk, model |-> m, typed |-> 1, waiting |-> waiting,
                   items |-> items, failed |-> FALSE]
  <2>1. waiting \in SUBSET Nat /\ waiting \subseteq 1..1 /\ items \in Nat /\ (1 \in waiting \/ items = 1)
    OBVIOUS
  <2>2. Picker!Sheet(kind, mk, m) = s
    BY DEF Picker!Sheet
  <2> HIDE DEF waiting, items
  <2>3. s \in ChoiceSheets
    BY <2>1 DEF ChoiceSheets
  <2>4. SheetOK(s, late, moved)
    BY <1>5, <2>1 DEF SheetOK
  <2> HIDE DEF s
  <2> QED
    BY <2>2, <2>3, <2>4
<1>6. ASSUME NEW kind \in {"make", "model"}, Picker!OpenSheet(kind)
      PROVE  PickerInv'
  <2> DEFINE s == Picker!Sheet(kind, picked.make, None)
  <2>1. sheets' = <<s>> /\ UNCHANGED <<lists, disordered>>
    BY <1>6 DEF Picker!OpenSheet
  <2>2. s \in ChoiceSheets /\ SheetOK(s, disordered', crossed)
    BY <1>2, <1>5
  <2> HIDE DEF s
  <2>3. sheets' \in Seq(ChoiceSheets) /\ \A i \in 1..Len(sheets') : sheets'[i] = s
    BY <2>1, <2>2
  <2> QED
    BY <1>1, <1>3, <2>1, <2>2, <2>3, PickerKeeps
<1>7. CASE Picker!AskModifications
  <2> DEFINE v == Picker!Choice(picked.make, picked.model, None)
  <2>1. lists' = Append(lists, v) /\ UNCHANGED <<sheets, disordered>>
    BY <1>7 DEF Picker!AskModifications
  <2>2. v \in Vehicles /\ (crossed \/ OneVehicle(v))
    BY <1>2 DEF Vehicles, Picker!Choice, Straight, OneVehicle
  <2> HIDE DEF v
  <2>3. /\ lists' \in Seq(Vehicles)
        /\ \A i \in 1..Len(lists') : (i \in 1..Len(lists) /\ lists'[i] = lists[i]) \/ lists'[i] = v
    BY <1>2, <2>1, <2>2
  <2> QED
    BY <1>1, <1>4, <2>1, <2>2, <2>3, PickerKeeps
<1>8. ASSUME NEW i \in 1..Len(lists), Picker!ModificationsArrive(i)
      PROVE  PickerInv'
  <2> DEFINE t == SubSeq(lists, 1, i - 1) \o SubSeq(lists, i + 1, Len(lists))
             v == lists[i]
             s == Picker!Sheet("mod", v.make, v.model)
  <2>1. lists' = t /\ UNCHANGED disordered /\ (sheets' = Append(sheets, s) \/ UNCHANGED sheets)
    BY <1>8 DEF Picker!ModificationsArrive
  <2>2. /\ t \in Seq(Vehicles) /\ Len(t) = Len(lists) - 1
        /\ \A a \in 1..Len(t) : t[a] = lists[IF a < i THEN a ELSE a + 1]
    BY <1>2, OneRemoved
  <2>3. \A a \in 1..Len(t) : (IF a < i THEN a ELSE a + 1) \in 1..Len(lists)
    <3> HIDE DEF t
    <3> QED
      BY <1>2, <2>2
  <2> HIDE DEF t
  <2>4. \A a \in 1..Len(lists') : \E j \in 1..Len(lists) : lists'[a] = lists[j]
    BY <2>1, <2>2, <2>3
  <2>5. /\ v \in Vehicles /\ v.make \in Makes \union {None}
        /\ v.model \in Picker!AllModels \union {None}
        /\ v.model = None \/ v.model.make = v.make \/ crossed
    <3>1. v \in Vehicles
      BY <1>2
    <3>2. crossed \/ OneVehicle(v)
      BY DEF Straight
    <3> HIDE DEF v
    <3> QED
      BY <3>1, <3>2 DEF Vehicles, OneVehicle
  <2> HIDE DEF v
  <2>6. s \in ChoiceSheets /\ SheetOK(s, disordered', crossed)
    BY <1>5, <2>5
  <2> HIDE DEF s
  <2>7. ASSUME sheets' = Append(sheets, s)
        PROVE  /\ sheets' \in Seq(ChoiceSheets)
               /\ \A a \in 1..Len(sheets') :
                    (a \in 1..Len(sheets) /\ sheets'[a] = sheets[a]) \/ sheets'[a] = s
    BY <1>2, <2>6, <2>7
  <2>8. /\ sheets' \in Seq(ChoiceSheets)
        /\ \A a \in 1..Len(sheets') :
             \/ \E j \in 1..Len(sheets) : sheets'[a] = sheets[j]
             \/ SheetOK(sheets'[a], disordered', crossed)
    BY <1>4, <2>1, <2>6, <2>7
  <2>9. lists' \in Seq(Vehicles)
    BY <2>1, <2>2
  <2> QED
    BY <1>1, <2>1, <2>4, <2>8, <2>9, PickerKeeps
<1>9. CASE Picker!Dismiss
  <2>1. sheets # <<>> /\ sheets' = SubSeq(sheets, 1, Len(sheets) - 1) /\ UNCHANGED <<lists, disordered>>
    BY <1>9 DEF Picker!Dismiss, Picker!Below
  <2>2. /\ sheets' \in Seq(ChoiceSheets)
        /\ \A i \in 1..Len(sheets') : i \in 1..Len(sheets) /\ sheets'[i] = sheets[i]
    BY <1>2, <2>1, LastReplaced
  <2> QED
    BY <1>1, <1>3, <2>1, <2>2, PickerKeeps
<1>10. ASSUME NEW e \in ChoiceSheets, sheets # <<>>, UNCHANGED lists, disordered => disordered',
              sheets' = Append(SubSeq(sheets, 1, Len(sheets) - 1), e),
              SheetOK(e, disordered', crossed)
       PROVE  PickerInv'
  <2>1. /\ sheets' \in Seq(ChoiceSheets)
        /\ \A i \in 1..Len(sheets') : (i \in 1..Len(sheets) /\ sheets'[i] = sheets[i]) \/ sheets'[i] = e
    BY <1>2, <1>10, LastReplaced
  <2> QED
    BY <1>1, <1>3, <1>10, <2>1, PickerKeeps
<1>11. ASSUME sheets # <<>>
       PROVE  /\ Picker!Top \in ChoiceSheets /\ SheetOK(Picker!Top, disordered, crossed)
              /\ Picker!Top.typed \in Nat /\ Picker!Top.waiting \in SUBSET Nat
  <2>1. Len(sheets) \in Nat \ {0}
    BY <1>2, <1>11, EmptySeq
  <2>2. Len(sheets) \in 1..Len(sheets)
    BY <2>1
  <2>3. Picker!Top \in ChoiceSheets /\ SheetOK(Picker!Top, disordered, crossed)
    BY <1>2, <2>2 DEF Picker!Top, SheetInv
  <2> QED
    BY <2>3 DEF ChoiceSheets
<1>12. CASE Picker!TypeQuery
  <2> DEFINE top == Picker!Top
             n == top.typed + 1
             w == top.waiting \union {n}
             e == [top EXCEPT !.typed = n, !.waiting = w, !.failed = FALSE]
  <2>1. /\ sheets # <<>> /\ UNCHANGED <<lists, disordered>>
        /\ sheets' = Append(SubSeq(sheets, 1, Len(sheets) - 1), e)
    BY <1>12 DEF Picker!TypeQuery, Picker!Below
  <2>2. /\ top \in ChoiceSheets /\ SheetOK(top, disordered, crossed)
        /\ top.typed \in Nat /\ top.waiting \in SUBSET Nat
    BY <1>11, <2>1
  <2> HIDE DEF top
  <2>3. n \in Nat /\ w \in SUBSET Nat /\ n \in w /\ top.waiting \subseteq 1..top.typed
    BY <2>2 DEF SheetOK
  <2>4. w \subseteq 1..n
    BY <2>2, <2>3
  <2> HIDE DEF n, w
  <2>5. e \in ChoiceSheets /\ e.typed = n /\ e.waiting = w /\ e.model = top.model /\ e.make = top.make
    BY <2>2, <2>3 DEF ChoiceSheets
  <2> HIDE DEF e
  <2>6. SheetOK(e, disordered', crossed)
    BY <2>1, <2>2, <2>3, <2>4, <2>5 DEF SheetOK
  <2> QED
    BY <1>10, <2>1, <2>5, <2>6
<1>13. ASSUME NEW q \in 1..MaxTyped, Picker!QueryAnswered(q)
       PROVE  PickerInv'
  <2> DEFINE top == Picker!Top
             w == top.waiting \ {q}
             full == [top EXCEPT !.waiting = w, !.items = q]
             spoilt == [top EXCEPT !.waiting = w, !.failed = TRUE]
  <2>1. /\ sheets # <<>> /\ UNCHANGED lists /\ q \in top.waiting
        /\ \/ sheets' = Append(SubSeq(sheets, 1, Len(sheets) - 1), full)
           \/ sheets' = Append(SubSeq(sheets, 1, Len(sheets) - 1), spoilt)
        /\ disordered' = (disordered \/ \E p \in 1..top.typed : p > q /\ p \notin top.waiting)
    BY <1>13 DEF Picker!QueryAnswered, Picker!Below
  <2>2. /\ top \in ChoiceSheets /\ SheetOK(top, disordered, crossed)
        /\ top.typed \in Nat /\ top.waiting \in SUBSET Nat
    BY <1>11, <2>1
  <2> HIDE DEF top
  <2>3. q \in Nat /\ q \in 1..top.typed /\ w \in SUBSET Nat /\ w \subseteq 1..top.typed
    BY <2>1, <2>2 DEF SheetOK
  <2>4. q = top.typed \/ top.typed \in w \/ disordered'
    <3> SUFFICES ASSUME q # top.typed, top.typed \notin w
                 PROVE  disordered'
      OBVIOUS
    <3>1. top.typed \in 1..top.typed /\ top.typed > q /\ top.typed \notin top.waiting
      BY <2>2, <2>3
    <3> QED
      BY <2>1, <3>1
  <2>5. top.model = None \/ top.model.make = top.make \/ crossed
    BY <2>2 DEF SheetOK
  <2> HIDE DEF w
  <2>6. /\ full \in ChoiceSheets /\ full.typed = top.typed /\ full.waiting = w /\ full.items = q
        /\ full.model = top.model /\ full.make = top.make
    BY <2>2, <2>3 DEF ChoiceSheets
  <2>7. /\ spoilt \in ChoiceSheets /\ spoilt.typed = top.typed /\ spoilt.waiting = w /\ spoilt.failed
        /\ spoilt.model = top.model /\ spoilt.make = top.make
    BY <2>2, <2>3 DEF ChoiceSheets
  <2> HIDE DEF full, spoilt
  <2>8. SheetOK(full, disordered', crossed)
    BY <2>3, <2>4, <2>5, <2>6 DEF SheetOK
  <2>9. SheetOK(spoilt, disordered', crossed)
    BY <2>3, <2>5, <2>7 DEF SheetOK
  <2>10. disordered => disordered'
    BY <2>1
  <2> QED
    BY <1>10, <2>1, <2>6, <2>7, <2>8, <2>9, <2>10
<1> QED
  BY <1>6, <1>7, <1>8, <1>9, <1>12, <1>13

-----------------------------------------------------------------------------
(* Something is chosen. *)
LEMMA PickerChosen ==
  ASSUME PickerInv, NEW kind, NEW mk, NEW behind \in BOOLEAN, Picker!Choose(kind, mk, behind),
         picked' \in Vehicles, choice' \in FormTexts,
         ~crossed /\ ~behind =>
           /\ OneVehicle(picked)' /\ Says'
           /\ choice'.model # None => choice'.model.make = choice'.make
           /\ mk # None => choice'.make = mk
  PROVE  PickerInv'
<1> USE DEF PickerInv
<1>1. /\ sheets # <<>> /\ sheets' = SubSeq(sheets, 1, Len(sheets) - 1) /\ picks' = picks + 1
      /\ chosen' = mk /\ touched' = TRUE /\ rebuilt' = FALSE /\ crossed' = (crossed \/ behind)
      /\ UNCHANGED <<host, read, texts, auto, lists, disordered, mounts, unknown>>
  BY DEF Picker!Choose, Picker!Below
<1>2. /\ sheets' \in Seq(ChoiceSheets)
      /\ \A i \in 1..Len(sheets') : i \in 1..Len(sheets) /\ sheets'[i] = sheets[i]
  <2>1. sheets \in Seq(ChoiceSheets)
    BY DEF PickTypesOK, OneVehicle
  <2> QED
    BY <1>1, <2>1, LastReplaced
<1>3. PickTypesOK'
  BY <1>1, <1>2 DEF PickTypesOK, OneVehicle
<1>4. Straight'
  <2> SUFFICES ASSUME ~crossed, ~behind
               PROVE  Straight'
    BY <1>1 DEF Straight
  <2>1. Stage'
    BY <1>1 DEF Stage
  <2>2. OneVehicle(texts)' /\ \A i \in 1..Len(lists) : OneVehicle(lists[i])
    BY <1>1 DEF Straight, OneVehicle
  <2> QED
    BY <1>1, <2>1, <2>2 DEF Straight, OneVehicle
<1>5. ReadInv'
  <2>1. picks' # 0
    BY <1>1 DEF PickTypesOK, OneVehicle
  <2> QED
    BY <2>1 DEF ReadInv
<1>6. SheetInv'
  BY <1>1, <1>2 DEF SheetInv, SheetOK
<1> QED
  BY <1>3, <1>4, <1>5, <1>6

LEMMA PickerPicks ==
  ASSUME PickerBounds, PickerInv,
         \/ \E mk \in Makes : Picker!PickMake(mk)
         \/ \E m \in Picker!AllModels : Picker!PickModel(m)
         \/ \E v \in Picker!AllModifications : Picker!PickModification(v)
  PROVE  PickerInv'
<1>1. /\ picked \in Vehicles /\ choice \in FormTexts
      /\ picked.make \in Makes \union {None} /\ picked.model \in Picker!AllModels \union {None}
      /\ picked.mod \in Picker!AllModifications \union {None}
  BY DEF PickerInv, PickTypesOK, Vehicles
<1>2. ~crossed => OneVehicle(picked) /\ Says /\ (choice.model # None => choice.model.make = choice.make)
  BY DEF PickerInv, Straight
<1>3. ASSUME NEW mk \in Makes, Picker!PickMake(mk)
      PROVE  PickerInv'
  <2> DEFINE told == Picker!Choice(mk, None, None)
  <2>1. Picker!Choose("make", mk, FALSE)
    BY <1>3 DEF Picker!PickMake
  <2>2. UNCHANGED host
    BY <2>1 DEF Picker!Choose
  <2>3. CASE mk # picked.make
    <3>1. picked' = told /\ Picker!OnChanged(told)
      BY <1>3, <2>3 DEF Picker!PickMake
    <3>2. told \in Vehicles /\ told.make = mk /\ told.model = None /\ told.mod = None
      BY DEF Vehicles, Picker!Choice
    <3> HIDE DEF told
    <3>3. /\ choice' \in FormTexts /\ choice'.make = told.make /\ choice'.model = told.model
          /\ host = "results" => choice'.mod = told.mod
          /\ told.mod # None /\ Picker!HasPower(told.mod) => choice'.power = told.mod
      BY <1>1, <3>1, <3>2, FormTold
    <3>4. OneVehicle(picked)' /\ Says'
      BY <2>2, <3>1, <3>2, <3>3 DEF OneVehicle, Says
    <3> QED
      BY <2>1, <3>1, <3>2, <3>3, <3>4, PickerChosen
  <2>4. CASE mk = picked.make
    <3>1. UNCHANGED <<picked, choice>>
      BY <1>3, <2>4 DEF Picker!PickMake
    <3>2. picked' \in Vehicles /\ choice' \in FormTexts
      BY <1>1, <3>1
    <3>3. ASSUME ~crossed
          PROVE  /\ OneVehicle(picked)' /\ Says'
                 /\ choice'.model # None => choice'.model.make = choice'.make
                 /\ mk # None => choice'.make = mk
      BY <1>2, <2>2, <2>4, <3>1, <3>3 DEF OneVehicle, Says
    <3> QED
      BY <2>1, <3>2, <3>3, PickerChosen
  <2> QED
    BY <2>3, <2>4
<1>4. ASSUME NEW m \in Picker!AllModels, Picker!PickModel(m)
      PROVE  PickerInv'
  <2> DEFINE top == Picker!Top
             behind == top.make # picked.make
             told == Picker!Choice(top.make, m, None)
             new == Picker!Choice(picked.make, m, None)
  <2>1. Picker!Choose("model", top.make, behind) /\ m.make = top.make
    BY <1>4 DEF Picker!PickModel
  <2>2. UNCHANGED host /\ behind \in BOOLEAN
    BY <2>1 DEF Picker!Choose
  <2>3. top.make \in Makes
    <3>1. PICK k \in Makes : m \in Picker!Models(k)
      BY DEF Picker!AllModels
    <3>2. m.make = k
      BY <3>1 DEF Picker!Models
    <3> QED
      BY <2>1, <3>2
  <2>4. CASE m # picked.model
    <3>1. picked' = new /\ Picker!OnChanged(told)
      BY <1>4, <2>4 DEF Picker!PickModel
    <3> HIDE DEF top
    <3>2. /\ told \in Vehicles /\ told.make = top.make /\ told.model = m /\ told.mod = None
          /\ new \in Vehicles /\ new.make = picked.make /\ new.model = m /\ new.mod = None
      BY <1>1, <2>3 DEF Vehicles, Picker!Choice
    <3> HIDE DEF told, new
    <3>3. /\ choice' \in FormTexts /\ choice'.make = told.make /\ choice'.model = told.model
          /\ host = "results" => choice'.mod = told.mod
          /\ told.mod # None /\ Picker!HasPower(told.mod) => choice'.power = told.mod
      BY <1>1, <3>1, <3>2, FormTold
    <3>4. ASSUME ~behind
          PROVE  OneVehicle(picked)' /\ Says'
      BY <2>1, <2>2, <3>1, <3>2, <3>3, <3>4 DEF OneVehicle, Says
    <3>5. picked' \in Vehicles /\ choice'.make = top.make /\ choice'.model.make = choice'.make
      BY <2>1, <3>1, <3>2, <3>3
    <3> HIDE DEF behind
    <3> QED
      BY <2>1, <2>2, <3>3, <3>4, <3>5, PickerChosen
  <2>5. CASE m = picked.model
    <3>1. UNCHANGED <<picked, choice>>
      BY <1>4, <2>5 DEF Picker!PickModel
    <3>2. picked' \in Vehicles /\ choice' \in FormTexts
      BY <1>1, <3>1
    <3>3. ASSUME ~crossed, ~behind
          PROVE  /\ OneVehicle(picked)' /\ Says'
                 /\ choice'.model # None => choice'.model.make = choice'.make
                 /\ top.make # None => choice'.make = top.make
      BY <1>2, <2>2, <3>1, <3>3 DEF OneVehicle, Says
    <3> HIDE DEF behind, top
    <3> QED
      BY <2>1, <2>2, <3>2, <3>3, PickerChosen
  <2> QED
    BY <2>4, <2>5
<1>5. ASSUME NEW v \in Picker!AllModifications, Picker!PickModification(v)
      PROVE  PickerInv'
  <2> DEFINE top == Picker!Top
             behind == top.model # picked.model \/ top.make # picked.make
             told == Picker!Choice(top.make, top.model, v)
             new == [picked EXCEPT !.mod = v]
  <2>1. /\ Picker!Choose("mod", top.make, behind) /\ v.model = top.model
        /\ picked' = new /\ Picker!OnChanged(told)
    BY <1>5 DEF Picker!PickModification
  <2>2. UNCHANGED host /\ behind \in BOOLEAN /\ sheets # <<>>
    BY <2>1 DEF Picker!Choose
  <2>3. top \in ChoiceSheets /\ SheetOK(top, disordered, crossed)
    <3>1. Len(sheets) \in Nat \ {0} /\ sheets \in Seq(ChoiceSheets)
      BY <2>2, EmptySeq DEF PickerInv, PickTypesOK
    <3>2. Len(sheets) \in 1..Len(sheets)
      BY <3>1
    <3> QED
      BY <3>1, <3>2 DEF Picker!Top, PickerInv, SheetInv
  <2> HIDE DEF top
  <2>4. /\ top.make \in Makes \union {None} /\ top.model \in Picker!AllModels \union {None}
        /\ top.model = None \/ top.model.make = top.make \/ crossed
    BY <2>3 DEF ChoiceSheets, SheetOK
  <2>5. /\ told \in Vehicles /\ told.make = top.make /\ told.model = top.model /\ told.mod = v
        /\ new \in Vehicles /\ new.make = picked.make /\ new.model = picked.model /\ new.mod = v
    BY <1>1, <2>4 DEF Vehicles, Picker!Choice
  <2> HIDE DEF told, new
  <2>6. /\ choice' \in FormTexts /\ choice'.make = told.make /\ choice'.model = told.model
        /\ host = "results" => choice'.mod = told.mod
        /\ told.mod # None /\ Picker!HasPower(told.mod) => choice'.power = told.mod
    BY <1>1, <2>1, <2>5, FormTold
  <2>7. ASSUME ~crossed, ~behind
        PROVE  OneVehicle(picked)' /\ Says'
    <3>1. OneVehicle(picked)
      BY <1>2, <2>7
    <3> QED
      BY <2>1, <2>2, <2>5, <2>6, <2>7, <3>1 DEF OneVehicle, Says
  <2>8. ASSUME ~crossed
        PROVE  choice'.model # None => choice'.model.make = choice'.make
    BY <2>4, <2>5, <2>6, <2>8
  <2>9. picked' \in Vehicles /\ choice'.make = top.make
    BY <2>1, <2>5, <2>6
  <2> HIDE DEF behind
  <2> QED
    BY <2>1, <2>2, <2>6, <2>7, <2>8, <2>9, PickerChosen
<1> QED
  BY <1>3, <1>4, <1>5

(* The picker is built anew. *)
LEMMA PickerRebuilt ==
  ASSUME PickerBounds, PickerInv, Picker!Rebuild
  PROVE  PickerInv'
<1> USE DEF PickerInv
<1>1. /\ sheets = <<>> /\ mounts' = mounts + 1
      /\ texts' = (IF host = "results" THEN read ELSE Picker!Choice(choice.make, choice.model, None))
      /\ picked' = Picker!Nothing /\ auto' = Picker!Populate(texts') /\ lists' = <<>>
      /\ touched' = FALSE /\ rebuilt' = TRUE
      /\ UNCHANGED <<host, read, choice, sheets, disordered, picks, chosen, crossed, unknown>>
  BY DEF Picker!Rebuild
<1>2. <<>> \in Seq(Vehicles) /\ Len(<<>>) = 0
  OBVIOUS
<1>3. /\ Picker!Nothing \in Vehicles /\ OneVehicle(Picker!Nothing) /\ Picker!Nothing.make = None
  BY DEF Vehicles, OneVehicle, Picker!Nothing, Picker!Choice
<1>4. Picker!Choice(choice.make, choice.model, None) \in Vehicles
  BY DEF PickTypesOK, FormTexts, Vehicles, Picker!Choice
<1>5. texts' \in Vehicles
  BY <1>1, <1>4 DEF PickTypesOK, OneVehicle
<1>6. auto' \in {None, "make"} /\ (texts'.make = None <=> auto' = None)
  BY <1>1 DEF Picker!Populate, PickerBounds
<1>7. mounts' \in Nat /\ mounts' > 1
  BY <1>1 DEF PickTypesOK, OneVehicle
<1>8. PickTypesOK'
  <2>1. mounts' > 0
    BY <1>7
  <2> QED
    BY <1>1, <1>2, <1>3, <1>5, <1>6, <1>7, <2>1 DEF PickTypesOK, OneVehicle
<1>9. ReadInv'
  <2> SUFFICES ASSUME picks = 0, ~unknown, host = "results"
               PROVE  ReadInv'
    BY <1>1, <1>7 DEF ReadInv, PickTypesOK
  <2>1. texts' = read
    BY <1>1
  <2>2. read.make = None => choice.model = read.model
    BY DEF ReadInv
  <2> QED
    BY <1>1, <1>6, <2>1, <2>2 DEF ReadInv
<1>10. SheetInv'
  BY <1>1 DEF SheetInv, SheetOK
<1>11. Straight'
  <2> SUFFICES ASSUME ~crossed
               PROVE  Straight'
    BY <1>1 DEF Straight
  <2>1. OneVehicle(texts)'
    <3>1. CASE host = "results"
      BY <1>1, <3>1 DEF OneVehicle, PickTypesOK
    <3>2. CASE host # "results"
      BY <1>1, <3>2 DEF OneVehicle, Picker!Choice, Straight
    <3> QED
      BY <3>1, <3>2
  <2>2. Stage'
    BY <1>1, <1>6 DEF Stage, PickerBounds
  <2>3. Says' /\ OneVehicle(picked)'
    BY <1>1, <1>3 DEF Says, OneVehicle
  <2>4. 1..Len(lists') = {}
    BY <1>1, <1>2
  <2>5. choice'.model # None => choice'.model.make = choice'.make
    BY <1>1 DEF Straight
  <2> QED
    BY <1>1, <2>1, <2>2, <2>3, <2>4, <2>5 DEF Straight
<1> QED
  BY <1>8, <1>9, <1>10, <1>11

LEMMA PickerStep ==
  ASSUME PickerBounds, PickerInv, [Picker!Next]_Picker!vars
  PROVE  PickerInv'
<1>1. CASE UNCHANGED Picker!vars
  BY <1>1 DEF Picker!vars, Picker!sheetVars, Picker!ghosts, PickerInv, PickTypesOK, Straight,
              OneVehicle, Stage, Says, ReadInv, SheetInv, SheetOK
<1> QED
  BY <1>1, PickerFinds, PickerSheets, PickerPicks, PickerRebuilt DEF Picker!Next

LEMMA PickerFollows ==
  ASSUME PickerInv
  PROVE  Picker!PickerExplained
<1> USE DEF PickerInv
<1>1. Picker!PickIsOneVehicle
  BY DEF Picker!PickIsOneVehicle, Straight, OneVehicle
<1>2. Picker!FormSaysThePick
  BY DEF Picker!FormSaysThePick, Straight, Says
<1>3. Picker!ReadModelIsKept
  BY DEF Picker!ReadModelIsKept, ReadInv, PickTypesOK
<1>4. Picker!ChoiceStands
  BY DEF Picker!ChoiceStands, Straight
<1>5. Picker!SheetIsCurrent
  <2> SUFFICES ASSUME sheets # <<>>, Picker!Top.waiting = {}
               PROVE  disordered \/ Picker!Top.failed \/ Picker!Top.items = Picker!Top.typed
    BY DEF Picker!SheetIsCurrent
  <2>1. Len(sheets) \in Nat \ {0}
    BY EmptySeq DEF PickTypesOK, OneVehicle
  <2>2. Len(sheets) \in 1..Len(sheets)
    BY <2>1
  <2>3. SheetOK(Picker!Top, disordered, crossed)
    BY <2>2 DEF Picker!Top, SheetInv
  <2> QED
    BY <2>3 DEF SheetOK
<1> QED
  BY <1>1, <1>2, <1>3, <1>4, <1>5 DEF Picker!PickerExplained

(* What is picked from the catalog is one vehicle, and the form says it,   *)
(* unless a look-up and a choice crossed                                   *)
(* (vehicle_catalog_picker.dart:44-245, ocr_results_view.dart:51-72).      *)
THEOREM PickerIsExplained ==
  ASSUME PickerBounds
  PROVE  RequestsSpec => [](side = "vehicle" => Picker!PickerExplained)
<1> DEFINE Inv == side = "vehicle" => PickerInv
<1>1. RequestsInit => Inv
  BY PickerBegins DEF RequestsInit
<1>2. ASSUME Inv, [RequestsNext]_<<side, faults, apiVars, screenVars>>
      PROVE  Inv'
  <2> SUFFICES ASSUME side' = "vehicle"
               PROVE  PickerInv'
    OBVIOUS
  <2>1. side = "vehicle" /\ PickerInv
    BY <1>2 DEF RequestsNext
  <2>2. Picker!Next \/ UNCHANGED <<faults, vehicleVars>>
    BY <1>2, <2>1 DEF RequestsNext, ApiNext, StaffNext, ScreensNext, screenVars
  <2>3. [Picker!Next]_Picker!vars
    BY <2>2 DEF vehicleVars, Picker!vars, Picker!sheetVars, Picker!ghosts
  <2> QED
    BY <2>1, <2>3, PickerStep
<1>3. Inv => (side = "vehicle" => Picker!PickerExplained)
  BY PickerFollows
<1> QED
  BY <1>1, <1>2, <1>3, PTL DEF RequestsSpec

-----------------------------------------------------------------------------
(***************************************************************************)
(* The checks of a vehicle.  What is kept of the Fund under a VIN is of a  *)
(* pair with that VIN; a check that is done is not touched again; while no *)
(* two checks overlapped, the one under way is the newest.                 *)
(***************************************************************************)
CarChecks ==
  [kind : {"validate", "enrich"}, pair : Checks!Pairs,
   at : {"kat", "policy", "cache", "fund", "session", "write", "done"},
   kat : {None, "ok", "failed", "manual_fallback", "unavailable"},
   gf : {None, "clean", "flagged", "unavailable"}, of : Checks!Pairs \union {None},
   policy : {None, "found", "none", "timeout"}, copy : {None} \union 0..MaxChecks]

(* The placeholder is no check and none of the answers of a check.         *)
ChecksBounds ==
  /\ MaxChecks \in Nat /\ None \notin CarChecks
  /\ None \notin {"ok", "failed", "manual_fallback", "unavailable", "clean", "flagged", "none",
                  "mock", "success"}

ChecksTypesOK ==
  /\ asks \in 0..MaxChecks /\ errors \in Nat /\ mixed \in BOOLEAN /\ knows \in BOOLEAN
  /\ DOMAIN checks = 1..MaxChecks
  /\ \A n \in 1..MaxChecks : IF n <= asks THEN checks[n] \in CarChecks ELSE checks[n] = None
  /\ waits \in 0..asks /\ reports \subseteq 1..asks
  /\ anon \in {None} \union 0..asks
  /\ opened \in {None, "mock", "success", "unavailable"}

FundInv ==
  /\ DOMAIN fund = Cars \union {None}
  /\ \A k \in Cars \union {None} : fund[k] # None =>
       /\ fund[k].of \in Checks!Pairs /\ fund[k].of.vin = k
       /\ fund[k].listed \in BOOLEAN /\ (fund[k].listed <=> Checks!Listed(fund[k].of))

(* What a check says of the Fund, with the cars it lists.                  *)
CheckAnswerOK(c, rolls) ==
  c.gf \in {"clean", "flagged"} =>
    \/ c.gf = "flagged" <=> (c.pair.vin \in rolls \/ c.pair.plate \in rolls)
    \/ c.of.vin = c.pair.vin /\ c.of.plate # c.pair.plate

(* What a check has been told, with e failures so far.                     *)
ToldOK(c, e, hunted, covered) ==
  /\ c.at = "kat" => c.kind = "validate" /\ c.kat = None
  /\ c.at \in {"kat", "policy", "cache", "fund"} => c.gf = None
  /\ c.at = "policy" => c.kind = "enrich"
  /\ c.kind = "validate" /\ (c.at \in {"cache", "fund"} \/ c.gf # None) => c.kat # None
  /\ c.at \in {"session", "write"} => c.gf # None /\ c.kind = "validate"
  /\ c.at = "write" => c.copy # None
  /\ c.kat = "failed" => c.gf = "unavailable"
  /\ c.kat \in {"manual_fallback", "unavailable"} => e > 0
  /\ c.gf = "unavailable" => e > 0 \/ c.pair.vin \in hunted
  /\ c.policy = "none" /\ e = 0 => c.pair.plate \notin covered

CheckInv ==
  \A n \in 1..asks : CheckAnswerOK(checks[n], listed) /\ ToldOK(checks[n], errors, stolen, insured)

ScreenInv ==
  /\ view = "form" => waits = 0
  /\ view \in {"form", "loading", "byhand", "kat"} => opened = None
  /\ view \in {"loading", "byhand", "kat", "gf"} => waits # 0
  /\ waits # 0 => checks[waits].kind = "validate"
  /\ view = "gf" => checks[waits].at = "done" /\ checks[waits].gf = "unavailable"
  /\ opened = "success" => waits # 0 /\ checks[waits].at = "done" /\ checks[waits].gf = "clean"
  /\ opened = "unavailable" =>
       waits # 0 /\ checks[waits].at = "done" /\ checks[waits].gf = "unavailable"
  /\ opened = "mock" => waits = 0

NewestInv ==
  /\ anon \notin {0, None} =>
       checks[anon].at = "done" /\ checks[anon].copy # None /\ checks[anon].gf # None
  /\ ~mixed =>
       \A w, n \in 1..asks :
         checks[w].kind = "validate" /\ checks[w].at # "done" /\ checks[n].kind = "validate" => n <= w
  /\ ~mixed /\ errors = 0 /\ anon \notin {0, None} =>
       \A n \in 1..asks :
         checks[n].kind = "validate" /\ checks[n].at = "done" /\ checks[n].gf # None => n <= anon

ReportsInv ==
  /\ \A n \in reports : checks[n].at = "done" /\ checks[n].gf = "flagged"
  /\ \A n \in 1..asks :
       checks[n].kind = "validate" /\ checks[n].at = "done" /\ checks[n].gf = "flagged" =>
         (n \in reports <=> knows)

ChecksInv ==
  ChecksTypesOK /\ FundInv /\ CheckInv /\ ScreenInv /\ NewestInv /\ ReportsInv

LEMMA ChecksBegin ==
  ASSUME ChecksBounds, Checks!Init
  PROVE  ChecksInv
<1> USE DEF Checks!Init
<1>1. MaxChecks \in Nat /\ asks = 0 /\ 0 \in 0..MaxChecks /\ waits = 0 /\ anon = 0
  BY DEF ChecksBounds
<1>2. ChecksTypesOK
  <2>1. \A n \in 1..MaxChecks : ~(n <= asks) /\ checks[n] = None
    BY <1>1 DEF Checks!Calls
  <2>2. DOMAIN checks = 1..MaxChecks
    BY DEF Checks!Calls
  <2>3. waits \in 0..asks /\ reports \subseteq 1..asks
    BY <1>1
  <2>4. anon \in {None} \union 0..asks /\ opened \in {None, "mock", "success", "unavailable"}
    BY <1>1
  <2>5. errors \in Nat /\ mixed \in BOOLEAN /\ knows \in BOOLEAN
    OBVIOUS
  <2> QED
    BY <1>1, <2>1, <2>2, <2>3, <2>4, <2>5 DEF ChecksTypesOK
<1>3. FundInv
  BY DEF FundInv
<1>4. 1..asks = {}
  BY <1>1
<1>5. CheckInv /\ NewestInv /\ ReportsInv
  BY <1>1, <1>4 DEF CheckInv, NewestInv, ReportsInv
<1>6. ScreenInv
  BY <1>1 DEF ScreenInv, ChecksBounds
<1> QED
  BY <1>2, <1>3, <1>5, <1>6 DEF ChecksInv

(* The check of a number. *)
LEMMA CheckTaken ==
  ASSUME ChecksBounds, ChecksInv, NEW n \in Checks!Calls, checks[n] # None
  PROVE  /\ n \in 1..asks /\ n \in 1..MaxChecks /\ checks[n] \in CarChecks
         /\ CheckAnswerOK(checks[n], listed) /\ ToldOK(checks[n], errors, stolen, insured)
<1>1. n \in 1..MaxChecks /\ n <= asks /\ asks \in Nat
  BY DEF ChecksInv, ChecksTypesOK, Checks!Calls, ChecksBounds
<1>2. n \in 1..asks
  BY <1>1
<1> QED
  BY <1>1, <1>2 DEF ChecksInv, ChecksTypesOK, CheckInv

(* What the Fund's answers are keeps, and a new answer is of a pair with    *)
(* the VIN it is kept under.                                                *)
LEMMA FundStays ==
  ASSUME FundInv, UNCHANGED <<fund, listed>>
  PROVE  FundInv'
BY DEF FundInv, Checks!Listed

LEMMA FundKept ==
  ASSUME FundInv, NEW pair \in Checks!Pairs, UNCHANGED listed,
         fund' = [fund EXCEPT ![pair.vin] = [listed |-> Checks!Listed(pair), of |-> pair]]
  PROVE  FundInv'
<1> DEFINE v == pair.vin
           new == [listed |-> Checks!Listed(pair), of |-> pair]
<1>1. v \in Cars \union {None} /\ DOMAIN fund = Cars \union {None}
  BY DEF FundInv, Checks!Pairs
<1>2. new.of = pair /\ new.listed = Checks!Listed(pair)
  OBVIOUS
<1>3. Checks!Listed(pair) \in BOOLEAN
  BY DEF Checks!Listed
<1>4. fund' = [fund EXCEPT ![v] = new]
  OBVIOUS
<1> HIDE DEF new, v
<1>5. fund'[v] = new /\ DOMAIN fund' = Cars \union {None}
      /\ \A k \in Cars \union {None} : k # v => fund'[k] = fund[k]
  BY <1>1, <1>4
<1>6. \A p : Checks!Listed(p)' <=> Checks!Listed(p)
  BY DEF Checks!Listed
<1> SUFFICES ASSUME NEW k \in Cars \union {None}, fund'[k] # None
             PROVE  /\ fund'[k].of \in Checks!Pairs /\ fund'[k].of.vin = k
                    /\ fund'[k].listed \in BOOLEAN
                    /\ (fund'[k].listed <=> (fund'[k].of.vin \in listed \/ fund'[k].of.plate \in listed))
  BY <1>5 DEF FundInv, Checks!Listed, Checks!Pairs
<1>7. CASE k = v
  BY <1>2, <1>3, <1>5, <1>7 DEF Checks!Listed, v
<1>8. CASE k # v
  BY <1>5, <1>8 DEF FundInv, Checks!Listed
<1> QED
  BY <1>7, <1>8

-----------------------------------------------------------------------------
(* A check goes on. *)
LEMMA CheckGoes ==
  ASSUME ChecksBounds, ChecksInv, NEW n \in 1..asks, NEW new \in CarChecks,
         checks' = [checks EXCEPT ![n] = new], checks[n].at # "done",
         new.kind = checks[n].kind, new.pair = checks[n].pair,
         errors' \in Nat, errors' >= errors, CheckAnswerOK(new, listed), ToldOK(new, errors', stolen, insured), FundInv',
         UNCHANGED <<stolen, listed, insured, knows, asks, view, waits, opened, mixed>>,
         \/ reports' = reports /\ (new.at # "done" \/ new.gf # "flagged" \/ ~knows
                                   \/ new.kind # "validate")
         \/ reports' = reports \union {n} /\ knows /\ new.at = "done" /\ new.gf = "flagged",
         \/ anon' = anon /\ (new.at # "done" \/ new.gf = None \/ anon = None \/ errors' > 0
                             \/ new.kind # "validate")
         \/ anon' = n /\ new.at = "done" /\ new.kind = "validate" /\ new.gf # None /\ new.copy # None
  PROVE  ChecksInv'
<1> USE DEF ChecksInv
<1>1. /\ asks \in 0..MaxChecks /\ MaxChecks \in Nat /\ errors \in Nat /\ n \in 1..MaxChecks /\ n # 0
      /\ DOMAIN checks = 1..MaxChecks
  BY DEF ChecksTypesOK, ChecksBounds
<1>2. /\ checks'[n] = new /\ DOMAIN checks' = 1..MaxChecks
      /\ \A m \in 1..MaxChecks : m # n => checks'[m] = checks[m]
      /\ \A m \in 1..asks : m \in 1..MaxChecks
  BY <1>1
<1>3. ChecksTypesOK'
  <2>1. \A m \in 1..MaxChecks : IF m <= asks THEN checks'[m] \in CarChecks ELSE checks'[m] = None
    <3>1. n <= asks
      BY <1>1
    <3>2. \A m \in 1..MaxChecks : IF m <= asks THEN checks[m] \in CarChecks ELSE checks[m] = None
      BY DEF ChecksTypesOK
    <3> SUFFICES ASSUME NEW m \in 1..MaxChecks
                 PROVE  IF m <= asks THEN checks'[m] \in CarChecks ELSE checks'[m] = None
      OBVIOUS
    <3>3. CASE m = n
      BY <1>2, <3>1, <3>3
    <3>4. CASE m # n
      BY <1>2, <3>2, <3>4
    <3> QED
      BY <3>3, <3>4
  <2>2. reports' \subseteq 1..asks
    <3>1. n \in 1..asks /\ reports \subseteq 1..asks
      BY DEF ChecksTypesOK
    <3> QED
      BY <3>1
  <2>3. anon' \in {None} \union 0..asks
    <3>1. n \in 0..asks /\ anon \in {None} \union 0..asks
      BY <1>1 DEF ChecksTypesOK
    <3> QED
      BY <3>1
  <2> QED
    BY <1>1, <1>2, <2>1, <2>2, <2>3 DEF ChecksTypesOK
<1>4. CheckInv'
  <2> SUFFICES ASSUME NEW m \in 1..asks
               PROVE  /\ CheckAnswerOK(checks'[m], listed)
                      /\ ToldOK(checks'[m], errors', stolen, insured)
    BY DEF CheckInv
  <2>1. CASE m = n
    BY <1>2, <2>1 DEF CheckAnswerOK, ToldOK
  <2>2. CASE m # n
    <3>1. /\ checks'[m] = checks[m] /\ CheckAnswerOK(checks[m], listed)
          /\ ToldOK(checks[m], errors, stolen, insured)
      BY <1>2, <2>2 DEF CheckInv
    <3>2. (errors > 0 => errors' > 0) /\ (errors' = 0 => errors = 0)
      BY <1>1
    <3> QED
      BY <3>1, <3>2 DEF CheckAnswerOK, ToldOK
  <2> QED
    BY <2>1, <2>2
<1>5. ScreenInv'
  <2>1. waits # 0 => waits \in 1..asks
    BY <1>1 DEF ChecksTypesOK
  <2>2. waits # 0 => checks'[waits].kind = checks[waits].kind
    BY <1>2, <2>1
  <2>3. waits # 0 /\ checks[waits].at = "done" => checks'[waits] = checks[waits]
    BY <1>2, <2>1
  <2> QED
    BY <2>2, <2>3 DEF ScreenInv
<1>6. NewestInv'
  <2>1. anon \notin {0, None} => anon \in 1..asks
    BY <1>1 DEF ChecksTypesOK
  <2>2. anon' \notin {0, None} =>
          checks'[anon'].at = "done" /\ checks'[anon'].copy # None /\ checks'[anon'].gf # None
    <3>1. CASE anon' = anon
      <4>1. ASSUME anon \notin {0, None}
            PROVE  checks'[anon] = checks[anon]
        <5>1. anon # n
          BY <4>1 DEF NewestInv
        <5> QED
          BY <1>2, <2>1, <4>1, <5>1
      <4> QED
        BY <3>1, <4>1 DEF NewestInv
    <3>2. CASE anon' # anon
      BY <1>2, <3>2
    <3> QED
      BY <3>1, <3>2
  <2>3. ASSUME ~mixed, NEW w \in 1..asks, NEW m \in 1..asks,
               checks'[w].kind = "validate", checks'[w].at # "done", checks'[m].kind = "validate"
        PROVE  m <= w
    <3>1. checks[w].kind = "validate" /\ checks[w].at # "done"
      BY <1>2, <2>3
    <3>2. checks[m].kind = "validate"
      BY <1>2, <2>3
    <3> QED
      BY <2>3, <3>1, <3>2 DEF NewestInv
  <2>4. ASSUME ~mixed, errors' = 0, anon' \notin {0, None}, NEW m \in 1..asks,
               checks'[m].kind = "validate", checks'[m].at = "done", checks'[m].gf # None
        PROVE  m <= anon'
    <3>0. errors = 0
      BY <1>1, <2>4
    <3>1. CASE anon' = n /\ new.kind = "validate"
      <4>1. checks[n].kind = "validate" /\ checks[n].at # "done"
        BY <3>1
      <4>2. checks[m].kind = "validate"
        BY <1>2, <2>4
      <4> QED
        BY <2>4, <3>1, <4>1, <4>2 DEF NewestInv
    <3>2. CASE anon' = anon /\ ~(anon' = n /\ new.kind = "validate")
      <4>1. m # n
        BY <1>1, <1>2, <2>4, <3>2
      <4>2. checks'[m] = checks[m]
        BY <1>2, <4>1
      <4> QED
        BY <2>4, <3>0, <3>2, <4>2 DEF NewestInv
    <3> QED
      BY <3>1, <3>2
  <2> QED
    BY <2>2, <2>3, <2>4 DEF NewestInv
<1>7. ReportsInv'
  <2>1. n \notin reports
    BY DEF ReportsInv
  <2>2. \A m \in reports' : checks'[m].at = "done" /\ checks'[m].gf = "flagged"
    <3> SUFFICES ASSUME NEW m \in reports'
                 PROVE  checks'[m].at = "done" /\ checks'[m].gf = "flagged"
      OBVIOUS
    <3>1. CASE m = n
      BY <1>2, <2>1, <3>1
    <3>2. CASE m # n
      <4>1. m \in reports /\ m \in 1..asks
        BY <3>2 DEF ChecksTypesOK
      <4> QED
        BY <1>2, <3>2, <4>1 DEF ReportsInv
    <3> QED
      BY <3>1, <3>2
  <2>3. ASSUME NEW m \in 1..asks, checks'[m].kind = "validate", checks'[m].at = "done",
               checks'[m].gf = "flagged"
        PROVE  m \in reports' <=> knows
    <3>1. CASE m = n
      BY <1>2, <2>1, <2>3, <3>1
    <3>2. CASE m # n
      <4>1. checks'[m] = checks[m]
        BY <1>2, <3>2
      <4>2. m \in reports <=> knows
        BY <2>3, <4>1 DEF ReportsInv
      <4> QED
        BY <3>2, <4>2
    <3> QED
      BY <3>1, <3>2
  <2> QED
    BY <2>2, <2>3 DEF ReportsInv
<1> QED
  BY <1>3, <1>4, <1>5, <1>6, <1>7

-----------------------------------------------------------------------------
(* One of the API's steps.                                                  *)
LEMMA ChecksRefuseVin ==
  ASSUME ChecksBounds, ChecksInv, NEW n \in Checks!Calls, Checks!RefuseVin(n)
  PROVE  ChecksInv'
<1> DEFINE c == checks[n]
           new == [c EXCEPT !.at = "done"]
<1>1. /\ c # None /\ c.kind = "validate" /\ c.at = "kat" /\ checks' = [checks EXCEPT ![n] = new]
      /\ UNCHANGED <<stolen, listed, insured, knows, fund, anon, asks, view, waits, opened, mixed,
                      reports, errors>>
  BY DEF Checks!RefuseVin, Checks!At, Checks!world, Checks!screen
<1>2. n \in 1..asks /\ c \in CarChecks /\ CheckAnswerOK(c, listed) /\ ToldOK(c, errors, stolen, insured)
  BY <1>1, CheckTaken
<1>3. /\ new \in CarChecks /\ new.kind = c.kind /\ new.pair = c.pair /\ new.at = "done"
      /\ new.gf = c.gf /\ new.kat = c.kat /\ new.policy = c.policy /\ new.copy = c.copy
      /\ new.of = c.of
  BY <1>2 DEF CarChecks
<1>4. errors' \in Nat /\ errors' >= errors
  BY <1>1 DEF ChecksInv, ChecksTypesOK
<1>5. FundInv'
  BY <1>1, FundStays DEF ChecksInv
<1> HIDE DEF new, c
<1>6. c.gf = None /\ c.gf # "flagged"
  BY <1>1, <1>2 DEF ToldOK, ChecksBounds
<1>7. CheckAnswerOK(new, listed) /\ ToldOK(new, errors', stolen, insured)
  BY <1>1, <1>2, <1>3, <1>6 DEF CheckAnswerOK, ToldOK
<1> QED
  BY <1>1, <1>2, <1>3, <1>4, <1>5, <1>6, <1>7, CheckGoes DEF c

LEMMA ChecksAskKat ==
  ASSUME ChecksBounds, ChecksInv, NEW n \in Checks!Calls, Checks!AskKat(n)
  PROVE  ChecksInv'
<1> DEFINE c == checks[n]
           new(k, g, a) == [c EXCEPT !.kat = k, !.gf = g, !.at = a]
<1>1. /\ c # None /\ c.kind = "validate" /\ c.at = "kat"
      /\ UNCHANGED <<stolen, listed, insured, knows, fund, anon, asks, view, waits, opened, mixed,
                      reports>>
  BY DEF Checks!AskKat, Checks!At, Checks!world, Checks!screen
<1>2. n \in 1..asks /\ c \in CarChecks /\ CheckAnswerOK(c, listed) /\ ToldOK(c, errors, stolen, insured)
  BY <1>1, CheckTaken
<1>3. c.gf = None /\ c.kat = None
  BY <1>1, <1>2 DEF ToldOK
<1>4. PICK k \in {"ok", "failed", "manual_fallback", "unavailable"},
           g \in {None, "unavailable"}, a \in {"session", "cache"} :
        /\ checks' = [checks EXCEPT ![n] = new(k, g, a)]
        /\ \/ k = "failed" /\ g = "unavailable" /\ a = "session" /\ c.pair.vin \in stolen
              /\ errors' = errors
           \/ k = "ok" /\ g = None /\ a = "cache" /\ errors' = errors
           \/ k \notin {"ok", "failed"} /\ g = None /\ a = "cache" /\ errors' = errors + 1
  <2>1. CASE /\ c.pair.vin \in stolen /\ UNCHANGED errors
             /\ checks' = [checks EXCEPT ![n].kat = "failed", ![n].gf = "unavailable",
                                         ![n].at = "session"]
    <3>1. checks' = [checks EXCEPT ![n] = new("failed", "unavailable", "session")]
      BY <1>2, <2>1 DEF ChecksInv, ChecksTypesOK
    <3> QED
      BY <2>1, <3>1
  <2>2. CASE UNCHANGED errors /\ checks' = [checks EXCEPT ![n].kat = "ok", ![n].at = "cache"]
    <3>1. checks' = [checks EXCEPT ![n] = new("ok", None, "cache")]
      BY <1>2, <1>3, <2>2 DEF ChecksInv, ChecksTypesOK, CarChecks
    <3> QED
      BY <2>2, <3>1
  <2>3. CASE /\ Checks!Fault
             /\ \E s \in {"manual_fallback", "unavailable"} :
                  checks' = [checks EXCEPT ![n].kat = s, ![n].at = "cache"]
    <3>1. PICK s \in {"manual_fallback", "unavailable"} :
            checks' = [checks EXCEPT ![n].kat = s, ![n].at = "cache"]
      BY <2>3
    <3>2. checks' = [checks EXCEPT ![n] = new(s, None, "cache")]
      BY <1>2, <1>3, <3>1 DEF ChecksInv, ChecksTypesOK, CarChecks
    <3>3. errors' = errors + 1
      BY <2>3 DEF Checks!Fault
    <3> QED
      BY <3>2, <3>3
  <2> QED
    BY <2>1, <2>2, <2>3 DEF Checks!AskKat
<1> DEFINE d == new(k, g, a)
<1>5. /\ d \in CarChecks /\ d.kind = c.kind /\ d.pair = c.pair /\ d.at = a
      /\ d.gf = g /\ d.kat = k /\ d.policy = c.policy /\ d.copy = c.copy /\ d.of = c.of
  BY <1>2 DEF CarChecks
<1>6. errors \in Nat /\ errors' \in Nat /\ errors' >= errors /\ (errors' = errors + 1 => errors' > 0)
  BY <1>4 DEF ChecksInv, ChecksTypesOK
<1>7. FundInv'
  BY <1>1, FundStays DEF ChecksInv
<1> HIDE DEF new, c, d
<1>8. g \notin {"clean", "flagged"} /\ k # None /\ a # "done"
  BY DEF ChecksBounds
<1>9. CheckAnswerOK(d, listed)
  BY <1>5, <1>8 DEF CheckAnswerOK
<1>10. ToldOK(d, errors', stolen, insured)
  BY <1>1, <1>2, <1>3, <1>4, <1>5, <1>6, <1>8 DEF ToldOK, ChecksBounds
<1>11. checks' = [checks EXCEPT ![n] = d]
  BY <1>4 DEF d
<1> QED
  BY <1>1, <1>2, <1>5, <1>6, <1>7, <1>8, <1>9, <1>10, <1>11, CheckGoes DEF c

LEMMA ChecksFindPolicy ==
  ASSUME ChecksBounds, ChecksInv, NEW n \in Checks!Calls, Checks!FindPolicy(n)
  PROVE  ChecksInv'
<1> DEFINE c == checks[n]
           new(p, a) == [c EXCEPT !.policy = p, !.at = a]
<1>1. /\ c # None /\ c.kind = "enrich" /\ c.at = "policy"
      /\ UNCHANGED <<stolen, listed, insured, knows, fund, anon, asks, view, waits, opened, mixed,
                      reports>>
  BY DEF Checks!FindPolicy, Checks!At, Checks!world, Checks!screen
<1>2. n \in 1..asks /\ c \in CarChecks /\ CheckAnswerOK(c, listed) /\ ToldOK(c, errors, stolen, insured)
  BY <1>1, CheckTaken
<1>3. c.gf = None
  BY <1>1, <1>2 DEF ToldOK
<1>4. PICK p \in {"found", "none", "timeout"}, a \in {"done", "cache"} :
        /\ checks' = [checks EXCEPT ![n] = new(p, a)]
        /\ \/ p = "found" /\ a = "done" /\ errors' = errors
           \/ p = "none" /\ a = "cache" /\ c.pair.plate \notin insured /\ errors' = errors
           \/ p \in {"none", "timeout"} /\ a = "cache" /\ errors' = errors + 1
  <2>1. CASE UNCHANGED errors /\ checks' = [checks EXCEPT ![n].policy = "found", ![n].at = "done"]
    <3>1. checks' = [checks EXCEPT ![n] = new("found", "done")]
      BY <1>2, <2>1 DEF ChecksInv, ChecksTypesOK
    <3> QED
      BY <2>1, <3>1
  <2>2. CASE /\ c.pair.plate \notin insured /\ UNCHANGED errors
             /\ checks' = [checks EXCEPT ![n].policy = "none", ![n].at = "cache"]
    <3>1. checks' = [checks EXCEPT ![n] = new("none", "cache")]
      BY <1>2, <2>2 DEF ChecksInv, ChecksTypesOK
    <3> QED
      BY <2>2, <3>1
  <2>3. CASE /\ Checks!Fault
             /\ \E p \in {"none", "timeout"} :
                  checks' = [checks EXCEPT ![n].policy = p, ![n].at = "cache"]
    <3>1. PICK p \in {"none", "timeout"} :
            checks' = [checks EXCEPT ![n].policy = p, ![n].at = "cache"]
      BY <2>3
    <3>2. checks' = [checks EXCEPT ![n] = new(p, "cache")]
      BY <1>2, <3>1 DEF ChecksInv, ChecksTypesOK
    <3>3. errors' = errors + 1
      BY <2>3 DEF Checks!Fault
    <3> QED
      BY <3>2, <3>3
  <2> QED
    BY <2>1, <2>2, <2>3 DEF Checks!FindPolicy
<1> DEFINE d == new(p, a)
<1>5. /\ d \in CarChecks /\ d.kind = c.kind /\ d.pair = c.pair /\ d.at = a
      /\ d.gf = c.gf /\ d.kat = c.kat /\ d.policy = p /\ d.copy = c.copy /\ d.of = c.of
  BY <1>2 DEF CarChecks
<1>6. errors \in Nat /\ errors' \in Nat /\ errors' >= errors /\ (errors' = errors + 1 => errors' > 0)
  BY <1>4 DEF ChecksInv, ChecksTypesOK
<1>7. FundInv'
  BY <1>1, FundStays DEF ChecksInv
<1> HIDE DEF new, c, d
<1>8. c.gf \notin {"clean", "flagged", "unavailable"}
  BY <1>3 DEF ChecksBounds
<1>9. CheckAnswerOK(d, listed)
  BY <1>5, <1>8 DEF CheckAnswerOK
<1>10. ToldOK(d, errors', stolen, insured)
  BY <1>1, <1>2, <1>3, <1>4, <1>5, <1>6, <1>8 DEF ToldOK
<1>11. checks' = [checks EXCEPT ![n] = d]
  BY <1>4 DEF d
<1> QED
  BY <1>1, <1>2, <1>5, <1>6, <1>7, <1>8, <1>9, <1>10, <1>11, CheckGoes DEF c

LEMMA ChecksReadCache ==
  ASSUME ChecksBounds, ChecksInv, NEW n \in Checks!Calls, Checks!ReadCache(n)
  PROVE  ChecksInv'
<1> DEFINE c == checks[n]
           was == fund[c.pair.vin]
           after == Checks!Then(n)
<1>1. /\ c # None /\ c.at = "cache"
      /\ UNCHANGED <<stolen, listed, insured, knows, fund, anon, asks, view, waits, opened, mixed,
                      reports>>
      /\ \/ checks' = [checks EXCEPT ![n].at = "fund"] /\ UNCHANGED errors
         \/ /\ was # None /\ UNCHANGED errors
            /\ checks' = [checks EXCEPT ![n].gf = IF was.listed THEN "flagged" ELSE "clean",
                                        ![n].of = was.of, ![n].at = after]
         \/ /\ errors' = errors + 1
            /\ checks' = [checks EXCEPT ![n].gf = "unavailable", ![n].at = after]
  BY DEF Checks!ReadCache, Checks!Fault, Checks!Key, Checks!world, Checks!screen
<1>2. n \in 1..asks /\ c \in CarChecks /\ CheckAnswerOK(c, listed) /\ ToldOK(c, errors, stolen, insured)
  BY <1>1, CheckTaken
<1>3. n \in DOMAIN checks /\ errors \in Nat
  BY <1>2, CheckTaken, <1>1 DEF ChecksInv, ChecksTypesOK
<1>4. after = (IF c.kind = "validate" THEN "session" ELSE "done")
      /\ c.kind \in {"validate", "enrich"} /\ c.pair \in Checks!Pairs
  BY <1>2 DEF Checks!Then, CarChecks
<1>5. c.gf = None
  BY <1>1, <1>2 DEF ToldOK
<1>6. FundInv'
  BY <1>1, FundStays DEF ChecksInv
<1>7. c.pair.vin \in Cars \union {None}
  BY <1>4 DEF Checks!Pairs
<1>8. was # None =>
        /\ was.of \in Checks!Pairs /\ was.of.vin = c.pair.vin
        /\ was.listed \in BOOLEAN /\ (was.listed <=> Checks!Listed(was.of))
  BY <1>7 DEF ChecksInv, FundInv
<1> HIDE DEF was, after
<1>9. CASE checks' = [checks EXCEPT ![n].at = "fund"] /\ UNCHANGED errors
  <2> DEFINE d == [c EXCEPT !.at = "fund"]
  <2>1. checks' = [checks EXCEPT ![n] = d]
    BY <1>3, <1>9
  <2>2. /\ d \in CarChecks /\ d.kind = c.kind /\ d.pair = c.pair /\ d.at = "fund"
        /\ d.gf = c.gf /\ d.kat = c.kat /\ d.policy = c.policy /\ d.copy = c.copy /\ d.of = c.of
    BY <1>2 DEF CarChecks
  <2> HIDE DEF d, c
  <2>3. CheckAnswerOK(d, listed)
    BY <1>2, <2>2 DEF CheckAnswerOK
  <2>4. ToldOK(d, errors', stolen, insured)
    BY <1>1, <1>2, <1>9, <2>2 DEF ToldOK
  <2>5. errors' \in Nat /\ errors' >= errors
    BY <1>3, <1>9
  <2> QED
    BY <1>1, <1>2, <1>6, <2>1, <2>2, <2>3, <2>4, <2>5, CheckGoes DEF c
<1>10. CASE /\ was # None /\ UNCHANGED errors
            /\ checks' = [checks EXCEPT ![n].gf = IF was.listed THEN "flagged" ELSE "clean",
                                        ![n].of = was.of, ![n].at = after]
  <2> DEFINE g == IF was.listed THEN "flagged" ELSE "clean"
             d == [c EXCEPT !.gf = g, !.of = was.of, !.at = after]
  <2>1. checks' = [checks EXCEPT ![n] = d]
    BY <1>3, <1>10
  <2>2. /\ d \in CarChecks /\ d.kind = c.kind /\ d.pair = c.pair /\ d.at = after
        /\ d.gf = g /\ d.kat = c.kat /\ d.policy = c.policy /\ d.copy = c.copy /\ d.of = was.of
    BY <1>2, <1>4, <1>8, <1>10 DEF CarChecks
  <2> HIDE DEF d, c
  <2>3. CheckAnswerOK(d, listed)
    <3>1. CASE was.of.plate = c.pair.plate
      <4>1. was.listed <=> (c.pair.vin \in listed \/ c.pair.plate \in listed)
        BY <1>8, <1>10, <3>1 DEF Checks!Listed
      <4> QED
        BY <2>2, <4>1 DEF CheckAnswerOK
    <3>2. CASE was.of.plate # c.pair.plate
      BY <1>8, <1>10, <2>2, <3>2 DEF CheckAnswerOK
    <3> QED
      BY <3>1, <3>2
  <2>4. g # None /\ g # "unavailable"
    BY DEF ChecksBounds
  <2>5. ToldOK(d, errors', stolen, insured)
    <3>1. c.kat # "failed"
      BY <1>2, <1>5 DEF ToldOK, ChecksBounds
    <3> HIDE DEF g
    <3> QED
      BY <1>1, <1>2, <1>4, <1>10, <2>2, <2>4, <3>1 DEF ToldOK
  <2>6. errors' \in Nat /\ errors' >= errors
    BY <1>3, <1>10
  <2> HIDE DEF g
  <2>7. d.at # "done" \/ d.kind # "validate"
    BY <1>4, <2>2
  <2> QED
    BY <1>1, <1>2, <1>6, <2>1, <2>2, <2>3, <2>5, <2>6, <2>7, CheckGoes DEF c
<1>11. CASE /\ errors' = errors + 1
            /\ checks' = [checks EXCEPT ![n].gf = "unavailable", ![n].at = after]
  <2> DEFINE d == [c EXCEPT !.gf = "unavailable", !.at = after]
  <2>1. checks' = [checks EXCEPT ![n] = d]
    BY <1>3, <1>11
  <2>2. /\ d \in CarChecks /\ d.kind = c.kind /\ d.pair = c.pair /\ d.at = after
        /\ d.gf = "unavailable" /\ d.kat = c.kat /\ d.policy = c.policy /\ d.copy = c.copy
        /\ d.of = c.of
    BY <1>2, <1>4 DEF CarChecks
  <2> HIDE DEF d, c
  <2>3. CheckAnswerOK(d, listed)
    BY <2>2 DEF CheckAnswerOK
  <2>4. errors' \in Nat /\ errors' >= errors /\ errors' > 0
    BY <1>3, <1>11
  <2>5. ToldOK(d, errors', stolen, insured)
    BY <1>1, <1>2, <1>4, <2>2, <2>4 DEF ToldOK, ChecksBounds
  <2>6. d.at # "done" \/ d.kind # "validate"
    BY <1>4, <2>2
  <2> QED
    BY <1>1, <1>2, <1>6, <2>1, <2>2, <2>3, <2>4, <2>5, <2>6, CheckGoes DEF c
<1> QED
  BY <1>1, <1>9, <1>10, <1>11

LEMMA ChecksAskFund ==
  ASSUME ChecksBounds, ChecksInv, NEW n \in Checks!Calls, Checks!AskFund(n)
  PROVE  ChecksInv'
<1> DEFINE c == checks[n]
           after == Checks!Then(n)
           told == [fund EXCEPT ![c.pair.vin] = [listed |-> Checks!Listed(c.pair), of |-> c.pair]]
<1>1. /\ c # None /\ c.at = "fund"
      /\ UNCHANGED <<stolen, listed, insured, knows, anon, asks, view, waits, opened, mixed, reports>>
      /\ \/ /\ fund' = told /\ UNCHANGED errors
            /\ checks' = [checks EXCEPT ![n].gf = IF Checks!Listed(c.pair) THEN "flagged" ELSE "clean",
                                        ![n].of = c.pair, ![n].at = after]
         \/ /\ errors' = errors + 1 /\ fund' \in {fund, told}
            /\ checks' = [checks EXCEPT ![n].gf = "unavailable", ![n].at = after]
  BY DEF Checks!AskFund, Checks!Fault, Checks!Key, Checks!world, Checks!screen
<1>2. n \in 1..asks /\ c \in CarChecks /\ CheckAnswerOK(c, listed) /\ ToldOK(c, errors, stolen, insured)
  BY <1>1, CheckTaken
<1>3. n \in DOMAIN checks /\ errors \in Nat
  BY <1>2, CheckTaken, <1>1 DEF ChecksInv, ChecksTypesOK
<1>4. after = (IF c.kind = "validate" THEN "session" ELSE "done")
      /\ c.kind \in {"validate", "enrich"} /\ c.pair \in Checks!Pairs
  BY <1>2 DEF Checks!Then, CarChecks
<1>5. c.gf = None
  BY <1>1, <1>2 DEF ToldOK
<1>6. FundInv'
  <2>1. fund' = told => FundInv'
    BY <1>1, <1>4, FundKept DEF ChecksInv
  <2>2. fund' = fund => FundInv'
    BY <1>1, FundStays DEF ChecksInv
  <2> QED
    BY <1>1, <2>1, <2>2
<1> HIDE DEF told, after
<1>7. CASE /\ UNCHANGED errors
           /\ checks' = [checks EXCEPT ![n].gf = IF Checks!Listed(c.pair) THEN "flagged" ELSE "clean",
                                       ![n].of = c.pair, ![n].at = after]
  <2> DEFINE g == IF Checks!Listed(c.pair) THEN "flagged" ELSE "clean"
             d == [c EXCEPT !.gf = g, !.of = c.pair, !.at = after]
  <2>1. checks' = [checks EXCEPT ![n] = d]
    BY <1>3, <1>7
  <2>2. /\ d \in CarChecks /\ d.kind = c.kind /\ d.pair = c.pair /\ d.at = after
        /\ d.gf = g /\ d.kat = c.kat /\ d.policy = c.policy /\ d.copy = c.copy /\ d.of = c.pair
    BY <1>2, <1>4 DEF CarChecks
  <2> HIDE DEF d, c
  <2>3. CheckAnswerOK(d, listed)
    BY <2>2 DEF CheckAnswerOK, Checks!Listed
  <2>4. g # None /\ g # "unavailable"
    BY DEF ChecksBounds
  <2>5. ToldOK(d, errors', stolen, insured)
    <3>1. c.kat # "failed"
      BY <1>2, <1>5 DEF ToldOK, ChecksBounds
    <3> HIDE DEF g
    <3> QED
      BY <1>1, <1>2, <1>4, <1>7, <2>2, <2>4, <3>1 DEF ToldOK
  <2>6. errors' \in Nat /\ errors' >= errors
    BY <1>3, <1>7
  <2> HIDE DEF g
  <2>7. d.at # "done" \/ d.kind # "validate"
    BY <1>4, <2>2
  <2> QED
    BY <1>1, <1>2, <1>6, <2>1, <2>2, <2>3, <2>5, <2>6, <2>7, CheckGoes DEF c
<1>8. CASE /\ errors' = errors + 1
           /\ checks' = [checks EXCEPT ![n].gf = "unavailable", ![n].at = after]
  <2> DEFINE d == [c EXCEPT !.gf = "unavailable", !.at = after]
  <2>1. checks' = [checks EXCEPT ![n] = d]
    BY <1>3, <1>8
  <2>2. /\ d \in CarChecks /\ d.kind = c.kind /\ d.pair = c.pair /\ d.at = after
        /\ d.gf = "unavailable" /\ d.kat = c.kat /\ d.policy = c.policy /\ d.copy = c.copy
        /\ d.of = c.of
    BY <1>2, <1>4 DEF CarChecks
  <2> HIDE DEF d, c
  <2>3. CheckAnswerOK(d, listed)
    BY <2>2 DEF CheckAnswerOK
  <2>4. errors' \in Nat /\ errors' >= errors /\ errors' > 0
    BY <1>3, <1>8
  <2>5. ToldOK(d, errors', stolen, insured)
    BY <1>1, <1>2, <1>4, <2>2, <2>4 DEF ToldOK, ChecksBounds
  <2>6. d.at # "done" \/ d.kind # "validate"
    BY <1>4, <2>2
  <2> QED
    BY <1>1, <1>2, <1>6, <2>1, <2>2, <2>3, <2>4, <2>5, <2>6, CheckGoes DEF c
<1> QED
  BY <1>1, <1>7, <1>8

LEMMA ChecksReadSession ==
  ASSUME ChecksBounds, ChecksInv, NEW n \in Checks!Calls, Checks!ReadSession(n)
  PROVE  ChecksInv'
<1> DEFINE c == checks[n]
<1>1. /\ c # None /\ c.kind = "validate" /\ c.at = "session"
      /\ UNCHANGED <<stolen, listed, insured, knows, fund, anon, asks, view, waits, opened, mixed>>
      /\ \/ /\ anon # None /\ UNCHANGED <<reports, errors>>
            /\ checks' = [checks EXCEPT ![n].copy = anon, ![n].at = "write"]
         \/ /\ checks' = [checks EXCEPT ![n].at = "done"]
            /\ reports' = IF c.gf = "flagged" /\ knows THEN reports \union {n} ELSE reports
            /\ (anon = None /\ UNCHANGED errors) \/ errors' = errors + 1
  BY DEF Checks!ReadSession, Checks!Report, Checks!At, Checks!Fault, Checks!world, Checks!screen
<1>2. n \in 1..asks /\ c \in CarChecks /\ CheckAnswerOK(c, listed) /\ ToldOK(c, errors, stolen, insured)
  BY <1>1, CheckTaken
<1>3. n \in DOMAIN checks /\ errors \in Nat /\ knows \in BOOLEAN
  BY <1>2, CheckTaken, <1>1 DEF ChecksInv, ChecksTypesOK
<1>4. FundInv'
  BY <1>1, FundStays DEF ChecksInv
<1>5. anon \in {None} \union 0..MaxChecks
  BY DEF ChecksInv, ChecksTypesOK, ChecksBounds
<1>6. CASE /\ anon # None /\ UNCHANGED <<reports, errors>>
           /\ checks' = [checks EXCEPT ![n].copy = anon, ![n].at = "write"]
  <2> DEFINE d == [c EXCEPT !.copy = anon, !.at = "write"]
  <2>1. checks' = [checks EXCEPT ![n] = d]
    BY <1>3, <1>6
  <2>2. /\ d \in CarChecks /\ d.kind = c.kind /\ d.pair = c.pair /\ d.at = "write"
        /\ d.gf = c.gf /\ d.kat = c.kat /\ d.policy = c.policy /\ d.copy = anon /\ d.of = c.of
    BY <1>2, <1>5 DEF CarChecks
  <2> HIDE DEF d, c
  <2>3. CheckAnswerOK(d, listed)
    BY <1>2, <2>2 DEF CheckAnswerOK
  <2>4. ToldOK(d, errors', stolen, insured)
    BY <1>1, <1>2, <1>6, <2>2 DEF ToldOK
  <2>5. errors' \in Nat /\ errors' >= errors
    BY <1>3, <1>6
  <2> QED
    BY <1>1, <1>2, <1>4, <1>6, <2>1, <2>2, <2>3, <2>4, <2>5, CheckGoes DEF c
<1>7. CASE /\ checks' = [checks EXCEPT ![n].at = "done"]
           /\ reports' = IF c.gf = "flagged" /\ knows THEN reports \union {n} ELSE reports
           /\ (anon = None /\ UNCHANGED errors) \/ errors' = errors + 1
  <2> DEFINE d == [c EXCEPT !.at = "done"]
  <2>1. checks' = [checks EXCEPT ![n] = d]
    BY <1>3, <1>7
  <2>2. /\ d \in CarChecks /\ d.kind = c.kind /\ d.pair = c.pair /\ d.at = "done"
        /\ d.gf = c.gf /\ d.kat = c.kat /\ d.policy = c.policy /\ d.copy = c.copy /\ d.of = c.of
    BY <1>2 DEF CarChecks
  <2> HIDE DEF d, c
  <2>3. CheckAnswerOK(d, listed)
    BY <1>2, <2>2 DEF CheckAnswerOK
  <2>4. errors' \in Nat /\ errors' >= errors /\ (errors' = 0 => errors = 0)
        /\ (errors > 0 => errors' > 0) /\ (anon = None \/ errors' > 0)
    BY <1>3, <1>7
  <2>5. ToldOK(d, errors', stolen, insured)
    BY <1>1, <1>2, <2>2, <2>4 DEF ToldOK
  <2>6. \/ reports' = reports /\ (d.gf # "flagged" \/ ~knows)
        \/ reports' = reports \union {n} /\ knows /\ d.gf = "flagged"
    BY <1>3, <1>7, <2>2
  <2> QED
    BY <1>1, <1>2, <1>4, <2>1, <2>2, <2>3, <2>4, <2>5, <2>6, CheckGoes DEF c
<1> QED
  BY <1>1, <1>6, <1>7

LEMMA ChecksWriteSession ==
  ASSUME ChecksBounds, ChecksInv, NEW n \in Checks!Calls, Checks!WriteSession(n)
  PROVE  ChecksInv'
<1> DEFINE c == checks[n]
           d == [c EXCEPT !.at = "done"]
<1>1. /\ c # None /\ c.kind = "validate" /\ c.at = "write"
      /\ UNCHANGED <<stolen, listed, insured, knows, fund, asks, view, waits, opened, mixed>>
      /\ checks' = [checks EXCEPT ![n] = d]
      /\ reports' = IF c.gf = "flagged" /\ knows THEN reports \union {n} ELSE reports
      /\ (anon' = n /\ UNCHANGED errors) \/ (errors' = errors + 1 /\ UNCHANGED anon)
  BY DEF Checks!WriteSession, Checks!Report, Checks!At, Checks!Fault, Checks!world, Checks!screen
<1>2. n \in 1..asks /\ c \in CarChecks /\ CheckAnswerOK(c, listed) /\ ToldOK(c, errors, stolen, insured)
  BY <1>1, CheckTaken
<1>3. n \in DOMAIN checks /\ errors \in Nat /\ knows \in BOOLEAN
  BY <1>2, CheckTaken, <1>1 DEF ChecksInv, ChecksTypesOK
<1>4. FundInv'
  BY <1>1, FundStays DEF ChecksInv
<1>5. /\ d \in CarChecks /\ d.kind = c.kind /\ d.pair = c.pair /\ d.at = "done"
      /\ d.gf = c.gf /\ d.kat = c.kat /\ d.policy = c.policy /\ d.copy = c.copy /\ d.of = c.of
  BY <1>2 DEF CarChecks
<1> HIDE DEF d, c
<1>6. CheckAnswerOK(d, listed)
  BY <1>2, <1>5 DEF CheckAnswerOK
<1>7. errors' \in Nat /\ errors' >= errors /\ (errors' = 0 => errors = 0)
      /\ (errors > 0 => errors' > 0)
  BY <1>1, <1>3
<1>8. ToldOK(d, errors', stolen, insured)
  BY <1>1, <1>2, <1>5, <1>7 DEF ToldOK
<1>9. \/ reports' = reports /\ (d.gf # "flagged" \/ ~knows)
      \/ reports' = reports \union {n} /\ knows /\ d.gf = "flagged"
  BY <1>1, <1>3, <1>5
<1>10. c.gf # None /\ c.copy # None
  BY <1>1, <1>2 DEF ToldOK
<1>11. \/ anon' = anon /\ errors' > 0
       \/ anon' = n /\ d.at = "done" /\ d.kind = "validate" /\ d.gf # None /\ d.copy # None
  BY <1>1, <1>3, <1>5, <1>10
<1> QED
  BY <1>1, <1>2, <1>4, <1>5, <1>6, <1>7, <1>8, <1>9, <1>11, CheckGoes DEF c

-----------------------------------------------------------------------------
(* A request is sent.                                                      *)
LEMMA CheckAsked ==
  ASSUME ChecksBounds, ChecksInv, NEW kind \in {"validate", "enrich"}, NEW pair \in Checks!Pairs,
         Checks!Request(kind, pair),
         UNCHANGED <<stolen, listed, insured, knows, fund, anon, reports, errors>>,
         \/ kind = "enrich" /\ UNCHANGED <<view, waits, opened, mixed>>
         \/ kind = "validate" /\ view' \in {"loading", "byhand"} /\ waits' = asks'
            /\ opened' = None /\ mixed' = (mixed \/ Checks!Writing # {})
  PROVE  ChecksInv'
<1> DEFINE k == asks + 1
           new == [kind |-> kind, pair |-> pair, at |-> IF kind = "validate" THEN "kat" ELSE "policy",
                   kat |-> None, gf |-> None, of |-> None, policy |-> None, copy |-> None]
<1>1. /\ asks \in 0..MaxChecks /\ MaxChecks \in Nat /\ errors \in Nat
      /\ DOMAIN checks = 1..MaxChecks /\ mixed \in BOOLEAN /\ knows \in BOOLEAN
      /\ waits \in 0..asks /\ reports \subseteq 1..asks /\ anon \in {None} \union 0..asks
      /\ opened \in {None, "mock", "success", "unavailable"}
  BY DEF ChecksInv, ChecksTypesOK, ChecksBounds
<1>2. asks < MaxChecks /\ asks' = k /\ checks' = [checks EXCEPT ![k] = new]
  BY DEF Checks!Request
<1>3. /\ new \in CarChecks /\ new.kind = kind /\ new.gf = None /\ new.kat = None
      /\ new.policy = None /\ new.copy = None /\ new.pair = pair
      /\ new.at = IF kind = "validate" THEN "kat" ELSE "policy"
  BY DEF CarChecks
<1> HIDE DEF new
<1>4. /\ k \in 1..MaxChecks /\ 1..k = 1..asks \union {k} /\ k \notin 1..asks /\ k # 0
      /\ \A m \in 1..asks : m \in 1..MaxChecks /\ m <= k /\ m \in Int
      /\ \A m \in 1..MaxChecks : m <= k <=> m <= asks \/ m = k
  BY <1>1, <1>2
<1>5. /\ checks'[k] = new /\ DOMAIN checks' = 1..MaxChecks
      /\ \A m \in 1..MaxChecks : m # k => checks'[m] = checks[m]
      /\ \A m \in 1..asks : checks'[m] = checks[m]
  BY <1>1, <1>2, <1>4
<1>6. waits' \in 0..k /\ opened' \in {None, "mock", "success", "unavailable"} /\ mixed' \in BOOLEAN
  <2>1. waits' \in 0..k
    BY <1>1, <1>2
  <2>2. opened' \in {None, "mock", "success", "unavailable"}
    BY <1>1
  <2>3. mixed' \in BOOLEAN
    BY <1>1, Zenon
  <2> QED
    BY <2>1, <2>2, <2>3
<1>7. asks' \in 0..MaxChecks /\ reports \subseteq 1..k /\ anon \in {None} \union 0..k
  BY <1>1, <1>2, <1>4
<1> HIDE DEF k
<1>8. ChecksTypesOK'
  <2>1. \A m \in 1..MaxChecks : IF m <= asks THEN checks[m] \in CarChecks ELSE checks[m] = None
    BY DEF ChecksInv, ChecksTypesOK
  <2>2. \A m \in 1..MaxChecks : IF m <= k THEN checks'[m] \in CarChecks ELSE checks'[m] = None
    <3> SUFFICES ASSUME NEW m \in 1..MaxChecks
                 PROVE  IF m <= k THEN checks'[m] \in CarChecks ELSE checks'[m] = None
      OBVIOUS
    <3>1. CASE m = k
      BY <1>3, <1>4, <1>5, <3>1
    <3>2. CASE m # k
      BY <1>4, <1>5, <2>1, <3>2
    <3> QED
      BY <3>1, <3>2
  <2> QED
    BY <1>1, <1>2, <1>5, <1>6, <1>7, <2>2 DEF ChecksTypesOK
<1>9. FundInv'
  BY FundStays DEF ChecksInv
<1>10. CheckInv'
  <2> SUFFICES ASSUME NEW m \in 1..k
               PROVE  /\ CheckAnswerOK(checks'[m], listed)
                      /\ ToldOK(checks'[m], errors, stolen, insured)
    BY <1>2 DEF CheckInv
  <2>1. CASE m = k
    BY <1>3, <1>5, <2>1 DEF CheckAnswerOK, ToldOK, ChecksBounds
  <2>2. CASE m \in 1..asks
    BY <1>5, <2>2 DEF ChecksInv, CheckInv
  <2> QED
    BY <1>4, <2>1, <2>2
<1>11. ScreenInv'
  <2>1. waits # 0 => waits \in 1..asks
    BY <1>1
  <2>2. waits # 0 => checks'[waits] = checks[waits]
    BY <1>5, <2>1
  <2>3. CASE kind = "enrich"
    BY <2>2, <2>3 DEF ChecksInv, ScreenInv
  <2>4. CASE kind = "validate"
    BY <1>2, <1>3, <1>4, <1>5, <2>4 DEF ScreenInv, ChecksBounds
  <2> QED
    BY <2>3, <2>4
<1>12. NewestInv'
  <2>1. anon \notin {0, None} => anon \in 1..asks /\ checks'[anon] = checks[anon]
    <3>1. anon \notin {0, None} => anon \in 1..asks
      BY <1>1
    <3> QED
      BY <1>5, <3>1
  <2>2. anon \notin {0, None} =>
          checks'[anon].at = "done" /\ checks'[anon].copy # None /\ checks'[anon].gf # None
    BY <2>1 DEF ChecksInv, NewestInv
  <2>3. ASSUME ~mixed', NEW w \in 1..k, NEW m \in 1..k,
               checks'[w].kind = "validate", checks'[w].at # "done", checks'[m].kind = "validate"
        PROVE  m <= w
    <3>1. CASE w = k
      BY <1>1, <1>4, <3>1 DEF k
    <3>2. CASE w \in 1..asks
      <4>1. checks[w].kind = "validate" /\ checks[w].at # "done"
        BY <1>5, <2>3, <3>2
      <4>2. w \in Checks!Writing
        <5>1. checks[w] \in CarChecks
          BY <1>1, <1>4, <3>2 DEF ChecksInv, ChecksTypesOK
        <5>2. checks[w] # None
          BY <5>1 DEF CarChecks, ChecksBounds
        <5> QED
          BY <1>4, <3>2, <4>1, <5>2 DEF Checks!Writing, Checks!InFlight, Checks!Calls
      <4>3. kind = "enrich" /\ ~mixed
        <5>1. mixed' # (mixed \/ Checks!Writing # {})
          BY <2>3, <4>2
        <5> HIDE DEF k
        <5> QED
          BY <2>3, <5>1
      <4>4. m # k
        BY <1>3, <1>5, <2>3, <4>3
      <4>5. m \in 1..asks /\ checks[m].kind = "validate"
        BY <1>4, <1>5, <2>3, <4>4
      <4> QED
        BY <3>2, <4>1, <4>3, <4>5 DEF ChecksInv, NewestInv
    <3> QED
      BY <1>4, <3>1, <3>2
  <2>4. ASSUME ~mixed', errors = 0, anon \notin {0, None}, NEW m \in 1..k,
               checks'[m].kind = "validate", checks'[m].at = "done", checks'[m].gf # None
        PROVE  m <= anon
    <3>1. m # k
      BY <1>3, <1>5, <2>4
    <3>2. m \in 1..asks /\ checks'[m] = checks[m]
      BY <1>4, <1>5, <3>1
    <3>3. ~mixed
      BY <2>4, <1>1
    <3> QED
      BY <2>4, <3>2, <3>3 DEF ChecksInv, NewestInv
  <2> QED
    BY <1>2, <2>2, <2>3, <2>4 DEF NewestInv
<1>13. ReportsInv'
  <2>1. \A m \in reports : checks'[m].at = "done" /\ checks'[m].gf = "flagged"
    BY <1>1, <1>5 DEF ChecksInv, ReportsInv
  <2>2. ASSUME NEW m \in 1..k, checks'[m].kind = "validate", checks'[m].at = "done",
               checks'[m].gf = "flagged"
        PROVE  m \in reports <=> knows
    <3>1. m # k
      BY <1>3, <1>5, <2>2
    <3>2. m \in 1..asks /\ checks'[m] = checks[m]
      BY <1>4, <1>5, <3>1
    <3> QED
      BY <2>2, <3>2 DEF ChecksInv, ReportsInv
  <2> QED
    BY <1>2, <2>1, <2>2 DEF ReportsInv
<1> QED
  BY <1>8, <1>9, <1>10, <1>11, <1>12, <1>13 DEF ChecksInv

(* The screen alone moves.                                                 *)
LEMMA CheckShown ==
  ASSUME ChecksBounds, ChecksInv,
         UNCHANGED <<stolen, listed, insured, knows, fund, anon, checks, asks, reports, mixed>>,
         waits' \in {0, waits}, opened' \in {None, "mock", "success", "unavailable"},
         errors' \in Nat, errors' >= errors, ScreenInv'
  PROVE  ChecksInv'
<1>1. asks \in Nat /\ waits' \in 0..asks /\ errors \in Nat
  BY DEF ChecksInv, ChecksTypesOK, ChecksBounds
<1>2. ChecksTypesOK'
  BY <1>1 DEF ChecksInv, ChecksTypesOK
<1>3. FundInv'
  BY FundStays DEF ChecksInv
<1>4. CheckInv'
  <2> SUFFICES ASSUME NEW m \in 1..asks
               PROVE  CheckAnswerOK(checks[m], listed) /\ ToldOK(checks[m], errors', stolen, insured)
    BY DEF CheckInv
  <2>1. CheckAnswerOK(checks[m], listed) /\ ToldOK(checks[m], errors, stolen, insured)
    BY DEF ChecksInv, CheckInv
  <2>2. (errors > 0 => errors' > 0) /\ (errors' = 0 => errors = 0)
    BY <1>1
  <2> QED
    BY <2>1, <2>2 DEF ToldOK
<1>5. NewestInv'
  <2>1. errors' = 0 => errors = 0
    BY <1>1
  <2> QED
    BY <2>1 DEF ChecksInv, NewestInv
<1>6. ReportsInv'
  BY DEF ChecksInv, ReportsInv
<1> QED
  BY <1>2, <1>3, <1>4, <1>5, <1>6 DEF ChecksInv

LEMMA ChecksValidate ==
  ASSUME ChecksBounds, ChecksInv, NEW pair \in Checks!Pairs, Checks!Validate(pair)
  PROVE  ChecksInv'
<1>1. /\ view = "form" /\ opened = None /\ waits = 0
      /\ UNCHANGED <<stolen, listed, insured, knows, fund, anon, reports, errors>>
  BY DEF Checks!Validate, Checks!world, ChecksInv, ScreenInv
<1>2. CASE mock
  <2>1. /\ view' = "success" /\ opened' = "mock" /\ waits' = waits
        /\ UNCHANGED <<checks, asks, mixed>>
    BY <1>2 DEF Checks!Validate
  <2>2. ScreenInv'
    BY <1>1, <2>1 DEF ScreenInv, ChecksBounds
  <2>3. errors' \in Nat /\ errors' >= errors
    BY <1>1 DEF ChecksInv, ChecksTypesOK
  <2> QED
    BY <1>1, <2>1, <2>2, <2>3, CheckShown
<1>3. CASE ~mock
  <2>1. /\ view' = "loading" /\ Checks!Request("validate", pair) /\ waits' = asks'
        /\ mixed' = (mixed \/ Checks!Writing # {}) /\ opened' = None
    BY <1>1, <1>3 DEF Checks!Validate
  <2> QED
    BY <1>1, <2>1, CheckAsked
<1> QED
  BY <1>2, <1>3

LEMMA ChecksConfirmByHand ==
  ASSUME ChecksBounds, ChecksInv, Checks!ConfirmByHand
  PROVE  ChecksInv'
<1>1. waits # 0 /\ opened = None /\ waits \in 0..asks /\ asks \in 0..MaxChecks /\ MaxChecks \in Nat
  BY DEF Checks!ConfirmByHand, ChecksInv, ScreenInv, ChecksTypesOK, ChecksBounds
<1>2. waits \in 1..MaxChecks /\ waits <= asks
  BY <1>1
<1>3. checks[waits] \in CarChecks
  BY <1>2 DEF ChecksInv, ChecksTypesOK
<1>4. checks[waits].pair \in Checks!Pairs
  BY <1>3 DEF CarChecks
<1>5. /\ view' = "byhand" /\ Checks!Request("validate", checks[waits].pair) /\ waits' = asks'
      /\ mixed' = (mixed \/ Checks!Writing # {}) /\ opened' = None
      /\ UNCHANGED <<stolen, listed, insured, knows, fund, anon, reports, errors>>
  BY <1>1 DEF Checks!ConfirmByHand, Checks!world
<1> QED
  BY <1>4, <1>5, CheckAsked

LEMMA ChecksEnrich ==
  ASSUME ChecksBounds, ChecksInv, NEW pair \in Checks!Pairs, Checks!Enrich(pair)
  PROVE  ChecksInv'
<1>1. /\ Checks!Request("enrich", pair) /\ UNCHANGED <<view, waits, opened, mixed>>
      /\ UNCHANGED <<stolen, listed, insured, knows, fund, anon, reports, errors>>
  BY DEF Checks!Enrich, Checks!world, Checks!screen
<1> QED
  BY <1>1, CheckAsked

(* What the screen shows of an answer.                                     *)
LEMMA ChecksShow ==
  ASSUME ChecksBounds, ChecksInv, Checks!Show
  PROVE  ChecksInv'
<1>1. /\ view \in {"loading", "byhand"} /\ opened = None /\ waits # 0 /\ waits' = waits
      /\ UNCHANGED <<stolen, listed, insured, knows, fund, anon, checks, asks, reports, mixed>>
      /\ opened' = IF view' = "success" THEN "success" ELSE None
  BY DEF Checks!Show, Checks!world, ChecksInv, ScreenInv
<1>2. /\ waits \in 0..asks /\ asks \in 0..MaxChecks /\ MaxChecks \in Nat /\ errors \in Nat
  BY DEF ChecksInv, ChecksTypesOK, ChecksBounds
<1>3. waits \in 1..MaxChecks /\ waits <= asks
  BY <1>1, <1>2
<1>4. checks[waits] \in CarChecks /\ checks[waits].kind = "validate"
  BY <1>1, <1>3 DEF ChecksInv, ChecksTypesOK, ScreenInv
<1>5. checks[waits].gf \in {None, "clean", "flagged", "unavailable"}
  BY <1>4 DEF CarChecks
<1>6. errors' \in Nat /\ errors' >= errors
  BY <1>2 DEF Checks!Show, Checks!Fault
<1>7. \/ view' = "error"
      \/ view' = "blocked"
      \/ view' = "kat"
      \/ view' = "gf" /\ checks[waits].at = "done" /\ checks[waits].gf = "unavailable"
      \/ view' = "success" /\ checks[waits].at = "done" /\ checks[waits].gf = "clean"
  BY <1>5 DEF Checks!Show, Checks!After
<1>8. opened' \in {None, "mock", "success", "unavailable"}
  BY <1>1
<1>9. ScreenInv'
  BY <1>1, <1>4, <1>7 DEF ScreenInv, ChecksBounds
<1> QED
  BY <1>1, <1>6, <1>8, <1>9, CheckShown

LEMMA ChecksMoveOn ==
  ASSUME ChecksBounds, ChecksInv, Checks!GoOn \/ Checks!Restart
  PROVE  ChecksInv'
<1>1. /\ UNCHANGED <<stolen, listed, insured, knows, fund, anon, checks, asks, reports, mixed>>
      /\ errors' = errors /\ waits' \in {0, waits}
      /\ opened' \in {None, "mock", "success", "unavailable"}
  BY DEF Checks!GoOn, Checks!Restart, Checks!world
<1>2. errors' \in Nat /\ errors' >= errors
  BY <1>1 DEF ChecksInv, ChecksTypesOK
<1>3. CASE Checks!GoOn
  <2>1. ScreenInv'
    BY <1>1, <1>3 DEF Checks!GoOn, ChecksInv, ScreenInv, ChecksBounds
  <2> QED
    BY <1>1, <1>2, <2>1, CheckShown
<1>4. CASE Checks!Restart
  <2>1. ScreenInv'
    BY <1>1, <1>4 DEF Checks!Restart, ScreenInv, ChecksBounds
  <2> QED
    BY <1>1, <1>2, <2>1, CheckShown
<1> QED
  BY <1>3, <1>4

LEMMA ChecksEndSession ==
  ASSUME ChecksBounds, ChecksInv, Checks!EndSession
  PROVE  ChecksInv'
<1>1. /\ UNCHANGED <<stolen, listed, insured, knows, fund, checks, asks, view, waits, opened,
                      reports, errors, mixed>>
      /\ anon' = None
  BY DEF Checks!EndSession, Checks!world, Checks!screen
<1>2. ChecksTypesOK'
  BY <1>1 DEF ChecksInv, ChecksTypesOK
<1>3. FundInv'
  BY <1>1, FundStays DEF ChecksInv
<1>4. CheckInv' /\ ScreenInv' /\ ReportsInv'
  BY <1>1 DEF ChecksInv, CheckInv, ScreenInv, ReportsInv
<1>5. NewestInv'
  BY <1>1 DEF ChecksInv, NewestInv
<1> QED
  BY <1>2, <1>3, <1>4, <1>5 DEF ChecksInv

(* Every step of the checks keeps what is known of them.                   *)
LEMMA ChecksFollows ==
  ASSUME ChecksBounds, ChecksInv, [Checks!Next]_(Checks!vars)
  PROVE  ChecksInv'
<1>1. CASE UNCHANGED Checks!vars
  <2>1. /\ UNCHANGED <<stolen, listed, insured, knows, fund, anon, checks, asks, reports, mixed>>
        /\ UNCHANGED <<view, waits, opened, errors>>
    BY <1>1 DEF Checks!vars, Checks!world, Checks!screen
  <2>2. errors' \in Nat /\ errors' >= errors /\ waits' \in {0, waits}
    BY <2>1 DEF ChecksInv, ChecksTypesOK
  <2>3. opened' \in {None, "mock", "success", "unavailable"} /\ ScreenInv'
    BY <2>1 DEF ChecksInv, ChecksTypesOK, ScreenInv
  <2> QED
    BY <2>1, <2>2, <2>3, CheckShown
<1>2. CASE Checks!Next
  BY <1>2, ChecksValidate, ChecksEnrich, ChecksConfirmByHand, ChecksShow, ChecksMoveOn,
     ChecksEndSession, ChecksRefuseVin, ChecksAskKat, ChecksFindPolicy, ChecksReadCache,
     ChecksAskFund, ChecksReadSession, ChecksWriteSession DEF Checks!Next
<1> QED
  BY <1>1, <1>2

(* The checks that hold are the promises.                                  *)
LEMMA ChecksTell ==
  ASSUME ChecksBounds, ChecksInv
  PROVE  Checks!VehiclesExplained
<1> USE DEF ChecksInv
<1>1. /\ waits \in 0..asks /\ asks \in 0..MaxChecks /\ MaxChecks \in Nat /\ errors \in Nat
      /\ anon \in {None} \union 0..asks /\ reports \subseteq 1..asks /\ knows \in BOOLEAN
      /\ opened \in {None, "mock", "success", "unavailable"}
  BY DEF ChecksTypesOK, ChecksBounds
<1>2. Checks!AnswerIsOfThisCar
  <2> SUFFICES ASSUME NEW n \in Checks!Calls, checks[n] # None, checks[n].gf \in {"clean", "flagged"}
               PROVE  \/ (checks[n].gf = "flagged") = Checks!Listed(checks[n].pair)
                      \/ /\ checks[n].of.vin = checks[n].pair.vin
                         /\ checks[n].of.plate # checks[n].pair.plate
    BY DEF Checks!AnswerIsOfThisCar
  <2>1. CheckAnswerOK(checks[n], listed)
    BY CheckTaken
  <2> QED
    BY <2>1 DEF CheckAnswerOK, Checks!Listed
<1>3. Checks!OffersAreEarned
  <2>1. ASSUME opened \in {"success", "unavailable"}
        PROVE  /\ waits # 0 /\ waits \in Checks!Calls /\ checks[waits] \in CarChecks
               /\ checks[waits].kind = "validate" /\ checks[waits].at = "done"
               /\ checks[waits].gf = IF opened = "success" THEN "clean" ELSE "unavailable"
               /\ ToldOK(checks[waits], errors, stolen, insured)
    <3>1. /\ waits # 0 /\ checks[waits].kind = "validate" /\ checks[waits].at = "done"
          /\ checks[waits].gf = IF opened = "success" THEN "clean" ELSE "unavailable"
      BY <2>1 DEF ScreenInv
    <3>2. waits \in 1..asks /\ waits \in 1..MaxChecks /\ waits <= asks
      BY <1>1, <3>1
    <3>3. checks[waits] \in CarChecks
      BY <3>2 DEF ChecksTypesOK
    <3>4. ToldOK(checks[waits], errors, stolen, insured)
      BY <3>2 DEF CheckInv
    <3> QED
      BY <3>1, <3>2, <3>3, <3>4 DEF Checks!Calls
  <2>2. ASSUME opened = "success"
        PROVE  checks[waits].gf = "clean" /\ (checks[waits].kat # "ok" => errors > 0)
    <3>1. checks[waits].kat \in {None, "ok", "failed", "manual_fallback", "unavailable"}
      BY <2>1, <2>2 DEF CarChecks
    <3>2. checks[waits].kat # None /\ checks[waits].kat # "failed"
      BY <2>1, <2>2 DEF ToldOK, ChecksBounds
    <3> QED
      BY <2>1, <2>2, <3>1, <3>2 DEF ToldOK
  <2>3. ASSUME opened = "unavailable"
        PROVE  /\ checks[waits].gf = "unavailable"
               /\ errors > 0 \/ checks[waits].pair.vin \in stolen
    BY <2>1, <2>3 DEF ToldOK
  <2>4. waits # 0 /\ opened # None => checks[waits].gf # "flagged"
    BY <1>1, <2>1 DEF ScreenInv
  <2> QED
    BY <2>2, <2>3, <2>4 DEF Checks!OffersAreEarned
<1>4. Checks!SessionTellsTheNewest
  <2>1. \A n \in Checks!Calls : checks[n] # None => n \in 1..asks
    BY CheckTaken
  <2>2. anon \notin {0, None} => checks[anon].copy # None /\ checks[anon].gf # None
    BY DEF NewestInv
  <2> QED
    BY <2>1, <2>2 DEF Checks!SessionTellsTheNewest, NewestInv
<1>5. Checks!FlaggedIsReported
  <2>1. ASSUME NEW n \in Checks!Calls, checks[n] # None, Checks!At(n, "validate", "done"),
               checks[n].gf = "flagged"
        PROVE  (n \in reports) = knows
    <3>1. n \in 1..asks
      BY <2>1, CheckTaken
    <3>2. n \in reports <=> knows
      BY <2>1, <3>1 DEF Checks!At, ReportsInv
    <3> QED
      BY <1>1, <3>2
  <2>2. \A n \in reports : checks[n].gf = "flagged"
    BY DEF ReportsInv
  <2> QED
    BY <2>1, <2>2 DEF Checks!FlaggedIsReported
<1>6. Checks!NoPolicyMeansNone
  <2> SUFFICES ASSUME NEW n \in Checks!Calls, checks[n] # None, checks[n].policy = "none", errors = 0
               PROVE  checks[n].pair.plate \notin insured
    BY DEF Checks!NoPolicyMeansNone
  <2>1. ToldOK(checks[n], errors, stolen, insured)
    BY CheckTaken
  <2> QED
    BY <2>1 DEF ToldOK
<1> QED
  BY <1>2, <1>3, <1>4, <1>5, <1>6 DEF Checks!VehiclesExplained

-----------------------------------------------------------------------------
(* The offers open for a car that passed its checks, the Fund's answers    *)
(* are of the car asked about, the session tells the newest outcome, a     *)
(* flagged car is reported and an enrichment without a policy found none   *)
(* (vehicles.service.ts, vehicle-enrichment.service.ts), for every number  *)
(* of cars, requests and failures.                                         *)
THEOREM CarsAreExplained ==
  ASSUME ChecksBounds
  PROVE  RequestsSpec => [](side = "checks" => Checks!VehiclesExplained)
<1> DEFINE Inv == side = "checks" => ChecksInv
<1>1. RequestsInit => Inv
  BY ChecksBegin DEF RequestsInit
<1>2. ASSUME Inv, [RequestsNext]_<<side, faults, apiVars, screenVars>>
      PROVE  Inv'
  <2> SUFFICES ASSUME side' = "checks"
               PROVE  ChecksInv'
    OBVIOUS
  <2>1. side = "checks" /\ ChecksInv
    BY <1>2 DEF RequestsNext
  <2>2. Checks!Next \/ UNCHANGED <<faults, checkVars>>
    BY <1>2, <2>1 DEF RequestsNext, ApiNext, StaffNext, ScreensNext, ChecksNext, screenVars
  <2>3. [Checks!Next]_(Checks!vars)
    BY <2>2 DEF checkVars, Checks!vars, Checks!world, Checks!screen
  <2> QED
    BY <2>1, <2>3, ChecksFollows
<1>3. Inv => (side = "checks" => Checks!VehiclesExplained)
  BY ChecksTell
<1> QED
  BY <1>1, <1>2, <1>3, PTL DEF RequestsSpec

-----------------------------------------------------------------------------
(***************************************************************************)
(* The checkout.  A payment is over another page, and no page has its      *)
(* number: what Stripe's sheet is over stays on the stack, since nobody is *)
(* asked for a phone once a payment has gone past that question.           *)
(***************************************************************************)
Past == {"loading", "ready", "failed", "processing"}

(* The pages before a choice is made.                                     *)
Early == {"offers", "select", "gate"}

Screens ==
  [id : Nat, at : {"offers", "select", "gate", "login", "registration", "payment", "confirmed",
                   "home"},
   offer : ShownOffers \union {None}, count : Counts \union {1},
   to : {None, "select", "payment"}, auth : {None, "unread", "in", "new"},
   bloc : Past \union {None, "initial", "phone", "declined"}]

(* The placeholder is no number of a page and none of the labels that a    *)
(* page or its payment may have.                                           *)
CheckoutBounds ==
  /\ None \notin Nat
  /\ None \notin ({"select", "payment", "phone", "new", "in", "unread", "initial"} \union Past)

CheckoutTypesOK ==
  /\ stack \in Seq(Screens) /\ Len(stack) > 0
  /\ turning \subseteq Screens /\ pages \in Nat \ {0}
  /\ \A a \in wanted : a.page \in Nat
  /\ intents \in [ShownOffers -> {"none", "open", "paid"}] /\ charged \in [ShownOffers -> Nat]
  /\ signedIn \in BOOLEAN /\ lost \in BOOLEAN /\ phone \in {"unset", "no", "yes"}
  /\ sheet \in {None} \union Nat /\ tab \in Counts \union {1}

MoneyInv == \A o \in ShownOffers : charged[o] = IF intents[o] = "paid" THEN 1 ELSE 0

(* What is so of a page: someone is known or was (s), the session was lost  *)
(* (e), what is stored of the phone (ph), the paid offers and the pages.    *)
PageOK(p, s, e, ph, paid, n) ==
  /\ p.at \in {"select", "payment", "confirmed", "home"} => s \/ e
  /\ p.at \in {"select", "payment", "gate"} => p.offer \in ShownOffers
  /\ p.at = "payment" => p.id <= n /\ (p.bloc \in Past => ph # "no")
  /\ p.at = "confirmed" => p.offer \in paid
  /\ p.at = "gate" => p.to = "select"
  /\ p.at = "login" => \/ p.to = "select" /\ p.offer \in ShownOffers
                       \/ p.to = None /\ e
  /\ p.at = "select" => p.auth # None /\ (p.auth = "new" => e)
  /\ p.at = "registration" /\ p.to = "payment" => p.auth = "unread" \/ e
  /\ p.bloc = "phone" => p.at = "payment"

Paid == {o \in ShownOffers : intents[o] = "paid"}

StackInv ==
  /\ \A i \in 1..Len(stack) : PageOK(stack[i], signedIn, lost, phone, Paid, pages)
  /\ stack[1].at # "payment"
  /\ \A i, j \in 1..Len(stack) : stack[i].at = "payment" /\ stack[i].id = stack[j].id => i = j
  /\ (\E i \in 1..Len(stack) : stack[i].id = 1 \/ stack[i].at \in Early) =>
       \A i \in 1..Len(stack) : stack[i].id <= pages

TurningInv ==
  /\ \A p \in turning :
       /\ p.at \in {"select", "payment"} /\ p.offer \in ShownOffers /\ p.id <= pages
       /\ p.bloc = "initial" /\ p.auth = "unread" /\ p.id # 1
       /\ p.at = "payment" => signedIn \/ lost
       /\ \A i \in 1..Len(stack) : stack[i].id # p.id
  /\ \A p, q \in turning : p.id = q.id => p = q

AskedInv ==
  \A a \in wanted :
    /\ a.page <= pages
    /\ \A p \in turning : p.id # a.page
    /\ \A i \in 1..Len(stack) : stack[i].id = a.page /\ stack[i].at = "payment" => stack[i].bloc \in Past

OverInv ==
  sheet # None =>
    /\ \E i \in 1..Len(stack) : stack[i].id = sheet /\ stack[i].at = "payment"
    /\ \A i \in 1..Len(stack) : stack[i].bloc # "phone"
    /\ phone # "no"

CheckoutInv ==
  CheckoutTypesOK /\ MoneyInv /\ StackInv /\ TurningInv /\ AskedInv /\ OverInv

LEMMA CheckoutBegins ==
  ASSUME CheckoutBounds, Checkout!Init
  PROVE  CheckoutInv
<1> DEFINE x == [id |-> 1, at |-> "offers", offer |-> None, count |-> 1, to |-> None,
                 auth |-> None, bloc |-> None]
<1>1. /\ stack = <<x>> /\ turning = {} /\ pages = 1 /\ wanted = {} /\ sheet = None /\ tab = 1
      /\ intents = [o \in ShownOffers |-> "none"] /\ charged = [o \in ShownOffers |-> 0]
      /\ signedIn \in BOOLEAN /\ lost = FALSE /\ phone = "unset"
  BY DEF Checkout!Init
<1>2. x \in Screens
  BY DEF Screens
<1>3. x.id = 1 /\ x.at = "offers" /\ x.bloc = None
  OBVIOUS
<1> HIDE DEF x
<1>4. stack \in Seq(Screens) /\ Len(stack) = 1 /\ stack[1] = x /\ 1..Len(stack) = {1}
  BY <1>1, <1>2
<1>5. CheckoutTypesOK
  <2>1. /\ intents \in [ShownOffers -> {"none", "open", "paid"}]
        /\ charged \in [ShownOffers -> Nat]
    BY <1>1
  <2>2. turning \subseteq Screens /\ \A a \in wanted : a.page \in Nat
    BY <1>1
  <2>3. pages \in Nat \ {0} /\ Len(stack) > 0
    BY <1>1, <1>4
  <2>4. lost \in BOOLEAN /\ phone \in {"unset", "no", "yes"} /\ signedIn \in BOOLEAN
    BY <1>1
  <2>5. sheet \in {None} \union Nat /\ tab \in Counts \union {1}
    BY <1>1
  <2> QED
    BY <1>4, <2>1, <2>2, <2>3, <2>4, <2>5 DEF CheckoutTypesOK
<1>6. MoneyInv
  BY <1>1 DEF MoneyInv
<1>7. StackInv
  BY <1>1, <1>3, <1>4 DEF StackInv, PageOK, CheckoutBounds
<1>8. TurningInv /\ AskedInv /\ OverInv
  BY <1>1 DEF TurningInv, AskedInv, OverInv
<1> QED
  BY <1>5, <1>6, <1>7, <1>8 DEF CheckoutInv

-----------------------------------------------------------------------------
(* A page is pushed: a new one, or one that was asked for.                  *)
LEMMA PagePushed ==
  ASSUME CheckoutBounds, CheckoutInv, NEW x \in Screens, stack' = Append(stack, x),
         UNCHANGED <<sheet, intents, charged, wanted, signedIn, phone, lost, tab>>,
         PageOK(x, signedIn, lost, phone, Paid, pages'), x.bloc = "initial",
         x.at \in Early => \E i \in 1..Len(stack) : stack[i].id = 1 \/ stack[i].at \in Early,
         \/ x.id = pages + 1 /\ pages' = pages + 1 /\ turning' = turning /\ x.at # "payment"
         \/ /\ pages' = pages
            /\ \E p \in turning : x.id = p.id /\ turning' = turning \ {p}
  PROVE  CheckoutInv'
<1> USE DEF CheckoutInv
<1> DEFINE L == Len(stack)
<1>1. /\ stack \in Seq(Screens) /\ L \in Nat \ {0} /\ pages \in Nat \ {0} /\ pages' \in Nat \ {0}
      /\ pages' >= pages /\ x.id \in Nat
  <2>1. stack \in Seq(Screens) /\ L \in Nat \ {0} /\ x.id \in Nat
    BY DEF CheckoutTypesOK, Screens
  <2>2. pages \in Nat \ {0} /\ (pages' = pages + 1 \/ pages' = pages)
    BY DEF CheckoutTypesOK
  <2>3. pages' \in Nat \ {0} /\ pages' >= pages
    BY <2>2
  <2> QED
    BY <2>1, <2>2, <2>3
<1>2. /\ stack' \in Seq(Screens) /\ Len(stack') = L + 1 /\ stack'[L + 1] = x
      /\ \A i \in 1..L : stack'[i] = stack[i]
  BY <1>1, AppendProperties
<1>3. /\ 1..(L + 1) = 1..L \union {L + 1} /\ L + 1 \notin 1..L /\ 1 \in 1..L /\ L + 1 # 1
  BY <1>1
<1>4. turning' \subseteq turning /\ \A p \in turning' : p.id # x.id /\ p.id <= pages
  <2>1. \A p \in turning : p.id \in Nat /\ p.id <= pages
    BY DEF TurningInv, CheckoutTypesOK, Screens
  <2>2. CASE x.id = pages + 1 /\ turning' = turning
    BY <1>1, <2>1, <2>2
  <2>3. CASE \E p \in turning : x.id = p.id /\ turning' = turning \ {p}
    BY <2>1, <2>3 DEF TurningInv
  <2> QED
    BY <2>2, <2>3
<1>5. /\ \A i \in 1..L : stack[i] \in Screens /\ stack[i].id \in Nat
      /\ \A p \in turning : p.id \in Nat
  <2>1. \A i \in 1..L : stack[i] \in Screens
    BY <1>1
  <2>2. turning \subseteq Screens /\ \A y \in Screens : y.id \in Nat
    BY DEF Screens, CheckoutTypesOK
  <2> QED
    BY <2>1, <2>2
<1>6. x.id # 1 /\ x.id <= pages'
  BY <1>1, <1>5 DEF TurningInv
<1> HIDE DEF L
<1>7. CheckoutTypesOK'
  BY <1>1, <1>2, <1>4 DEF CheckoutTypesOK
<1>8. MoneyInv'
  BY DEF MoneyInv
<1>9. \A i \in 1..L : stack[i].at = "payment" => stack[i].id # x.id
  <2>1. \A i \in 1..L : stack[i].at = "payment" => stack[i].id <= pages
    BY DEF StackInv, PageOK, L
  <2>2. \A p \in turning, i \in 1..L : stack[i].id # p.id
    BY DEF TurningInv, L
  <2> QED
    BY <1>1, <1>5, <2>1, <2>2
<1>10. x.at = "payment" => \A i \in 1..L : stack[i].id # x.id
  BY DEF TurningInv, L
<1>11. StackInv'
  <2>1. \A i \in 1..L : PageOK(stack'[i], signedIn, lost, phone, Paid, pages')
    <3> SUFFICES ASSUME NEW i \in 1..L
                 PROVE  PageOK(stack[i], signedIn, lost, phone, Paid, pages')
      BY <1>2
    <3>1. PageOK(stack[i], signedIn, lost, phone, Paid, pages)
      BY DEF StackInv, L
    <3>2. stack[i].id <= pages => stack[i].id <= pages'
      BY <1>1, <1>5
    <3> QED
      BY <3>1, <3>2 DEF PageOK
  <2>2. \A i \in 1..(L + 1) : PageOK(stack'[i], signedIn, lost, phone, Paid, pages')
    BY <1>2, <1>3, <2>1
  <2>3. stack'[1].at # "payment"
    BY <1>2, <1>3 DEF StackInv
  <2>4. \A i, j \in 1..(L + 1) : stack'[i].at = "payment" /\ stack'[i].id = stack'[j].id => i = j
    <3> SUFFICES ASSUME NEW i \in 1..(L + 1), NEW j \in 1..(L + 1),
                        stack'[i].at = "payment", stack'[i].id = stack'[j].id
                 PROVE  i = j
      OBVIOUS
    <3>1. CASE i \in 1..L /\ j \in 1..L
      BY <1>2, <3>1 DEF StackInv, L
    <3>2. CASE i = L + 1 /\ j \in 1..L
      BY <1>2, <1>10, <3>2
    <3>3. CASE i \in 1..L /\ j = L + 1
      BY <1>2, <1>9, <3>3
    <3>4. CASE i = L + 1 /\ j = L + 1
      BY <3>4
    <3> QED
      BY <1>3, <3>1, <3>2, <3>3, <3>4
  <2>5. ASSUME \E i \in 1..(L + 1) : stack'[i].id = 1 \/ stack'[i].at \in Early
        PROVE  \A i \in 1..(L + 1) : stack'[i].id <= pages'
    <3>1. \E i \in 1..L : stack[i].id = 1 \/ stack[i].at \in Early
      <4>1. CASE x.at \in Early
        BY <4>1 DEF L
      <4>2. CASE x.at \notin Early
        BY <1>2, <1>3, <1>6, <2>5, <4>2
      <4> QED
        BY <4>1, <4>2
    <3>2. \A i \in 1..L : stack[i].id <= pages
      BY <3>1 DEF StackInv, L
    <3>3. \A i \in 1..L : stack'[i].id <= pages'
      BY <1>1, <1>2, <1>5, <3>2
    <3> QED
      BY <1>2, <1>3, <1>6, <3>3
  <2>6. Paid' = Paid
    BY DEF Paid
  <2> QED
    BY <1>2, <2>2, <2>3, <2>4, <2>5, <2>6 DEF StackInv
<1>12. TurningInv'
  <2>1. \A p \in turning' : \A i \in 1..(L + 1) : stack'[i].id # p.id
    BY <1>2, <1>3, <1>4 DEF TurningInv, L
  <2>2. \A p \in turning' : p.id <= pages'
    BY <1>1, <1>4, <1>5
  <2> QED
    BY <1>2, <1>4, <2>1, <2>2 DEF TurningInv
<1>13. AskedInv'
  <2> SUFFICES ASSUME NEW a \in wanted
               PROVE  /\ a.page <= pages'
                      /\ \A p \in turning' : p.id # a.page
                      /\ \A i \in 1..(L + 1) : stack'[i].id = a.page /\ stack'[i].at = "payment" =>
                           stack'[i].bloc \in Past
    BY <1>2 DEF AskedInv
  <2>1. a.page \in Nat /\ a.page <= pages /\ \A p \in turning : p.id # a.page
    BY DEF AskedInv, CheckoutTypesOK
  <2>2. x.at = "payment" => x.id # a.page
    BY <2>1
  <2>3. \A i \in 1..L : stack[i].id = a.page /\ stack[i].at = "payment" => stack[i].bloc \in Past
    BY DEF AskedInv, L
  <2>4. a.page <= pages'
    BY <1>1, <2>1
  <2> QED
    BY <1>2, <1>3, <1>4, <2>1, <2>2, <2>3, <2>4
<1>14. OverInv'
  BY <1>2, <1>3 DEF OverInv, L
<1> QED
  BY <1>7, <1>8, <1>11, <1>12, <1>13, <1>14

(* One page replaces them all.                                             *)
LEMMA PagesReplaced ==
  ASSUME CheckoutBounds, CheckoutInv, NEW x \in Screens, stack' = <<x>>,
         UNCHANGED <<turning, wanted, tab>>, sheet' = None,
         pages' \in Nat, pages' >= pages, x.id = pages + 1,
         x.at \in Early => pages' = pages + 1,
         PageOK(x, signedIn', lost', phone', Paid', pages'), x.bloc = "initial", x.at # "payment",
         signedIn \/ lost => signedIn' \/ lost',
         signedIn' \in BOOLEAN, lost' \in BOOLEAN, phone' \in {"unset", "no", "yes"},
         intents' \in [ShownOffers -> {"none", "open", "paid"}], charged' \in [ShownOffers -> Nat],
         MoneyInv'
  PROVE  CheckoutInv'
<1> USE DEF CheckoutInv
<1>1. /\ pages \in Nat \ {0} /\ pages' \in Nat \ {0} /\ x.id \in Nat /\ x.id # 1
  BY DEF CheckoutTypesOK, Screens
<1>2. stack' \in Seq(Screens) /\ Len(stack') = 1 /\ stack'[1] = x /\ 1..Len(stack') = {1}
  OBVIOUS
<1>3. CheckoutTypesOK'
  BY <1>1, <1>2 DEF CheckoutTypesOK
<1>4. StackInv'
  BY <1>1, <1>2 DEF StackInv
<1>5. TurningInv'
  <2>1. \A p \in turning : p.id \in Nat /\ p.id <= pages
    BY DEF TurningInv, CheckoutTypesOK, Screens
  <2>2. \A p \in turning : p.id <= pages' /\ p.id # x.id
    BY <1>1, <2>1
  <2> QED
    BY <1>2, <2>2 DEF TurningInv
<1>6. AskedInv'
  <2>1. \A a \in wanted : a.page \in Nat /\ a.page <= pages
    BY DEF AskedInv, CheckoutTypesOK
  <2>2. \A a \in wanted : a.page <= pages'
    BY <1>1, <2>1
  <2> QED
    BY <1>2, <2>2 DEF AskedInv
<1>7. OverInv'
  BY DEF OverInv
<1> QED
  BY <1>3, <1>4, <1>5, <1>6, <1>7

(* The page in front is left.                                              *)
LEMMA PageLeft ==
  ASSUME CheckoutBounds, CheckoutInv, Len(stack) > 1, stack' \in Seq(Screens),
         Len(stack') = Len(stack) - 1, sheet = None,
         UNCHANGED <<sheet, intents, charged, wanted, signedIn, phone, lost, tab, turning, pages>>,
         \A i \in 1..Len(stack') :
           /\ stack'[i].id = stack[i].id /\ stack'[i].at = stack[i].at
           /\ stack[i].bloc \in Past => stack'[i].bloc \in Past
           /\ PageOK(stack'[i], signedIn, lost, phone, Paid, pages)
  PROVE  CheckoutInv'
<1> USE DEF CheckoutInv
<1> DEFINE L == Len(stack)
<1>1. stack \in Seq(Screens) /\ L \in Nat /\ L - 1 \in Nat \ {0}
  BY DEF CheckoutTypesOK
<1>2. Len(stack') = L - 1
  OBVIOUS
<1>3. \A i \in 1..(L - 1) : i \in 1..L
  BY <1>1
<1>4. 1 \in 1..(L - 1) /\ L - 1 > 0
  BY <1>1
<1> HIDE DEF L
<1>5. CheckoutTypesOK'
  BY <1>2, <1>4 DEF CheckoutTypesOK
<1>6. MoneyInv'
  BY DEF MoneyInv
<1>7. StackInv'
  <2>1. Paid' = Paid
    BY DEF Paid
  <2>2. \A i \in 1..(L - 1) : PageOK(stack'[i], signedIn, lost, phone, Paid, pages)
    BY <1>2
  <2>3. stack'[1].at # "payment"
    BY <1>2, <1>4 DEF StackInv
  <2>4. \A i, j \in 1..(L - 1) : stack'[i].at = "payment" /\ stack'[i].id = stack'[j].id => i = j
    BY <1>2, <1>3 DEF StackInv, L
  <2>5. (\E i \in 1..(L - 1) : stack'[i].id = 1 \/ stack'[i].at \in Early) =>
          \A i \in 1..(L - 1) : stack'[i].id <= pages
    BY <1>2, <1>3 DEF StackInv, L
  <2> QED
    BY <1>2, <2>1, <2>2, <2>3, <2>4, <2>5 DEF StackInv
<1>8. TurningInv'
  BY <1>2, <1>3 DEF TurningInv, L
<1>9. AskedInv'
  BY <1>2, <1>3 DEF AskedInv, L
<1>10. OverInv'
  BY DEF OverInv
<1> QED
  BY <1>5, <1>6, <1>7, <1>8, <1>9, <1>10

(* The pages stay, and what is kept of each of them may change.             *)
LEMMA PagesChanged ==
  ASSUME CheckoutBounds, CheckoutInv, Len(stack') = Len(stack), stack' \in Seq(Screens),
         UNCHANGED <<turning, pages>>, tab' \in Counts \union {1},
         \A i \in 1..Len(stack) :
           /\ stack'[i].id = stack[i].id /\ stack'[i].at = stack[i].at
           /\ PageOK(stack'[i], signedIn', lost', phone', Paid', pages),
         signedIn \/ lost => signedIn' \/ lost',
         signedIn' \in BOOLEAN, lost' \in BOOLEAN, phone' \in {"unset", "no", "yes"},
         sheet' \in {None} \union Nat, \A a \in wanted' : a.page \in Nat,
         intents' \in [ShownOffers -> {"none", "open", "paid"}], charged' \in [ShownOffers -> Nat],
         MoneyInv', AskedInv', OverInv'
  PROVE  CheckoutInv'
<1> USE DEF CheckoutInv
<1>1. CheckoutTypesOK'
  BY DEF CheckoutTypesOK
<1>2. 1 \in 1..Len(stack)
  BY DEF CheckoutTypesOK
<1>3. StackInv'
  <2>1. \A i, j \in 1..Len(stack) : stack'[i].at = "payment" /\ stack'[i].id = stack'[j].id => i = j
    BY DEF StackInv
  <2>2. stack'[1].at # "payment"
    BY <1>2 DEF StackInv
  <2>3. (\E i \in 1..Len(stack) : stack'[i].id = 1 \/ stack'[i].at \in Early) =>
          \A i \in 1..Len(stack) : stack'[i].id <= pages
    BY DEF StackInv
  <2> QED
    BY <2>1, <2>2, <2>3 DEF StackInv
<1>4. TurningInv'
  BY DEF TurningInv
<1> QED
  BY <1>1, <1>3, <1>4

(* A page is asked for.                                                    *)
LEMMA PageAwaited ==
  ASSUME CheckoutBounds, CheckoutInv, NEW x \in Screens, x.id = pages + 1, pages' = pages + 1,
         turning' = turning \union {x},
         UNCHANGED <<stack, sheet, intents, charged, wanted, signedIn, phone, lost, tab>>,
         x.at \in {"select", "payment"}, x.offer \in ShownOffers, x.bloc = "initial",
         x.auth = "unread", x.at = "payment" => signedIn \/ lost,
         \E i \in 1..Len(stack) : stack[i].id = 1 \/ stack[i].at \in Early
  PROVE  CheckoutInv'
<1> USE DEF CheckoutInv
<1>1. pages \in Nat \ {0} /\ pages' \in Nat \ {0} /\ x.id # 1
  BY DEF CheckoutTypesOK
<1>2. \A i \in 1..Len(stack) : stack[i].id \in Nat /\ stack[i].id <= pages
  <2>1. \A i \in 1..Len(stack) : stack[i] \in Screens
    BY DEF CheckoutTypesOK
  <2>2. \A y \in Screens : y.id \in Nat
    BY DEF Screens
  <2>3. \A i \in 1..Len(stack) : stack[i].id <= pages
    BY DEF StackInv
  <2> QED
    BY <2>1, <2>2, <2>3
<1>3. \A i \in 1..Len(stack) : stack[i].id # x.id /\ stack[i].id <= pages'
  BY <1>1, <1>2
<1>4. \A p \in turning : p.id \in Nat /\ p.id <= pages
  BY DEF CheckoutTypesOK, TurningInv, Screens
<1>5. \A p \in turning : p.id # x.id /\ p.id <= pages'
  BY <1>1, <1>4
<1>6. \A a \in wanted : a.page \in Nat /\ a.page <= pages
  BY DEF CheckoutTypesOK, AskedInv
<1>7. \A a \in wanted : a.page # x.id /\ a.page <= pages'
  BY <1>1, <1>6
<1>8. CheckoutTypesOK'
  BY <1>1 DEF CheckoutTypesOK
<1>9. MoneyInv' /\ OverInv'
  BY DEF MoneyInv, OverInv
<1>10. StackInv'
  <2>1. Paid' = Paid
    BY DEF Paid
  <2>2. \A i \in 1..Len(stack) : PageOK(stack[i], signedIn, lost, phone, Paid, pages')
    BY <1>3 DEF StackInv, PageOK
  <2> QED
    BY <1>3, <2>1, <2>2 DEF StackInv
<1>11. TurningInv'
  <2>1. x.id <= pages'
    BY <1>1
  <2>2. \A p \in turning' :
       /\ p.at \in {"select", "payment"} /\ p.offer \in ShownOffers /\ p.id <= pages'
       /\ p.bloc = "initial" /\ p.auth = "unread" /\ p.id # 1
       /\ p.at = "payment" => signedIn \/ lost
       /\ \A i \in 1..Len(stack) : stack[i].id # p.id
    BY <1>1, <1>3, <1>5, <2>1 DEF TurningInv
  <2>3. \A p, q \in turning' : p.id = q.id => p = q
    BY <1>5 DEF TurningInv
  <2> QED
    BY <2>2, <2>3 DEF TurningInv
<1>12. AskedInv'
  BY <1>7 DEF AskedInv
<1> QED
  BY <1>8, <1>9, <1>10, <1>11, <1>12

(* A page is told where its payment is.                                     *)
LEMMA PageMarked ==
  ASSUME CheckoutBounds, CheckoutInv, NEW id \in Nat, NEW s \in Past, Checkout!SetBloc(id, s),
         UNCHANGED <<turning, pages, tab>>,
         \A i \in 1..Len(stack) : stack[i].at = "payment" /\ stack[i].id = id => phone' # "no",
         phone # "no" => phone' # "no", signedIn \/ lost => signedIn' \/ lost', lost => lost',
         Paid \subseteq Paid',
         signedIn' \in BOOLEAN, lost' \in BOOLEAN, phone' \in {"unset", "no", "yes"},
         intents' \in [ShownOffers -> {"none", "open", "paid"}], charged' \in [ShownOffers -> Nat],
         MoneyInv',
         \A a \in wanted' :
           a \in wanted \/ (a.page = id /\ id <= pages /\ \A p \in turning : p.id # id),
         \/ sheet' = None
         \/ sheet' = sheet
         \/ /\ sheet' = id /\ phone' # "no" /\ \A i \in 1..Len(stack) : stack[i].bloc # "phone"
            /\ \E i \in 1..Len(stack) : stack[i].id = id /\ stack[i].at = "payment"
  PROVE  CheckoutInv'
<1> USE DEF CheckoutInv
<1> DEFINE new(i) == [stack[i] EXCEPT !.bloc = IF stack[i].id = id THEN s ELSE @]
<1>1. stack \in Seq(Screens) /\ stack' = [i \in 1..Len(stack) |-> new(i)]
  BY DEF CheckoutTypesOK, Checkout!SetBloc
<1>2. \A i \in 1..Len(stack) :
        /\ new(i) \in Screens /\ new(i).id = stack[i].id /\ new(i).at = stack[i].at
        /\ new(i).offer = stack[i].offer /\ new(i).to = stack[i].to /\ new(i).auth = stack[i].auth
        /\ new(i).bloc = IF stack[i].id = id THEN s ELSE stack[i].bloc
  <2> SUFFICES ASSUME NEW i \in 1..Len(stack)
               PROVE  /\ new(i) \in Screens /\ new(i).id = stack[i].id /\ new(i).at = stack[i].at
                      /\ new(i).offer = stack[i].offer /\ new(i).to = stack[i].to
                      /\ new(i).auth = stack[i].auth
                      /\ new(i).bloc = IF stack[i].id = id THEN s ELSE stack[i].bloc
    OBVIOUS
  <2>1. stack[i] \in Screens
    BY <1>1
  <2> QED
    BY <2>1 DEF Screens
<1> HIDE DEF new
<1>3. stack' \in Seq(Screens) /\ Len(stack') = Len(stack)
      /\ \A i \in 1..Len(stack) : stack'[i] = new(i)
  <2>1. Len(stack) \in Nat
    BY <1>1
  <2>2. stack' \in [1..Len(stack) -> Screens]
    BY <1>1, <1>2
  <2> QED
    BY <1>1, <2>1, <2>2
<1>4. \A i \in 1..Len(stack) : PageOK(stack'[i], signedIn', lost', phone', Paid', pages)
  <2> SUFFICES ASSUME NEW i \in 1..Len(stack)
               PROVE  PageOK(new(i), signedIn', lost', phone', Paid', pages)
    BY <1>3
  <2>1. PageOK(stack[i], signedIn, lost, phone, Paid, pages)
    BY DEF StackInv
  <2>2. s # "phone"
    BY DEF Past
  <2> QED
    BY <1>2, <2>1, <2>2 DEF PageOK
<1>5. AskedInv'
  <2>1. \A i \in 1..Len(stack) : stack[i].bloc \in Past \/ stack[i].id = id => stack'[i].bloc \in Past
    BY <1>2, <1>3
  <2> QED
    BY <1>2, <1>3, <2>1 DEF AskedInv
<1>6. OverInv'
  <2>1. \A i \in 1..Len(stack) : stack[i].bloc # "phone" => stack'[i].bloc # "phone"
    BY <1>2, <1>3 DEF Past
  <2>2. \A i \in 1..Len(stack) : stack'[i].id = stack[i].id /\ stack'[i].at = stack[i].at
    BY <1>2, <1>3
  <2>3. CASE sheet' = sheet
    BY <1>3, <2>1, <2>2, <2>3 DEF OverInv
  <2>4. CASE sheet' # sheet
    BY <1>3, <2>1, <2>2, <2>4 DEF OverInv
  <2> QED
    BY <2>3, <2>4
<1>7. sheet' \in {None} \union Nat /\ (\A a \in wanted' : a.page \in Nat) /\ tab' \in Counts \union {1}
  BY DEF CheckoutTypesOK
<1> QED
  BY <1>2, <1>3, <1>4, <1>5, <1>6, <1>7, PagesChanged

-----------------------------------------------------------------------------
(* A page of its own number, made from another one.                        *)
LEMMA NewPage ==
  ASSUME NEW from \in Screens, pages \in Nat,
         NEW a \in {"offers", "select", "gate", "login", "registration", "payment", "confirmed", "home"}
  PROVE  /\ Checkout!Page(a, from) \in Screens
         /\ Checkout!Page(a, from).id = pages + 1 /\ Checkout!Page(a, from).at = a
         /\ Checkout!Page(a, from).offer = from.offer /\ Checkout!Page(a, from).to = from.to
         /\ Checkout!Page(a, from).auth = "unread" /\ Checkout!Page(a, from).bloc = "initial"
         /\ Checkout!Page(a, from).count = from.count
<1> DEFINE x == [from EXCEPT !.id = pages + 1, !.at = a, !.auth = "unread", !.bloc = "initial"]
<1>1. Checkout!Page(a, from) = x
  BY DEF Checkout!Page
<1>2. pages + 1 \in Nat
  OBVIOUS
<1>3. /\ x.id = pages + 1 /\ x.at = a /\ x.auth = "unread" /\ x.bloc = "initial"
      /\ x.offer = from.offer /\ x.to = from.to /\ x.count = from.count
  BY DEF Screens
<1>4. x \in Screens
  BY <1>2 DEF Screens
<1> HIDE DEF x
<1> QED
  BY <1>1, <1>3, <1>4

(* What the router makes of a page.                                         *)
LEMMA GuardedPage ==
  ASSUME NEW p \in Screens, NEW paid, NEW n, PageOK(p, signedIn, lost, phone, paid, n),
         signedIn \in BOOLEAN, p.bloc = "initial"
  PROVE  /\ Checkout!Guarded(p) \in Screens /\ Checkout!Guarded(p).id = p.id
         /\ Checkout!Guarded(p).bloc = "initial" /\ Checkout!Guarded(p).at \in {p.at, "login"}
         /\ PageOK(Checkout!Guarded(p), signedIn, lost, phone, paid, n)
<1> DEFINE q == [p EXCEPT !.at = "login", !.to = None]
<1>1. /\ q \in Screens /\ q.id = p.id /\ q.bloc = "initial" /\ q.at = "login" /\ q.to = None
  BY DEF Screens
<1>2. Checkout!Guarded(p) = IF p.at \in {"home", "payment", "confirmed"} /\ ~signedIn THEN q ELSE p
  BY DEF Checkout!Guarded
<1> HIDE DEF q
<1>3. CASE p.at \in {"home", "payment", "confirmed"} /\ ~signedIn
  <2>1. lost
    BY <1>3 DEF PageOK
  <2> QED
    BY <1>1, <1>2, <1>3, <2>1 DEF PageOK
<1>4. CASE ~(p.at \in {"home", "payment", "confirmed"} /\ ~signedIn)
  BY <1>2, <1>4
<1> QED
  BY <1>3, <1>4

(* The page in front.                                                      *)
LEMMA TopPage ==
  ASSUME CheckoutInv
  PROVE  /\ Len(stack) \in 1..Len(stack) /\ Checkout!Top = stack[Len(stack)]
         /\ Checkout!Top \in Screens /\ PageOK(Checkout!Top, signedIn, lost, phone, Paid, pages)
         /\ pages \in Nat /\ signedIn \in BOOLEAN /\ lost \in BOOLEAN
BY DEF CheckoutInv, CheckoutTypesOK, StackInv, Checkout!Top

(* The page Stripe's sheet is over.                                        *)
LEMMA PageUnder ==
  ASSUME CheckoutInv, sheet # None
  PROVE  \E i \in 1..Len(stack) :
           /\ Checkout!Under = stack[i] /\ stack[i].id = sheet /\ stack[i].at = "payment"
           /\ stack[i].offer \in ShownOffers /\ stack[i] \in Screens
           /\ signedIn \/ lost
<1>1. PICK i \in 1..Len(stack) : stack[i].id = sheet /\ stack[i].at = "payment"
  BY DEF CheckoutInv, OverInv
<1>2. \A p \in {stack[k] : k \in 1..Len(stack)} : p.id = sheet => p = stack[i]
  BY <1>1 DEF CheckoutInv, StackInv
<1>3. Checkout!Under = stack[i]
  BY <1>1, <1>2 DEF Checkout!Under
<1>4. PageOK(stack[i], signedIn, lost, phone, Paid, pages) /\ stack[i] \in Screens
  BY DEF CheckoutInv, StackInv, CheckoutTypesOK
<1> QED
  BY <1>1, <1>3, <1>4 DEF PageOK

(* Stripe takes the money for one offer.                                   *)
LEMMA OfferCharged ==
  ASSUME CheckoutInv, NEW o \in ShownOffers, intents[o] = "open",
         intents' = [intents EXCEPT ![o] = "paid"], charged' = [charged EXCEPT ![o] = @ + 1]
  PROVE  /\ intents' \in [ShownOffers -> {"none", "open", "paid"}]
         /\ charged' \in [ShownOffers -> Nat]
         /\ MoneyInv' /\ Paid \subseteq Paid' /\ o \in Paid'
<1>1. intents \in [ShownOffers -> {"none", "open", "paid"}] /\ charged \in [ShownOffers -> Nat]
  BY DEF CheckoutInv, CheckoutTypesOK
<1>2. /\ intents'[o] = "paid" /\ charged'[o] = charged[o] + 1
      /\ \A v \in ShownOffers \ {o} : intents'[v] = intents[v] /\ charged'[v] = charged[v]
  BY <1>1
<1>3. charged[o] = 0
  BY DEF CheckoutInv, MoneyInv
<1>4. MoneyInv'
  BY <1>2, <1>3 DEF CheckoutInv, MoneyInv
<1>5. intents' \in [ShownOffers -> {"none", "open", "paid"}] /\ charged' \in [ShownOffers -> Nat]
  BY <1>1
<1> QED
  BY <1>2, <1>4, <1>5 DEF Paid

LEMMA MoneyStays ==
  ASSUME CheckoutInv, UNCHANGED <<intents, charged>>
  PROVE  /\ intents' \in [ShownOffers -> {"none", "open", "paid"}]
         /\ charged' \in [ShownOffers -> Nat] /\ MoneyInv' /\ Paid' = Paid
BY DEF CheckoutInv, CheckoutTypesOK, MoneyInv, Paid

-----------------------------------------------------------------------------
(* The list and the gate.                                                  *)
LEMMA CheckoutStutters ==
  ASSUME CheckoutBounds, CheckoutInv, tab' \in Counts \union {1}, turning' \subseteq turning,
         UNCHANGED <<signedIn, phone, lost, stack, pages, wanted, sheet, intents, charged>>
  PROVE  CheckoutInv'
<1>1. MoneyInv' /\ Paid' = Paid
  BY MoneyStays
<1>2. CheckoutTypesOK' /\ TurningInv' /\ AskedInv' /\ OverInv'
  BY DEF CheckoutInv, CheckoutTypesOK, TurningInv, AskedInv, OverInv
<1>3. StackInv'
  BY <1>1 DEF CheckoutInv, StackInv
<1> QED
  BY <1>1, <1>2, <1>3 DEF CheckoutInv

LEMMA CheckoutList ==
  ASSUME CheckoutBounds, CheckoutInv, Checkout!Load \/ \E n \in Counts : Checkout!SwitchTab(n)
  PROVE  CheckoutInv'
<1>1. tab' \in Counts \union {1}
  BY DEF Checkout!Load, Checkout!SwitchTab, CheckoutInv, CheckoutTypesOK
<1>2. UNCHANGED <<signedIn, phone, lost, turning, stack, pages, wanted, sheet, intents, charged>>
  BY DEF Checkout!Load, Checkout!SwitchTab, Checkout!tokenVars, Checkout!stripeVars
<1> QED
  BY <1>1, <1>2, CheckoutStutters

LEMMA CheckoutTap ==
  ASSUME CheckoutBounds, CheckoutInv, NEW o \in ShownOffers, Checkout!Tap(o)
  PROVE  CheckoutInv'
<1> DEFINE from == [Checkout!Top EXCEPT !.offer = o]
           x == Checkout!Page("select", from)
<1>1. /\ Checkout!Top.at = "offers" /\ pages' = pages + 1 /\ turning' = turning \union {x}
      /\ UNCHANGED <<stack, sheet, intents, charged, wanted, signedIn, phone, lost, tab>>
  BY DEF Checkout!Tap, Checkout!Count, Checkout!listVars, Checkout!tokenVars, Checkout!stripeVars
<1>2. from \in Screens /\ from.offer = o /\ pages \in Nat
  BY TopPage DEF Screens
<1> HIDE DEF from
<1>3. /\ x \in Screens /\ x.id = pages + 1 /\ x.at = "select" /\ x.offer = o /\ x.auth = "unread"
      /\ x.bloc = "initial"
  BY <1>2, NewPage
<1> HIDE DEF x
<1>4. \E i \in 1..Len(stack) : stack[i].id = 1 \/ stack[i].at \in Early
  BY <1>1, TopPage DEF Early
<1> QED
  BY <1>1, <1>3, <1>4, PageAwaited

LEMMA CheckoutOpenSelection ==
  ASSUME CheckoutBounds, CheckoutInv, NEW p \in turning, Checkout!OpenSelection(p)
  PROVE  CheckoutInv'
<1> DEFINE q == [p EXCEPT !.count = tab]
           g == [q EXCEPT !.at = "gate", !.to = "select"]
<1>1. /\ p.at = "select" /\ turning' = turning \ {p}
      /\ UNCHANGED <<sheet, intents, charged, wanted, signedIn, phone, lost, tab, pages>>
      /\ \/ ~Checkout!OnStack(1) /\ UNCHANGED stack
         \/ Checkout!OnStack(1) /\ signedIn /\ stack' = Append(stack, q)
         \/ Checkout!OnStack(1) /\ ~signedIn /\ stack' = Append(stack, g)
  BY DEF Checkout!OpenSelection, Checkout!Push, Checkout!listVars, Checkout!tokenVars, Checkout!stripeVars
<1>2. /\ p \in Screens /\ p.offer \in ShownOffers /\ p.bloc = "initial" /\ p.auth = "unread"
      /\ tab \in Counts \union {1}
  BY DEF CheckoutInv, CheckoutTypesOK, TurningInv
<1>3. /\ q \in Screens /\ q.id = p.id /\ q.at = "select" /\ q.offer = p.offer /\ q.bloc = "initial"
      /\ q.auth = "unread"
      /\ g \in Screens /\ g.id = p.id /\ g.at = "gate" /\ g.offer = p.offer /\ g.bloc = "initial"
      /\ g.to = "select" /\ g.auth = "unread"
  BY <1>1, <1>2 DEF Screens
<1> HIDE DEF q, g
<1>4. CASE ~Checkout!OnStack(1) /\ UNCHANGED stack
  BY <1>1, <1>2, <1>4, CheckoutStutters
<1>5. Checkout!OnStack(1) => \E i \in 1..Len(stack) : stack[i].id = 1 \/ stack[i].at \in Early
  BY DEF Checkout!OnStack
<1>6. CASE Checkout!OnStack(1) /\ signedIn /\ stack' = Append(stack, q)
  <2>1. PageOK(q, signedIn, lost, phone, Paid, pages')
    BY <1>2, <1>3, <1>6 DEF PageOK, CheckoutBounds
  <2> QED
    BY <1>1, <1>3, <1>5, <1>6, <2>1, PagePushed
<1>7. CASE Checkout!OnStack(1) /\ ~signedIn /\ stack' = Append(stack, g)
  <2>1. PageOK(g, signedIn, lost, phone, Paid, pages')
    BY <1>2, <1>3, <1>7 DEF PageOK
  <2> QED
    BY <1>1, <1>3, <1>5, <1>7, <2>1, PagePushed
<1> QED
  BY <1>1, <1>4, <1>6, <1>7

LEMMA CheckoutForms ==
  ASSUME CheckoutBounds, CheckoutInv,
         Checkout!RegisterInstead \/ \E f \in {"login", "registration"} : Checkout!FromGate(f)
  PROVE  CheckoutInv'
<1>1. /\ pages' = pages + 1 /\ pages \in Nat
      /\ UNCHANGED <<sheet, intents, charged, wanted, signedIn, phone, lost, tab, turning>>
  BY TopPage DEF Checkout!RegisterInstead, Checkout!FromGate, Checkout!Count, Checkout!listVars,
     Checkout!tokenVars, Checkout!stripeVars
<1>2. CASE Checkout!RegisterInstead
  <2> DEFINE from == [Checkout!Top EXCEPT !.to = None]
             x == Checkout!Page("registration", from)
  <2>1. stack' = Append(stack, x)
    BY <1>2 DEF Checkout!RegisterInstead, Checkout!Push
  <2>2. from \in Screens /\ from.to = None
    BY TopPage DEF Screens
  <2> HIDE DEF from
  <2>3. /\ x \in Screens /\ x.id = pages + 1 /\ x.at = "registration" /\ x.to = None
        /\ x.bloc = "initial"
    BY <1>1, <2>2, NewPage
  <2> HIDE DEF x
  <2>4. PageOK(x, signedIn, lost, phone, Paid, pages')
    BY <2>3 DEF PageOK, CheckoutBounds
  <2> QED
    BY <1>1, <2>1, <2>3, <2>4, PagePushed DEF Early
<1>3. ASSUME NEW f \in {"login", "registration"}, Checkout!FromGate(f)
      PROVE  CheckoutInv'
  <2> DEFINE x == Checkout!Page(f, Checkout!Top)
  <2>1. stack' = Append(stack, x) /\ Checkout!Top.at = "gate"
    BY <1>3 DEF Checkout!FromGate, Checkout!Push
  <2>2. Checkout!Top \in Screens /\ Checkout!Top.offer \in ShownOffers /\ Checkout!Top.to = "select"
    BY <2>1, TopPage DEF PageOK
  <2>3. /\ x \in Screens /\ x.id = pages + 1 /\ x.at = f /\ x.to = "select"
        /\ x.offer \in ShownOffers /\ x.bloc = "initial"
    BY <1>1, <2>2, NewPage
  <2> HIDE DEF x
  <2>4. PageOK(x, signedIn, lost, phone, Paid, pages')
    BY <2>3 DEF PageOK
  <2> QED
    BY <1>1, <2>1, <2>3, <2>4, PagePushed DEF Early
<1> QED
  BY <1>2, <1>3

LEMMA CheckoutLogIn ==
  ASSUME CheckoutBounds, CheckoutInv, NEW v \in {"no", "yes"}, Checkout!LogIn(v)
  PROVE  CheckoutInv'
<1> DEFINE from == [Checkout!Top EXCEPT !.to = None]
           a == IF Checkout!Top.to = None THEN "home" ELSE Checkout!Top.to
           x == Checkout!Page(a, from)
<1>1. /\ Checkout!Top.at = "login" /\ sheet = None /\ pages' = pages + 1
      /\ signedIn' = TRUE /\ phone' = v /\ stack' = <<x>>
      /\ UNCHANGED <<tab, lost, turning, wanted, sheet, intents, charged>>
  BY DEF Checkout!LogIn, Checkout!Free, Checkout!Count, Checkout!listVars, Checkout!stripeVars
<1>2. /\ from \in Screens /\ from.offer = Checkout!Top.offer /\ from.to = None
      /\ pages \in Nat /\ lost \in BOOLEAN
  BY TopPage DEF Screens
<1>3. \/ a = "home"
      \/ a = "select" /\ Checkout!Top.offer \in ShownOffers
  BY <1>1, TopPage DEF PageOK, CheckoutBounds
<1> HIDE DEF a, from
<1>4. /\ x \in Screens /\ x.id = pages + 1 /\ x.at = a /\ x.offer = Checkout!Top.offer
      /\ x.bloc = "initial" /\ x.auth = "unread"
  BY <1>2, <1>3, NewPage
<1> HIDE DEF x
<1>5. PageOK(x, signedIn', lost', phone', Paid', pages')
  BY <1>1, <1>3, <1>4 DEF PageOK, CheckoutBounds
<1>6. MoneyInv' /\ intents' \in [ShownOffers -> {"none", "open", "paid"}]
      /\ charged' \in [ShownOffers -> Nat]
  BY <1>1, MoneyStays
<1>7. pages' \in Nat /\ pages' >= pages
  BY <1>1, <1>2
<1> QED
  BY <1>1, <1>2, <1>3, <1>4, <1>5, <1>6, <1>7, PagesReplaced

LEMMA CheckoutBack ==
  ASSUME CheckoutBounds, CheckoutInv, Checkout!Back
  PROVE  CheckoutInv'
<1>1. /\ sheet = None /\ Len(stack) > 1 /\ stack' = SubSeq(stack, 1, Len(stack) - 1)
      /\ UNCHANGED <<sheet, intents, charged, wanted, signedIn, phone, lost, tab, turning, pages>>
  BY DEF Checkout!Back, Checkout!Free, Checkout!listVars, Checkout!tokenVars, Checkout!stripeVars
<1>2. stack \in Seq(Screens) /\ Len(stack) \in Nat
  BY DEF CheckoutInv, CheckoutTypesOK
<1>3. /\ stack' \in Seq(Screens) /\ Len(stack') = Len(stack) - 1
      /\ \A i \in 1..(Len(stack) - 1) : stack'[i] = stack[i]
  BY <1>1, <1>2, SubSeqProperties
<1>4. \A i \in 1..(Len(stack) - 1) : i \in 1..Len(stack)
  BY <1>2
<1>5. \A i \in 1..Len(stack') : PageOK(stack'[i], signedIn, lost, phone, Paid, pages)
  BY <1>3, <1>4 DEF CheckoutInv, StackInv
<1> QED
  BY <1>1, <1>3, <1>5, PageLeft

-----------------------------------------------------------------------------
(* The choice of instalments.                                              *)
LEMMA PageKept ==
  ASSUME CheckoutBounds, CheckoutInv, NEW i \in 1..Len(stack), NEW x \in Screens,
         stack' = [stack EXCEPT ![i] = x], x.id = stack[i].id, x.at = stack[i].at,
         x.bloc = stack[i].bloc, PageOK(x, signedIn, lost, phone, Paid, pages),
         UNCHANGED <<sheet, intents, charged, wanted, signedIn, phone, lost, tab, turning, pages>>
  PROVE  CheckoutInv'
<1>1. stack \in Seq(Screens)
  BY DEF CheckoutInv, CheckoutTypesOK
<1>2. /\ stack' \in Seq(Screens) /\ Len(stack') = Len(stack)
      /\ \A k \in 1..Len(stack) : stack'[k] = IF k = i THEN x ELSE stack[k]
  BY <1>1
<1>3. \A k \in 1..Len(stack) :
        /\ stack'[k].id = stack[k].id /\ stack'[k].at = stack[k].at /\ stack'[k].bloc = stack[k].bloc
  BY <1>2
<1>4. MoneyInv' /\ Paid' = Paid /\ intents' \in [ShownOffers -> {"none", "open", "paid"}]
      /\ charged' \in [ShownOffers -> Nat]
  BY MoneyStays
<1>5. \A k \in 1..Len(stack) : PageOK(stack'[k], signedIn, lost, phone, Paid, pages)
  BY <1>2 DEF CheckoutInv, StackInv
<1>6. AskedInv' /\ OverInv'
  BY <1>2, <1>3 DEF CheckoutInv, AskedInv, OverInv
<1>7. /\ signedIn \in BOOLEAN /\ lost \in BOOLEAN /\ phone \in {"unset", "no", "yes"}
      /\ sheet \in {None} \union Nat /\ tab \in Counts \union {1}
      /\ \A a \in wanted : a.page \in Nat
  BY DEF CheckoutInv, CheckoutTypesOK
<1> QED
  BY <1>2, <1>3, <1>4, <1>5, <1>6, <1>7, PagesChanged

LEMMA CheckoutReadStatus ==
  ASSUME CheckoutBounds, CheckoutInv, NEW i \in 1..Len(stack), Checkout!ReadStatus(i)
  PROVE  CheckoutInv'
<1> DEFINE s == IF signedIn THEN "in" ELSE "new"
           x == [stack[i] EXCEPT !.auth = s]
<1>1. /\ stack[i].at = "select" /\ stack' = [stack EXCEPT ![i] = x]
      /\ UNCHANGED <<sheet, intents, charged, wanted, signedIn, phone, lost, tab, turning, pages>>
  BY DEF Checkout!ReadStatus, Checkout!listVars, Checkout!tokenVars, Checkout!stripeVars
<1>2. stack[i] \in Screens /\ PageOK(stack[i], signedIn, lost, phone, Paid, pages)
  BY DEF CheckoutInv, CheckoutTypesOK, StackInv
<1>3. /\ x \in Screens /\ x.id = stack[i].id /\ x.at = stack[i].at /\ x.bloc = stack[i].bloc
      /\ x.offer = stack[i].offer /\ x.auth = s
  BY <1>2 DEF Screens
<1> HIDE DEF x
<1>4. PageOK(x, signedIn, lost, phone, Paid, pages)
  BY <1>1, <1>2, <1>3 DEF PageOK, CheckoutBounds
<1> QED
  BY <1>1, <1>3, <1>4, PageKept

LEMMA CheckoutChooseCount ==
  ASSUME CheckoutBounds, CheckoutInv, NEW n \in Counts, Checkout!ChooseCount(n)
  PROVE  CheckoutInv'
<1> DEFINE i == Len(stack)
           x == [stack[i] EXCEPT !.count = n]
<1>1. /\ stack' = [stack EXCEPT ![i] = x]
      /\ UNCHANGED <<sheet, intents, charged, wanted, signedIn, phone, lost, tab, turning, pages>>
  BY DEF Checkout!ChooseCount, Checkout!listVars, Checkout!tokenVars, Checkout!stripeVars
<1>2. i \in 1..Len(stack) /\ stack[i] \in Screens /\ PageOK(stack[i], signedIn, lost, phone, Paid, pages)
  BY TopPage
<1> HIDE DEF i
<1>3. /\ x \in Screens /\ x.id = stack[i].id /\ x.at = stack[i].at /\ x.bloc = stack[i].bloc
      /\ x.offer = stack[i].offer /\ x.auth = stack[i].auth /\ x.to = stack[i].to
  BY <1>2 DEF Screens
<1> HIDE DEF x
<1>4. PageOK(x, signedIn, lost, phone, Paid, pages)
  BY <1>2, <1>3 DEF PageOK
<1> QED
  BY <1>1, <1>2, <1>3, <1>4, PageKept

LEMMA CheckoutContinue ==
  ASSUME CheckoutBounds, CheckoutInv, Checkout!Continue
  PROVE  CheckoutInv'
<1> DEFINE t == Checkout!Top
           p == Checkout!Page("payment", t)
           r == Checkout!Page("registration", t)
           x == [r EXCEPT !.to = "payment", !.auth = t.auth]
<1>1. /\ t.at = "select" /\ pages' = pages + 1
      /\ UNCHANGED <<sheet, intents, charged, wanted, signedIn, phone, lost, tab>>
      /\ \/ t.auth = "in" /\ turning' = turning \union {p} /\ UNCHANGED stack
         \/ t.auth # "in" /\ stack' = Append(stack, x) /\ UNCHANGED turning
  BY DEF Checkout!Continue, Checkout!Count, Checkout!Push, Checkout!listVars, Checkout!tokenVars,
     Checkout!stripeVars
<1>2. t \in Screens /\ PageOK(t, signedIn, lost, phone, Paid, pages) /\ pages \in Nat
  BY TopPage
<1>3. \E i \in 1..Len(stack) : stack[i].id = 1 \/ stack[i].at \in Early
  BY <1>1, TopPage DEF Early
<1> HIDE DEF t
<1>4. t.offer \in ShownOffers /\ (signedIn \/ lost) /\ (t.auth = "new" => lost)
  BY <1>1, <1>2 DEF PageOK
<1>5. CASE t.auth = "in" /\ turning' = turning \union {p} /\ UNCHANGED stack
  <2>1. /\ p \in Screens /\ p.id = pages + 1 /\ p.at = "payment" /\ p.offer = t.offer
        /\ p.bloc = "initial" /\ p.auth = "unread"
    BY <1>2, NewPage
  <2> HIDE DEF p
  <2> QED
    BY <1>1, <1>3, <1>4, <1>5, <2>1, PageAwaited
<1>6. CASE t.auth # "in" /\ stack' = Append(stack, x) /\ UNCHANGED turning
  <2>1. r \in Screens /\ r.id = pages + 1 /\ r.at = "registration" /\ r.bloc = "initial"
    BY <1>2, NewPage
  <2> HIDE DEF r
  <2>2. t.auth \in {None, "unread", "in", "new"}
    BY <1>2 DEF Screens
  <2>3. /\ x \in Screens /\ x.id = pages + 1 /\ x.at = "registration" /\ x.bloc = "initial"
        /\ x.auth = t.auth
    BY <2>1, <2>2 DEF Screens
  <2>4. t.auth # None
    BY <1>1, <1>2 DEF PageOK
  <2> HIDE DEF x
  <2>5. PageOK(x, signedIn, lost, phone, Paid, pages')
    BY <1>4, <1>6, <2>2, <2>3, <2>4 DEF PageOK
  <2> QED
    BY <1>1, <1>6, <2>3, <2>5, PagePushed DEF Early
<1> QED
  BY <1>1, <1>5, <1>6

LEMMA CheckoutOpenPayment ==
  ASSUME CheckoutBounds, CheckoutInv, NEW p \in turning, Checkout!OpenPayment(p)
  PROVE  CheckoutInv'
<1> DEFINE x == Checkout!Guarded(p)
<1>1. /\ p.at = "payment" /\ turning' = turning \ {p} /\ stack' = Append(stack, x)
      /\ UNCHANGED <<sheet, intents, charged, wanted, signedIn, phone, lost, tab, pages>>
  BY DEF Checkout!OpenPayment, Checkout!Push, Checkout!listVars, Checkout!tokenVars, Checkout!stripeVars
<1>2. /\ p \in Screens /\ p.offer \in ShownOffers /\ p.bloc = "initial" /\ p.id <= pages
      /\ (signedIn \/ lost) /\ signedIn \in BOOLEAN
  BY <1>1 DEF CheckoutInv, CheckoutTypesOK, TurningInv
<1>3. PageOK(p, signedIn, lost, phone, Paid, pages)
  BY <1>1, <1>2 DEF PageOK, Past
<1>4. /\ x \in Screens /\ x.id = p.id /\ x.bloc = "initial" /\ x.at \in {p.at, "login"}
      /\ PageOK(x, signedIn, lost, phone, Paid, pages)
  BY <1>2, <1>3, GuardedPage
<1> HIDE DEF x
<1> QED
  BY <1>1, <1>4, PagePushed DEF Early

-----------------------------------------------------------------------------
(* The payment.                                                            *)
LEMMA CheckoutCheckPhone ==
  ASSUME CheckoutBounds, CheckoutInv, NEW i \in 1..Len(stack), Checkout!CheckPhone(i)
  PROVE  CheckoutInv'
<1>1. /\ stack[i].at = "payment" /\ stack[i].bloc = "initial" /\ sheet' = sheet
      /\ UNCHANGED <<signedIn, phone, lost, turning, pages, tab, intents, charged>>
  BY DEF Checkout!CheckPhone, Checkout!listVars, Checkout!tokenVars, Checkout!stripeVars
<1>2. /\ MoneyInv' /\ intents' \in [ShownOffers -> {"none", "open", "paid"}]
      /\ charged' \in [ShownOffers -> Nat] /\ Paid' = Paid
  BY <1>1, MoneyStays
<1>3. /\ stack[i] \in Screens /\ PageOK(stack[i], signedIn, lost, phone, Paid, pages)
      /\ stack \in Seq(Screens)
  BY DEF CheckoutInv, CheckoutTypesOK, StackInv
<1>4. /\ signedIn \in BOOLEAN /\ lost \in BOOLEAN /\ phone \in {"unset", "no", "yes"}
      /\ sheet \in {None} \union Nat /\ tab \in Counts \union {1}
      /\ \A a \in wanted : a.page \in Nat
  BY DEF CheckoutInv, CheckoutTypesOK
<1> DEFINE k == stack[i].id
<1>5. k \in Nat /\ k <= pages /\ \A p \in turning : p.id # k
  BY <1>1, <1>3 DEF Screens, PageOK, CheckoutInv, TurningInv
<1>6. \A j \in 1..Len(stack) : stack[j].id = k => j = i
  BY <1>1 DEF CheckoutInv, StackInv
<1>7. CASE phone # "no"
  <2>1. /\ wanted' = wanted \union {[page |-> k, offer |-> stack[i].offer]}
        /\ Checkout!SetBloc(k, "loading")
    BY <1>7 DEF Checkout!CheckPhone, Checkout!Ask
  <2>2. \A a \in wanted' : a \in wanted \/ (a.page = k /\ k <= pages /\ \A p \in turning : p.id # k)
    BY <1>5, <2>1
  <2>3. "loading" \in Past
    BY DEF Past
  <2> HIDE DEF k
  <2> QED
    BY <1>1, <1>2, <1>4, <1>5, <1>7, <2>1, <2>2, <2>3, PageMarked
<1>8. CASE phone = "no"
  <2> DEFINE new(j) == [stack[j] EXCEPT !.bloc = IF stack[j].id = k THEN "phone" ELSE @]
  <2>1. stack' = [j \in 1..Len(stack) |-> new(j)] /\ wanted' = wanted
    BY <1>3, <1>8 DEF Checkout!CheckPhone, Checkout!SetBloc
  <2>2. \A j \in 1..Len(stack) :
          /\ new(j) \in Screens /\ new(j).id = stack[j].id /\ new(j).at = stack[j].at
          /\ new(j).offer = stack[j].offer /\ new(j).to = stack[j].to /\ new(j).auth = stack[j].auth
          /\ new(j).bloc = IF j = i THEN "phone" ELSE stack[j].bloc
    <3> SUFFICES ASSUME NEW j \in 1..Len(stack)
                 PROVE  /\ new(j) \in Screens /\ new(j).id = stack[j].id /\ new(j).at = stack[j].at
                        /\ new(j).offer = stack[j].offer /\ new(j).to = stack[j].to
                        /\ new(j).auth = stack[j].auth
                        /\ new(j).bloc = IF j = i THEN "phone" ELSE stack[j].bloc
      OBVIOUS
    <3>1. stack[j] \in Screens
      BY <1>3
    <3>2. stack[j].id = k <=> j = i
      BY <1>6
    <3> HIDE DEF k
    <3> QED
      BY <3>1, <3>2 DEF Screens
  <2> HIDE DEF new, k
  <2>3. stack' \in Seq(Screens) /\ Len(stack') = Len(stack)
        /\ \A j \in 1..Len(stack) : stack'[j] = new(j)
    <3>1. Len(stack) \in Nat
      BY <1>3
    <3>2. stack' \in [1..Len(stack) -> Screens]
      BY <2>1, <2>2
    <3> QED
      BY <2>1, <3>1, <3>2
  <2>4. \A j \in 1..Len(stack) : PageOK(stack'[j], signedIn, lost, phone, Paid, pages)
    <3> SUFFICES ASSUME NEW j \in 1..Len(stack)
                 PROVE  PageOK(new(j), signedIn, lost, phone, Paid, pages)
      BY <2>3
    <3>1. PageOK(stack[j], signedIn, lost, phone, Paid, pages)
      BY DEF CheckoutInv, StackInv
    <3>2. "phone" \notin Past
      BY DEF Past
    <3> QED
      BY <1>1, <2>2, <3>1, <3>2 DEF PageOK
  <2>5. AskedInv'
    <3>1. \A a \in wanted : a.page # k
      BY <1>1 DEF CheckoutInv, AskedInv, Past, k
    <3>2. \A j \in 1..Len(stack) : stack[j].id # k => stack'[j].bloc = stack[j].bloc
      BY <2>2, <2>3 DEF k
    <3>3. \A j \in 1..Len(stack) : stack'[j].id = stack[j].id /\ stack'[j].at = stack[j].at
      BY <2>2, <2>3
    <3> QED
      BY <1>1, <2>1, <2>3, <3>1, <3>2, <3>3 DEF CheckoutInv, AskedInv
  <2>6. OverInv'
    BY <1>1, <1>8 DEF CheckoutInv, OverInv
  <2> QED
    BY <1>1, <1>2, <1>4, <2>1, <2>2, <2>3, <2>4, <2>5, <2>6, PagesChanged
<1> QED
  BY <1>7, <1>8

LEMMA CheckoutVerifyPhone ==
  ASSUME CheckoutBounds, CheckoutInv, NEW i \in 1..Len(stack), Checkout!VerifyPhone(i)
  PROVE  CheckoutInv'
<1> DEFINE k == stack[i].id
<1>1. /\ stack[i].bloc = "phone" /\ phone' = "yes" /\ sheet' = sheet
      /\ wanted' = wanted \union {[page |-> k, offer |-> stack[i].offer]}
      /\ Checkout!SetBloc(k, "loading")
      /\ UNCHANGED <<signedIn, lost, turning, pages, tab, intents, charged>>
  BY DEF Checkout!VerifyPhone, Checkout!Ask, Checkout!listVars, Checkout!stripeVars
<1>2. /\ MoneyInv' /\ intents' \in [ShownOffers -> {"none", "open", "paid"}]
      /\ charged' \in [ShownOffers -> Nat] /\ Paid' = Paid
  BY <1>1, MoneyStays
<1>3. stack[i] \in Screens /\ PageOK(stack[i], signedIn, lost, phone, Paid, pages)
  BY DEF CheckoutInv, CheckoutTypesOK, StackInv
<1>4. k \in Nat /\ k <= pages /\ \A p \in turning : p.id # k
  BY <1>1, <1>3 DEF Screens, PageOK, CheckoutInv, TurningInv
<1>5. \A a \in wanted' : a \in wanted \/ (a.page = k /\ k <= pages /\ \A p \in turning : p.id # k)
  BY <1>1, <1>4
<1>6. "loading" \in Past /\ signedIn \in BOOLEAN /\ lost \in BOOLEAN
  BY DEF Past, CheckoutInv, CheckoutTypesOK
<1> HIDE DEF k
<1> QED
  BY <1>1, <1>2, <1>4, <1>5, <1>6, PageMarked

LEMMA CheckoutDeclinePhone ==
  ASSUME CheckoutBounds, CheckoutInv, NEW i \in 1..Len(stack), Checkout!DeclinePhone(i)
  PROVE  CheckoutInv'
<1> DEFINE x == [stack[i] EXCEPT !.bloc = "declined"]
           left == [stack EXCEPT ![i] = x]
<1>1. /\ stack[i].bloc = "phone" /\ stack' = SubSeq(left, 1, Len(left) - 1)
      /\ UNCHANGED <<sheet, intents, charged, wanted, signedIn, phone, lost, tab, turning, pages>>
  BY DEF Checkout!DeclinePhone, Checkout!listVars, Checkout!tokenVars, Checkout!stripeVars
<1>2. /\ stack \in Seq(Screens) /\ Len(stack) \in Nat /\ stack[i] \in Screens
      /\ PageOK(stack[i], signedIn, lost, phone, Paid, pages) /\ sheet = None
  BY <1>1 DEF CheckoutInv, CheckoutTypesOK, StackInv, OverInv
<1>3. stack[i].at = "payment" /\ i # 1
  BY <1>1, <1>2 DEF PageOK, CheckoutInv, StackInv
<1>4. Len(stack) > 1
  BY <1>2, <1>3
<1>5. /\ x \in Screens /\ x.id = stack[i].id /\ x.at = stack[i].at /\ x.offer = stack[i].offer
      /\ x.to = stack[i].to /\ x.auth = stack[i].auth /\ x.bloc = "declined"
  BY <1>2 DEF Screens
<1> HIDE DEF x
<1>6. /\ left \in Seq(Screens) /\ Len(left) = Len(stack)
      /\ \A j \in 1..Len(stack) : left[j] = IF j = i THEN x ELSE stack[j]
  BY <1>2, <1>5
<1> HIDE DEF left
<1>7. /\ stack' \in Seq(Screens) /\ Len(stack') = Len(stack) - 1
      /\ \A j \in 1..(Len(stack) - 1) : stack'[j] = left[j]
  BY <1>1, <1>2, <1>4, <1>6, SubSeqProperties
<1>8. PageOK(x, signedIn, lost, phone, Paid, pages)
  BY <1>2, <1>3, <1>5 DEF PageOK, Past
<1>9. \A j \in 1..(Len(stack) - 1) : j \in 1..Len(stack) /\ stack'[j] = IF j = i THEN x ELSE stack[j]
  BY <1>2, <1>6, <1>7
<1>10. \A j \in 1..Len(stack') :
         /\ stack'[j].id = stack[j].id /\ stack'[j].at = stack[j].at
         /\ stack[j].bloc \in Past => stack'[j].bloc \in Past
         /\ PageOK(stack'[j], signedIn, lost, phone, Paid, pages)
  <2> SUFFICES ASSUME NEW j \in 1..(Len(stack) - 1)
               PROVE  /\ stack'[j].id = stack[j].id /\ stack'[j].at = stack[j].at
                      /\ stack[j].bloc \in Past => stack'[j].bloc \in Past
                      /\ PageOK(stack'[j], signedIn, lost, phone, Paid, pages)
    BY <1>7
  <2>1. CASE j = i
    BY <1>1, <1>5, <1>8, <1>9, <2>1 DEF Past
  <2>2. CASE j # i
    BY <1>9, <2>2 DEF CheckoutInv, StackInv
  <2> QED
    BY <2>1, <2>2
<1> QED
  BY <1>1, <1>2, <1>4, <1>7, <1>10, PageLeft

(* A request for an intent ends.                                           *)
LEMMA CheckoutAnswered ==
  ASSUME CheckoutBounds, CheckoutInv, NEW a \in wanted,
         Checkout!Answered(a) \/ Checkout!AskFails(a) \/ Checkout!AskRefused(a)
  PROVE  CheckoutInv'
<1>1. PICK s \in Past : Checkout!SetBloc(a.page, s)
  BY DEF Checkout!Answered, Checkout!AskFails, Checkout!AskRefused, Past
<1>2. /\ wanted' = wanted \ {a} /\ sheet' = sheet
      /\ UNCHANGED <<turning, pages, tab, charged>>
  BY DEF Checkout!Answered, Checkout!AskFails, Checkout!AskRefused, Checkout!listVars,
     Checkout!tokenVars, Checkout!stripeVars
<1>3. /\ intents \in [ShownOffers -> {"none", "open", "paid"}] /\ charged \in [ShownOffers -> Nat]
      /\ signedIn \in BOOLEAN /\ lost \in BOOLEAN /\ phone \in {"unset", "no", "yes"}
      /\ a.page \in Nat
  BY DEF CheckoutInv, CheckoutTypesOK
<1>4. /\ intents' \in [ShownOffers -> {"none", "open", "paid"}]
      /\ \A o \in ShownOffers : intents'[o] = "paid" <=> intents[o] = "paid"
  <2>1. CASE Checkout!Answered(a)
    BY <1>3, <2>1 DEF Checkout!Answered
  <2>2. CASE ~Checkout!Answered(a)
    BY <1>3, <2>2 DEF Checkout!AskFails, Checkout!AskRefused, Checkout!stripeVars
  <2> QED
    BY <2>1, <2>2
<1>5. MoneyInv' /\ Paid \subseteq Paid'
  BY <1>2, <1>4 DEF CheckoutInv, MoneyInv, Paid
<1>6. \/ UNCHANGED <<signedIn, phone, lost>>
      \/ signedIn' = FALSE /\ phone' = "unset" /\ lost' = TRUE
  BY DEF Checkout!Answered, Checkout!AskFails, Checkout!AskRefused, Checkout!tokenVars
<1>7. /\ signedIn' \in BOOLEAN /\ lost' \in BOOLEAN /\ phone' \in {"unset", "no", "yes"}
      /\ (signedIn \/ lost => signedIn' \/ lost') /\ (lost => lost')
      /\ (phone # "no" => phone' # "no")
  BY <1>3, <1>6
<1>8. \A i \in 1..Len(stack) : stack[i].at = "payment" /\ stack[i].id = a.page => phone' # "no"
  BY <1>7 DEF CheckoutInv, AskedInv, StackInv, PageOK
<1>9. /\ charged' \in [ShownOffers -> Nat]
      /\ \A b \in wanted' :
            b \in wanted \/ (b.page = a.page /\ a.page <= pages /\ \A p \in turning : p.id # a.page)
  BY <1>2, <1>3
<1> QED
  BY <1>1, <1>2, <1>3, <1>4, <1>5, <1>7, <1>8, <1>9, PageMarked

LEMMA CheckoutRetry ==
  ASSUME CheckoutBounds, CheckoutInv, Checkout!Retry
  PROVE  CheckoutInv'
<1> DEFINE t == Checkout!Top
           k == t.id
<1>1. /\ t.at = "payment" /\ t.bloc = "failed" /\ sheet' = sheet
      /\ wanted' = wanted \union {[page |-> k, offer |-> t.offer]}
      /\ Checkout!SetBloc(k, "loading")
      /\ UNCHANGED <<signedIn, phone, lost, turning, pages, tab, intents, charged>>
  BY DEF Checkout!Retry, Checkout!Ask, Checkout!listVars, Checkout!tokenVars, Checkout!stripeVars
<1>2. /\ MoneyInv' /\ intents' \in [ShownOffers -> {"none", "open", "paid"}]
      /\ charged' \in [ShownOffers -> Nat] /\ Paid' = Paid
  BY <1>1, MoneyStays
<1>3. /\ t \in Screens /\ PageOK(t, signedIn, lost, phone, Paid, pages)
      /\ t = stack[Len(stack)] /\ Len(stack) \in 1..Len(stack)
  BY TopPage
<1> HIDE DEF t
<1>4. k \in Nat /\ k <= pages /\ (\A p \in turning : p.id # k) /\ phone # "no"
  <2>1. k \in Nat /\ k <= pages /\ phone # "no"
    BY <1>1, <1>3 DEF Screens, PageOK, Past
  <2>2. \A p \in turning : p.id # k
    BY <1>3 DEF CheckoutInv, TurningInv
  <2> QED
    BY <2>1, <2>2
<1>5. \A a \in wanted' : a \in wanted \/ (a.page = k /\ k <= pages /\ \A p \in turning : p.id # k)
  BY <1>1, <1>4
<1>6. /\ "loading" \in Past /\ signedIn \in BOOLEAN /\ lost \in BOOLEAN
      /\ phone \in {"unset", "no", "yes"}
  BY DEF Past, CheckoutInv, CheckoutTypesOK
<1> HIDE DEF k
<1> QED
  BY <1>1, <1>2, <1>4, <1>5, <1>6, PageMarked

LEMMA CheckoutPay ==
  ASSUME CheckoutBounds, CheckoutInv, Checkout!Pay
  PROVE  CheckoutInv'
<1> DEFINE t == Checkout!Top
           k == t.id
<1>1. /\ t.at = "payment" /\ t.bloc = "ready" /\ sheet' = k
      /\ Checkout!SetBloc(k, "processing") /\ \A i \in 1..Len(stack) : stack[i].bloc # "phone"
      /\ UNCHANGED <<signedIn, phone, lost, turning, pages, tab, intents, charged, wanted>>
  BY DEF Checkout!Pay, Checkout!Free, Checkout!listVars, Checkout!tokenVars
<1>2. /\ MoneyInv' /\ intents' \in [ShownOffers -> {"none", "open", "paid"}]
      /\ charged' \in [ShownOffers -> Nat] /\ Paid' = Paid
  BY <1>1, MoneyStays
<1>3. /\ t \in Screens /\ PageOK(t, signedIn, lost, phone, Paid, pages)
      /\ t = stack[Len(stack)] /\ Len(stack) \in 1..Len(stack)
  BY TopPage
<1> HIDE DEF t
<1>4. k \in Nat /\ phone # "no"
  BY <1>1, <1>3 DEF Screens, PageOK, Past
<1>5. \E i \in 1..Len(stack) : stack[i].id = k /\ stack[i].at = "payment"
  BY <1>1, <1>3
<1>6. /\ "processing" \in Past /\ signedIn \in BOOLEAN /\ lost \in BOOLEAN
      /\ phone \in {"unset", "no", "yes"}
  BY DEF Past, CheckoutInv, CheckoutTypesOK
<1> HIDE DEF k
<1> QED
  BY <1>1, <1>2, <1>4, <1>5, <1>6, PageMarked

(* What becomes of Stripe's sheet.                                         *)
LEMMA CheckoutSheetLoses ==
  ASSUME CheckoutBounds, CheckoutInv,
         Checkout!SheetLosesAnswer \/ \E s \in {"ready", "failed", "processing"} : Checkout!SheetCloses(s)
  PROVE  CheckoutInv'
<1>1. PICK s \in Past : Checkout!SetBloc(sheet, s)
  BY DEF Checkout!SheetLosesAnswer, Checkout!SheetCloses, Past
<1>2. /\ sheet # None /\ sheet' = None
      /\ UNCHANGED <<signedIn, phone, lost, turning, pages, tab, wanted>>
  BY DEF Checkout!SheetLosesAnswer, Checkout!SheetCloses, Checkout!listVars, Checkout!tokenVars
<1>3. /\ MoneyInv' /\ intents' \in [ShownOffers -> {"none", "open", "paid"}]
      /\ charged' \in [ShownOffers -> Nat] /\ Paid \subseteq Paid'
  <2>1. CASE Checkout!SheetLosesAnswer
    BY <1>2, <2>1, PageUnder, OfferCharged DEF Checkout!SheetLosesAnswer, Checkout!Charge
  <2>2. CASE ~Checkout!SheetLosesAnswer
    BY <2>2, MoneyStays DEF Checkout!SheetCloses
  <2> QED
    BY <2>1, <2>2
<1>4. /\ sheet \in Nat /\ signedIn \in BOOLEAN /\ lost \in BOOLEAN /\ phone \in {"unset", "no", "yes"}
      /\ phone # "no"
  BY <1>2 DEF CheckoutInv, CheckoutTypesOK, OverInv
<1> QED
  BY <1>1, <1>2, <1>3, <1>4, PageMarked

LEMMA CheckoutSheetPaid ==
  ASSUME CheckoutBounds, CheckoutInv, Checkout!SheetPaid
  PROVE  CheckoutInv'
<1> DEFINE u == Checkout!Under
           p == Checkout!Page("confirmed", u)
           x == Checkout!Guarded(p)
<1>1. /\ sheet # None /\ sheet' = None /\ stack' = <<x>> /\ Checkout!Charge
      /\ UNCHANGED <<signedIn, phone, lost, turning, pages, tab, wanted>>
  BY DEF Checkout!SheetPaid, Checkout!listVars, Checkout!tokenVars
<1>2. u \in Screens /\ u.offer \in ShownOffers /\ (signedIn \/ lost)
  BY <1>1, PageUnder
<1>3. /\ MoneyInv' /\ intents' \in [ShownOffers -> {"none", "open", "paid"}]
      /\ charged' \in [ShownOffers -> Nat] /\ u.offer \in Paid'
  BY <1>1, <1>2, OfferCharged DEF Checkout!Charge
<1>4. /\ pages \in Nat /\ signedIn \in BOOLEAN /\ lost \in BOOLEAN
      /\ phone \in {"unset", "no", "yes"}
  BY DEF CheckoutInv, CheckoutTypesOK
<1> HIDE DEF u
<1>5. /\ p \in Screens /\ p.id = pages + 1 /\ p.at = "confirmed" /\ p.offer = u.offer
      /\ p.bloc = "initial"
  BY <1>2, <1>4, NewPage
<1> HIDE DEF p
<1>6. PageOK(p, signedIn, lost, phone, Paid', pages)
  BY <1>2, <1>3, <1>5 DEF PageOK
<1>7. /\ x \in Screens /\ x.id = pages + 1 /\ x.bloc = "initial" /\ x.at \in {"confirmed", "login"}
      /\ PageOK(x, signedIn, lost, phone, Paid', pages)
  BY <1>4, <1>5, <1>6, GuardedPage
<1> HIDE DEF x
<1>8. pages' \in Nat /\ pages' >= pages /\ x.at \notin Early
  BY <1>1, <1>4, <1>7 DEF Early
<1> QED
  BY <1>1, <1>3, <1>4, <1>7, <1>8, PagesReplaced

LEMMA CheckoutGoHome ==
  ASSUME CheckoutBounds, CheckoutInv, Checkout!GoHome
  PROVE  CheckoutInv'
<1> DEFINE from == [Checkout!Top EXCEPT !.offer = None]
           p == Checkout!Page("home", from)
           x == Checkout!Guarded(p)
<1>1. /\ sheet = None /\ stack' = <<x>> /\ Checkout!Top.at = "confirmed"
      /\ UNCHANGED <<signedIn, phone, lost, turning, pages, tab, wanted, sheet, intents, charged>>
  BY DEF Checkout!GoHome, Checkout!Free, Checkout!listVars, Checkout!tokenVars, Checkout!stripeVars
<1>2. from \in Screens /\ (signedIn \/ lost)
  BY <1>1, TopPage DEF Screens, PageOK
<1>3. /\ MoneyInv' /\ intents' \in [ShownOffers -> {"none", "open", "paid"}]
      /\ charged' \in [ShownOffers -> Nat] /\ Paid' = Paid
  BY <1>1, MoneyStays
<1>4. /\ pages \in Nat /\ signedIn \in BOOLEAN /\ lost \in BOOLEAN
      /\ phone \in {"unset", "no", "yes"}
  BY DEF CheckoutInv, CheckoutTypesOK
<1> HIDE DEF from
<1>5. p \in Screens /\ p.id = pages + 1 /\ p.at = "home" /\ p.bloc = "initial"
  BY <1>2, <1>4, NewPage
<1> HIDE DEF p
<1>6. PageOK(p, signedIn, lost, phone, Paid', pages)
  BY <1>2, <1>5 DEF PageOK
<1>7. /\ x \in Screens /\ x.id = pages + 1 /\ x.bloc = "initial" /\ x.at \in {"home", "login"}
      /\ PageOK(x, signedIn, lost, phone, Paid', pages)
  BY <1>4, <1>5, <1>6, GuardedPage
<1> HIDE DEF x
<1>8. pages' \in Nat /\ pages' >= pages /\ x.at \notin Early
  BY <1>1, <1>4, <1>7 DEF Early
<1> QED
  BY <1>1, <1>3, <1>4, <1>7, <1>8, PagesReplaced

-----------------------------------------------------------------------------
LEMMA CheckoutStep ==
  ASSUME CheckoutBounds, CheckoutInv, [Checkout!Next]_Checkout!vars
  PROVE  CheckoutInv'
<1>1. CASE UNCHANGED Checkout!vars
  <2>1. tab' \in Counts \union {1} /\ turning' \subseteq turning
        /\ UNCHANGED <<signedIn, phone, lost, stack, pages, wanted, sheet, intents, charged>>
    BY <1>1 DEF Checkout!vars, Checkout!listVars, Checkout!tokenVars, Checkout!stripeVars,
       CheckoutInv, CheckoutTypesOK
  <2> QED
    BY <2>1, CheckoutStutters
<1>2. CASE Checkout!Next
  BY <1>2, CheckoutList, CheckoutTap, CheckoutOpenSelection, CheckoutForms, CheckoutLogIn,
     CheckoutBack, CheckoutReadStatus, CheckoutChooseCount, CheckoutContinue, CheckoutOpenPayment,
     CheckoutCheckPhone, CheckoutVerifyPhone, CheckoutDeclinePhone, CheckoutAnswered, CheckoutRetry,
     CheckoutPay, CheckoutSheetLoses, CheckoutSheetPaid, CheckoutGoHome DEF Checkout!Next
<1> QED
  BY <1>1, <1>2

LEMMA CheckoutFollows ==
  ASSUME CheckoutBounds, CheckoutInv
  PROVE  Checkout!CheckoutExplained
<1> USE DEF CheckoutInv
<1>1. Checkout!ChargedOnce
  BY DEF Checkout!ChargedOnce, MoneyInv
<1>2. Checkout!ConfirmedIsPaid
  BY DEF Checkout!ConfirmedIsPaid, StackInv, PageOK, Paid
<1>3. Checkout!RegistersExplained
  BY DEF Checkout!RegistersExplained, StackInv, PageOK
<1>4. Checkout!ForgottenExplained
  BY DEF Checkout!ForgottenExplained, StackInv, PageOK, CheckoutBounds
<1>5. Checkout!NeverBlank
  BY EmptySeq DEF Checkout!NeverBlank, CheckoutTypesOK
<1> QED
  BY <1>1, <1>2, <1>3, <1>4, <1>5 DEF Checkout!CheckoutExplained

(* An offer is paid for once, the confirmation is of an offer that was     *)
(* paid, nobody is sent to register or forgotten without a lost session or *)
(* a press too early, and a page is always left                            *)
(* (payment_bloc.dart, payment_screen.dart, app_router.dart), for every    *)
(* number of pages, offers and instalments.                                *)
THEOREM CheckoutIsExplained ==
  ASSUME CheckoutBounds
  PROVE  RequestsSpec => [](side = "checkout" => Checkout!CheckoutExplained)
<1> DEFINE Inv == side = "checkout" => CheckoutInv
<1>1. RequestsInit => Inv
  BY CheckoutBegins DEF RequestsInit
<1>2. ASSUME Inv, [RequestsNext]_<<side, faults, apiVars, screenVars>>
      PROVE  Inv'
  <2> SUFFICES ASSUME side' = "checkout"
               PROVE  CheckoutInv'
    OBVIOUS
  <2>1. side = "checkout" /\ CheckoutInv
    BY <1>2 DEF RequestsNext
  <2>2. Checkout!Next \/ UNCHANGED <<faults, checkoutVars>>
    BY <1>2, <2>1 DEF RequestsNext, ApiNext, StaffNext, ScreensNext, screenVars
  <2>3. [Checkout!Next]_Checkout!vars
    BY <2>2 DEF checkoutVars, Checkout!vars, Checkout!listVars, Checkout!tokenVars, Checkout!stripeVars
  <2> QED
    BY <2>1, <2>3, CheckoutStep
<1>3. Inv => (side = "checkout" => Checkout!CheckoutExplained)
  BY CheckoutFollows
<1> QED
  BY <1>1, <1>2, <1>3, PTL DEF RequestsSpec
=============================================================================
