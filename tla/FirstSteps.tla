------------------------------ MODULE FirstSteps ------------------------------
(***************************************************************************)
(* The mobile application from its start: the onboarding, shown until it   *)
(* was once gone through, and the ways out of it and of the home screen.   *)
(* The splash leaves by itself after two seconds or when it is tapped, and *)
(* the tap leaves the timer on.  A scan first asks the API for an anonymous *)
(* session (ClientAccess), from the gate of the onboarding as from login  *)
(* and home, whose buttons wait for the answer.                            *)
(***************************************************************************)
EXTENDS Naturals, Sequences

CONSTANTS
  Interests,
  MaxStarts,    \* bound on starts of the application
  MaxAsks       \* bound on sessions asked for

VARIABLES
  at,           \* "onboarding", "login", "registration", "home" or "policies"
  step,         \* of the onboarding: 0, the splash, to 4, the entry gate
  timer,        \* the splash's is running
  picked,       \* interests
  seen,         \* in the box that outlives the application
  asks,         \* requests for a session under way, and whether the page that asked is gone
  creating,     \* the button of the page waits for one
  scans,        \* the sessions of the scans open over the page
  count, starts,
  wasSeen,      \* at this start
  tapped,       \* the splash was tapped away
  back,         \* the onboarding went back
  pressedAgain  \* the scan was asked for again at the gate before the answer

pageVars == <<at, step, timer, picked, seen, starts, wasSeen, tapped, back>>
scanVars == <<asks, creating, scans, count, pressedAgain>>
vars == <<pageVars, scanVars>>

(* A start goes to the form of login, and from there, until the box says   *)
(* the onboarding was seen, to the onboarding.                             *)
Begin(s) == [at |-> IF s THEN "login" ELSE "onboarding", timer |-> ~s]

Init ==
  /\ seen \in BOOLEAN /\ at = Begin(seen).at /\ timer = Begin(seen).timer
  /\ step = 0 /\ picked = {"go"} /\ starts = 1 /\ wasSeen = seen
  /\ tapped = FALSE /\ back = FALSE
  /\ asks = {} /\ creating = FALSE /\ scans = <<>> /\ count = 0
  /\ pressedAgain = FALSE

Here == at = "onboarding" /\ scans = <<>>

(* The entry gate is reached once: from then on the onboarding is seen.    *)
AdvanceTo(n) ==
  /\ step' = n /\ seen' = (seen \/ n = 4)
  /\ back' = (back \/ n < step)

Splash ==
  /\ Here /\ step = 0 /\ AdvanceTo(1) /\ tapped' = TRUE
  /\ UNCHANGED <<at, timer, picked, starts, wasSeen, scanVars>>

(* The timer asks only whether the page is there, not where it has got to. *)
TimerFires ==
  /\ at = "onboarding" /\ timer /\ timer' = FALSE /\ AdvanceTo(1)
  /\ UNCHANGED <<at, picked, starts, wasSeen, tapped, scanVars>>

NextSlide ==
  /\ Here /\ step \in 1..3 /\ AdvanceTo(step + 1)
  /\ UNCHANGED <<at, timer, picked, starts, wasSeen, tapped, scanVars>>

Skip ==
  /\ Here /\ step \in {1, 2} /\ AdvanceTo(4)
  /\ UNCHANGED <<at, timer, picked, starts, wasSeen, tapped, scanVars>>

Toggle(i) ==
  /\ Here /\ step = 3
  /\ picked' = IF i \in picked THEN picked \ {i} ELSE picked \union {i}
  /\ UNCHANGED <<at, step, timer, seen, starts, wasSeen, tapped, back, scanVars>>

-----------------------------------------------------------------------------
(* Another page takes the place: the one before is disposed of, with its   *)
(* timer and the scans over it; what it asked for is dropped when it comes. *)
GoTo(page) ==
  /\ at' = page /\ timer' = FALSE /\ scans' = <<>> /\ creating' = FALSE
  /\ asks' = {[a EXCEPT !.gone = TRUE] : a \in asks}
  /\ UNCHANGED <<step, picked, seen, starts, wasSeen, tapped, back, count, pressedAgain>>

Leave(page) == Here /\ step = 4 /\ GoTo(page)
LogIn == at \in {"login", "registration"} /\ scans = <<>> /\ GoTo("home")
LogOut == at = "home" /\ scans = <<>> /\ GoTo("login")
ToPolicies == at = "home" /\ scans = <<>> /\ GoTo("policies")
ToHome == at = "policies" /\ scans = <<>> /\ GoTo("home")

(* The application is killed and started again.                            *)
Restart ==
  /\ starts < MaxStarts /\ starts' = starts + 1
  /\ at' = Begin(seen).at /\ timer' = Begin(seen).timer /\ wasSeen' = seen
  /\ step' = 0 /\ picked' = {"go"} /\ tapped' = FALSE /\ back' = FALSE
  /\ asks' = {} /\ creating' = FALSE /\ scans' = <<>> /\ pressedAgain' = FALSE
  /\ UNCHANGED <<seen, count>>

-----------------------------------------------------------------------------
Ask ==
  /\ count < MaxAsks /\ count' = count + 1
  /\ asks' = asks \union {[id |-> count', gone |-> FALSE]}

(* The button of the entry gate can be pressed again before the answer.    *)
ScanFromGate ==
  /\ Here /\ step = 4 /\ Ask
  /\ pressedAgain' = (pressedAgain \/ \E a \in asks : ~a.gone)
  /\ UNCHANGED <<pageVars, creating, scans>>

(* Those of the other pages are held while a session is made.              *)
ScanFromPage ==
  /\ at \in {"login", "home"} /\ scans = <<>> /\ ~creating /\ Ask /\ creating' = TRUE
  /\ UNCHANGED <<pageVars, scans, pressedAgain>>

(* The wizard opens over the page that asked, if that is there.            *)
SessionMade(a) ==
  /\ a \in asks /\ asks' = asks \ {a}
  /\ IF a.gone THEN UNCHANGED <<scans, creating>>
     ELSE scans' = Append(scans, a.id) /\ creating' = FALSE
  /\ UNCHANGED <<pageVars, count, pressedAgain>>

(* A page shows a message; the gate shows nothing.                         *)
SessionRefused(a) ==
  /\ a \in asks /\ asks' = asks \ {a} /\ creating' = (creating /\ a.gone)
  /\ UNCHANGED <<pageVars, scans, count, pressedAgain>>

CloseScan ==
  /\ scans # <<>> /\ scans' = SubSeq(scans, 1, Len(scans) - 1)
  /\ UNCHANGED <<pageVars, asks, creating, count, pressedAgain>>

Next ==
  \/ Splash \/ TimerFires \/ NextSlide \/ Skip \/ LogIn \/ LogOut \/ ToPolicies
  \/ ToHome \/ Restart \/ ScanFromGate \/ ScanFromPage \/ CloseScan
  \/ \E i \in Interests : Toggle(i)
  \/ \E page \in {"login", "registration"} : Leave(page)
  \/ \E a \in asks : SessionMade(a) \/ SessionRefused(a)

-----------------------------------------------------------------------------
(* The onboarding goes back only under who tapped the splash away before   *)
(* its time: the timer takes them to the first slide from wherever they    *)
(* are.                                                                    *)
BackExplained == back => tapped

(* Who has been at the entry gate is not taken through the onboarding at   *)
(* another start.                                                          *)
SeenOnce == (step = 4 => seen) /\ (at = "onboarding" => ~wasSeen)

(* Two wizards, with two sessions, lie one over another only for a second  *)
(* press at the gate; the other pages open one.                            *)
OneScan == Len(scans) > 1 => pressedAgain

(* A button is held only while a session is on its way to its page.        *)
HeldIsAsked == creating => \E a \in asks : ~a.gone

StepsExplained == BackExplained /\ SeenOnce /\ OneScan /\ HeldIsAsked
=============================================================================
