------------------------- MODULE RenewalNoticesProofs -------------------------
(***************************************************************************)
(* The log of queued reminders is true, a renewed policy is left alone, a  *)
(* finished check left nobody out and every repeated reminder is accounted *)
(* for: for every calendar, every set of policies, stages and channels,    *)
(* and any number of faults.  The proofs ask nothing of the queue: checks  *)
(* of two days, or two runs of one, may overlap.                           *)
(***************************************************************************)
EXTENDS RenewalNotices, FiniteSetTheorems, TLAPS

Statements == {"idle", "find", "queued", "renewed", "add", "record", "load", "send"}

DataOK ==
  /\ today \in Days
  /\ active \subseteq Policies
  /\ renewedOn \in [Policies -> 0..(LastDay + 1)]
  /\ pc \in [Workers -> Statements]
  /\ day \in [Workers -> Days]
  /\ stage \in [Workers -> Int]
  /\ todo \in [Workers -> SUBSET Policies]
  /\ policy \in [Workers -> Policies \union {None}]

(* A notice is ordered by a check of its day, which is not a day to come. *)
OrderedInv ==
  \A p \in Policies, i \in DOMAIN Stages, d \in Days : <<p, i, d>> \in ordered => d <= today

(* What a check knows at its next statement: its day has begun; before it  *)
(* orders a later reminder the policy was not renewed, or is renewed today *)
(* at the earliest; what it is about to log it has ordered.                *)
CheckInv ==
  \A w \in Workers :
    /\ day[w] <= today
    /\ pc[w] \in {"queued", "renewed", "add", "record"} => policy[w] \in Policies
    /\ pc[w] = "add" /\ stage[w] > 1 => renewedOn[policy[w]] >= day[w]
    /\ pc[w] = "record" => <<policy[w], stage[w], day[w]>> \in ordered

IInv == DataOK /\ OrderedInv /\ CheckInv /\ LoggedIsOrdered /\ RenewedLeftAlone

(* A step of w alone that orders nothing and leaves it where nothing needs *)
(* to be known of a policy's renewal.                                      *)
MovesOn(w) ==
  /\ pc' \in [Workers -> Statements]
  /\ day' \in [Workers -> Days]
  /\ stage' \in [Workers -> Int]
  /\ todo' \in [Workers -> SUBSET Policies]
  /\ policy' \in [Workers -> Policies \union {None}]
  /\ pc'[w] \notin {"add", "record"}
  /\ pc'[w] \in {"queued", "renewed"} => policy'[w] \in Policies
  /\ day'[w] <= today
  /\ \A v \in Workers \ {w} :
       /\ pc'[v] = pc[v] /\ day'[v] = day[v] /\ stage'[v] = stage[v]
       /\ policy'[v] = policy[v]

-----------------------------------------------------------------------------
LEMMA IInvInit == Init => IInv
  BY CalendarAssumption
     DEF Init, IInv, DataOK, OrderedInv, CheckInv, LoggedIsOrdered, RenewedLeftAlone,
         Statements, Days

LEMMA IdleMovesOn ==
  ASSUME IInv, NEW w \in Workers, Idle(w)
  PROVE  MovesOn(w)
  BY CalendarAssumption DEF IInv, DataOK, Idle, MovesOn, Statements, Days

(* The loop of the check, from whatever statement it is reached. *)
LEMMA ContinueMovesOn ==
  ASSUME IInv, NEW w \in Workers, NEW S \in SUBSET Policies, Continue(w, S)
  PROVE  MovesOn(w)
<1>1. CASE HandleOneOf(w, S)
  <2>1. PICK p \in S : /\ policy' = [policy EXCEPT ![w] = p]
                        /\ todo' = [todo EXCEPT ![w] = S \ {p}]
    BY <1>1 DEF HandleOneOf
  <2> QED
    BY <1>1, <2>1 DEF HandleOneOf, IInv, DataOK, CheckInv, MovesOn, Statements
<1>2. CASE NextStage(w)
  <2>1. stage[w] + 1 \in Int /\ stage' = [stage EXCEPT ![w] = stage[w] + 1]
    BY <1>2 DEF NextStage, IInv, DataOK
  <2>2. /\ pc' = [pc EXCEPT ![w] = "find"] /\ policy' = [policy EXCEPT ![w] = None]
        /\ day' = day /\ todo' = todo
    BY <1>2 DEF NextStage
  <2>3. day[w] <= today
    BY DEF IInv, CheckInv
  <2> QED
    BY <2>1, <2>2, <2>3 DEF IInv, DataOK, MovesOn, Statements
<1>3. CASE FinishCheck(w)
  BY <1>3, IdleMovesOn DEF FinishCheck, Return
<1> QED
  BY <1>1, <1>2, <1>3 DEF Continue

LEMMA MovingOnKeeps ==
  ASSUME IInv, NEW w \in Workers, MovesOn(w),
         UNCHANGED <<today, active, renewedOn, ordered, log>>
  PROVE  IInv'
<1> USE DEF IInv, MovesOn
<1>1. DataOK'
  BY DEF DataOK
<1>2. OrderedInv' /\ LoggedIsOrdered' /\ RenewedLeftAlone'
  BY DEF OrderedInv, LoggedIsOrdered, RenewedLeftAlone
<1>3. CheckInv'
  BY DEF CheckInv, DataOK
<1> QED
  BY <1>1, <1>2, <1>3

-----------------------------------------------------------------------------
(* Time and the people around: a renewal is dated today, and no check has  *)
(* looked further.                                                         *)
LEMMA WorldKeeps ==
  ASSUME IInv, UNCHANGED <<ordered, log, workerVars>>,
         \/ NextDay
         \/ \E p \in Policies : Renew(p) \/ Cancel(p) \/ \E n \in Extensions : Extend(p, n)
  PROVE  IInv'
<1> USE CalendarAssumption DEF IInv, workerVars, checkVars
<1>1. CASE NextDay
  BY <1>1 DEF NextDay, DataOK, OrderedInv, CheckInv, LoggedIsOrdered, RenewedLeftAlone, Days
<1>2. ASSUME NEW p \in Policies, Cancel(p)
      PROVE  IInv'
  BY <1>2 DEF Cancel, DataOK, OrderedInv, CheckInv, LoggedIsOrdered, RenewedLeftAlone
<1>3. ASSUME UNCHANGED <<today, active>>,
             NEW p \in Policies, NEW d \in 0..(LastDay + 1), d >= today,
             renewedOn' = [renewedOn EXCEPT ![p] = d]
      PROVE  IInv'
  <2>1. DataOK'
    BY <1>3 DEF DataOK
  <2>2. OrderedInv' /\ LoggedIsOrdered'
    BY <1>3 DEF OrderedInv, LoggedIsOrdered
  <2>3. \A q \in Policies, e \in Days : e <= today /\ renewedOn[q] >= e => renewedOn'[q] >= e
    BY <1>3 DEF DataOK, Days
  <2>4. CheckInv'
    BY <1>3, <2>3 DEF CheckInv, DataOK
  <2>5. RenewedLeftAlone'
    BY <1>3, <2>3 DEF RenewedLeftAlone, OrderedInv
  <2> QED
    BY <2>1, <2>2, <2>4, <2>5
<1>4. ASSUME NEW p \in Policies, Renew(p)
      PROVE  IInv'
  <2>1. today \in 0..(LastDay + 1) /\ today >= today
    BY DEF DataOK, Days
  <2> QED
    BY <1>3, <1>4, <2>1 DEF Renew
<1>5. ASSUME NEW p \in Policies, NEW n \in Extensions, Extend(p, n)
      PROVE  IInv'
  <2>1. LastDay + 1 \in 0..(LastDay + 1) /\ LastDay + 1 >= today
    BY DEF DataOK, Days
  <2> QED
    BY <1>3, <1>5, <2>1 DEF Extend
<1> QED
  BY <1>1, <1>2, <1>4, <1>5

(* AddNotice orders what the check has looked at; RecordQueued logs what   *)
(* it has ordered.                                                         *)
LEMMA AddKeeps ==
  ASSUME IInv, NEW w \in Workers, AddNotice(w)
  PROVE  IInv'
<1> USE DEF IInv
<1>1. /\ pc[w] = "add" /\ pc' = [pc EXCEPT ![w] = "record"]
      /\ ordered' = ordered \union {<<policy[w], stage[w], day[w]>>}
      /\ UNCHANGED <<today, active, endDay, renewedOn, log, day, stage, todo, policy>>
  BY DEF AddNotice, Goto, businessVars, checkVars
<1>2. DataOK'
  BY <1>1 DEF DataOK, Statements
<1>3. OrderedInv'
  BY <1>1 DEF OrderedInv, CheckInv
<1>4. CheckInv'
  BY <1>1 DEF CheckInv, DataOK
<1>5. LoggedIsOrdered'
  BY <1>1 DEF LoggedIsOrdered
<1>6. RenewedLeftAlone'
  BY <1>1 DEF RenewedLeftAlone, CheckInv
<1> QED
  BY <1>2, <1>3, <1>4, <1>5, <1>6

LEMMA RecordKeeps ==
  ASSUME IInv, NEW w \in Workers, RecordQueued(w)
  PROVE  IInv'
<1>1. /\ pc[w] = "record" /\ log' = log \union {<<policy[w], stage[w]>>}
      /\ UNCHANGED <<today, active, endDay, renewedOn, ordered>>
  BY DEF RecordQueued, businessVars
<1>2. MovesOn(w)
  BY ContinueMovesOn DEF RecordQueued, IInv, DataOK
<1>3. <<policy[w], stage[w], day[w]>> \in ordered /\ day[w] \in Days
  BY <1>1 DEF IInv, DataOK, CheckInv
<1>4. DataOK' /\ OrderedInv' /\ RenewedLeftAlone'
  BY <1>1, <1>2 DEF IInv, MovesOn, DataOK, OrderedInv, RenewedLeftAlone
<1>5. CheckInv'
  BY <1>1, <1>2 DEF IInv, MovesOn, CheckInv, DataOK
<1>6. LoggedIsOrdered'
  BY <1>1, <1>3 DEF IInv, LoggedIsOrdered
<1> QED
  BY <1>4, <1>5, <1>6 DEF IInv

(* A renewal that the check does not find has not happened yet. *)
LEMMA CheckRenewedKeeps ==
  ASSUME IInv, NEW w \in Workers, CheckRenewed(w)
  PROVE  IInv'
<1>1. UNCHANGED <<today, active, renewedOn, ordered, log>>
  BY DEF CheckRenewed, businessVars
<1>2. CASE Continue(w, todo[w])
  BY <1>1, <1>2, ContinueMovesOn, MovingOnKeeps DEF IInv, DataOK
<1>3. CASE /\ renewedOn[policy[w]] > LastDay /\ Goto(w, "renewed", "add")
           /\ UNCHANGED <<cur, checkVars>>
  <2>1. /\ pc[w] = "renewed" /\ pc' = [pc EXCEPT ![w] = "add"]
        /\ UNCHANGED <<day, stage, todo, policy>>
    BY <1>3 DEF Goto, checkVars
  <2>2. policy[w] \in Policies /\ day[w] \in Days /\ renewedOn[policy[w]] >= day[w]
    <3>1. policy[w] \in Policies /\ day[w] \in Days
      BY <2>1 DEF IInv, DataOK, CheckInv
    <3>2. renewedOn[policy[w]] \in 0..(LastDay + 1)
      BY <3>1 DEF IInv, DataOK
    <3> QED
      BY <1>3, <3>1, <3>2, CalendarAssumption DEF Days
  <2>3. DataOK'
    BY <1>1, <2>1 DEF IInv, DataOK, Statements
  <2>4. OrderedInv' /\ LoggedIsOrdered' /\ RenewedLeftAlone'
    BY <1>1 DEF IInv, OrderedInv, LoggedIsOrdered, RenewedLeftAlone
  <2>5. CheckInv'
    BY <1>1, <2>1, <2>2 DEF IInv, CheckInv, DataOK
  <2> QED
    BY <2>3, <2>4, <2>5 DEF IInv
<1> QED
  BY <1>2, <1>3 DEF CheckRenewed

LEMMA CheckQueuedKeeps ==
  ASSUME IInv, NEW w \in Workers, CheckQueued(w)
  PROVE  IInv'
<1>1. UNCHANGED <<today, active, renewedOn, ordered, log>>
  BY DEF CheckQueued, businessVars
<1>2. CASE Continue(w, todo[w])
  BY <1>1, <1>2, ContinueMovesOn, MovingOnKeeps DEF IInv, DataOK
<1>3. CASE /\ Goto(w, "queued", IF stage[w] = 1 THEN "add" ELSE "renewed")
           /\ UNCHANGED <<cur, checkVars>>
  <2>1. /\ pc[w] = "queued" /\ UNCHANGED <<day, stage, todo, policy>>
        /\ pc' = [pc EXCEPT ![w] = IF stage[w] = 1 THEN "add" ELSE "renewed"]
    BY <1>3 DEF Goto, checkVars
  <2>2. DataOK'
    BY <1>1, <2>1 DEF IInv, DataOK, Statements
  <2>3. OrderedInv' /\ LoggedIsOrdered' /\ RenewedLeftAlone'
    BY <1>1 DEF IInv, OrderedInv, LoggedIsOrdered, RenewedLeftAlone
  <2>4. CheckInv'
    BY <1>1, <2>1 DEF IInv, CheckInv, DataOK
  <2> QED
    BY <2>2, <2>3, <2>4 DEF IInv
<1> QED
  BY <1>2, <1>3 DEF CheckQueued

-----------------------------------------------------------------------------
LEMMA IInvStep ==
  ASSUME IInv, [Next]_vars
  PROVE  IInv'
<1> USE DEF businessVars, noticeVars, workerVars, checkVars
<1>1. ASSUME UNCHANGED <<today, active, renewedOn, ordered, log, workerVars>>
      PROVE  IInv'
  BY <1>1 DEF IInv, DataOK, OrderedInv, CheckInv, LoggedIsOrdered, RenewedLeftAlone
<1>2. CASE \/ NextDay
           \/ \E p \in Policies : Renew(p) \/ Cancel(p) \/ \E n \in Extensions : Extend(p, n)
  BY <1>2, WorldKeeps DEF NextDay, Renew, Cancel, Extend
<1>3. CASE Cron
  BY <1>1, <1>3 DEF Cron
<1>4. ASSUME NEW j \in Jobs, Recover(j) \/ LoseLock(j) \/ ForgetNotice(j)
      PROVE  IInv'
  BY <1>1, <1>4 DEF Recover, LoseLock, ForgetNotice
<1>5. ASSUME NEW w \in Workers, NEW j \in Jobs, TakeJob(w, j)
      PROVE  IInv'
  <2>1. PICK s \in {"find", "load"}, d \in Days :
           /\ pc' = [pc EXCEPT ![w] = s] /\ day' = [day EXCEPT ![w] = d] /\ d <= today
    <3>1. today \in Days /\ 0 \in Days /\ 0 <= today
      BY CalendarAssumption DEF IInv, DataOK, Days
    <3>2. CASE j \in Checks
      <4>1. /\ pc' = [pc EXCEPT ![w] = "find"] /\ day' = [day EXCEPT ![w] = today]
            /\ today <= today
        BY <1>5, <3>1, <3>2, CalendarAssumption DEF TakeJob, Goto, Days
      <4> QED
        BY <3>1, <4>1
    <3>3. CASE j \notin Checks
      BY <1>5, <3>1, <3>3 DEF TakeJob, Goto
    <3> QED
      BY <3>2, <3>3
  <2>2. MovesOn(w)
    BY <1>5, <2>1 DEF TakeJob, IInv, DataOK, MovesOn, Statements
  <2> QED
    BY <1>5, <2>2, MovingOnKeeps DEF TakeJob
<1>6. ASSUME NEW w \in Workers, FindExpiringPolicies(w)
      PROVE  IInv'
  <2>1. active \subseteq Policies
    BY DEF IInv, DataOK
  <2>2. {p \in active : endDay[p] = day[w] + Stages[stage[w]]} \in SUBSET Policies
    BY <2>1
  <2> QED
    BY <1>6, <2>2, ContinueMovesOn, MovingOnKeeps DEF FindExpiringPolicies
<1>7. ASSUME NEW w \in Workers, CheckQueued(w) \/ CheckRenewed(w) \/ AddNotice(w)
             \/ RecordQueued(w)
      PROVE  IInv'
  BY <1>7, CheckQueuedKeeps, CheckRenewedKeeps, AddKeeps, RecordKeeps
<1>8. ASSUME NEW w \in Workers, Idle(w),
             UNCHANGED <<today, active, renewedOn, ordered, log>>
      PROVE  IInv'
  BY <1>8, IdleMovesOn, MovingOnKeeps
<1>9. ASSUME NEW w \in Workers, LoadConfig(w)
      PROVE  IInv'
  <2>1. CASE Return(w)
    BY <1>8, <1>9, <2>1 DEF LoadConfig, Return
  <2>2. CASE Goto(w, "load", "send") /\ UNCHANGED checkVars
    <3>1. MovesOn(w)
      BY <2>2 DEF Goto, IInv, DataOK, CheckInv, MovesOn, Statements
    <3> QED
      BY <1>9, <3>1, MovingOnKeeps DEF LoadConfig
  <2> QED
    BY <1>9, <2>1, <2>2 DEF LoadConfig
<1>10. ASSUME NEW w \in Workers, SendChannel(w)
       PROVE  IInv'
  <2>1. CASE Return(w)
    BY <1>8, <1>10, <2>1 DEF SendChannel, Return
  <2>2. CASE UNCHANGED <<pc, checkVars>>
    BY <1>10, <2>2 DEF SendChannel, IInv, DataOK, OrderedInv, CheckInv, LoggedIsOrdered,
                       RenewedLeftAlone
  <2> QED
    BY <1>10, <2>1, <2>2 DEF SendChannel
<1>11. ASSUME NEW w \in Workers, HandlerThrows(w) \/ CrashWorker(w)
       PROVE  IInv'
  BY <1>8, <1>11 DEF HandlerThrows, CrashWorker
<1>12. CASE UNCHANGED vars
  BY <1>1, <1>12 DEF vars
<1> QED
  BY <1>2, <1>3, <1>4, <1>5, <1>6, <1>7, <1>9, <1>10, <1>11, <1>12 DEF Next, HandlerAction

(* The three facts together. *)
LEMMA IInvHolds == Spec => []IInv
<1>1. Init => IInv
  BY IInvInit
<1>2. IInv /\ [Next]_vars => IInv'
  BY IInvStep
<1> QED
  BY <1>1, <1>2, PTL DEF Spec

(* The log of queued reminders never claims one the queue was not given:   *)
(* a check cut short between the two repeats a reminder rather than losing *)
(* it (renewal.service.ts:84-104).                                         *)
THEOREM LogIsTrue == Spec => []LoggedIsOrdered
<1>1. IInv => LoggedIsOrdered
  BY DEF IInv
<1> QED
  BY <1>1, IInvHolds, PTL

(* No reminder after the first is ordered by the check of a day after the  *)
(* renewal, though a client may renew between the query and the order      *)
(* (renewal.service.ts:70-82).                                             *)
THEOREM RenewedIsLeftAlone == Spec => []RenewedLeftAlone
<1>1. IInv => RenewedLeftAlone
  BY DEF IInv
<1> QED
  BY <1>1, IInvHolds, PTL

-----------------------------------------------------------------------------
(***************************************************************************)
(* A check that has returned.  Whoever is due on a check's day is logged   *)
(* for the stages it has behind it, and for its own stage is logged, still *)
(* to do or in hand.  Being due can only end: a policy that is extended or *)
(* renewed is never due on its first last day again.                       *)
(***************************************************************************)
Due(p, i, d) ==
  /\ p \in active /\ endDay[p] = FirstEnd[p] /\ endDay[p] = d + Stages[i]
  /\ renewedOn[p] > LastDay

InLoop == {"queued", "renewed", "add", "record"}
InCheck == InLoop \union {"find"}

Covered(w) ==
  /\ pc[w] = "idle" => stage[w] = 1
  /\ pc[w] \in InCheck =>
       /\ stage[w] \in DOMAIN Stages
       /\ \A p \in Policies, i \in DOMAIN Stages :
            i < stage[w] /\ Due(p, i, day[w]) => <<p, i>> \in log
  /\ pc[w] \in InLoop =>
       \A p \in Policies :
         Due(p, stage[w], day[w]) =>
           <<p, stage[w]>> \in log \/ p \in todo[w] \/ p = policy[w]

CompleteInv ==
  \A d \in finished, p \in Policies, i \in DOMAIN Stages : Due(p, i, d) => <<p, i>> \in log

SweepInv ==
  /\ DOMAIN endDay = Policies /\ CompleteInv
  /\ \A w \in Workers : Covered(w)

LEMMA SweepInit == Init => SweepInv
<1> SUFFICES ASSUME Init
             PROVE  SweepInv
  OBVIOUS
<1>1. DOMAIN endDay = Policies
  BY StagesAssumption DEF Init
<1>2. CompleteInv
  BY DEF Init, CompleteInv
<1>3. ASSUME NEW w \in Workers
      PROVE  Covered(w)
  <2>1. pc[w] = "idle" /\ stage[w] = 1
    BY DEF Init
  <2> QED
    BY <2>1 DEF Covered, InCheck, InLoop
<1> QED
  BY <1>1, <1>2, <1>3 DEF SweepInv

LEMMA NoneDueAgain ==
  ASSUME SweepInv, active' \subseteq active, log \subseteq log', DOMAIN endDay' = Policies,
         \A p \in Policies, i \in DOMAIN Stages : \A d : Due(p, i, d)' => Due(p, i, d),
         UNCHANGED <<finished, pc, day, stage, todo, policy>>
  PROVE  SweepInv'
<1>1. CompleteInv'
  BY DEF SweepInv, CompleteInv
<1>2. ASSUME NEW w \in Workers
      PROVE  Covered(w)'
  <2>1. Covered(w)
    BY DEF SweepInv
  <2>2. \A p \in Policies, i \in DOMAIN Stages : Due(p, i, day[w])' => Due(p, i, day[w])
    OBVIOUS
  <2> QED
    BY <2>1, <2>2 DEF Covered, InCheck, InLoop
<1> QED
  BY <1>1, <1>2 DEF SweepInv

(* A step of one worker. *)
LEMMA OtherChecksKept ==
  ASSUME SweepInv, NEW w \in Workers, log \subseteq log',
         UNCHANGED <<active, endDay, renewedOn>>,
         \A v \in Workers \ {w} :
           /\ pc'[v] = pc[v] /\ day'[v] = day[v] /\ stage'[v] = stage[v]
           /\ todo'[v] = todo[v] /\ policy'[v] = policy[v],
         Covered(w)', CompleteInv'
  PROVE  SweepInv'
<1> SUFFICES ASSUME NEW v \in Workers \ {w}
             PROVE  Covered(v)'
  BY DEF SweepInv
<1>1. Covered(v)
  BY DEF SweepInv
<1>2. \A p \in Policies : \A i, d : Due(p, i, d)' <=> Due(p, i, d)
  BY DEF Due
<1> QED
  BY <1>1, <1>2 DEF Covered

LEMMA IdleCovers ==
  ASSUME IInv, SweepInv, NEW w \in Workers, Idle(w), log \subseteq log',
         UNCHANGED <<active, endDay, renewedOn>>, CompleteInv'
  PROVE  SweepInv'
<1>1. /\ pc'[w] = "idle" /\ stage'[w] = 1
      /\ \A v \in Workers \ {w} :
           /\ pc'[v] = pc[v] /\ day'[v] = day[v] /\ stage'[v] = stage[v]
           /\ todo'[v] = todo[v] /\ policy'[v] = policy[v]
  BY DEF Idle, IInv, DataOK
<1>2. Covered(w)'
  BY <1>1 DEF Covered, InCheck, InLoop
<1> QED
  BY <1>1, <1>2, OtherChecksKept

(* The loop goes on: those who are due and not logged are in the set. *)
LEMMA ContinueCovers ==
  ASSUME IInv, SweepInv, NEW w \in Workers, pc[w] \in InCheck,
         NEW S \in SUBSET Policies, Continue(w, S), log \subseteq log',
         UNCHANGED <<active, endDay, renewedOn>>,
         \A p \in Policies :
           Due(p, stage[w], day[w]) => <<p, stage[w]>> \in log' \/ p \in S
  PROVE  SweepInv'
<1>1. /\ stage[w] \in DOMAIN Stages
      /\ \A p \in Policies, i \in DOMAIN Stages :
           i < stage[w] /\ Due(p, i, day[w]) => <<p, i>> \in log
  BY DEF SweepInv, Covered
<1>2. DOMAIN Stages = 1..Len(Stages) /\ Len(Stages) \in Nat
  BY StagesAssumption
<1>3. \A p \in Policies : \A i, d : Due(p, i, d)' <=> Due(p, i, d)
  BY DEF Due
<1>4. finished' = finished => CompleteInv'
  BY <1>3 DEF SweepInv, CompleteInv
<1>5. CASE S # {} /\ HandleOneOf(w, S)
  <2>1. PICK p \in S : /\ policy' = [policy EXCEPT ![w] = p]
                        /\ todo' = [todo EXCEPT ![w] = S \ {p}]
    BY <1>5 DEF HandleOneOf
  <2>2. pc' = [pc EXCEPT ![w] = "queued"] /\ UNCHANGED <<finished, day, stage>>
    BY <1>5 DEF HandleOneOf
  <2>3. /\ pc'[w] = "queued" /\ policy'[w] = p /\ todo'[w] = S \ {p}
        /\ \A v \in Workers \ {w} :
             pc'[v] = pc[v] /\ todo'[v] = todo[v] /\ policy'[v] = policy[v]
    BY <2>1, <2>2 DEF IInv, DataOK
  <2>4. Covered(w)'
    BY <1>1, <1>3, <2>2, <2>3 DEF Covered, InCheck, InLoop
  <2> QED
    BY <1>4, <2>2, <2>3, <2>4, OtherChecksKept
<1>6. CASE S = {} /\ stage[w] < Len(Stages) /\ NextStage(w)
  <2>1. /\ pc' = [pc EXCEPT ![w] = "find"] /\ policy' = [policy EXCEPT ![w] = None]
        /\ stage' = [stage EXCEPT ![w] = stage[w] + 1] /\ UNCHANGED <<finished, day, todo>>
    BY <1>6 DEF NextStage
  <2>2. /\ pc'[w] = "find" /\ stage'[w] = stage[w] + 1
        /\ \A v \in Workers \ {w} :
             pc'[v] = pc[v] /\ stage'[v] = stage[v] /\ policy'[v] = policy[v]
    BY <2>1 DEF IInv, DataOK
  <2>3. stage[w] + 1 \in DOMAIN Stages
    BY <1>1, <1>2, <1>6
  <2>4. \A i \in DOMAIN Stages : i < stage[w] + 1 => i < stage[w] \/ i = stage[w]
    BY <1>1, <1>2
  <2>5. Covered(w)'
    BY <1>1, <1>3, <1>6, <2>1, <2>2, <2>3, <2>4 DEF Covered, InCheck, InLoop
  <2> QED
    BY <1>4, <2>1, <2>2, <2>5, OtherChecksKept
<1>7. CASE S = {} /\ stage[w] = Len(Stages) /\ FinishCheck(w)
  <2>1. finished' = finished \union {day[w]} /\ Idle(w)
    BY <1>7 DEF FinishCheck, Return
  <2>2. \A i \in DOMAIN Stages : i < stage[w] \/ i = stage[w]
    BY <1>2, <1>7
  <2>3. CompleteInv'
    BY <1>1, <1>3, <1>7, <2>1, <2>2 DEF SweepInv, CompleteInv
  <2> QED
    BY <2>1, <2>3, IdleCovers
<1> QED
  BY <1>5, <1>6, <1>7 DEF Continue

LEMMA WorldCovers ==
  ASSUME SweepInv, NextDay \/ (\E p \in Policies : Renew(p) \/ Cancel(p)
                                          \/ \E n \in Extensions : Extend(p, n))
  PROVE  SweepInv'
<1>0. DOMAIN endDay = Policies
  BY DEF SweepInv
<1>1. CASE NextDay
  <2>1. UNCHANGED <<active, log, finished, pc, day, stage, todo, policy, endDay, renewedOn>>
    BY <1>1 DEF NextDay, noticeVars, workerVars, checkVars
  <2>2. \A p \in Policies, i \in DOMAIN Stages : \A d : Due(p, i, d)' => Due(p, i, d)
    BY <2>1 DEF Due
  <2> QED
    BY <1>0, <2>1, <2>2, NoneDueAgain
<1>2. ASSUME NEW q \in Policies, Renew(q)
      PROVE  SweepInv'
  <2>1. UNCHANGED <<active, log, finished, pc, day, stage, todo, policy, endDay>>
    BY <1>2 DEF Renew, noticeVars, workerVars, checkVars
  <2>2. renewedOn' = [renewedOn EXCEPT ![q] = today] /\ renewedOn[q] > LastDay
    BY <1>2 DEF Renew
  <2>3. \A p \in Policies, i \in DOMAIN Stages : \A d : Due(p, i, d)' => Due(p, i, d)
    BY <2>1, <2>2 DEF Due
  <2> QED
    BY <1>0, <2>1, <2>3, NoneDueAgain
<1>3. ASSUME NEW q \in Policies, Cancel(q)
      PROVE  SweepInv'
  <2>1. /\ active' = active \ {q}
        /\ UNCHANGED <<log, finished, pc, day, stage, todo, policy, endDay, renewedOn>>
    BY <1>3 DEF Cancel, noticeVars, workerVars, checkVars
  <2>2. \A p \in Policies, i \in DOMAIN Stages : \A d : Due(p, i, d)' => Due(p, i, d)
    BY <2>1 DEF Due
  <2> QED
    BY <1>0, <2>1, <2>2, NoneDueAgain
<1>4. ASSUME NEW q \in Policies, NEW n \in Extensions, Extend(q, n)
      PROVE  SweepInv'
  <2>1. UNCHANGED <<active, log, finished, pc, day, stage, todo, policy>>
    BY <1>4 DEF Extend, noticeVars, workerVars, checkVars
  <2>2. /\ endDay[q] = FirstEnd[q] /\ FirstEnd[q] \in Int /\ n \in Int \ {0}
        /\ endDay' = [endDay EXCEPT ![q] = endDay[q] + n]
        /\ renewedOn' = [renewedOn EXCEPT ![q] = LastDay + 1]
    BY <1>4, StagesAssumption DEF Extend
  <2>3. DOMAIN endDay' = Policies /\ endDay'[q] # FirstEnd[q]
        /\ \A p \in Policies \ {q} : endDay'[p] = endDay[p] /\ renewedOn'[p] = renewedOn[p]
    BY <1>0, <2>2
  <2>4. \A p \in Policies, i \in DOMAIN Stages : \A d : Due(p, i, d)' => Due(p, i, d)
    BY <2>1, <2>3 DEF Due
  <2> QED
    BY <2>1, <2>3, <2>4, NoneDueAgain
<1> QED
  BY <1>1, <1>2, <1>3, <1>4

LEMMA CheckCovers ==
  ASSUME IInv, SweepInv, NEW w \in Workers,
         FindExpiringPolicies(w) \/ CheckQueued(w) \/ CheckRenewed(w)
         \/ AddNotice(w) \/ RecordQueued(w)
  PROVE  SweepInv'
<1>0. /\ Covered(w) /\ active \subseteq Policies /\ todo[w] \in SUBSET Policies
      /\ renewedOn \in [Policies -> 0..(LastDay + 1)]
  BY DEF SweepInv, IInv, DataOK
<1>1. \A p \in Policies : \A i, d : UNCHANGED <<active, endDay, renewedOn>>
                                 => (Due(p, i, d)' <=> Due(p, i, d))
  BY DEF Due
<1>2. UNCHANGED <<active, endDay, renewedOn, finished, log>> => CompleteInv'
  BY <1>1 DEF SweepInv, CompleteInv
<1>3. ASSUME NEW s \in InLoop, pc[w] \in InLoop, pc' = [pc EXCEPT ![w] = s],
             UNCHANGED <<active, endDay, renewedOn, finished, log, checkVars>>
      PROVE  SweepInv'
  <2>1. pc'[w] = s /\ \A v \in Workers \ {w} : pc'[v] = pc[v]
    BY <1>3 DEF IInv, DataOK
  <2>2. UNCHANGED <<day, stage, todo, policy>>
    BY <1>3 DEF checkVars
  <2>3. Covered(w)'
    BY <1>0, <1>1, <1>3, <2>1, <2>2 DEF Covered, InCheck, InLoop
  <2> QED
    BY <1>2, <1>3, <2>1, <2>2, <2>3, OtherChecksKept
<1>4. ASSUME pc[w] \in InLoop, Continue(w, todo[w]), log \subseteq log',
             UNCHANGED <<active, endDay, renewedOn>>,
             Due(policy[w], stage[w], day[w]) => <<policy[w], stage[w]>> \in log'
      PROVE  SweepInv'
  <2>1. \A p \in Policies :
          Due(p, stage[w], day[w]) => <<p, stage[w]>> \in log' \/ p \in todo[w]
    BY <1>0, <1>4 DEF Covered
  <2> QED
    BY <1>0, <1>4, <2>1, ContinueCovers DEF InCheck
<1>5. CASE FindExpiringPolicies(w)
  <2>1. PICK S \in SUBSET Policies :
           S = {p \in active : endDay[p] = day[w] + Stages[stage[w]]}
    BY <1>0
  <2>2. \A p \in Policies : Due(p, stage[w], day[w]) => p \in S
    BY <2>1 DEF Due
  <2>3. pc[w] \in InCheck /\ Continue(w, S) /\ UNCHANGED <<log, active, endDay, renewedOn>>
    BY <1>5, <2>1 DEF FindExpiringPolicies, InCheck, businessVars
  <2> QED
    BY <2>2, <2>3, ContinueCovers
<1>6. CASE CheckQueued(w)
  <2>1. UNCHANGED <<active, endDay, renewedOn, log>> /\ pc[w] = "queued"
    BY <1>6 DEF CheckQueued, businessVars
  <2>2. CASE <<policy[w], stage[w]>> \in log /\ Continue(w, todo[w])
    BY <1>4, <2>1, <2>2 DEF InLoop
  <2>3. CASE /\ Goto(w, "queued", IF stage[w] = 1 THEN "add" ELSE "renewed")
             /\ UNCHANGED <<finished, checkVars>>
    <3>1. (IF stage[w] = 1 THEN "add" ELSE "renewed") \in InLoop
      BY DEF InLoop
    <3> QED
      BY <1>3, <2>1, <2>3, <3>1 DEF Goto, InLoop
  <2> QED
    BY <1>6, <2>2, <2>3 DEF CheckQueued
<1>7. CASE CheckRenewed(w)
  <2>1. UNCHANGED <<active, endDay, renewedOn, log>> /\ pc[w] = "renewed"
    BY <1>7 DEF CheckRenewed, businessVars
  <2>2. CASE renewedOn[policy[w]] <= LastDay /\ Continue(w, todo[w])
    <3>1. policy[w] \in Policies
      BY <2>1 DEF IInv, CheckInv
    <3>2. renewedOn[policy[w]] \in 0..(LastDay + 1)
      BY <1>0, <3>1
    <3>3. ~Due(policy[w], stage[w], day[w])
      BY <2>2, <3>2, CalendarAssumption DEF Due
    <3> QED
      BY <1>4, <2>1, <2>2, <3>3 DEF InLoop
  <2>3. CASE Goto(w, "renewed", "add") /\ UNCHANGED <<finished, checkVars>>
    BY <1>3, <2>1, <2>3 DEF Goto, InLoop
  <2> QED
    BY <1>7, <2>2, <2>3 DEF CheckRenewed
<1>8. CASE AddNotice(w)
  BY <1>3, <1>8 DEF AddNotice, Goto, InLoop, businessVars
<1>9. CASE RecordQueued(w)
  <2>1. /\ UNCHANGED <<active, endDay, renewedOn>> /\ pc[w] = "record"
        /\ log' = log \union {<<policy[w], stage[w]>>} /\ Continue(w, todo[w])
    BY <1>9 DEF RecordQueued, businessVars
  <2> QED
    BY <1>4, <2>1 DEF InLoop
<1> QED
  BY <1>5, <1>6, <1>7, <1>8, <1>9

LEMMA SweepStep == IInv /\ SweepInv /\ [Next]_vars => SweepInv'
<1> SUFFICES ASSUME IInv, SweepInv, [Next]_vars
             PROVE  SweepInv'
  OBVIOUS
<1>1. ASSUME UNCHANGED <<businessVars, log, finished, workerVars>>
      PROVE  SweepInv'
  <2>1. UNCHANGED <<active, endDay, renewedOn, log, finished, pc, day, stage, todo, policy>>
    BY <1>1 DEF businessVars, workerVars, checkVars
  <2>2. \A p \in Policies, i \in DOMAIN Stages : \A d : Due(p, i, d)' => Due(p, i, d)
    BY <2>1 DEF Due
  <2> QED
    BY <2>1, <2>2, NoneDueAgain DEF SweepInv
<1>2. CASE NextDay \/ \E p \in Policies : Renew(p) \/ Cancel(p)
                       \/ \E n \in Extensions : Extend(p, n)
  BY <1>2, WorldCovers
<1>3. CASE Cron
  BY <1>1, <1>3 DEF Cron, noticeVars
<1>4. ASSUME NEW j \in Jobs, Recover(j) \/ LoseLock(j) \/ ForgetNotice(j)
      PROVE  SweepInv'
  BY <1>1, <1>4 DEF Recover, LoseLock, ForgetNotice, noticeVars
<1>5. UNCHANGED <<active, endDay, renewedOn, finished, log>> => CompleteInv'
  BY DEF SweepInv, CompleteInv, Due
<1>6. ASSUME NEW w \in Workers, NEW j \in Jobs, TakeJob(w, j)
      PROVE  SweepInv'
  <2>1. PICK s \in {"find", "load"} :
           pc[w] = "idle" /\ pc' = [pc EXCEPT ![w] = s]
    BY <1>6 DEF TakeJob, Goto
  <2>2. PICK d : day' = [day EXCEPT ![w] = d]
    BY <1>6 DEF TakeJob
  <2>3. UNCHANGED <<active, endDay, renewedOn, finished, log, stage, todo, policy>>
    BY <1>6 DEF TakeJob, businessVars, noticeVars
  <2>4. /\ pc'[w] = s
        /\ \A v \in Workers \ {w} : pc'[v] = pc[v] /\ day'[v] = day[v]
    BY <2>1, <2>2 DEF IInv, DataOK
  <2>5. stage'[w] = 1
    BY <2>1, <2>3 DEF SweepInv, Covered
  <2>6. 1 \in DOMAIN Stages /\ \A i \in DOMAIN Stages : ~(i < 1)
    BY StagesAssumption
  <2>7. Covered(w)'
    BY <2>4, <2>5, <2>6 DEF Covered, InCheck, InLoop
  <2> QED
    BY <1>5, <2>3, <2>4, <2>7, OtherChecksKept
<1>7. ASSUME NEW w \in Workers, Idle(w), UNCHANGED <<active, endDay, renewedOn, finished, log>>
      PROVE  SweepInv'
  BY <1>5, <1>7, IdleCovers
<1>8. ASSUME NEW w \in Workers, LoadConfig(w)
      PROVE  SweepInv'
  <2>1. UNCHANGED <<active, endDay, renewedOn, finished, log>> /\ pc[w] = "load"
    BY <1>8 DEF LoadConfig, businessVars, noticeVars
  <2>2. CASE Return(w)
    BY <1>7, <2>1, <2>2 DEF Return
  <2>3. CASE Goto(w, "load", "send") /\ UNCHANGED checkVars
    <3>1. /\ pc'[w] = "send" /\ UNCHANGED <<day, stage, todo, policy>>
          /\ \A v \in Workers \ {w} : pc'[v] = pc[v]
      BY <2>3 DEF Goto, checkVars, IInv, DataOK
    <3>2. Covered(w)'
      BY <3>1 DEF Covered, InCheck, InLoop
    <3> QED
      BY <1>5, <2>1, <3>1, <3>2, OtherChecksKept
  <2> QED
    BY <1>8, <2>2, <2>3 DEF LoadConfig
<1>9. ASSUME NEW w \in Workers, SendChannel(w)
      PROVE  SweepInv'
  <2>1. UNCHANGED <<businessVars, finished, log>>
    BY <1>9 DEF SendChannel
  <2>2. CASE Return(w)
    BY <1>7, <2>1, <2>2 DEF Return, businessVars
  <2>3. CASE UNCHANGED <<pc, checkVars>>
    <3>1. UNCHANGED <<active, endDay, renewedOn, log, finished, pc, day, stage, todo, policy>>
      BY <2>1, <2>3 DEF businessVars, checkVars
    <3>2. \A p \in Policies, i \in DOMAIN Stages : \A d : Due(p, i, d)' => Due(p, i, d)
      BY <3>1 DEF Due
    <3> QED
      BY <3>1, <3>2, NoneDueAgain DEF SweepInv
  <2> QED
    BY <1>9, <2>2, <2>3 DEF SendChannel
<1>10. ASSUME NEW w \in Workers, HandlerThrows(w) \/ CrashWorker(w)
       PROVE  SweepInv'
  BY <1>7, <1>10 DEF HandlerThrows, CrashWorker, businessVars
<1>11. CASE UNCHANGED vars
  BY <1>1, <1>11 DEF vars, noticeVars
<1> QED
  BY <1>2, <1>3, <1>4, <1>6, <1>8, <1>9, <1>10, <1>11, CheckCovers DEF Next, HandlerAction

-----------------------------------------------------------------------------
(***************************************************************************)
(* Who pays for a reminder.  Over one channel a notice has been sent, may  *)
(* still be sent by a run in progress, or may be by a run to come: a check *)
(* that can still add it, the notice itself.  Every run of a check costs   *)
(* the check its one start or a fault, every run of the notice costs its   *)
(* addition by a check or a fault.                                         *)
(***************************************************************************)
(* A job some worker may still take: it waits, or its worker is gone. *)
Free(j) ==
  \/ job[j] = "waiting"
  \/ job[j] = "active" /\ \A w \in Workers : lock[j] = w => cur[w] # j

MayAdd(w, n) ==
  /\ pc[w] \in InCheck /\ day[w] = n[3]
  /\ \/ stage[w] < n[2]
     \/ /\ stage[w] = n[2]
        /\ \/ pc[w] = "find" \/ n[1] \in todo[w]
           \/ policy[w] = n[1] /\ pc[w] # "record"

MaySend(w, n, c) == pc[w] \in {"load", "send"} /\ cur[w] = n /\ channel[w] <= c

Busy(n, c) == {w \in Workers : MayAdd(w, n) \/ MaySend(w, n, c)}
Held(n) == {j \in Checks \union {n} : Free(j)}
Checked == {d \in Days : job[<<"check", d>>] # "absent"}

Paid(n, c) ==
  sent[n][c] + Cardinality(Busy(n, c)) + Cardinality(Held(n)) <= Cardinality(Checked) + faults

RunsOK ==
  /\ job \in [Jobs -> JobState] /\ lock \in [Jobs -> Workers \union {None}]
  /\ cur \in [Workers -> Jobs \union {None}]
  /\ channel \in [Workers -> Nat]
  /\ sent \in [Notices -> [1..Channels -> Nat]]
  /\ faults \in Nat
  /\ \A w \in Workers :
       /\ pc[w] = "idle" => cur[w] = None
       /\ pc[w] \in InLoop => policy[w] \notin todo[w]

PaidInv == RunsOK /\ \A n \in Notices, c \in 1..Channels : Paid(n, c)

LEMMA NoMore ==
  ASSUME NEW S, IsFiniteSet(S), NEW T \in SUBSET S
  PROVE  Cardinality(T) \in Nat /\ Cardinality(T) <= Cardinality(S)
  BY FS_Subset, FS_CardinalityType

LEMMA OneMore ==
  ASSUME NEW S, IsFiniteSet(S), NEW x, NEW T \in SUBSET (S \union {x})
  PROVE  Cardinality(T) \in Nat /\ Cardinality(T) <= Cardinality(S) + 1
<1>1. /\ IsFiniteSet(S \union {x})
      /\ Cardinality(S \union {x}) \in {Cardinality(S), Cardinality(S) + 1}
  BY FS_AddElement
<1>2. Cardinality(T) \in Nat /\ Cardinality(T) <= Cardinality(S \union {x})
  BY <1>1, NoMore
<1> QED
  BY <1>1, <1>2, FS_CardinalityType

LEMMA OneFewer ==
  ASSUME NEW S, IsFiniteSet(S), NEW x \in S, NEW T \in SUBSET (S \ {x})
  PROVE  Cardinality(T) \in Nat /\ Cardinality(T) <= Cardinality(S) - 1
<1>1. IsFiniteSet(S \ {x}) /\ Cardinality(S \ {x}) = Cardinality(S) - 1
  BY FS_RemoveElement
<1>2. Cardinality(T) \in Nat /\ Cardinality(T) <= Cardinality(S \ {x})
  BY <1>1, NoMore
<1> QED
  BY <1>1, <1>2, FS_CardinalityType

LEMMA DaysAreFinite == IsFiniteSet(Days)
<1>1. 0 \in Int /\ LastDay \in Int
  BY CalendarAssumption
<1> QED
  BY <1>1, FS_Interval DEF Days

LEMMA RunsAreFinite ==
  ASSUME IsFiniteSet(Workers), NEW n, NEW c
  PROVE  /\ IsFiniteSet(Busy(n, c)) /\ IsFiniteSet(Held(n)) /\ IsFiniteSet(Checked)
         /\ Cardinality(Busy(n, c)) \in Nat /\ Cardinality(Held(n)) \in Nat
         /\ Cardinality(Checked) \in Nat
<1>1. IsFiniteSet(Days) /\ IsFiniteSet({"check"})
  BY DaysAreFinite, FS_Singleton
<1>2. IsFiniteSet(Checks)
  BY <1>1, FS_Product DEF Checks
<1>3. IsFiniteSet(Checks \union {n})
  BY <1>2, FS_AddElement
<1>4. /\ Busy(n, c) \subseteq Workers /\ Held(n) \subseteq Checks \union {n}
      /\ Checked \subseteq Days
  BY DEF Busy, Held, Checked
<1>5. IsFiniteSet(Busy(n, c)) /\ IsFiniteSet(Held(n)) /\ IsFiniteSet(Checked)
  BY <1>1, <1>3, <1>4, FS_Subset
<1> QED
  BY <1>5, FS_CardinalityType

(* What a step may do to the account of one notice and one channel: nothing *)
(* new, or a fault, a message, both, a job taken, a notice added, a check.  *)
LEMMA Balance ==
  ASSUME IsFiniteSet(Workers), NEW n, NEW c, Paid(n, c),
         sent[n][c] \in Nat, sent'[n][c] \in Nat, faults \in Nat, faults' \in Nat,
         Checked \subseteq Checked', NEW j, NEW w,
         \/ /\ Held(n)' \subseteq Held(n) /\ Busy(n, c)' \subseteq Busy(n, c)
            /\ sent'[n][c] = sent[n][c] /\ faults <= faults'
         \/ /\ Held(n)' \subseteq Held(n) \union {j} /\ Busy(n, c)' \subseteq Busy(n, c)
            /\ sent'[n][c] = sent[n][c] /\ faults' = faults + 1
         \/ /\ Held(n)' \subseteq Held(n)
            /\ w \in Busy(n, c) /\ Busy(n, c)' \subseteq Busy(n, c) \ {w}
            /\ sent'[n][c] = sent[n][c] + 1 /\ faults' = faults
         \/ /\ Held(n)' \subseteq Held(n) \union {j}
            /\ w \in Busy(n, c) /\ Busy(n, c)' \subseteq Busy(n, c) \ {w}
            /\ sent'[n][c] = sent[n][c] + 1 /\ faults' = faults + 1
         \/ /\ j \in Held(n) /\ Held(n)' \subseteq Held(n) \ {j}
            /\ Busy(n, c)' \subseteq Busy(n, c) \union {w}
            /\ sent'[n][c] = sent[n][c] /\ faults' = faults
         \/ /\ Held(n)' \subseteq Held(n) \union {j}
            /\ w \in Busy(n, c) /\ Busy(n, c)' \subseteq Busy(n, c) \ {w}
            /\ sent'[n][c] = sent[n][c] /\ faults' = faults
         \/ /\ Held(n)' \subseteq Held(n) \union {j} /\ Busy(n, c)' \subseteq Busy(n, c)
            /\ w \notin Checked /\ Checked' = Checked \union {w}
            /\ sent'[n][c] = sent[n][c] /\ faults' = faults
  PROVE  Paid(n, c)'
<1> DEFINE b == Cardinality(Busy(n, c))
           h == Cardinality(Held(n))
           k == Cardinality(Checked)
           bb == Cardinality(Busy(n, c)')
           hh == Cardinality(Held(n)')
           kk == Cardinality(Checked')
<1>1. /\ IsFiniteSet(Busy(n, c)) /\ IsFiniteSet(Held(n)) /\ IsFiniteSet(Checked)
      /\ b \in Nat /\ h \in Nat /\ k \in Nat
  BY RunsAreFinite
<1>2. IsFiniteSet(Checked')
  <2>1. IsFiniteSet(Days) /\ Checked' \subseteq Days
    BY DaysAreFinite DEF Checked
  <2> QED
    BY <2>1, FS_Subset
<1>3. kk \in Nat /\ k <= kk
  BY <1>2, NoMore, FS_CardinalityType
<1>4. Held(n)' \subseteq Held(n) => hh \in Nat /\ hh <= h
  BY <1>1, NoMore
<1>5. Held(n)' \subseteq Held(n) \union {j} => hh \in Nat /\ hh <= h + 1
  BY <1>1, OneMore
<1>6. j \in Held(n) /\ Held(n)' \subseteq Held(n) \ {j} => hh \in Nat /\ hh <= h - 1
  BY <1>1, OneFewer
<1>7. Busy(n, c)' \subseteq Busy(n, c) => bb \in Nat /\ bb <= b
  BY <1>1, NoMore
<1>8. Busy(n, c)' \subseteq Busy(n, c) \union {w} => bb \in Nat /\ bb <= b + 1
  BY <1>1, OneMore
<1>9. w \in Busy(n, c) /\ Busy(n, c)' \subseteq Busy(n, c) \ {w} => bb \in Nat /\ bb <= b - 1
  BY <1>1, OneFewer
<1>10. w \notin Checked /\ Checked' = Checked \union {w} => kk = k + 1
  BY <1>1, FS_AddElement
<1>11. sent[n][c] + b + h <= k + faults
  BY DEF Paid
<1> HIDE DEF b, h, k, bb, hh, kk
<1>12. sent'[n][c] + bb + hh <= kk + faults'
  BY <1>1, <1>3, <1>4, <1>5, <1>6, <1>7, <1>8, <1>9, <1>10, <1>11
<1> QED
  BY <1>12 DEF Paid, b, h, k, bb, hh, kk
-----------------------------------------------------------------------------
(* Jobs and workers apart: what a step frees, and who is busy after it. *)
LEMMA HeldFollows ==
  ASSUME NEW n \in Notices, NEW r, \A j \in Jobs : Free(j)' => Free(j) \/ j = r
  PROVE  /\ Held(n)' \subseteq Held(n) \union {r}
         /\ (\A j \in Jobs : Free(j)' => Free(j)) => Held(n)' \subseteq Held(n)
  BY JobsAssumption DEF Held

LEMMA CheckedStays ==
  ASSUME \A d \in Days : job[<<"check", d>>] # "absent" => job'[<<"check", d>>] # "absent"
  PROVE  Checked \subseteq Checked'
  BY DEF Checked

LEMMA CheckIsJob ==
  ASSUME NEW d \in Days
  PROVE  <<"check", d>> \in Jobs /\ <<"check", d>> \in Checks /\ <<"check", d>> \notin Notices
  BY JobsAssumption DEF Checks, Notices

OnlyOf(w) ==
  \A v \in Workers \ {w} :
    /\ pc'[v] = pc[v] /\ cur'[v] = cur[v] /\ day'[v] = day[v] /\ stage'[v] = stage[v]
    /\ todo'[v] = todo[v] /\ policy'[v] = policy[v] /\ channel'[v] = channel[v]

LEMMA BusyFollows ==
  ASSUME NEW n, NEW c, NEW w \in Workers, OnlyOf(w)
  PROVE  /\ Busy(n, c)' \subseteq Busy(n, c) \union {w}
         /\ (w \in Busy(n, c)' => w \in Busy(n, c)) => Busy(n, c)' \subseteq Busy(n, c)
         /\ w \notin Busy(n, c)' => Busy(n, c)' \subseteq Busy(n, c) \ {w}
<1>1. \A v \in Workers \ {w} : v \in Busy(n, c)' <=> v \in Busy(n, c)
  <2> SUFFICES ASSUME NEW v \in Workers \ {w}
               PROVE  v \in Busy(n, c)' <=> v \in Busy(n, c)
    OBVIOUS
  <2>1. /\ pc'[v] = pc[v] /\ cur'[v] = cur[v] /\ day'[v] = day[v] /\ stage'[v] = stage[v]
        /\ todo'[v] = todo[v] /\ policy'[v] = policy[v] /\ channel'[v] = channel[v]
    BY DEF OnlyOf
  <2>2. MayAdd(v, n)' <=> MayAdd(v, n)
    BY <2>1 DEF MayAdd
  <2>3. MaySend(v, n, c)' <=> MaySend(v, n, c)
    BY <2>1 DEF MaySend
  <2> QED
    BY <2>2, <2>3 DEF Busy
<1>2. Busy(n, c)' \subseteq Workers /\ Busy(n, c) \subseteq Workers
  BY DEF Busy
<1> QED
  BY <1>1, <1>2

(* A run that ends. *)
LEMMA IdleIsFree ==
  ASSUME IInv, RunsOK, NEW w \in Workers, Idle(w)
  PROVE  /\ OnlyOf(w) /\ pc'[w] = "idle" /\ cur'[w] = None
         /\ cur' \in [Workers -> Jobs \union {None}] /\ channel' \in [Workers -> Nat]
         /\ \A v \in Workers :
              /\ pc'[v] = "idle" => cur'[v] = None
              /\ pc'[v] \in InLoop => policy'[v] \notin todo'[v]
         /\ \A n, c : Busy(n, c)' \subseteq Busy(n, c) \ {w}
<1>1. /\ OnlyOf(w) /\ pc'[w] = "idle" /\ cur'[w] = None
      /\ cur' \in [Workers -> Jobs \union {None}] /\ channel' \in [Workers -> Nat]
  BY DEF IInv, DataOK, RunsOK, Idle, OnlyOf
<1>2. \A v \in Workers :
        /\ pc'[v] = "idle" => cur'[v] = None
        /\ pc'[v] \in InLoop => policy'[v] \notin todo'[v]
  BY <1>1 DEF RunsOK, OnlyOf, InLoop
<1>3. \A n, c : w \notin Busy(n, c)'
  BY <1>1 DEF Busy, MayAdd, MaySend, InCheck, InLoop
<1> QED
  BY <1>1, <1>2, <1>3, BusyFollows

LEMMA CompleteFreesNone ==
  ASSUME RunsOK, NEW w \in Workers, Complete(w, cur[w]),
         \A v \in Workers \ {w} : cur'[v] = cur[v]
  PROVE  /\ job' \in [Jobs -> JobState] /\ lock' \in [Jobs -> Workers \union {None}]
         /\ \A j \in Jobs : Free(j)' => Free(j)
         /\ Checked \subseteq Checked'
<1>1. CASE lock[cur[w]] = w
  <2>1. /\ job' = [job EXCEPT ![cur[w]] = "completed"]
        /\ lock' = [lock EXCEPT ![cur[w]] = None]
    BY <1>1 DEF Complete
  <2>2. job' \in [Jobs -> JobState] /\ lock' \in [Jobs -> Workers \union {None}]
    BY <2>1 DEF RunsOK, JobState
  <2>3. ASSUME NEW j \in Jobs, Free(j)'
        PROVE  Free(j)
    <3>1. j # cur[w] /\ job'[j] = job[j] /\ lock'[j] = lock[j]
      BY <2>1, <2>3 DEF RunsOK, Free
    <3> QED
      BY <2>3, <3>1 DEF Free
  <2>4. \A j \in Jobs : job[j] # "absent" => job'[j] # "absent"
    BY <2>1 DEF RunsOK
  <2> QED
    BY <2>2, <2>3, <2>4, CheckIsJob, CheckedStays
<1>2. CASE lock[cur[w]] # w
  <2>1. job' = job /\ lock' = lock
    BY <1>2 DEF Complete, queueVars
  <2>2. ASSUME NEW j \in Jobs, Free(j)'
        PROVE  Free(j)
    BY <1>2, <2>1, <2>2 DEF Free
  <2> QED
    BY <2>1, <2>2, CheckedStays DEF RunsOK
<1> QED
  BY <1>1, <1>2

(* A run cut short sends its own job back at most. *)
LEMMA ThrowFreesOne ==
  ASSUME RunsOK, NEW w \in Workers, Throw(w, cur[w]) \/ UNCHANGED queueVars,
         \A v \in Workers \ {w} : cur'[v] = cur[v]
  PROVE  /\ job' \in [Jobs -> JobState] /\ lock' \in [Jobs -> Workers \union {None}]
         /\ \A j \in Jobs : Free(j)' => Free(j) \/ j = cur[w]
         /\ Checked \subseteq Checked'
<1>1. CASE lock[cur[w]] = w /\ Throw(w, cur[w])
  <2>1. PICK s \in {"waiting", "failed"} : job' = [job EXCEPT ![cur[w]] = s]
    BY <1>1 DEF Throw
  <2>2. lock' = [lock EXCEPT ![cur[w]] = None]
    BY <1>1 DEF Throw
  <2>3. job' \in [Jobs -> JobState] /\ lock' \in [Jobs -> Workers \union {None}]
    BY <2>1, <2>2 DEF RunsOK, JobState
  <2>4. ASSUME NEW j \in Jobs, Free(j)', j # cur[w]
        PROVE  Free(j)
    <3>1. job'[j] = job[j] /\ lock'[j] = lock[j]
      BY <2>1, <2>2, <2>4 DEF RunsOK
    <3> QED
      BY <2>4, <3>1 DEF Free
  <2>5. \A j \in Jobs : job[j] # "absent" => job'[j] # "absent"
    BY <2>1 DEF RunsOK
  <2> QED
    BY <2>3, <2>4, <2>5, CheckIsJob, CheckedStays
<1>2. CASE UNCHANGED queueVars
  <2>1. job' = job /\ lock' = lock
    BY <1>2 DEF queueVars
  <2>2. ASSUME NEW j \in Jobs, Free(j)', j # cur[w]
        PROVE  Free(j)
    BY <2>1, <2>2 DEF Free
  <2> QED
    BY <2>1, <2>2, CheckedStays DEF RunsOK
<1> QED
  BY <1>1, <1>2 DEF Throw

LEMMA ReclaimFreesOne ==
  ASSUME RunsOK, NEW r \in Jobs, Reclaim(r), cur' = cur
  PROVE  /\ job' \in [Jobs -> JobState] /\ lock' \in [Jobs -> Workers \union {None}]
         /\ \A j \in Jobs : Free(j)' => Free(j) \/ j = r
         /\ Checked \subseteq Checked'
<1>1. PICK s \in {"waiting", "failed"} : job' = [job EXCEPT ![r] = s]
  BY DEF Reclaim
<1>2. lock' = [lock EXCEPT ![r] = None]
  BY DEF Reclaim
<1>3. job' \in [Jobs -> JobState] /\ lock' \in [Jobs -> Workers \union {None}]
  BY <1>1, <1>2 DEF RunsOK, JobState
<1>4. ASSUME NEW j \in Jobs, Free(j)', j # r
      PROVE  Free(j)
  <2>1. job'[j] = job[j] /\ lock'[j] = lock[j]
    BY <1>1, <1>2, <1>4 DEF RunsOK
  <2> QED
    BY <1>4, <2>1 DEF Free
<1>5. \A j \in Jobs : job[j] # "absent" => job'[j] # "absent"
  BY <1>1 DEF RunsOK
<1> QED
  BY <1>3, <1>4, <1>5, CheckIsJob, CheckedStays
-----------------------------------------------------------------------------
(* The steps.  Nothing moves but the calendar and the policies. *)
LEMMA NothingPaid ==
  ASSUME PaidInv, UNCHANGED <<queueVars, sent, workerVars, faults>>
  PROVE  PaidInv'
<1>1. UNCHANGED <<job, lock, sent, pc, cur, day, stage, todo, policy, channel, faults>>
  BY DEF queueVars, workerVars, checkVars
<1>2. \A n \in Notices, c \in 1..Channels :
        Busy(n, c)' = Busy(n, c) /\ Held(n)' = Held(n) /\ Checked' = Checked
  BY <1>1 DEF Busy, MayAdd, MaySend, Held, Free, Checked
<1> QED
  BY <1>1, <1>2 DEF PaidInv, RunsOK, Paid

(* A day's check is added: one more check has started. *)
LEMMA CronPaid ==
  ASSUME IsFiniteSet(Workers), IInv, PaidInv, Cron
  PROVE  PaidInv'
<1> DEFINE r == <<"check", today>>
<1>1. /\ job[r] = "absent"
      /\ job' = [job EXCEPT ![r] = IF job[r] = "absent" THEN "waiting" ELSE job[r]]
      /\ UNCHANGED <<lock, sent, pc, cur, day, stage, todo, policy, channel, faults>>
  BY DEF Cron, Add, noticeVars, workerVars, checkVars
<1>2. today \in Days /\ r \in Jobs
  BY CheckIsJob DEF IInv, DataOK
<1> HIDE DEF r
<1>3. RunsOK /\ job' = [job EXCEPT ![r] = "waiting"]
  BY <1>1 DEF PaidInv
<1>4. RunsOK'
  BY <1>1, <1>2, <1>3 DEF RunsOK, JobState
<1>5. \A j \in Jobs : Free(j)' => Free(j) \/ j = r
  BY <1>1, <1>3 DEF Free, RunsOK
<1>6. today \notin Checked /\ Checked' = Checked \union {today}
  <2>1. ASSUME NEW d \in Days
        PROVE  d \in Checked' <=> d \in Checked \/ d = today
    <3>1. <<"check", d>> \in Jobs /\ (<<"check", d>> = r <=> d = today)
      BY CheckIsJob DEF r
    <3>2. job'[<<"check", d>>] = IF d = today THEN "waiting" ELSE job[<<"check", d>>]
      BY <1>3, <3>1 DEF RunsOK
    <3> QED
      BY <3>2 DEF Checked
  <2>2. today \notin Checked
    BY <1>1 DEF Checked, r
  <2> QED
    BY <1>2, <2>1, <2>2 DEF Checked
<1>7. ASSUME NEW n \in Notices, NEW c \in 1..Channels
      PROVE  Paid(n, c)'
  <2>1. Held(n)' \subseteq Held(n) \union {r}
    BY <1>5, HeldFollows
  <2>2. Busy(n, c)' = Busy(n, c)
    BY <1>1 DEF Busy, MayAdd, MaySend
  <2>3. Paid(n, c) /\ sent[n][c] \in Nat /\ faults \in Nat
    BY DEF PaidInv, RunsOK
  <2> QED
    BY <1>1, <1>6, <2>1, <2>2, <2>3, Balance
<1> QED
  BY <1>4, <1>7 DEF PaidInv

(* A job is taken: its worker may do what anyone might have done. *)
LEMMA TakePaid ==
  ASSUME IsFiniteSet(Workers), IInv, PaidInv, NEW w \in Workers, NEW r \in Jobs, TakeJob(w, r)
  PROVE  PaidInv'
<1>1. /\ pc[w] = "idle" /\ job[r] = "waiting"
      /\ pc' = [pc EXCEPT ![w] = IF r \in Checks THEN "find" ELSE "load"]
      /\ job' = [job EXCEPT ![r] = "active"] /\ lock' = [lock EXCEPT ![r] = w]
      /\ cur' = [cur EXCEPT ![w] = r]
      /\ day' = [day EXCEPT ![w] = IF r \in Checks THEN today ELSE 0]
      /\ UNCHANGED <<sent, stage, todo, policy, channel, faults>>
  BY DEF TakeJob, Goto, Take, noticeVars
<1>2. RunsOK /\ DataOK /\ None \notin Jobs
  BY QueueAssumption DEF PaidInv, IInv
<1>3. OnlyOf(w) /\ cur'[w] = r /\ cur[w] = None
  BY <1>1, <1>2 DEF OnlyOf, RunsOK, DataOK
<1>4. pc'[w] = (IF r \in Checks THEN "find" ELSE "load")
  BY <1>1, <1>2 DEF DataOK
<1>5. RunsOK'
  <2>1. /\ job' \in [Jobs -> JobState] /\ lock' \in [Jobs -> Workers \union {None}]
        /\ cur' \in [Workers -> Jobs \union {None}]
    BY <1>1, <1>2 DEF RunsOK, JobState
  <2>2. \A v \in Workers :
          /\ pc'[v] = "idle" => cur'[v] = None
          /\ pc'[v] \in InLoop => policy'[v] \notin todo'[v]
    BY <1>2, <1>3, <1>4 DEF RunsOK, OnlyOf, InLoop
  <2> QED
    BY <1>1, <1>2, <2>1, <2>2 DEF RunsOK
<1>6. \A j \in Jobs : Free(j)' => Free(j) /\ j # r
  <2> SUFFICES ASSUME NEW j \in Jobs, Free(j)'
               PROVE  Free(j) /\ j # r
    OBVIOUS
  <2>1. j # r
    <3>1. job'[r] = "active" /\ lock'[r] = w
      BY <1>1, <1>2 DEF RunsOK
    <3> QED
      BY <1>3, <3>1 DEF Free
  <2>2. job'[j] = job[j] /\ lock'[j] = lock[j]
    BY <1>1, <1>2, <2>1 DEF RunsOK
  <2>3. cur[w] # j /\ \A v \in Workers \ {w} : cur'[v] = cur[v]
    BY <1>2, <1>3 DEF OnlyOf
  <2> QED
    BY <2>1, <2>2, <2>3 DEF Free
<1>7. Checked \subseteq Checked'
  <2>1. \A j \in Jobs : job[j] # "absent" => job'[j] # "absent"
    BY <1>1, <1>2 DEF RunsOK
  <2> QED
    BY <2>1, CheckIsJob, CheckedStays
<1>8. ASSUME NEW n \in Notices, NEW c \in 1..Channels
      PROVE  Paid(n, c)'
  <2>1. Held(n)' \subseteq Held(n) \ {r}
    BY <1>6, JobsAssumption DEF Held
  <2>2. Busy(n, c)' \subseteq Busy(n, c) \union {w}
    BY <1>3, BusyFollows
  <2>3. Paid(n, c) /\ sent[n][c] \in Nat /\ faults \in Nat
    BY <1>2 DEF PaidInv, RunsOK
  <2>4. CASE r \in Held(n)
    BY <1>1, <1>7, <2>1, <2>2, <2>3, <2>4, Balance
  <2>5. CASE r \notin Held(n)
    <3>1. r \notin Checks /\ r # n
      BY <1>1, <2>5 DEF Held, Free
    <3>2. w \notin Busy(n, c)'
      BY <1>3, <1>4, <3>1 DEF Busy, MayAdd, MaySend, InCheck, InLoop
    <3>3. Busy(n, c)' \subseteq Busy(n, c)
      BY <1>3, <3>2, BusyFollows
    <3> QED
      BY <1>1, <1>7, <2>1, <2>3, <3>3, Balance
  <2> QED
    BY <2>4, <2>5
<1> QED
  BY <1>5, <1>8 DEF PaidInv

(* The queue takes a job from its worker, or forgets a notice. *)
LEMMA QueuePaid ==
  ASSUME IsFiniteSet(Workers), PaidInv, NEW r \in Jobs,
         Recover(r) \/ LoseLock(r) \/ ForgetNotice(r)
  PROVE  PaidInv'
<1>1. UNCHANGED <<sent, pc, cur, day, stage, todo, policy, channel>>
  BY DEF Recover, LoseLock, ForgetNotice, noticeVars, workerVars, checkVars
<1>2. RunsOK
  BY DEF PaidInv
<1>3. \A n, c : Busy(n, c)' = Busy(n, c)
  BY <1>1 DEF Busy, MayAdd, MaySend
<1>4. ASSUME NEW n \in Notices, NEW c \in 1..Channels
      PROVE  Paid(n, c) /\ sent[n][c] \in Nat /\ faults \in Nat
  BY <1>2, <1>4 DEF PaidInv, RunsOK
<1>5. CASE Recover(r)
  <2>1. Reclaim(r) /\ faults' = faults /\ Free(r)
    BY <1>5 DEF Recover, Reclaim, Free
  <2>2. /\ job' \in [Jobs -> JobState] /\ lock' \in [Jobs -> Workers \union {None}]
        /\ \A j \in Jobs : Free(j)' => Free(j)
        /\ Checked \subseteq Checked'
    BY <1>1, <1>2, <2>1, ReclaimFreesOne
  <2>3. RunsOK'
    BY <1>1, <1>2, <2>1, <2>2 DEF RunsOK
  <2>4. \A n \in Notices : Held(n)' \subseteq Held(n)
    BY <2>2, HeldFollows
  <2>5. ASSUME NEW n \in Notices, NEW c \in 1..Channels
        PROVE  Paid(n, c)'
    BY <1>1, <1>3, <1>4, <2>1, <2>2, <2>4, Balance
  <2> QED
    BY <2>3, <2>5 DEF PaidInv
<1>6. CASE LoseLock(r)
  <2>1. Reclaim(r) /\ faults' = faults + 1
    BY <1>6 DEF LoseLock, Fault
  <2>2. /\ job' \in [Jobs -> JobState] /\ lock' \in [Jobs -> Workers \union {None}]
        /\ \A j \in Jobs : Free(j)' => Free(j) \/ j = r
        /\ Checked \subseteq Checked'
    BY <1>1, <1>2, <2>1, ReclaimFreesOne
  <2>3. RunsOK'
    BY <1>1, <1>2, <2>1, <2>2 DEF RunsOK
  <2>4. \A n \in Notices : Held(n)' \subseteq Held(n) \union {r}
    BY <2>2, HeldFollows
  <2>5. ASSUME NEW n \in Notices, NEW c \in 1..Channels
        PROVE  Paid(n, c)'
    BY <1>1, <1>3, <1>4, <2>1, <2>2, <2>4, Balance
  <2> QED
    BY <2>3, <2>5 DEF PaidInv
<1>7. CASE ForgetNotice(r)
  <2>1. r \in Notices /\ job' = [job EXCEPT ![r] = "absent"] /\ UNCHANGED <<lock, faults>>
    BY <1>7 DEF ForgetNotice, Forget
  <2>2. RunsOK'
    BY <1>1, <1>2, <2>1 DEF RunsOK, JobState
  <2>3. \A j \in Jobs : Free(j)' => Free(j)
    BY <1>1, <1>2, <2>1 DEF Free, RunsOK
  <2>4. Checked \subseteq Checked'
    <3>1. \A j \in Jobs \ Notices : job'[j] = job[j]
      BY <1>2, <2>1 DEF RunsOK
    <3> QED
      BY <3>1, CheckIsJob, CheckedStays
  <2>5. \A n \in Notices : Held(n)' \subseteq Held(n)
    BY <2>3, HeldFollows
  <2>6. ASSUME NEW n \in Notices, NEW c \in 1..Channels
        PROVE  Paid(n, c)'
    BY <1>1, <1>3, <1>4, <2>1, <2>4, <2>5, Balance
  <2> QED
    BY <2>2, <2>6 DEF PaidInv
<1> QED
  BY <1>5, <1>6, <1>7
(* A run that returns. *)
LEMMA ReturnPaid ==
  ASSUME IsFiniteSet(Workers), IInv, PaidInv, NEW w \in Workers, Return(w),
         UNCHANGED <<sent, faults>>
  PROVE  PaidInv'
<1>1. Idle(w) /\ Complete(w, cur[w]) /\ RunsOK
  BY DEF Return, PaidInv
<1>2. /\ OnlyOf(w)
      /\ cur' \in [Workers -> Jobs \union {None}] /\ channel' \in [Workers -> Nat]
      /\ \A v \in Workers :
           /\ pc'[v] = "idle" => cur'[v] = None
           /\ pc'[v] \in InLoop => policy'[v] \notin todo'[v]
      /\ \A n, c : Busy(n, c)' \subseteq Busy(n, c)
  BY <1>1, IdleIsFree
<1>3. /\ job' \in [Jobs -> JobState] /\ lock' \in [Jobs -> Workers \union {None}]
      /\ \A j \in Jobs : Free(j)' => Free(j)
      /\ Checked \subseteq Checked'
  BY <1>1, <1>2, CompleteFreesNone DEF OnlyOf
<1>4. RunsOK'
  BY <1>1, <1>2, <1>3 DEF RunsOK
<1>5. \A n \in Notices : Held(n)' \subseteq Held(n)
  BY <1>3, HeldFollows
<1>6. ASSUME NEW n \in Notices, NEW c \in 1..Channels
      PROVE  Paid(n, c)'
  <2>1. Paid(n, c) /\ sent[n][c] \in Nat /\ faults \in Nat
    BY <1>1 DEF PaidInv, RunsOK
  <2> QED
    BY <1>2, <1>3, <1>5, <2>1, Balance
<1> QED
  BY <1>4, <1>6 DEF PaidInv

(* A step of one worker that leaves the queue and the messages alone, and  *)
(* after which the worker may do nothing it might not have done before.    *)
LEMMA WorkerPaid ==
  ASSUME IsFiniteSet(Workers), PaidInv, NEW w \in Workers, OnlyOf(w),
         UNCHANGED <<queueVars, cur, channel, sent, faults>>,
         pc'[w] # "idle", pc'[w] \in InLoop => policy'[w] \notin todo'[w],
         \A n \in Notices, c \in 1..Channels : w \in Busy(n, c)' => w \in Busy(n, c)
  PROVE  PaidInv'
<1>1. RunsOK /\ UNCHANGED <<job, lock>>
  BY DEF PaidInv, queueVars
<1>2. RunsOK'
  BY <1>1 DEF RunsOK, OnlyOf
<1>3. \A n : Held(n)' = Held(n) /\ Checked' = Checked
  BY <1>1 DEF Held, Free, Checked
<1>4. ASSUME NEW n \in Notices, NEW c \in 1..Channels
      PROVE  Paid(n, c)'
  <2>1. Paid(n, c) /\ sent[n][c] \in Nat /\ faults \in Nat
    BY <1>1 DEF PaidInv, RunsOK
  <2>2. Busy(n, c)' \subseteq Busy(n, c)
    BY BusyFollows
  <2> QED
    BY <1>3, <2>1, <2>2, Balance
<1> QED
  BY <1>2, <1>4 DEF PaidInv

LEMMA ContinuePaid ==
  ASSUME IsFiniteSet(Workers), IInv, PaidInv, NEW w \in Workers, pc[w] \in InCheck,
         NEW S \in SUBSET Policies, pc[w] = "find" \/ S \subseteq todo[w],
         Continue(w, S), UNCHANGED <<sent, faults>>
  PROVE  PaidInv'
<1>1. \A n \in Notices : n[2] \in Int /\ stage[w] \in Int
  BY StagesAssumption DEF Notices, IInv, DataOK
<1>2. \A n, c : pc'[w] \in InLoop \union {"find"} /\ w \in Busy(n, c)' => MayAdd(w, n)'
  BY DEF Busy, MaySend, InLoop
<1>3. CASE HandleOneOf(w, S)
  <2>1. PICK p \in S : /\ policy' = [policy EXCEPT ![w] = p]
                        /\ todo' = [todo EXCEPT ![w] = S \ {p}]
    BY <1>3 DEF HandleOneOf
  <2>2. /\ pc' = [pc EXCEPT ![w] = "queued"]
        /\ UNCHANGED <<queueVars, cur, day, stage, channel>>
    BY <1>3 DEF HandleOneOf
  <2>3. OnlyOf(w) /\ pc'[w] = "queued" /\ policy'[w] = p /\ todo'[w] = S \ {p}
    BY <2>1, <2>2 DEF OnlyOf, IInv, DataOK
  <2>4. ASSUME NEW n \in Notices, NEW c \in 1..Channels, w \in Busy(n, c)'
        PROVE  w \in Busy(n, c)
    <3>1. MayAdd(w, n)'
      BY <1>2, <2>3, <2>4 DEF InLoop
    <3>2. MayAdd(w, n)
      BY <2>2, <2>3, <3>1 DEF MayAdd
    <3> QED
      BY <3>2 DEF Busy
  <2> QED
    BY <2>2, <2>3, <2>4, WorkerPaid
<1>4. CASE NextStage(w)
  <2>1. /\ pc' = [pc EXCEPT ![w] = "find"] /\ policy' = [policy EXCEPT ![w] = None]
        /\ stage' = [stage EXCEPT ![w] = stage[w] + 1]
        /\ UNCHANGED <<queueVars, cur, day, todo, channel>>
    BY <1>4 DEF NextStage
  <2>2. OnlyOf(w) /\ pc'[w] = "find" /\ stage'[w] = stage[w] + 1
    BY <2>1 DEF OnlyOf, IInv, DataOK
  <2>3. ASSUME NEW n \in Notices, NEW c \in 1..Channels, w \in Busy(n, c)'
        PROVE  w \in Busy(n, c)
    <3>1. MayAdd(w, n)'
      BY <1>2, <2>2, <2>3
    <3>2. day[w] = n[3] /\ (stage[w] + 1 < n[2] \/ stage[w] + 1 = n[2])
      BY <2>1, <2>2, <3>1 DEF MayAdd
    <3>3. stage[w] < n[2]
      BY <1>1, <3>2
    <3> QED
      BY <3>2, <3>3 DEF Busy, MayAdd
  <2> QED
    BY <2>1, <2>2, <2>3, WorkerPaid DEF InLoop
<1>5. CASE FinishCheck(w)
  BY <1>5, ReturnPaid DEF FinishCheck
<1> QED
  BY <1>3, <1>4, <1>5 DEF Continue

(* A statement of the loop that only leads to the next one. *)
LEMMA GotoPaid ==
  ASSUME IsFiniteSet(Workers), IInv, PaidInv, NEW w \in Workers,
         NEW from \in {"queued", "renewed", "load"}, NEW to \in {"renewed", "add", "send"},
         Goto(w, from, to), from = "load" <=> to = "send",
         UNCHANGED <<queueVars, sent, cur, checkVars, channel, faults>>
  PROVE  PaidInv'
<1>1. /\ pc[w] = from /\ pc'[w] = to /\ OnlyOf(w)
      /\ UNCHANGED <<day, stage, todo, policy>>
  BY DEF Goto, OnlyOf, IInv, DataOK, checkVars
<1>2. policy[w] \notin todo[w] \/ from = "load"
  BY <1>1 DEF PaidInv, RunsOK, InLoop
<1>3. pc'[w] # "idle" /\ (pc'[w] \in InLoop => policy'[w] \notin todo'[w])
  BY <1>1, <1>2 DEF InLoop
<1>4. ASSUME NEW n \in Notices, NEW c \in 1..Channels, w \in Busy(n, c)'
      PROVE  w \in Busy(n, c)
  <2>1. CASE from = "load"
    BY <1>1, <1>4, <2>1 DEF Busy, MayAdd, MaySend, InCheck, InLoop
  <2>2. CASE from # "load"
    BY <1>1, <1>4, <2>2 DEF Busy, MayAdd, MaySend, InCheck, InLoop
  <2> QED
    BY <2>1, <2>2
<1> QED
  BY <1>1, <1>3, <1>4, WorkerPaid

(* The check adds a notice: from then on the notice may be sent, and this  *)
(* run will not add it again.                                              *)
LEMMA AddPaid ==
  ASSUME IsFiniteSet(Workers), IInv, PaidInv, NEW w \in Workers, AddNotice(w)
  PROVE  PaidInv'
<1> DEFINE r == <<policy[w], stage[w], day[w]>>
<1>1. /\ pc[w] = "add" /\ pc' = [pc EXCEPT ![w] = "record"]
      /\ job' = [job EXCEPT ![r] = IF job[r] = "absent" THEN "waiting" ELSE job[r]]
      /\ UNCHANGED <<lock, sent, cur, day, stage, todo, policy, channel, faults>>
  BY DEF AddNotice, Goto, Add, checkVars
<1>2. r[1] = policy[w] /\ r[2] = stage[w] /\ r[3] = day[w] /\ r \notin Checks
  BY DEF Checks
<1>3. \A n \in Notices : n[1] = policy[w] /\ n[2] = stage[w] /\ n[3] = day[w] => n = r
  BY DEF Notices
<1> HIDE DEF r
<1>4. RunsOK /\ DataOK
  BY DEF PaidInv, IInv
<1>5. OnlyOf(w) /\ pc'[w] = "record" /\ policy[w] \notin todo[w]
  BY <1>1, <1>4 DEF OnlyOf, DataOK, RunsOK, InLoop
<1>6. PICK s \in {"waiting", job[r]} :
         job' = [job EXCEPT ![r] = s] /\ (job[r] # "absent" => s = job[r])
  BY <1>1
<1>7. RunsOK'
  <2>1. job' \in [Jobs -> JobState]
    BY <1>4, <1>6 DEF RunsOK, JobState
  <2> QED
    BY <1>1, <1>4, <1>5, <2>1 DEF RunsOK, OnlyOf, InLoop
<1>8. \A j \in Jobs : Free(j)' => Free(j) \/ j = r
  BY <1>1, <1>4, <1>6 DEF Free, RunsOK
<1>9. Checked \subseteq Checked'
  <2>1. \A j \in Jobs : job[j] # "absent" => job'[j] # "absent"
    BY <1>4, <1>6 DEF RunsOK
  <2> QED
    BY <2>1, CheckIsJob, CheckedStays
<1>10. ASSUME NEW n \in Notices, NEW c \in 1..Channels
       PROVE  Paid(n, c)'
  <2>1. Paid(n, c) /\ sent[n][c] \in Nat /\ faults \in Nat
    BY <1>4 DEF PaidInv, RunsOK
  <2>2. w \in Busy(n, c)' => w \in Busy(n, c)
    BY <1>1, <1>5 DEF Busy, MayAdd, MaySend, InCheck, InLoop
  <2>3. CASE n = r
    <3>1. w \in Busy(n, c)
      BY <1>1, <1>2, <2>3 DEF Busy, MayAdd, InCheck, InLoop
    <3>2. stage[w] \in Int
      BY <1>4 DEF DataOK
    <3>3. w \notin Busy(n, c)'
      BY <1>1, <1>2, <1>5, <2>3, <3>2 DEF Busy, MayAdd, MaySend, InCheck, InLoop
    <3>4. Busy(n, c)' \subseteq Busy(n, c) \ {w}
      BY <1>5, <3>3, BusyFollows
    <3>5. Held(n)' \subseteq Held(n) \union {r}
      BY <1>8, HeldFollows
    <3> QED
      BY <1>1, <1>9, <2>1, <3>1, <3>4, <3>5, Balance
  <2>4. CASE n # r
    <3>1. Busy(n, c)' \subseteq Busy(n, c)
      BY <1>5, <2>2, BusyFollows
    <3>2. Held(n)' \subseteq Held(n)
      BY <1>2, <1>8, <2>4, JobsAssumption DEF Held
    <3> QED
      BY <1>1, <1>9, <2>1, <3>1, <3>2, Balance
  <2> QED
    BY <2>3, <2>4
<1> QED
  BY <1>7, <1>10 DEF PaidInv
(* What one channel of a notice that is being sent adds to the account. *)
LEMMA MessageCounted ==
  ASSUME RunsOK, NEW w \in Workers,
         sent' = [sent EXCEPT ![cur[w]][channel[w]] = @ + 1]
  PROVE  /\ sent' \in [Notices -> [1..Channels -> Nat]]
         /\ \A n \in Notices, c \in 1..Channels :
              sent'[n][c] = IF n = cur[w] /\ c = channel[w] THEN sent[n][c] + 1 ELSE sent[n][c]
<1>1. sent \in [Notices -> [1..Channels -> Nat]]
  BY DEF RunsOK
<1>2. ASSUME NEW n \in Notices
      PROVE  /\ sent'[n] \in [1..Channels -> Nat]
             /\ \A c \in 1..Channels :
                  sent'[n][c] = IF n = cur[w] /\ c = channel[w]
                                THEN sent[n][c] + 1 ELSE sent[n][c]
  <2>1. sent[n] \in [1..Channels -> Nat]
    BY <1>1
  <2>2. CASE n = cur[w]
    <3>1. sent'[n] = [sent[n] EXCEPT ![channel[w]] = sent[n][channel[w]] + 1]
      BY <1>1, <2>2
    <3>2. PICK f : f = sent[n]
      OBVIOUS
    <3>3. f \in [1..Channels -> Nat] /\ sent'[n] = [f EXCEPT ![channel[w]] = f[channel[w]] + 1]
      BY <2>1, <3>1, <3>2
    <3>4. \A c \in 1..Channels : f[c] \in Nat /\ f[c] + 1 \in Nat
      BY <3>3
    <3>5. sent'[n] \in [1..Channels -> Nat]
      BY <3>3, <3>4
    <3> QED
      BY <2>2, <3>2, <3>3, <3>5
  <2>3. CASE n # cur[w]
    BY <1>1, <2>1, <2>3
  <2> QED
    BY <2>2, <2>3
<1>3. DOMAIN sent' = Notices /\ sent' = [n \in DOMAIN sent' |-> sent'[n]]
  BY <1>1
<1> QED
  BY <1>2, <1>3

(* A channel is done with, and the next one is due. *)
LEMMA SendPaid ==
  ASSUME IsFiniteSet(Workers), IInv, PaidInv, NEW w \in Workers, SendChannel(w)
  PROVE  PaidInv'
<1>1. RunsOK /\ DataOK /\ pc[w] = "send" /\ faults' = faults
  BY DEF PaidInv, IInv, SendChannel
<1>2. /\ sent' \in [Notices -> [1..Channels -> Nat]]
      /\ \A n \in Notices, c \in 1..Channels :
           \/ sent'[n][c] = sent[n][c]
           \/ n = cur[w] /\ c = channel[w] /\ sent'[n][c] = sent[n][c] + 1
  <2>1. CASE UNCHANGED sent
    BY <1>1, <2>1 DEF RunsOK
  <2>2. CASE sent' = [sent EXCEPT ![cur[w]][channel[w]] = @ + 1]
    BY <1>1, <2>2, MessageCounted
  <2> QED
    BY <2>1, <2>2 DEF SendChannel
<1>3. \A n \in Notices, c \in 1..Channels :
        n = cur[w] /\ c = channel[w] => w \in Busy(n, c)
  BY <1>1 DEF Busy, MaySend
<1>4. ASSUME OnlyOf(w),
             cur' \in [Workers -> Jobs \union {None}], channel' \in [Workers -> Nat],
             job' \in [Jobs -> JobState], lock' \in [Jobs -> Workers \union {None}],
             \A j \in Jobs : Free(j)' => Free(j), Checked \subseteq Checked',
             (pc'[w] = "idle" /\ cur'[w] = None) \/ pc'[w] = "send",
             \A n \in Notices, c \in 1..Channels :
               w \in Busy(n, c)' => w \in Busy(n, c) /\ (n # cur[w] \/ c # channel[w])
      PROVE  PaidInv'
  <2>1. RunsOK'
    BY <1>1, <1>2, <1>4 DEF RunsOK, OnlyOf, InLoop
  <2>2. ASSUME NEW n \in Notices, NEW c \in 1..Channels
        PROVE  Paid(n, c)'
    <3>1. Paid(n, c) /\ sent[n][c] \in Nat /\ sent'[n][c] \in Nat /\ faults \in Nat
      <4>1. sent[n] \in [1..Channels -> Nat] /\ sent'[n] \in [1..Channels -> Nat]
        BY <1>1, <1>2 DEF RunsOK
      <4> QED
        BY <1>1, <4>1 DEF PaidInv, RunsOK
    <3>2. Held(n)' \subseteq Held(n)
      BY <1>4, HeldFollows
    <3>3. CASE sent'[n][c] = sent[n][c]
      <4>1. Busy(n, c)' \subseteq Busy(n, c)
        BY <1>4, BusyFollows
      <4> QED
        BY <1>1, <1>4, <3>1, <3>2, <3>3, <4>1, Balance
    <3>4. CASE n = cur[w] /\ c = channel[w] /\ sent'[n][c] = sent[n][c] + 1
      <4>1. w \in Busy(n, c) /\ Busy(n, c)' \subseteq Busy(n, c) \ {w}
        BY <1>3, <1>4, <3>4, BusyFollows
      <4> QED
        BY <1>1, <1>4, <3>1, <3>2, <3>4, <4>1, Balance
    <3> QED
      BY <1>2, <3>3, <3>4
  <2> QED
    BY <2>1, <2>2 DEF PaidInv
<1>5. CASE /\ channel' = [channel EXCEPT ![w] = @ + 1]
           /\ UNCHANGED <<queueVars, pc, cur, checkVars>>
  <2>1. UNCHANGED <<job, lock, pc, cur, day, stage, todo, policy>>
    BY <1>5 DEF queueVars, checkVars
  <2>2. channel[w] \in Nat /\ channel' = [channel EXCEPT ![w] = channel[w] + 1]
    BY <1>1, <1>5 DEF RunsOK
  <2>3. channel' \in [Workers -> Nat] /\ OnlyOf(w) /\ channel'[w] = channel[w] + 1
    BY <1>1, <2>1, <2>2 DEF RunsOK, OnlyOf
  <2>4. Checked' = Checked /\ \A j \in Jobs : Free(j)' => Free(j)
    BY <2>1 DEF Checked, Free
  <2>5. ASSUME NEW n \in Notices, NEW c \in 1..Channels, w \in Busy(n, c)'
        PROVE  w \in Busy(n, c) /\ (n # cur[w] \/ c # channel[w])
    <3>1. c \in Int
      BY JobsAssumption
    <3>2. cur[w] = n /\ channel[w] + 1 <= c
      BY <1>1, <2>1, <2>3, <2>5 DEF Busy, MayAdd, MaySend, InCheck, InLoop
    <3>3. channel[w] <= c /\ c # channel[w]
      BY <2>2, <3>1, <3>2
    <3> QED
      BY <1>1, <3>2, <3>3 DEF Busy, MaySend
  <2> QED
    BY <1>1, <1>4, <2>1, <2>3, <2>4, <2>5 DEF RunsOK
<1>6. CASE Return(w)
  <2>1. /\ OnlyOf(w) /\ pc'[w] = "idle" /\ cur'[w] = None
        /\ cur' \in [Workers -> Jobs \union {None}] /\ channel' \in [Workers -> Nat]
        /\ \A n, c : w \notin Busy(n, c)'
    BY <1>1, <1>6, IdleIsFree DEF Return
  <2>2. /\ job' \in [Jobs -> JobState] /\ lock' \in [Jobs -> Workers \union {None}]
        /\ \A j \in Jobs : Free(j)' => Free(j)
        /\ Checked \subseteq Checked'
    BY <1>1, <1>6, <2>1, CompleteFreesNone DEF Return, OnlyOf
  <2> QED
    BY <1>4, <2>1, <2>2
<1> QED
  BY <1>5, <1>6 DEF SendChannel

(* A run is cut short: the fault pays for the run that follows it. *)
LEMMA FaultPaid ==
  ASSUME IsFiniteSet(Workers), IInv, PaidInv, NEW w \in Workers,
         HandlerThrows(w) \/ CrashWorker(w)
  PROVE  PaidInv'
<1>1. RunsOK /\ Idle(w) /\ faults' = faults + 1 /\ faults' \in Nat
  BY DEF PaidInv, RunsOK, HandlerThrows, CrashWorker, Fault
<1>2. Throw(w, cur[w]) \/ UNCHANGED queueVars
  BY DEF HandlerThrows, CrashWorker
<1>3. /\ sent' \in [Notices -> [1..Channels -> Nat]]
      /\ \A n \in Notices, c \in 1..Channels :
           \/ sent'[n][c] = sent[n][c]
           \/ w \in Busy(n, c) /\ sent'[n][c] = sent[n][c] + 1
  <2>1. CASE UNCHANGED sent
    BY <1>1, <2>1 DEF RunsOK
  <2>2. CASE pc[w] = "send" /\ sent' = [sent EXCEPT ![cur[w]][channel[w]] = @ + 1]
    <3>1. \A n \in Notices, c \in 1..Channels :
            n = cur[w] /\ c = channel[w] => w \in Busy(n, c)
      BY <1>1, <2>2 DEF Busy, MaySend, RunsOK
    <3> QED
      BY <1>1, <2>2, <3>1, MessageCounted
  <2> QED
    BY <2>1, <2>2 DEF HandlerThrows, CrashWorker
<1>4. /\ OnlyOf(w)
      /\ cur' \in [Workers -> Jobs \union {None}] /\ channel' \in [Workers -> Nat]
      /\ \A v \in Workers :
           /\ pc'[v] = "idle" => cur'[v] = None
           /\ pc'[v] \in InLoop => policy'[v] \notin todo'[v]
      /\ \A n, c : Busy(n, c)' \subseteq Busy(n, c) \ {w}
  BY <1>1, IdleIsFree
<1>5. /\ job' \in [Jobs -> JobState] /\ lock' \in [Jobs -> Workers \union {None}]
      /\ \A j \in Jobs : Free(j)' => Free(j) \/ j = cur[w]
      /\ Checked \subseteq Checked'
  BY <1>1, <1>2, <1>4, ThrowFreesOne DEF OnlyOf
<1>6. RunsOK'
  BY <1>1, <1>3, <1>4, <1>5 DEF RunsOK
<1>7. ASSUME NEW n \in Notices, NEW c \in 1..Channels
      PROVE  Paid(n, c)'
  <2>1. Paid(n, c) /\ sent[n][c] \in Nat /\ sent'[n][c] \in Nat /\ faults \in Nat
    BY <1>1, <1>3 DEF PaidInv, RunsOK
  <2>2. Held(n)' \subseteq Held(n) \union {cur[w]} /\ Busy(n, c)' \subseteq Busy(n, c) \ {w}
    BY <1>4, <1>5, HeldFollows
  <2> QED
    BY <1>1, <1>3, <1>5, <2>1, <2>2, Balance
<1> QED
  BY <1>6, <1>7 DEF PaidInv

LEMMA PaidInit ==
  ASSUME Init
  PROVE  PaidInv
<1>1. RunsOK
  BY DEF Init, QueueInit, RunsOK, JobState, InLoop
<1>2. ASSUME NEW n \in Notices, NEW c \in 1..Channels
      PROVE  Paid(n, c)
  <2>1. \A j \in Jobs : job[j] = "absent"
    BY DEF Init, QueueInit
  <2>2. Busy(n, c) = {} /\ Held(n) = {} /\ Checked = {}
    BY <2>1, CheckIsJob, JobsAssumption
       DEF Init, Busy, MayAdd, MaySend, InCheck, InLoop, Held, Free, Checked
  <2>3. sent[n][c] = 0 /\ faults = 0
    BY DEF Init
  <2> QED
    BY <2>2, <2>3, FS_EmptySet DEF Paid
<1> QED
  BY <1>1, <1>2 DEF PaidInv

LEMMA PaidStep ==
  ASSUME IsFiniteSet(Workers), IInv, PaidInv, [Next]_vars
  PROVE  PaidInv'
<1>1. CASE \/ NextDay \/ UNCHANGED vars
           \/ \E p \in Policies : Renew(p) \/ Cancel(p) \/ \E n \in Extensions : Extend(p, n)
  BY <1>1, NothingPaid DEF NextDay, Renew, Cancel, Extend, noticeVars, vars
<1>2. ASSUME NEW w \in Workers, FindExpiringPolicies(w)
      PROVE  PaidInv'
  <2>1. PICK S : S = {p \in active : endDay[p] = day[w] + Stages[stage[w]]}
    OBVIOUS
  <2>2. S \in SUBSET Policies
    BY <2>1 DEF IInv, DataOK
  <2>3. pc[w] = "find" /\ Continue(w, S) /\ UNCHANGED <<sent, faults>>
    BY <1>2, <2>1 DEF FindExpiringPolicies
  <2> QED
    BY <2>2, <2>3, ContinuePaid DEF InCheck
<1>3. ASSUME NEW w \in Workers, pc[w] \in InLoop, Continue(w, todo[w]),
             UNCHANGED <<sent, faults>>
      PROVE  PaidInv'
  BY <1>3, ContinuePaid DEF InCheck, IInv, DataOK
<1>4. ASSUME NEW w \in Workers, CheckQueued(w)
      PROVE  PaidInv'
  <2>1. pc[w] \in InLoop /\ UNCHANGED <<sent, faults>>
    BY <1>4 DEF CheckQueued, InLoop
  <2>2. CASE Continue(w, todo[w])
    BY <1>3, <2>1, <2>2
  <2>3. CASE /\ Goto(w, "queued", IF stage[w] = 1 THEN "add" ELSE "renewed")
             /\ UNCHANGED <<queueVars, cur, checkVars, channel>>
    <3>1. PICK to \in {"add", "renewed"} : Goto(w, "queued", to)
      <4>1. CASE stage[w] = 1
        BY <2>3, <4>1
      <4>2. CASE stage[w] # 1
        BY <2>3, <4>2
      <4> QED
        BY <4>1, <4>2
    <3> QED
      BY <2>1, <2>3, <3>1, GotoPaid
  <2> QED
    BY <1>4, <2>2, <2>3 DEF CheckQueued
<1>5. ASSUME NEW w \in Workers, CheckRenewed(w)
      PROVE  PaidInv'
  <2>1. pc[w] \in InLoop /\ UNCHANGED <<sent, faults>>
    BY <1>5 DEF CheckRenewed, InLoop
  <2>2. CASE Continue(w, todo[w])
    BY <1>3, <2>1, <2>2
  <2>3. CASE /\ Goto(w, "renewed", "add")
             /\ UNCHANGED <<queueVars, cur, checkVars, channel>>
    BY <2>1, <2>3, GotoPaid
  <2> QED
    BY <1>5, <2>2, <2>3 DEF CheckRenewed
<1>6. ASSUME NEW w \in Workers, RecordQueued(w)
      PROVE  PaidInv'
  BY <1>3, <1>6 DEF RecordQueued, InLoop
<1>7. ASSUME NEW w \in Workers, LoadConfig(w)
      PROVE  PaidInv'
  <2>1. UNCHANGED <<sent, faults>>
    BY <1>7 DEF LoadConfig, noticeVars
  <2>2. CASE Return(w)
    BY <2>1, <2>2, ReturnPaid
  <2>3. CASE Goto(w, "load", "send") /\ UNCHANGED <<queueVars, cur, checkVars, channel>>
    BY <2>1, <2>3, GotoPaid
  <2> QED
    BY <1>7, <2>2, <2>3 DEF LoadConfig
<1>8. ASSUME NEW w \in Workers, AddNotice(w) \/ SendChannel(w)
             \/ HandlerThrows(w) \/ CrashWorker(w) \/ \E j \in Jobs : TakeJob(w, j)
      PROVE  PaidInv'
  BY <1>8, AddPaid, SendPaid, FaultPaid, TakePaid
<1> QED
  BY <1>1, <1>2, <1>4, <1>5, <1>6, <1>7, <1>8, CronPaid, QueuePaid DEF Next, HandlerAction

(* A finished check left nobody out, and a client gets a reminder again    *)
(* over the same channel only when a run was cut short or when a second    *)
(* check looked for the same day, for every number of policies, stages,    *)
(* channels, days and faults, and any finite number of workers             *)
(* (renewal.service.ts:31-110, notifications.service.ts:80-127,179-220).            *)
THEOREM ChecksAreExplained ==
  ASSUME IsFiniteSet(Workers)
  PROVE  Spec => []ChecksExplained
<1>1. Init => IInv /\ SweepInv /\ PaidInv
  BY IInvInit, SweepInit, PaidInit
<1>2. IInv /\ SweepInv /\ PaidInv /\ [Next]_vars => (IInv /\ SweepInv /\ PaidInv)'
  BY IInvStep, SweepStep, PaidStep
<1>3. IInv /\ SweepInv => FinishedCheckIsComplete
  BY DEF IInv, DataOK, SweepInv, CompleteInv, Due, FinishedCheckIsComplete
<1>4. IInv /\ PaidInv => RemindersExplained
  <2> SUFFICES ASSUME PaidInv, NEW n \in Notices, NEW c \in 1..Channels
               PROVE  sent[n][c] <= Cardinality(Checked) + faults
    BY DEF RemindersExplained, Checked
  <2>1. /\ Cardinality(Busy(n, c)) \in Nat /\ Cardinality(Held(n)) \in Nat
        /\ Cardinality(Checked) \in Nat
    BY RunsAreFinite
  <2>2. Paid(n, c) /\ sent[n][c] \in Nat /\ faults \in Nat
    BY DEF PaidInv, RunsOK
  <2> QED
    BY <2>1, <2>2 DEF Paid
<1>5. IInv /\ SweepInv /\ PaidInv => ChecksExplained
  BY <1>3, <1>4 DEF ChecksExplained
<1> QED
  BY <1>1, <1>2, <1>5, PTL DEF Spec
=============================================================================
