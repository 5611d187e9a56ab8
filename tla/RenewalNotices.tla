---------------------------- MODULE RenewalNotices ----------------------------
(***************************************************************************)
(* Renewal reminders: the daily check, which queues one notice for every   *)
(* policy and stage that falls on its day (renewal.service.ts), and the    *)
(* notices, which go out over the channels of their stage                  *)
(* (notifications.service.ts).  Both are jobs of one Bull queue; every     *)
(* awaited statement commits alone.                                        *)
(*                                                                         *)
(* A stage is its distance in days from the end of the cover.  The jobId   *)
(* of a notice names its policy, its stage and the day of the check.       *)
(* Texts, devices and addresses are abstract: a channel delivers, or is    *)
(* skipped, or throws.                                                     *)
(***************************************************************************)
EXTENDS BullQueue, Integers, Sequences

CONSTANTS
  Policies,   \* policies that run out
  FirstEnd,   \* FirstEnd[p]: the last day of p's cover, as it was sold
  Stages,     \* RENEWAL_STAGES in the order of the check, as days before the end
  Channels,   \* how many channels a stage has
  LastDay,    \* bound on the calendar
  Extensions, \* by how many days a broker may extend a cover
  MaxFaults   \* bound on throws, crashes and lost locks

ASSUME CalendarAssumption == LastDay \in Nat
ASSUME StagesAssumption ==
  /\ Stages \in Seq(Int) /\ Stages # <<>>
  /\ FirstEnd \in [Policies -> Int] /\ Extensions \subseteq Int \ {0}

Days == 0..LastDay
Notices == Policies \X (DOMAIN Stages) \X Days
Checks == {"check"} \X Days

ASSUME JobsAssumption == Jobs = Notices \union Checks /\ Channels \in Nat

VARIABLES
  today,      \* the calendar day
  active,     \* policies that are active and not deleted
  endDay,     \* endDay[p]: the last day of p's cover
  renewedOn,  \* renewedOn[p]: the day a policy following p's was sold, or LastDay + 1
  ordered,    \* notices that were ever added to the queue
  log,        \* renewal_notification_log: pairs of a policy and a stage
  finished,   \* days whose check has returned
  sent,       \* sent[n][c]: messages of notice n over its channel c
  pc, cur,    \* per worker: the handler's next statement, its job
  day, stage, \* per worker: a check's day and its stage
  todo,       \* per worker: policies of the stage that are still to be handled
  policy,     \* per worker: the one it handles
  channel,    \* per worker: the channel its notice has reached
  faults

businessVars == <<today, active, endDay, renewedOn>>
noticeVars == <<ordered, log, finished, sent>>
checkVars == <<day, stage, todo, policy>>
workerVars == <<pc, cur, checkVars, channel>>
vars == <<queueVars, businessVars, noticeVars, workerVars, faults>>

TypeOK ==
  /\ QueueTypeOK
  /\ today \in Days
  /\ active \subseteq Policies
  /\ endDay \in [Policies -> Int]
  /\ renewedOn \in [Policies -> 0..(LastDay + 1)]
  /\ ordered \subseteq Notices
  /\ log \subseteq Policies \X (DOMAIN Stages)
  /\ finished \subseteq Days
  /\ sent \in [Notices -> [1..Channels -> Nat]]
  /\ pc \in [Workers -> {"idle", "find", "queued", "renewed", "add", "record",
                         "load", "send"}]
  /\ cur \in [Workers -> Jobs \union {None}]
  /\ day \in [Workers -> Days]
  /\ stage \in [Workers -> DOMAIN Stages]
  /\ todo \in [Workers -> SUBSET Policies]
  /\ policy \in [Workers -> Policies \union {None}]
  /\ channel \in [Workers -> 1..Channels]
  /\ faults \in 0..MaxFaults

Init ==
  /\ QueueInit
  /\ today \in Days
  /\ active \in SUBSET Policies
  /\ endDay = FirstEnd
  /\ renewedOn = [p \in Policies |-> LastDay + 1]
  /\ ordered = {} /\ log = {} /\ finished = {}
  /\ sent = [n \in Notices |-> [c \in 1..Channels |-> 0]]
  /\ pc = [w \in Workers |-> "idle"]
  /\ cur = [w \in Workers |-> None]
  /\ day = [w \in Workers |-> 0]
  /\ stage = [w \in Workers |-> 1]
  /\ todo = [w \in Workers |-> {}]
  /\ policy = [w \in Workers |-> None]
  /\ channel = [w \in Workers |-> 1]
  /\ faults = 0

Fault == faults < MaxFaults /\ faults' = faults + 1

-----------------------------------------------------------------------------
(* Time, clients and brokers; what happens to a policy that is no longer  *)
(* active is left out, nothing reads it.                                   *)
NextDay ==
  /\ today < LastDay /\ today' = today + 1
  /\ UNCHANGED <<queueVars, active, endDay, renewedOn, noticeVars, workerVars, faults>>

(* An active policy for the same vehicle that starts when p's cover ends. *)
Renew(p) ==
  /\ p \in active /\ renewedOn[p] > LastDay
  /\ renewedOn' = [renewedOn EXCEPT ![p] = today]
  /\ UNCHANGED <<queueVars, today, active, endDay, noticeVars, workerVars, faults>>

Cancel(p) ==
  /\ active' = active \ {p}
  /\ UNCHANGED <<queueVars, today, endDay, renewedOn, noticeVars, workerVars, faults>>

(* A broker moves the end of the cover; what follows it no longer starts   *)
(* at or after the end.  Each policy is extended at most once here (bound). *)
Extend(p, days) ==
  /\ p \in active /\ endDay[p] = FirstEnd[p]
  /\ endDay' = [endDay EXCEPT ![p] = @ + days]
  /\ renewedOn' = [renewedOn EXCEPT ![p] = LastDay + 1]
  /\ UNCHANGED <<queueVars, today, active, noticeVars, workerVars, faults>>

(* The repeatable job of the day.  Bull queues the next one when it starts *)
(* the last one, so a check that waits overnight takes the next day's place *)
(* or runs just before it; a day the service is down has none.             *)
Cron ==
  /\ job[<<"check", today>>] = "absent"
  /\ \A d \in Days : job[<<"check", d>>] # "waiting"
  /\ Add(<<"check", today>>)
  /\ UNCHANGED <<businessVars, noticeVars, workerVars, faults>>

-----------------------------------------------------------------------------
Goto(w, from, to) ==
  /\ pc[w] = from
  /\ pc' = [pc EXCEPT ![w] = to]

Idle(w) ==
  /\ pc' = [pc EXCEPT ![w] = "idle"]
  /\ cur' = [cur EXCEPT ![w] = None]
  /\ day' = [day EXCEPT ![w] = 0]
  /\ stage' = [stage EXCEPT ![w] = 1]
  /\ todo' = [todo EXCEPT ![w] = {}]
  /\ policy' = [policy EXCEPT ![w] = None]
  /\ channel' = [channel EXCEPT ![w] = 1]

Return(w) == Idle(w) /\ Complete(w, cur[w])

(* runDailyCheck takes its day when it starts, not when it was queued. *)
TakeJob(w, j) ==
  /\ Goto(w, "idle", IF j \in Checks THEN "find" ELSE "load")
  /\ Take(w, j)
  /\ cur' = [cur EXCEPT ![w] = j]
  /\ day' = [day EXCEPT ![w] = IF j \in Checks THEN today ELSE 0]
  /\ UNCHANGED <<businessVars, noticeVars, stage, todo, policy, channel, faults>>

-----------------------------------------------------------------------------
(* The daily check.  The loop over the policies of a stage, and its end:   *)
(* the next stage, or the end of the check after the last one.             *)
HandleOneOf(w, policies) ==
  /\ pc' = [pc EXCEPT ![w] = "queued"]
  /\ \E p \in policies : /\ policy' = [policy EXCEPT ![w] = p]
                         /\ todo' = [todo EXCEPT ![w] = policies \ {p}]
  /\ UNCHANGED <<queueVars, finished, cur, day, stage, channel>>

NextStage(w) ==
  /\ pc' = [pc EXCEPT ![w] = "find"]
  /\ stage' = [stage EXCEPT ![w] = @ + 1]
  /\ policy' = [policy EXCEPT ![w] = None]
  /\ UNCHANGED <<queueVars, finished, cur, day, todo, channel>>

FinishCheck(w) ==
  /\ finished' = finished \union {day[w]}
  /\ Return(w)

Continue(w, policies) ==
  \/ policies # {} /\ HandleOneOf(w, policies)
  \/ policies = {} /\ stage[w] < Len(Stages) /\ NextStage(w)
  \/ policies = {} /\ stage[w] = Len(Stages) /\ FinishCheck(w)

FindExpiringPolicies(w) ==
  /\ pc[w] = "find"
  /\ Continue(w, {p \in active : endDay[p] = day[w] + Stages[stage[w]]})
  /\ UNCHANGED <<businessVars, ordered, log, sent, faults>>

(* hasNotificationBeenQueued: the log knows no date. *)
CheckQueued(w) ==
  /\ pc[w] = "queued"
  /\ \/ /\ <<policy[w], stage[w]>> \in log
        /\ Continue(w, todo[w])
     \/ /\ <<policy[w], stage[w]>> \notin log
        /\ Goto(w, "queued", IF stage[w] = 1 THEN "add" ELSE "renewed")
        /\ UNCHANGED <<queueVars, finished, cur, checkVars, channel>>
  /\ UNCHANGED <<businessVars, ordered, log, sent, faults>>

(* Mutant: a renewed policy ends the loop over its stage. *)
CheckRenewedBreaks(w) ==
  /\ pc[w] = "renewed"
  /\ \/ renewedOn[policy[w]] <= LastDay /\ Continue(w, {})
     \/ /\ renewedOn[policy[w]] > LastDay
        /\ Goto(w, "renewed", "add")
        /\ UNCHANGED <<queueVars, finished, cur, checkVars, channel>>
  /\ UNCHANGED <<businessVars, ordered, log, sent, faults>>

(* Mutant: the answer of the query is not used. *)
CheckRenewedIgnored(w) ==
  /\ Goto(w, "renewed", "add")
  /\ UNCHANGED <<queueVars, businessVars, noticeVars, cur, checkVars, channel, faults>>

(* Every stage but the first one stops for a vehicle that has its renewal. *)
CheckRenewed(w) ==
  /\ pc[w] = "renewed"
  /\ \/ renewedOn[policy[w]] <= LastDay /\ Continue(w, todo[w])
     \/ /\ renewedOn[policy[w]] > LastDay
        /\ Goto(w, "renewed", "add")
        /\ UNCHANGED <<queueVars, finished, cur, checkVars, channel>>
  /\ UNCHANGED <<businessVars, ordered, log, sent, faults>>

(* Mutant: the log is written before the notice is added. *)
AddNoticeLate(w) ==
  /\ Goto(w, "add", "record")
  /\ log' = log \union {<<policy[w], stage[w]>>}
  /\ UNCHANGED <<queueVars, businessVars, ordered, finished, sent, cur, checkVars,
                 channel, faults>>

AddNotice(w) ==
  LET n == <<policy[w], stage[w], day[w]>> IN
  /\ Goto(w, "add", "record")
  /\ Add(n)
  /\ ordered' = ordered \union {n}
  /\ UNCHANGED <<businessVars, log, finished, sent, cur, checkVars, channel, faults>>

(* Mutant: the entry holds the day as well. *)
RecordQueuedDated(w) ==
  /\ pc[w] = "record"
  /\ log' = log \union {<<policy[w], stage[w], day[w]>>}
  /\ Continue(w, todo[w])
  /\ UNCHANGED <<businessVars, ordered, sent, faults>>

RecordQueued(w) ==
  /\ pc[w] = "record"
  /\ log' = log \union {<<policy[w], stage[w]>>}
  /\ Continue(w, todo[w])
  /\ UNCHANGED <<businessVars, ordered, sent, faults>>

-----------------------------------------------------------------------------
(* A notice.  The stage may be switched off for the tenant. *)
LoadConfig(w) ==
  /\ pc[w] = "load"
  /\ \/ Return(w)
     \/ /\ Goto(w, "load", "send")
        /\ UNCHANGED <<queueVars, cur, checkVars, channel>>
  /\ UNCHANGED <<businessVars, noticeVars, faults>>

(* Mutant: a channel that delivered is tried again. *)
SendChannelAgain(w) ==
  /\ pc[w] = "send"
  /\ sent' = [sent EXCEPT ![cur[w]][channel[w]] = @ + 1]
  /\ pc' = [pc EXCEPT ![w] = "load"]
  /\ UNCHANGED <<queueVars, businessVars, ordered, log, finished, cur, checkVars,
                 channel, faults>>

(* dispatchChannel: what a channel sent, or why not, is logged; the next.  *)
SendChannel(w) ==
  /\ pc[w] = "send"
  /\ \/ sent' = [sent EXCEPT ![cur[w]][channel[w]] = @ + 1]
     \/ UNCHANGED sent
  /\ \/ /\ channel[w] < Channels
        /\ channel' = [channel EXCEPT ![w] = @ + 1]
        /\ UNCHANGED <<queueVars, pc, cur, checkVars>>
     \/ channel[w] = Channels /\ Return(w)
  /\ UNCHANGED <<businessVars, ordered, log, finished, faults>>

-----------------------------------------------------------------------------
(* A statement fails, or the row about a message that went out. *)
HandlerThrows(w) ==
  /\ pc[w] # "idle" /\ Fault
  /\ \/ UNCHANGED sent
     \/ pc[w] = "send" /\ sent' = [sent EXCEPT ![cur[w]][channel[w]] = @ + 1]
  /\ Idle(w) /\ Throw(w, cur[w])
  /\ UNCHANGED <<businessVars, ordered, log, finished>>

CrashWorker(w) ==
  /\ pc[w] # "idle" /\ Fault
  /\ \/ UNCHANGED sent
     \/ pc[w] = "send" /\ sent' = [sent EXCEPT ![cur[w]][channel[w]] = @ + 1]
  /\ Idle(w)
  /\ UNCHANGED <<queueVars, businessVars, ordered, log, finished>>

Recover(j) ==
  /\ \A w \in Workers : lock[j] = w => cur[w] # j
  /\ Reclaim(j)
  /\ UNCHANGED <<businessVars, noticeVars, workerVars, faults>>

LoseLock(j) ==
  /\ \E w \in Workers : lock[j] = w /\ cur[w] = j
  /\ Fault
  /\ Reclaim(j)
  /\ UNCHANGED <<businessVars, noticeVars, workerVars>>

(* removeOnComplete: the queue forgets a notice once a hundred others are done. *)
ForgetNotice(n) ==
  /\ n \in Notices /\ Forget(n)
  /\ UNCHANGED <<businessVars, noticeVars, workerVars, faults>>

HandlerAction(w) ==
  \/ FindExpiringPolicies(w) \/ CheckQueued(w) \/ CheckRenewed(w)
  \/ AddNotice(w) \/ RecordQueued(w) \/ LoadConfig(w) \/ SendChannel(w)

Next ==
  \/ NextDay \/ Cron
  \/ \E p \in Policies : Renew(p) \/ Cancel(p) \/ \E days \in Extensions : Extend(p, days)
  \/ \E w \in Workers :
       \/ HandlerAction(w) \/ HandlerThrows(w) \/ CrashWorker(w)
       \/ \E j \in Jobs : TakeJob(w, j)
  \/ \E j \in Jobs : Recover(j) \/ LoseLock(j) \/ ForgetNotice(j)

Spec == Init /\ [][Next]_vars

-----------------------------------------------------------------------------
(* The log never claims a notice the queue was not given: a check cut      *)
(* short between the two repeats the notice rather than losing it          *)
(* (renewal.service.ts:84-104).                                            *)
LoggedIsOrdered ==
  \A p \in Policies, i \in DOMAIN Stages :
    <<p, i>> \in log => \E d \in Days : <<p, i, d>> \in ordered

(* No reminder after the first is ordered by the check of a day after the  *)
(* renewal (renewal.service.ts:70-82).                                     *)
RenewedLeftAlone ==
  \A p \in Policies, i \in DOMAIN Stages, d \in Days :
    <<p, i, d>> \in ordered /\ i > 1 => renewedOn[p] >= d

(* A check that has returned has left out no policy that was due on its    *)
(* day, is still active and was never renewed, whatever the checks and     *)
(* retries beside it did (renewal.service.ts:31-110).                      *)
FinishedCheckIsComplete ==
  \A d \in finished, p \in active, i \in DOMAIN Stages :
    endDay[p] = FirstEnd[p] /\ endDay[p] = d + Stages[i] /\ renewedOn[p] > LastDay
      => <<p, i>> \in log

(* A client gets a reminder again over the same channel only when a run of *)
(* the check or of the notice was cut short, or when a second check, held  *)
(* up from the day before, looked for the same day.                        *)
RemindersExplained ==
  LET checks == {d \in Days : job[<<"check", d>>] # "absent"} IN
  \A n \in Notices, c \in 1..Channels : sent[n][c] <= Cardinality(checks) + faults

(* A check that has finished looked at every stage, and only a fault or an *)
(* overlap sends a reminder twice.                                         *)
ChecksExplained == FinishedCheckIsComplete /\ RemindersExplained
=============================================================================
