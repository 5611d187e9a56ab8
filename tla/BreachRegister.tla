---------------------------- MODULE BreachRegister ----------------------------
(***************************************************************************)
(* DataBreachService and DataBreachAlertJob: a breach of personal data     *)
(* must be notified to the authority (KZLD) within 72 hours.  Every four   *)
(* hours a job mails the administrator about a breach whose deadline is    *)
(* near or past, once per level and key of four hours; administrators edit *)
(* the register meanwhile, each reading the whole row and saving it.  One  *)
(* breach is followed, of those that must be notified.                     *)
(***************************************************************************)
EXTENDS Naturals

CONSTANTS
  Processes,   \* of the API: the second one only while one is replaced
  Admins,      \* each makes one update: the bound on updates
  Ages,        \* hours since the detection when a breach is reported
  MaxAge,      \* bound on the hours followed
  MaxFaults,
  None

VARIABLES
  row,         \* the breach
  age,         \* hours since its detection
  key,         \* dedup keys: a key set in a run is expiring in the next one
  due,         \* processes whose job has yet to fire
  jpc, level,  \* the job of a process, and the alert it is about
  apc, copy, diff,  \* an update: the entity read, the columns it will write
  mailed,      \* an alert went out in this run, or in the one before
  pending,     \* the breach was pending all through them
  told,        \* a notification was ever recorded
  torn,        \* an update was saved over one it had not read
  faults

jobVars == <<key, due, jpc, level, mailed>>
adminVars == <<apc, copy, diff, told, torn>>
vars == <<row, age, jobVars, adminVars, pending, faults>>

Columns == {"status", "kzldNotifiedAt", "closedAt"}
Row == [status: {"open", "closed"}, kzldNotifiedAt: BOOLEAN, closedAt: BOOLEAN]
Levels == {"overdue", "urgent", "warning"}

TypeOK ==
  /\ row \in Row \union {None} /\ age \in Nat
  /\ key \in [Levels -> {"absent", "set", "expiring"}]
  /\ due \subseteq Processes
  /\ jpc \in [Processes -> {"idle", "get", "send", "set"}]
  /\ level \in [Processes -> Levels \union {None}]
  /\ apc \in [Admins -> {"idle", "read", "diffed", "done"}]
  /\ copy \in [Admins -> Row \union {None}] /\ diff \in [Admins -> SUBSET Columns]
  /\ mailed \in [now: BOOLEAN, before: BOOLEAN]
  /\ pending \in 0..2
  /\ told \in BOOLEAN /\ torn \in BOOLEAN /\ faults \in 0..MaxFaults

Init ==
  /\ row = None /\ age \in Ages
  /\ key = [l \in Levels |-> "absent"] /\ due = {}
  /\ jpc = [p \in Processes |-> "idle"] /\ level = [p \in Processes |-> None]
  /\ apc = [a \in Admins |-> "idle"] /\ copy = [a \in Admins |-> None]
  /\ diff = [a \in Admins |-> {}]
  /\ mailed = [now |-> FALSE, before |-> FALSE] /\ pending = 0
  /\ told = FALSE /\ torn = FALSE /\ faults = 0

-----------------------------------------------------------------------------
(* What the job lists, and what it mails.                                  *)
Pending(r) == r # None /\ ~r.kzldNotifiedAt /\ r.status # "closed"

Level(hours) ==
  CASE hours > 72 -> "overdue"
    [] hours <= 72 /\ hours >= 64 -> "urgent"
    [] hours < 64 /\ hours >= 48 -> "warning"
    [] OTHER -> None

(* What the statistics count as overdue, and as close to the deadline.     *)
Overdue(r, hours) == Pending(r) /\ hours > 72
Approaching(r, hours) == Pending(r) /\ ~Overdue(r, hours) /\ hours + 24 >= 72

(* The alert of the report itself is not one of the job's.                 *)
ReportBreach ==
  /\ row = None
  /\ row' = [status |-> "open", kzldNotifiedAt |-> FALSE, closedAt |-> FALSE]
  /\ UNCHANGED <<age, jobVars, adminVars, pending, faults>>

(* Whatever stops being pending was not pending all through the run.       *)
Watch == pending' = IF Pending(row') THEN pending ELSE 0

-----------------------------------------------------------------------------
FindOne(a) ==
  /\ row # None /\ apc[a] = "idle"
  /\ apc' = [apc EXCEPT ![a] = "read"] /\ copy' = [copy EXCEPT ![a] = row]
  /\ UNCHANGED <<row, age, jobVars, diff, told, torn, pending, faults>>

(* The fields of the request are assigned; save reads the row again and    *)
(* takes the columns in which the entity differs from it.                  *)
Assign(a, entity) ==
  /\ apc[a] = "read" /\ apc' = [apc EXCEPT ![a] = "diffed"]
  /\ copy' = [copy EXCEPT ![a] = entity]
  /\ diff' = [diff EXCEPT ![a] = {c \in Columns : entity[c] # row[c]}]
  /\ torn' = (torn \/ \E c \in Columns : entity[c] = copy[a][c] /\ copy[a][c] # row[c])
  /\ UNCHANGED <<row, age, jobVars, told, pending, faults>>

UpdateBreach(a) ==
  \/ \E closed \in BOOLEAN :
       Assign(a, [copy[a] EXCEPT !.status = "open", !.closedAt = @ \/ closed])
  \/ Assign(a, [copy[a] EXCEPT !.status = "closed", !.closedAt = TRUE])
  \/ Assign(a, [copy[a] EXCEPT !.kzldNotifiedAt = TRUE])

Save(a) ==
  /\ apc[a] = "diffed" /\ apc' = [apc EXCEPT ![a] = "done"]
  /\ row' = [c \in Columns |-> IF c \in diff[a] THEN copy[a][c] ELSE row[c]]
  /\ told' = (told \/ row'.kzldNotifiedAt)
  /\ copy' = [copy EXCEPT ![a] = None] /\ diff' = [diff EXCEPT ![a] = {}]
  /\ Watch
  /\ UNCHANGED <<age, jobVars, torn, faults>>

-----------------------------------------------------------------------------
(* Mutant: the key lives for two runs more.                                *)
ExpiredLate(k) == IF k = "absent" THEN "absent" ELSE "expiring"

Expired(k) == IF k = "set" THEN "expiring" ELSE "absent"

Idle == due = {} /\ \A p \in Processes : jpc[p] = "idle"

(* Four hours pass.  The job fires in the process there is; in none when   *)
(* the API is down, in two when one is being replaced.                     *)
Tick ==
  /\ row # None /\ Idle /\ age + 4 <= MaxAge /\ age' = age + 4
  /\ key' = [l \in Levels |-> Expired(key[l])]
  /\ mailed' = [now |-> FALSE, before |-> mailed.now]
  /\ pending' = IF ~Pending(row) THEN 0
                ELSE IF pending = 0 THEN 1 ELSE 2
  /\ \E ps \in SUBSET Processes :
       /\ due' = ps
       /\ \/ (\E p \in Processes : ps = {p}) /\ UNCHANGED faults
          \/ (\A p \in Processes : ps # {p}) /\ faults < MaxFaults /\ faults' = faults + 1
  /\ UNCHANGED <<row, jpc, level, adminVars>>

GetPendingAlertBreaches(p) ==
  /\ p \in due /\ due' = due \ {p}
  /\ level' = [level EXCEPT ![p] = Level(age)]
  /\ jpc' = [jpc EXCEPT ![p] = IF Pending(row) /\ Level(age) # None THEN "get" ELSE "idle"]
  /\ UNCHANGED <<row, age, key, mailed, adminVars, pending, faults>>

(* An expiring key is gone for the run that asks a moment later.           *)
GetKey(p) ==
  /\ jpc[p] = "get"
  /\ \/ key[level[p]] # "absent" /\ jpc' = [jpc EXCEPT ![p] = "idle"]
     \/ key[level[p]] # "set" /\ jpc' = [jpc EXCEPT ![p] = "send"]
  /\ UNCHANGED <<row, age, key, due, level, mailed, adminVars, pending, faults>>

(* A mail that fails is logged, and counts as sent.                        *)
SendBreachAlert(p) ==
  /\ jpc[p] = "send" /\ jpc' = [jpc EXCEPT ![p] = "set"]
  /\ \/ mailed' = [mailed EXCEPT !.now = TRUE] /\ UNCHANGED faults
     \/ faults < MaxFaults /\ faults' = faults + 1 /\ UNCHANGED mailed
  /\ UNCHANGED <<row, age, key, due, level, adminVars, pending>>

SetKey(p) ==
  /\ jpc[p] = "set" /\ jpc' = [jpc EXCEPT ![p] = "idle"]
  /\ key' = [key EXCEPT ![level[p]] = "set"]
  /\ UNCHANGED <<row, age, due, level, mailed, adminVars, pending, faults>>

Crash(p) ==
  /\ jpc[p] # "idle" /\ faults < MaxFaults /\ faults' = faults + 1
  /\ jpc' = [jpc EXCEPT ![p] = "idle"]
  /\ UNCHANGED <<row, age, key, due, level, mailed, adminVars, pending>>

Next ==
  \/ ReportBreach \/ Tick
  \/ \E a \in Admins : FindOne(a) \/ UpdateBreach(a) \/ Save(a)
  \/ \E p \in Processes :
       \/ GetPendingAlertBreaches(p) \/ GetKey(p) \/ SendBreachAlert(p) \/ SetKey(p)
       \/ Crash(p)

Spec == Init /\ [][Next]_vars

-----------------------------------------------------------------------------
(* The key outlives the four hours, so the job may leave out every second  *)
(* run, but never two: a breach that the statistics count as overdue or    *)
(* close to its deadline, and that was pending all through, was mailed     *)
(* about in this run or the one before, unless a fault stopped the mail    *)
(* (data-breach-alert.job.ts:20-88).                                       *)
NeverSilentTwice ==
  Idle /\ pending = 2 /\ (Overdue(row, age) \/ Approaching(row, age)) /\ faults = 0 =>
    mailed.now \/ mailed.before

(* A notification that was recorded stays recorded, and a closed breach    *)
(* has a date, unless an update was saved over one it had not read         *)
(* (data-breach.service.ts:133-208).                                       *)
RecordsKept ==
  row # None /\ ~torn => (told => row.kzldNotifiedAt) /\ (row.status = "closed" => row.closedAt)

BreachesExplained == NeverSilentTwice /\ RecordsKept
=============================================================================
