------------------------------ MODULE OrderProofs -----------------------------
(***************************************************************************)
(* What is proved of what a customer waits for, for every set of jobs,     *)
(* workers, photos and fields and any number of faults.  A delivery on     *)
(* record has happened, and mails are repeated only after faults: what     *)
(* makes that inductive is what a worker knows at each statement, and a    *)
(* count of the runs that may still send.  The sticker is not forgotten    *)
(* while its job has attempts left, and parcels are counted as the mails   *)
(* are.  It needs little of the queue, so it holds although two workers    *)
(* may run one job.  What the two screens show of a talon comes last.      *)
(***************************************************************************)
EXTENDS MCOrder, Sequences, FiniteSetTheorems, TLAPS

DataTypeOK ==
  /\ policyKey \in {"none", "policy"}
  /\ greenCardKey \in {"none"} \union Documents
  /\ emailedAt \in BOOLEAN
  /\ events \in [BOOLEAN -> Nat]
  /\ objects \subseteq Documents
  /\ mails \in Nat
  /\ pc \in [Workers -> {"idle", "load", "policy", "greenCard", "keys", "mail",
                         "mailed", "record"}]
  /\ cur \in [Workers -> Jobs \union {None}]
  /\ hasEmail \in [Workers -> BOOLEAN]

(* What a worker knows at its next statement. *)
WorkerInv ==
  \A w \in Workers :
    /\ cur[w] = None => pc[w] = "idle"
    /\ pc[w] \in {"greenCard", "keys"} => "policy" \in objects
    /\ pc[w] = "keys" => cur[w] \in Exports \/ objects = Documents
    /\ pc[w] \in {"mail", "mailed", "record"} =>
         objects = Documents /\ "none" \notin {policyKey, greenCardKey}
    /\ pc[w] \in {"mail", "mailed"} => hasEmail[w]
    /\ pc[w] \in {"mailed", "record"} /\ hasEmail[w] => mails > 0
    /\ pc[w] = "record" /\ hasEmail[w] => emailedAt

IInv == DataTypeOK /\ WorkerInv /\ RecordIsTrue

-----------------------------------------------------------------------------
(* The counts of the rows with and without a mail.                         *)
LEMMA NoEvents ==
  ASSUME NEW e, e = [mailed \in BOOLEAN |-> 0]
  PROVE  e \in [BOOLEAN -> Nat] /\ e[TRUE] = 0 /\ e[FALSE] = 0
  OBVIOUS

LEMMA OneMoreEvent ==
  ASSUME NEW e \in [BOOLEAN -> Nat], NEW b \in BOOLEAN, NEW f, f = [e EXCEPT ![b] = @ + 1]
  PROVE  f \in [BOOLEAN -> Nat] /\ (b = FALSE => f[TRUE] = e[TRUE])
<1>1. f \in [BOOLEAN -> Nat]
  OBVIOUS
<1>2. ASSUME b = FALSE PROVE f[TRUE] = e[TRUE]
  BY <1>2, Zenon
<1> QED
  BY <1>1, <1>2

(* What the address of one worker's client says nothing of another's.      *)
LEMMA OneAddress ==
  ASSUME NEW h \in [Workers -> BOOLEAN], NEW w \in Workers, NEW b \in BOOLEAN,
         NEW g, g = [h EXCEPT ![w] = b]
  PROVE  g \in [Workers -> BOOLEAN] /\ \A v \in Workers \ {w} : g[v] = h[v]
  OBVIOUS

LEMMA IInvInit == Init => IInv
<1> SUFFICES ASSUME Init PROVE IInv
  OBVIOUS
<1>1. events \in [BOOLEAN -> Nat] /\ events[TRUE] = 0 /\ events[FALSE] = 0
  BY NoEvents DEF Init
<1>2. hasEmail \in [Workers -> BOOLEAN]
  BY DEF Init
<1>3. DataTypeOK /\ WorkerInv
  BY <1>1, <1>2 DEF Init, DataTypeOK, WorkerInv, Documents
<1> QED
  BY <1>1, <1>3 DEF IInv, RecordIsTrue

(* Each statement of the handler preserves what every worker knows: what   *)
(* is in S3, in the row's keys and among the mails is never taken back.    *)
LEMMA IInvStep ==
  ASSUME IInv, [Next]_vars
  PROVE  IInv'
<1> USE QueueAssumption, DeliveryAssumption
    DEF IInv, DataTypeOK, WorkerInv, RecordIsTrue, Documents, Deliveries, policyVars, workerVars
<1>1. CASE DeletePolicy
  BY <1>1 DEF DeletePolicy
<1>2. ASSUME NEW w \in Workers, NEW j \in Jobs, TakeJob(w, j)
      PROVE  IInv'
  BY <1>2 DEF TakeJob, Goto
<1>3. ASSUME NEW w \in Workers, LoadPolicy(w)
      PROVE  IInv'
  <2>1. PICK b \in BOOLEAN : hasEmail' = [hasEmail EXCEPT ![w] = b]
    BY <1>3 DEF LoadPolicy, Fails, Idle
  <2>2. /\ hasEmail' \in [Workers -> BOOLEAN]
        /\ \A v \in Workers \ {w} : hasEmail'[v] = hasEmail[v]
    BY <2>1, OneAddress
  <2>3. /\ \/ pc' = [pc EXCEPT ![w] = "idle"] /\ cur' = [cur EXCEPT ![w] = None]
           \/ pc' = [pc EXCEPT ![w] = "policy"] /\ cur' = cur /\ pc[w] = "load"
        /\ UNCHANGED <<policyKey, greenCardKey, emailedAt, events, objects, mails>>
    BY <1>3 DEF LoadPolicy, Goto, Fails, Idle
  <2>4. DataTypeOK'
    BY <2>2, <2>3
  <2>5. WorkerInv'
    <3> SUFFICES ASSUME NEW v \in Workers PROVE WorkerInv!(v)'
      BY DEF WorkerInv
    <3>1. CASE v = w
      BY <2>3, <3>1
    <3>2. CASE v # w
      BY <2>2, <2>3, <3>2
    <3> QED
      BY <3>1, <3>2
  <2>6. RecordIsTrue'
    BY <2>3
  <2> QED
    BY <2>4, <2>5, <2>6
<1>4. ASSUME NEW w \in Workers, UploadPolicy(w)
      PROVE  IInv'
  BY <1>4 DEF UploadPolicy, Goto
<1>5. ASSUME NEW w \in Workers, UploadGreenCard(w)
      PROVE  IInv'
  BY <1>5 DEF UploadGreenCard, Goto
<1>6. ASSUME NEW w \in Workers, UpdatePdfKeys(w)
      PROVE  IInv'
  BY <1>6 DEF UpdatePdfKeys, Goto, Idle
<1>7. ASSUME NEW w \in Workers, SendDocuments(w)
      PROVE  IInv'
  <2>1. mails' \in Nat /\ mails' > 0
    BY <1>7 DEF SendDocuments
  <2>2. /\ pc[w] = "mail" /\ pc' = [pc EXCEPT ![w] = "mailed"]
        /\ UNCHANGED <<policyKey, greenCardKey, emailedAt, events, objects, cur, hasEmail>>
    BY <1>7 DEF SendDocuments, Goto
  <2>3. DataTypeOK'
    BY <2>1, <2>2
  <2>4. WorkerInv'
    BY <2>1, <2>2
  <2>5. RecordIsTrue'
    BY <2>1, <2>2
  <2> QED
    BY <2>3, <2>4, <2>5
<1>8. ASSUME NEW w \in Workers, MarkDocumentsEmailed(w)
      PROVE  IInv'
  BY <1>8 DEF MarkDocumentsEmailed, Goto
<1>9. ASSUME NEW w \in Workers, RecordDelivery(w)
      PROVE  IInv'
  <2>1. PICK b \in BOOLEAN : b = hasEmail[w]
    OBVIOUS
  <2>2. events' \in [BOOLEAN -> Nat] /\ (b = FALSE => events'[TRUE] = events[TRUE])
    BY <1>9, <2>1, OneMoreEvent DEF RecordDelivery
  <2>3. /\ pc[w] = "record" /\ pc' = [pc EXCEPT ![w] = "idle"]
        /\ cur' = [cur EXCEPT ![w] = None] /\ hasEmail' = [hasEmail EXCEPT ![w] = FALSE]
        /\ UNCHANGED <<policyKey, greenCardKey, emailedAt, objects, mails>>
    BY <1>9 DEF RecordDelivery, Idle
  <2>4. DataTypeOK' /\ WorkerInv'
    BY <2>2, <2>3
  <2>5. RecordIsTrue'
    BY <2>1, <2>2, <2>3
  <2> QED
    BY <2>4, <2>5
<1>10. ASSUME NEW w \in Workers, HandlerThrows(w)
       PROVE  IInv'
  BY <1>10 DEF HandlerThrows, Fails, Idle
<1>11. ASSUME NEW w \in Workers, CrashWorker(w)
       PROVE  IInv'
  BY <1>11 DEF CrashWorker, Idle
<1>12. ASSUME NEW j \in Jobs, Order(j) \/ Recover(j) \/ LoseLock(j)
       PROVE  IInv'
  BY <1>12 DEF Order, Recover, LoseLock
<1>13. CASE UNCHANGED vars
  BY <1>13 DEF vars
<1> QED
  BY <1>1, <1>2, <1>3, <1>4, <1>5, <1>6, <1>7, <1>8, <1>9, <1>10, <1>11, <1>12, <1>13
     DEF Next, HandlerAction

(* A row that says the documents were delivered never says so before both  *)
(* are in S3 under the keys of the policy, or of a mail that did not go    *)
(* out (pdf-generation.service.ts:76-125).                                 *)
THEOREM DeliveryOnRecordHappened == Spec => []RecordIsTrue
<1>1. Init => IInv
  BY IInvInit
<1>2. IInv /\ [Next]_vars => IInv'
  BY IInvStep
<1>3. IInv => RecordIsTrue
  BY DEF IInv
<1> QED
  BY <1>1, <1>2, <1>3, PTL DEF Spec

-----------------------------------------------------------------------------
(***************************************************************************)
(* Repeated mails.  A delivery may mail once for each run, so what bounds  *)
(* the mails is the runs that can still send one: the jobs that wait, or   *)
(* that are active although nobody runs them, and the workers that have    *)
(* not mailed yet.  An order adds one, and only a fault adds another.      *)
(***************************************************************************)
Unsent == {"load", "policy", "greenCard", "keys", "mail"}

Due ==
  {j \in Deliveries : \/ job[j] = "waiting"
                      \/ job[j] = "active" /\ \A w \in Workers : lock[j] = w => cur[w] # j}

MayMail == {w \in Workers : cur[w] \in Deliveries /\ pc[w] \in Unsent}

Ordered == {j \in Deliveries : job[j] # "absent"}

QueueOK ==
  /\ job \in [Jobs -> JobState] /\ lock \in [Jobs -> Workers \union {None}]
  /\ \A j \in Jobs : lock[j] # None => job[j] = "active"
  /\ cur \in [Workers -> Jobs \union {None}]
  /\ pc \in [Workers -> Unsent \union {"idle", "mailed", "record"}]
  /\ \A w \in Workers : /\ pc[w] = "idle" <=> cur[w] = None
                        /\ pc[w] = "mail" => cur[w] \in Deliveries
  /\ mails \in Nat /\ faults \in Nat

MailsInv ==
  /\ QueueOK
  /\ mails + Cardinality(Due) + Cardinality(MayMail) <= Cardinality(Ordered) + faults

(* How many runs may still mail. *)
LEMMA RunsAreFinite ==
  ASSUME IsFiniteSet(Jobs), IsFiniteSet(Workers)
  PROVE  /\ IsFiniteSet(Due) /\ IsFiniteSet(MayMail) /\ IsFiniteSet(Ordered)
         /\ Cardinality(Due) \in Nat /\ Cardinality(MayMail) \in Nat
         /\ Cardinality(Ordered) \in Nat
<1>1. Due \subseteq Jobs /\ MayMail \subseteq Workers /\ Ordered \subseteq Jobs
  BY DEF Due, MayMail, Ordered, Deliveries
<1>2. IsFiniteSet(Due) /\ IsFiniteSet(MayMail) /\ IsFiniteSet(Ordered)
  BY <1>1, FS_Subset
<1> QED
  BY <1>2, FS_CardinalityType

LEMMA NoMore ==
  ASSUME NEW S, IsFiniteSet(S), NEW T \in SUBSET S
  PROVE  Cardinality(T) \in Nat /\ Cardinality(T) <= Cardinality(S)
  BY FS_Subset, FS_CardinalityType

LEMMA OneMore ==
  ASSUME NEW S, IsFiniteSet(S), NEW x, NEW T \in SUBSET (S \union {x})
  PROVE  Cardinality(T) \in Nat /\ Cardinality(T) <= Cardinality(S) + 1
<1>1. /\ IsFiniteSet(S \union {x})
      /\ Cardinality(S \union {x}) = Cardinality(S) \/ Cardinality(S \union {x}) = Cardinality(S) + 1
  BY FS_AddElement
<1>2. Cardinality(T) \in Nat /\ Cardinality(T) <= Cardinality(S \union {x})
  BY <1>1, NoMore
<1> QED
  BY <1>1, <1>2, FS_CardinalityType

LEMMA OneFewer ==
  ASSUME NEW S, IsFiniteSet(S), NEW x \in S, NEW T \in SUBSET (S \ {x})
  PROVE  Cardinality(T) \in Nat /\ Cardinality(T) <= Cardinality(S) - 1
<1>1. IsFiniteSet(S \ {x}) /\ Cardinality(S \ {x}) = Cardinality(S) - 1
  BY FS_RemoveElement
<1>2. Cardinality(T) \in Nat /\ Cardinality(T) <= Cardinality(S \ {x})
  BY <1>1, NoMore
<1> QED
  BY <1>1, <1>2, FS_CardinalityType

LEMMA SumsGrow ==
  ASSUME NEW a \in Nat, NEW b \in Nat, NEW c \in Nat, NEW d \in Nat, a <= b, c <= d
  PROVE  a + c <= b + d /\ a + c \in Nat /\ b + d \in Nat
  OBVIOUS

(* What a step may do to the account. *)
LEMMA Balance ==
  ASSUME IsFiniteSet(Jobs), IsFiniteSet(Workers), MailsInv, Ordered \subseteq Ordered',
         mails' \in Nat, faults' \in Nat, NEW j, NEW w,
         \/ /\ Due' \subseteq Due /\ MayMail' \subseteq MayMail
            /\ mails' = mails /\ faults <= faults'
         \/ /\ Due' \subseteq Due \union {j} /\ MayMail' \subseteq MayMail
            /\ mails' = mails /\ faults' = faults + 1
         \/ /\ Due' \subseteq Due \union {j} /\ w \in MayMail /\ MayMail' \subseteq MayMail \ {w}
            /\ mails' = mails /\ faults' = faults
         \/ /\ j \in Due /\ Due' \subseteq Due \ {j} /\ MayMail' \subseteq MayMail \union {w}
            /\ mails' = mails /\ faults' = faults
         \/ /\ Due' \subseteq Due /\ w \in MayMail /\ MayMail' \subseteq MayMail \ {w}
            /\ mails' = mails + 1 /\ faults' = faults
         \/ /\ Due' \subseteq Due \union {j} /\ MayMail' \subseteq MayMail
            /\ Ordered' = Ordered \union {j} /\ j \notin Ordered
            /\ mails' = mails /\ faults' = faults
  PROVE  mails' + Cardinality(Due') + Cardinality(MayMail') <= Cardinality(Ordered') + faults'
<1> DEFINE d == Cardinality(Due)
           m == Cardinality(MayMail)
           o == Cardinality(Ordered)
           dd == Cardinality(Due')
           mm == Cardinality(MayMail')
           oo == Cardinality(Ordered')
<1> SUFFICES mails' + dd + mm <= oo + faults'
  OBVIOUS
<1>1. /\ IsFiniteSet(Due) /\ IsFiniteSet(MayMail) /\ IsFiniteSet(Ordered)
      /\ d \in Nat /\ m \in Nat /\ o \in Nat
  BY RunsAreFinite
<1>2. Ordered' \subseteq Jobs
  BY DEF Ordered, Deliveries
<1>3. IsFiniteSet(Ordered') /\ oo \in Nat /\ o <= oo
  BY <1>2, FS_Subset, FS_CardinalityType
<1>4. mails + d + m <= o + faults /\ mails \in Nat /\ faults \in Nat
  BY DEF MailsInv, QueueOK
<1>5. CASE /\ Due' \subseteq Due /\ MayMail' \subseteq MayMail
           /\ mails' = mails /\ faults <= faults'
  <2>1. dd \in Nat /\ dd <= d /\ mm \in Nat /\ mm <= m
    BY <1>1, <1>5, NoMore
  <2>2. faults' \in Nat /\ faults <= faults' /\ mails' = mails
    BY <1>5
  <2> HIDE DEF d, m, o, dd, mm, oo
  <2>3. mails' + dd + mm <= o + faults
    BY <1>1, <1>4, <2>1, <2>2
  <2>4. o + faults <= oo + faults' /\ o + faults \in Nat /\ oo + faults' \in Nat
    <3>1. o \in Nat /\ oo \in Nat /\ o <= oo
      BY <1>1, <1>3
    <3>2. faults \in Nat /\ faults' \in Nat /\ faults <= faults'
      BY <1>4, <2>2
    <3> QED
      BY <3>1, <3>2, SumsGrow
  <2>5. mails' + dd + mm \in Nat
    BY <1>4, <2>1, <2>2
  <2> QED
    BY <2>3, <2>4, <2>5
<1>6. CASE /\ Due' \subseteq Due \union {j} /\ MayMail' \subseteq MayMail
           /\ mails' = mails /\ faults' = faults + 1
  <2>1. dd \in Nat /\ dd <= d + 1 /\ mm \in Nat /\ mm <= m
    BY <1>1, <1>6, NoMore, OneMore
  <2> HIDE DEF d, m, o, dd, mm, oo
  <2> QED
    BY <1>1, <1>3, <1>4, <1>6, <2>1
<1>7. CASE /\ Due' \subseteq Due \union {j} /\ w \in MayMail /\ MayMail' \subseteq MayMail \ {w}
           /\ mails' = mails /\ faults' = faults
  <2>1. dd \in Nat /\ dd <= d + 1 /\ mm \in Nat /\ mm <= m - 1
    BY <1>1, <1>7, OneFewer, OneMore
  <2> HIDE DEF d, m, o, dd, mm, oo
  <2> QED
    BY <1>1, <1>3, <1>4, <1>7, <2>1
<1>8. CASE /\ j \in Due /\ Due' \subseteq Due \ {j} /\ MayMail' \subseteq MayMail \union {w}
           /\ mails' = mails /\ faults' = faults
  <2>1. dd \in Nat /\ dd <= d - 1 /\ mm \in Nat /\ mm <= m + 1
    BY <1>1, <1>8, OneFewer, OneMore
  <2> HIDE DEF d, m, o, dd, mm, oo
  <2> QED
    BY <1>1, <1>3, <1>4, <1>8, <2>1
<1>9. CASE /\ Due' \subseteq Due /\ w \in MayMail /\ MayMail' \subseteq MayMail \ {w}
           /\ mails' = mails + 1 /\ faults' = faults
  <2>1. dd \in Nat /\ dd <= d /\ mm \in Nat /\ mm <= m - 1
    BY <1>1, <1>9, OneFewer, NoMore
  <2> HIDE DEF d, m, o, dd, mm, oo
  <2> QED
    BY <1>1, <1>3, <1>4, <1>9, <2>1
<1>10. CASE /\ Due' \subseteq Due \union {j} /\ MayMail' \subseteq MayMail
            /\ Ordered' = Ordered \union {j} /\ j \notin Ordered
            /\ mails' = mails /\ faults' = faults
  <2>1. dd \in Nat /\ dd <= d + 1 /\ mm \in Nat /\ mm <= m
    BY <1>1, <1>10, NoMore, OneMore
  <2>2. oo = o + 1
    BY <1>1, <1>10, FS_AddElement
  <2> HIDE DEF d, m, o, dd, mm, oo
  <2> QED
    BY <1>1, <1>3, <1>4, <1>10, <2>1, <2>2
<1> QED
  BY <1>5, <1>6, <1>7, <1>8, <1>9, <1>10

(* How the queue's jobs move. *)
LEMMA RunEnds ==
  ASSUME QueueOK, NEW w \in Workers, pc[w] # "idle", Idle(w),
         Complete(w, cur[w]) \/ Throw(w, cur[w]) \/ UNCHANGED queueVars,
         mails' \in Nat, faults' \in Nat
  PROVE  /\ QueueOK' /\ Ordered \subseteq Ordered'
         /\ Due' \subseteq Due \union {cur[w]} /\ MayMail' \subseteq MayMail \ {w}
         /\ Complete(w, cur[w]) => Due' \subseteq Due
<1> DEFINE j == cur[w]
<1>1. j \in Jobs /\ j # None
  BY DEF QueueOK
<1>2. /\ pc'[w] = "idle" /\ cur'[w] = None
      /\ \A v \in Workers \ {w} : pc'[v] = pc[v] /\ cur'[v] = cur[v]
      /\ cur' \in [Workers -> Jobs \union {None}]
      /\ pc' \in [Workers -> Unsent \union {"idle", "mailed", "record"}]
  BY DEF Idle, QueueOK
<1>3. PICK to \in JobState \ {"absent", "active"} :
        \/ lock[j] = w /\ job' = [job EXCEPT ![j] = to] /\ lock' = [lock EXCEPT ![j] = None]
        \/ UNCHANGED <<job, lock>>
  BY DEF Complete, Throw, queueVars, JobState
<1>4. /\ job' \in [Jobs -> JobState] /\ lock' \in [Jobs -> Workers \union {None}]
      /\ \A i \in Jobs : lock'[i] # None => job'[i] = "active"
      /\ \A i \in Jobs : job[i] # "absent" => job'[i] # "absent"
  BY <1>1, <1>3 DEF QueueOK, JobState
<1>5. QueueOK'
  <2>1. \A v \in Workers : /\ pc'[v] = "idle" <=> cur'[v] = None
                           /\ pc'[v] = "mail" => cur'[v] \in Deliveries
    BY <1>2 DEF QueueOK
  <2> QED
    BY <1>2, <1>4, <2>1 DEF QueueOK
<1>6. \A i \in Jobs \ {j} : job'[i] = job[i] /\ lock'[i] = lock[i]
  BY <1>1, <1>3 DEF QueueOK
<1>7. \A i \in Jobs \ {j} : i \in Due' => i \in Due
  <2> SUFFICES ASSUME NEW i \in Jobs \ {j}, i \in Due'
               PROVE  i \in Due
    OBVIOUS
  <2>1. i \in Deliveries /\ job'[i] = job[i] /\ lock'[i] = lock[i]
    BY <1>6 DEF Due
  <2>2. CASE job[i] = "waiting"
    BY <2>1, <2>2 DEF Due
  <2>3. CASE job[i] # "waiting"
    <3>1. job[i] = "active" /\ \A v \in Workers : lock[i] = v => cur'[v] # i
      BY <2>1, <2>3 DEF Due
    <3>2. \A v \in Workers : lock[i] = v => cur[v] # i
      BY <1>2, <3>1
    <3> QED
      BY <2>1, <3>1, <3>2 DEF Due
  <2> QED
    BY <2>2, <2>3
<1>8. Due' \subseteq Due \union {j}
  BY <1>7 DEF Due, Deliveries
<1>9. MayMail' \subseteq MayMail \ {w}
  BY <1>2 DEF MayMail, Unsent
<1>10. ASSUME Complete(w, cur[w]), j \in Due'
       PROVE  j \in Due
  <2>1. CASE lock[j] = w
    <3>1. job' = [job EXCEPT ![j] = "completed"]
      BY <1>10, <2>1 DEF Complete
    <3>2. job'[j] = "completed"
      BY <1>1, <3>1 DEF QueueOK
    <3> QED
      BY <1>10, <3>2 DEF Due
  <2>2. CASE lock[j] # w
    <3>1. UNCHANGED <<job, lock>>
      BY <1>10, <2>2 DEF Complete, queueVars
    <3>2. CASE job[j] = "waiting"
      BY <1>10, <3>1, <3>2 DEF Due
    <3>3. CASE job[j] # "waiting"
      <4>1. job[j] = "active" /\ j \in Deliveries /\ \A v \in Workers : lock[j] = v => cur'[v] # j
        BY <1>10, <3>1, <3>3 DEF Due
      <4>2. \A v \in Workers : lock[j] = v => cur[v] # j
        BY <1>2, <2>2, <4>1
      <4> QED
        BY <4>1, <4>2 DEF Due
    <3> QED
      BY <3>2, <3>3
  <2> QED
    BY <2>1, <2>2
<1>11. Ordered \subseteq Ordered'
  BY <1>4 DEF Ordered, Deliveries
<1> QED
  BY <1>5, <1>8, <1>9, <1>10, <1>11

(* A worker that goes on with its job. *)
LEMMA RunGoesOn ==
  ASSUME QueueOK, NEW w \in Workers, pc[w] # "idle", NEW to \in Unsent \union {"mailed", "record"},
         to = "mail" => cur[w] \in Deliveries,
         pc' = [pc EXCEPT ![w] = to], UNCHANGED <<queueVars, cur>>, mails' \in Nat, faults' \in Nat
  PROVE  /\ QueueOK' /\ Ordered' = Ordered /\ Due' = Due
         /\ pc[w] \in Unsent => MayMail' \subseteq MayMail
         /\ to \notin Unsent => MayMail' \subseteq MayMail \ {w}
<1>1. pc'[w] = to /\ \A v \in Workers \ {w} : pc'[v] = pc[v]
  BY DEF QueueOK
<1>2. to # "idle"
  BY DEF Unsent
<1>3. QueueOK'
  <2>1. \A v \in Workers : /\ pc'[v] = "idle" <=> cur'[v] = None
                           /\ pc'[v] = "mail" => cur'[v] \in Deliveries
    BY <1>1, <1>2 DEF QueueOK
  <2>2. pc' \in [Workers -> Unsent \union {"idle", "mailed", "record"}]
    BY DEF QueueOK
  <2> QED
    BY <2>1, <2>2 DEF QueueOK, queueVars
<1>4. Ordered' = Ordered /\ Due' = Due
  BY DEF Ordered, Due, queueVars
<1>5. /\ pc[w] \in Unsent => MayMail' \subseteq MayMail
      /\ to \notin Unsent => MayMail' \subseteq MayMail \ {w}
  BY <1>1 DEF MayMail
<1> QED
  BY <1>3, <1>4, <1>5

LEMMA MailsStep ==
  ASSUME IsFiniteSet(Jobs), IsFiniteSet(Workers), MailsInv, [Next]_vars
  PROVE  MailsInv'
<1>1. QueueOK /\ mails \in Nat /\ faults \in Nat
  BY DEF MailsInv, QueueOK
<1>2. CASE UNCHANGED <<queueVars, mails, workerVars, faults>>
  BY <1>2 DEF MailsInv, QueueOK, Due, MayMail, Ordered, queueVars, workerVars
<1>3. ASSUME NEW w \in Workers, pc[w] # "idle", Fault, UNCHANGED mails,
             \/ Fails(w)
             \/ Idle(w) /\ UNCHANGED queueVars
      PROVE  MailsInv'
  <2>1. mails' \in Nat /\ faults' \in Nat /\ faults' = faults + 1
    BY <1>1, <1>3 DEF Fault
  <2>2. Idle(w) /\ (Complete(w, cur[w]) \/ Throw(w, cur[w]) \/ UNCHANGED queueVars)
    BY <1>3 DEF Fails
  <2>3. /\ QueueOK' /\ Ordered \subseteq Ordered'
        /\ Due' \subseteq Due \union {cur[w]} /\ MayMail' \subseteq MayMail
    BY <1>1, <1>3, <2>1, <2>2, RunEnds
  <2> QED
    BY <1>3, <2>1, <2>3, Balance DEF MailsInv
<1>4. ASSUME NEW w \in Workers, NEW j \in Jobs, TakeJob(w, j)
      PROVE  MailsInv'
  <2>1. /\ pc[w] = "idle" /\ job[j] = "waiting" /\ job' = [job EXCEPT ![j] = "active"]
        /\ lock' = [lock EXCEPT ![j] = w] /\ cur' = [cur EXCEPT ![w] = j]
        /\ pc' = [pc EXCEPT ![w] = "load"] /\ UNCHANGED <<mails, faults>>
    BY <1>4 DEF TakeJob, Goto, Take
  <2>2. /\ pc'[w] = "load" /\ cur'[w] = j /\ cur[w] = None /\ j # None
        /\ \A v \in Workers \ {w} : pc'[v] = pc[v] /\ cur'[v] = cur[v]
        /\ job'[j] = "active" /\ lock'[j] = w
        /\ \A i \in Jobs \ {j} : job'[i] = job[i] /\ lock'[i] = lock[i]
    BY <1>1, <2>1, QueueAssumption DEF QueueOK
  <2>3. QueueOK'
    <3>1. \A i \in Jobs : lock'[i] # None => job'[i] = "active"
      BY <1>1, <2>2 DEF QueueOK
    <3>2. \A v \in Workers : /\ pc'[v] = "idle" <=> cur'[v] = None
                             /\ pc'[v] = "mail" => cur'[v] \in Deliveries
      BY <1>1, <2>2 DEF QueueOK
    <3> QED
      BY <1>1, <2>1, <3>1, <3>2 DEF QueueOK, JobState, Unsent
  <2>4. Ordered \subseteq Ordered'
    BY <2>2 DEF Ordered, Deliveries
  <2>5. MayMail' \subseteq MayMail \union {w}
    BY <2>2 DEF MayMail
  <2>6. \A i \in Jobs \ {j} : i \in Due' => i \in Due
    <3> SUFFICES ASSUME NEW i \in Jobs \ {j}, i \in Due'
                 PROVE  i \in Due
      OBVIOUS
    <3>1. \A v \in Workers : cur'[v] # i => cur[v] # i
      BY <1>1, <2>2, QueueAssumption DEF QueueOK
    <3> QED
      BY <2>2, <3>1 DEF Due
  <2>7. j \notin Due'
    BY <2>2 DEF Due
  <2>8. Due' \subseteq Due \ {j}
    BY <2>6, <2>7 DEF Due, Deliveries
  <2>9. CASE j \in Deliveries
    <3>1. j \in Due
      BY <2>1, <2>9 DEF Due
    <3> QED
      BY <1>1, <2>1, <2>3, <2>4, <2>5, <2>8, <3>1, Balance DEF MailsInv
  <2>10. CASE j \notin Deliveries
    <3>1. MayMail' \subseteq MayMail
      BY <2>2, <2>10 DEF MayMail
    <3> QED
      BY <1>1, <2>1, <2>3, <2>4, <2>8, <3>1, Balance DEF MailsInv
  <2> QED
    BY <2>9, <2>10
<1>5. ASSUME NEW w \in Workers, LoadPolicy(w)
      PROVE  MailsInv'
  <2>1. pc[w] = "load" /\ UNCHANGED <<mails, faults>>
    BY <1>5 DEF LoadPolicy
  <2>2. CASE deleted /\ Fails(w)
    <3>1. /\ QueueOK' /\ Ordered \subseteq Ordered'
          /\ Due' \subseteq Due \union {cur[w]} /\ MayMail' \subseteq MayMail \ {w}
          /\ Complete(w, cur[w]) => Due' \subseteq Due
      BY <1>1, <2>1, <2>2, RunEnds DEF Fails
    <3>2. CASE cur[w] \in Exports
      <4>1. Due' \subseteq Due
        BY <2>2, <3>1, <3>2 DEF Fails
      <4> QED
        BY <1>1, <2>1, <3>1, <4>1, Balance DEF MailsInv
    <3>3. CASE cur[w] \notin Exports
      <4>1. w \in MayMail
        BY <1>1, <2>1, <3>3 DEF MayMail, QueueOK, Deliveries, Unsent
      <4> QED
        BY <1>1, <2>1, <3>1, <4>1, Balance DEF MailsInv
    <3> QED
      BY <3>2, <3>3
  <2>3. CASE ~deleted
    <3>1. pc' = [pc EXCEPT ![w] = "policy"] /\ UNCHANGED <<queueVars, cur>>
      BY <1>5, <2>3 DEF LoadPolicy, Goto
    <3>2. QueueOK' /\ Ordered' = Ordered /\ Due' = Due /\ MayMail' \subseteq MayMail
      BY <1>1, <2>1, <3>1, RunGoesOn DEF Unsent
    <3> QED
      BY <1>1, <2>1, <3>2, Balance DEF MailsInv
  <2> QED
    BY <1>5, <2>2, <2>3 DEF LoadPolicy
<1>6. ASSUME NEW w \in Workers, UploadPolicy(w) \/ UploadGreenCard(w)
      PROVE  MailsInv'
  <2>1. PICK to \in {"keys", "greenCard"} :
          /\ pc[w] \in {"policy", "greenCard"} /\ pc' = [pc EXCEPT ![w] = to]
          /\ UNCHANGED <<queueVars, cur, mails, faults>>
    BY <1>6 DEF UploadPolicy, UploadGreenCard, Goto
  <2>2. QueueOK' /\ Ordered' = Ordered /\ Due' = Due /\ MayMail' \subseteq MayMail
    BY <1>1, <2>1, RunGoesOn DEF Unsent
  <2> QED
    BY <1>1, <2>1, <2>2, Balance DEF MailsInv
<1>7. ASSUME NEW w \in Workers, UpdatePdfKeys(w)
      PROVE  MailsInv'
  <2>1. pc[w] = "keys" /\ UNCHANGED <<mails, faults>>
    BY <1>7 DEF UpdatePdfKeys
  <2>2. CASE cur[w] \in Exports
    <3>1. Idle(w) /\ Complete(w, cur[w])
      BY <1>7, <2>2 DEF UpdatePdfKeys, Deliveries
    <3>2. /\ QueueOK' /\ Ordered \subseteq Ordered' /\ Due' \subseteq Due /\ MayMail' \subseteq MayMail
      BY <1>1, <2>1, <3>1, RunEnds
    <3> QED
      BY <1>1, <2>1, <3>2, Balance DEF MailsInv
  <2>3. CASE cur[w] \notin Exports
    <3>1. PICK to \in {"mail", "record"} : pc' = [pc EXCEPT ![w] = to] /\ UNCHANGED <<queueVars, cur>>
      BY <1>7, <2>3 DEF UpdatePdfKeys, Goto
    <3>2. cur[w] \in Deliveries
      BY <1>1, <2>1, <2>3 DEF QueueOK, Deliveries
    <3>3. QueueOK' /\ Ordered' = Ordered /\ Due' = Due /\ MayMail' \subseteq MayMail
      BY <1>1, <2>1, <3>1, <3>2, RunGoesOn DEF Unsent
    <3> QED
      BY <1>1, <2>1, <3>3, Balance DEF MailsInv
  <2> QED
    BY <2>2, <2>3
<1>8. ASSUME NEW w \in Workers, SendDocuments(w)
      PROVE  MailsInv'
  <2>1. /\ pc[w] = "mail" /\ pc' = [pc EXCEPT ![w] = "mailed"] /\ mails' = mails + 1
        /\ UNCHANGED <<queueVars, cur, faults>>
    BY <1>8 DEF SendDocuments, Goto
  <2>2. mails' \in Nat /\ faults' \in Nat
    BY <1>1, <2>1
  <2>3. "mailed" \notin Unsent
    BY DEF Unsent
  <2>4. QueueOK' /\ Ordered' = Ordered /\ Due' = Due /\ MayMail' \subseteq MayMail \ {w}
    BY <1>1, <2>1, <2>2, <2>3, RunGoesOn
  <2>5. w \in MayMail
    BY <1>1, <2>1 DEF QueueOK, MayMail, Unsent
  <2> QED
    BY <1>1, <2>1, <2>2, <2>4, <2>5, Balance DEF MailsInv
<1>9. ASSUME NEW w \in Workers, MarkDocumentsEmailed(w)
      PROVE  MailsInv'
  <2>1. /\ pc[w] = "mailed" /\ pc' = [pc EXCEPT ![w] = "record"]
        /\ UNCHANGED <<queueVars, cur, mails, faults>>
    BY <1>9 DEF MarkDocumentsEmailed, Goto
  <2>2. "record" \notin Unsent
    BY DEF Unsent
  <2>3. QueueOK' /\ Ordered' = Ordered /\ Due' = Due /\ MayMail' \subseteq MayMail
    BY <1>1, <2>1, <2>2, RunGoesOn
  <2> QED
    BY <1>1, <2>1, <2>3, Balance DEF MailsInv
<1>10. ASSUME NEW w \in Workers, RecordDelivery(w)
       PROVE  MailsInv'
  <2>1. pc[w] = "record" /\ Idle(w) /\ Complete(w, cur[w]) /\ UNCHANGED <<mails, faults>>
    BY <1>10 DEF RecordDelivery
  <2>2. /\ QueueOK' /\ Ordered \subseteq Ordered' /\ Due' \subseteq Due /\ MayMail' \subseteq MayMail
    BY <1>1, <2>1, RunEnds
  <2> QED
    BY <1>1, <2>1, <2>2, Balance DEF MailsInv
<1>11. ASSUME NEW j \in Jobs, Order(j)
       PROVE  MailsInv'
  <2>1. /\ job[j] = "absent" /\ job' = [job EXCEPT ![j] = "waiting"]
        /\ UNCHANGED <<lock, workerVars, mails, faults>>
    BY <1>1, <1>11 DEF Order, Add, QueueOK
  <2>2. job'[j] = "waiting" /\ \A i \in Jobs \ {j} : job'[i] = job[i]
    BY <1>1, <2>1 DEF QueueOK
  <2>3. QueueOK'
    BY <1>1, <2>1, <2>2 DEF QueueOK, JobState, workerVars
  <2>4. MayMail' \subseteq MayMail /\ Due' \subseteq Due \union {j}
    BY <2>1, <2>2 DEF MayMail, Due, Deliveries, workerVars
  <2>5. CASE j \in Deliveries
    <3>1. Ordered' = Ordered \union {j} /\ j \notin Ordered
      BY <2>1, <2>2, <2>5 DEF Ordered, Deliveries
    <3> QED
      BY <1>1, <2>1, <2>3, <2>4, <3>1, Balance DEF MailsInv
  <2>6. CASE j \notin Deliveries
    <3>1. Ordered' = Ordered
      BY <2>2, <2>6 DEF Ordered, Deliveries
    <3>2. Due' \subseteq Due
      BY <2>4, <2>6 DEF Due
    <3> QED
      BY <1>1, <2>1, <2>3, <2>4, <3>1, <3>2, Balance DEF MailsInv
  <2> QED
    BY <2>5, <2>6
<1>12. ASSUME NEW j \in Jobs, Recover(j) \/ LoseLock(j)
       PROVE  MailsInv'
  <2>1. PICK to \in {"waiting", "failed"} :
          /\ job[j] = "active" /\ job' = [job EXCEPT ![j] = to] /\ lock' = [lock EXCEPT ![j] = None]
          /\ UNCHANGED <<workerVars, mails>>
    BY <1>12 DEF Recover, LoseLock, Reclaim
  <2>2. /\ job'[j] = to /\ lock'[j] = None
        /\ \A i \in Jobs \ {j} : job'[i] = job[i] /\ lock'[i] = lock[i]
    BY <1>1, <2>1 DEF QueueOK
  <2>3. faults' \in Nat /\ (faults' = faults \/ faults' = faults + 1)
    BY <1>1, <1>12 DEF Recover, LoseLock, Fault
  <2>4. QueueOK'
    BY <1>1, <2>1, <2>2, <2>3 DEF QueueOK, JobState, workerVars
  <2>5. /\ MayMail' \subseteq MayMail /\ Due' \subseteq Due \union {j} /\ Ordered \subseteq Ordered'
    BY <2>1, <2>2 DEF MayMail, Due, Ordered, Deliveries, workerVars
  <2>6. CASE faults' = faults + 1
    BY <1>1, <2>1, <2>3, <2>4, <2>5, <2>6, Balance DEF MailsInv
  <2>7. CASE faults' = faults
    <3>1. \A w \in Workers : lock[j] = w => cur[w] # j
      BY <1>1, <1>12, <2>7 DEF Recover, LoseLock, Fault
    <3>2. j \in Due' => j \in Due
      BY <2>1, <3>1 DEF Due
    <3>3. Due' \subseteq Due
      BY <2>5, <3>2
    <3> QED
      BY <1>1, <2>1, <2>4, <2>5, <2>7, <3>3, Balance DEF MailsInv
  <2> QED
    BY <2>3, <2>6, <2>7
<1>13. ASSUME NEW w \in Workers, HandlerThrows(w) \/ CrashWorker(w)
       PROVE  MailsInv'
  BY <1>3, <1>13 DEF HandlerThrows, CrashWorker
<1>14. CASE DeletePolicy \/ UNCHANGED vars
  BY <1>2, <1>14 DEF DeletePolicy, vars
<1> QED
  BY <1>4, <1>5, <1>6, <1>7, <1>8, <1>9, <1>10, <1>11, <1>12, <1>13, <1>14
     DEF Next, HandlerAction

(* A client is mailed the documents of one order again only after a fault  *)
(* cut a run short: whatever overlaps, the mails are at most the orders    *)
(* and the faults together (pdf-generation.service.ts:76-125).             *)
THEOREM MailsAreExplained ==
  ASSUME IsFiniteSet(Jobs), IsFiniteSet(Workers)
  PROVE  Spec => []RepeatedMailsExplained
<1>1. Init => MailsInv
  <2> SUFFICES ASSUME Init
               PROVE  MailsInv
    OBVIOUS
  <2>1. QueueOK
    BY QueueAssumption DEF Init, QueueInit, QueueOK, JobState, Unsent
  <2>2. Due = {} /\ MayMail = {} /\ Ordered = {}
    BY DEF Init, QueueInit, Due, MayMail, Ordered, Unsent, Deliveries
  <2> QED
    BY <2>1, <2>2, FS_EmptySet DEF Init, MailsInv
<1>2. MailsInv /\ [Next]_vars => MailsInv'
  BY MailsStep
<1>3. MailsInv => RepeatedMailsExplained
  BY RunsAreFinite DEF MailsInv, QueueOK, RepeatedMailsExplained, Ordered
<1> QED
  BY <1>1, <1>2, <1>3, PTL DEF Spec

-----------------------------------------------------------------------------
(***************************************************************************)
(* The sticker of a policy, by the instance of StickerDelivery that the    *)
(* orders are checked with.  A row belongs to one run, and says "pending"  *)
(* while the run is between its creation and its end.                      *)
(***************************************************************************)
LEMMA NewRow ==
  ASSUME NEW S, NEW s \in Seq(S), NEW e \in S
  PROVE  /\ Append(s, e) \in Seq(S) /\ Len(s) \in Nat
         /\ DOMAIN s = 1..Len(s) /\ DOMAIN Append(s, e) = 1..(Len(s) + 1)
         /\ Len(Append(s, e)) = Len(s) + 1
         /\ Append(s, e)[Len(s) + 1] = e
         /\ \A i \in DOMAIN s : Append(s, e)[i] = s[i]
  OBVIOUS

LEMMA MarkedRow ==
  ASSUME NEW S, NEW s \in Seq(S), NEW e \in S, NEW i \in DOMAIN s
  PROVE  /\ [s EXCEPT ![i] = e] \in Seq(S) /\ DOMAIN [s EXCEPT ![i] = e] = DOMAIN s
         /\ [s EXCEPT ![i] = e][i] = e
         /\ \A k \in DOMAIN s \ {i} : [s EXCEPT ![i] = e][k] = s[k]
  OBVIOUS

RowState == {"pending", "dispatched", "failed"}

Attempting == {"carrier", "dispatched", "failed"}

Steps == {"check", "create", "manual"} \union Attempting

RowsInv ==
  /\ stickerJob \in [StickerJobs -> Sticker!JobState]
  /\ stickerLock \in [StickerJobs -> Workers \union {None}]
  /\ stickerTries \in [StickerJobs -> Nat] /\ stickerStalls \in [StickerJobs -> Nat]
  /\ stickerPc \in [Workers -> Steps \union {"idle"}]
  /\ stickerCur \in [Workers -> StickerJobs \union {None}]
  /\ row \in [Workers -> Nat]
  /\ shipments \in Seq(RowState)
  /\ parcels \subseteq DOMAIN shipments
  /\ manual \in Nat /\ stickerFaults \in Nat
  /\ \A w \in Workers : stickerPc[w] = "idle" <=> stickerCur[w] = None
  /\ \A j \in StickerJobs : stickerLock[j] # None => stickerJob[j] = "active"
  /\ \A w \in Workers : stickerPc[w] \in Attempting =>
       row[w] \in DOMAIN shipments /\ shipments[row[w]] = "pending"
  /\ \A w \in Workers : stickerPc[w] = "dispatched" => row[w] \in parcels
  /\ \A v, w \in Workers :
       stickerPc[v] \in Attempting /\ stickerPc[w] \in Attempting /\ row[v] = row[w] => v = w

(* A worker that leaves its job, and what becomes of the job *)
LEMMA Leaves ==
  ASSUME RowsInv, NEW w \in Workers, stickerPc[w] # "idle", Sticker!Idle(w),
         Sticker!Complete(w, stickerCur[w]) \/ Sticker!Throw(w, stickerCur[w])
         \/ UNCHANGED Sticker!queueVars
  PROVE  /\ stickerPc'[w] = "idle" /\ stickerCur'[w] = None
         /\ \A v \in Workers \ {w} : stickerPc'[v] = stickerPc[v]
              /\ stickerCur'[v] = stickerCur[v] /\ row'[v] = row[v]
         /\ stickerPc' \in [Workers -> Steps \union {"idle"}]
         /\ stickerCur' \in [Workers -> StickerJobs \union {None}]
         /\ row' \in [Workers -> Nat]
         /\ stickerJob' \in [StickerJobs -> Sticker!JobState]
         /\ stickerLock' \in [StickerJobs -> Workers \union {None}]
         /\ stickerTries' \in [StickerJobs -> Nat] /\ stickerStalls' \in [StickerJobs -> Nat]
         /\ \A j \in StickerJobs : stickerLock'[j] # None => stickerJob'[j] = "active"
         /\ \A j \in StickerJobs : stickerJob[j] # "absent" => stickerJob'[j] # "absent"
         /\ \A j \in StickerJobs \ {stickerCur[w]} : stickerJob'[j] = stickerJob[j]
              /\ stickerLock'[j] = stickerLock[j]
         /\ \A j \in StickerJobs \ {stickerCur[w]} : stickerTries'[j] = stickerTries[j]
         /\ stickerStalls' = stickerStalls
<1>1. stickerCur[w] \in StickerJobs /\ stickerCur[w] # None
  BY DEF RowsInv
<1>2. PICK to \in Sticker!JobState \ {"absent", "active"} :
        \/ stickerLock[stickerCur[w]] = w
             /\ stickerJob' = [stickerJob EXCEPT ![stickerCur[w]] = to]
             /\ stickerLock' = [stickerLock EXCEPT ![stickerCur[w]] = None]
        \/ UNCHANGED <<stickerJob, stickerLock>>
  BY DEF Sticker!Complete, Sticker!Throw, Sticker!queueVars, Sticker!JobState
<1>3. stickerStalls' = stickerStalls
      /\ (stickerTries' = stickerTries
      \/ stickerTries' = [stickerTries EXCEPT ![stickerCur[w]] = @ + 1])
  BY DEF Sticker!Complete, Sticker!Throw, Sticker!queueVars
<1>4. stickerTries[stickerCur[w]] + 1 \in Nat
  BY <1>1 DEF RowsInv
<1>5. /\ stickerTries' \in [StickerJobs -> Nat] /\ stickerStalls' \in [StickerJobs -> Nat]
      /\ \A j \in StickerJobs \ {stickerCur[w]} : stickerTries'[j] = stickerTries[j]
  BY <1>1, <1>3, <1>4 DEF RowsInv
<1>6. /\ stickerPc'[w] = "idle" /\ stickerCur'[w] = None
      /\ \A v \in Workers \ {w} : stickerPc'[v] = stickerPc[v]
           /\ stickerCur'[v] = stickerCur[v] /\ row'[v] = row[v]
      /\ stickerPc' \in [Workers -> Steps \union {"idle"}]
      /\ stickerCur' \in [Workers -> StickerJobs \union {None}]
      /\ row' \in [Workers -> Nat]
  BY DEF Sticker!Idle, RowsInv
<1>7. /\ stickerJob' \in [StickerJobs -> Sticker!JobState]
      /\ stickerLock' \in [StickerJobs -> Workers \union {None}]
      /\ \A j \in StickerJobs : stickerLock'[j] # None => stickerJob'[j] = "active"
      /\ \A j \in StickerJobs : stickerJob[j] # "absent" => stickerJob'[j] # "absent"
      /\ \A j \in StickerJobs \ {stickerCur[w]} : stickerJob'[j] = stickerJob[j]
           /\ stickerLock'[j] = stickerLock[j]
  BY <1>1, <1>2 DEF RowsInv, Sticker!JobState
<1> QED
  BY <1>3, <1>5, <1>6, <1>7

LEMMA LeavesRows ==
  ASSUME RowsInv, NEW w \in Workers, stickerPc[w] # "idle", Sticker!Idle(w),
         Sticker!Complete(w, stickerCur[w]) \/ Sticker!Throw(w, stickerCur[w])
         \/ UNCHANGED Sticker!queueVars,
         NEW to \in RowState,
         \/ UNCHANGED shipments
         \/ stickerPc[w] \in Attempting /\ shipments' = [shipments EXCEPT ![row[w]] = to],
         UNCHANGED parcels, manual' \in Nat, stickerFaults' \in Nat
  PROVE  RowsInv'
<1>1. /\ stickerPc'[w] = "idle" /\ stickerCur'[w] = None
      /\ \A v \in Workers \ {w} : stickerPc'[v] = stickerPc[v]
           /\ stickerCur'[v] = stickerCur[v] /\ row'[v] = row[v]
      /\ stickerPc' \in [Workers -> Steps \union {"idle"}]
      /\ stickerCur' \in [Workers -> StickerJobs \union {None}]
      /\ row' \in [Workers -> Nat]
      /\ stickerJob' \in [StickerJobs -> Sticker!JobState]
      /\ stickerLock' \in [StickerJobs -> Workers \union {None}]
      /\ stickerTries' \in [StickerJobs -> Nat] /\ stickerStalls' \in [StickerJobs -> Nat]
      /\ \A j \in StickerJobs : stickerLock'[j] # None => stickerJob'[j] = "active"
  BY Leaves
<1>2. /\ shipments' \in Seq(RowState) /\ DOMAIN shipments' = DOMAIN shipments
      /\ \A v \in Workers \ {w} : stickerPc[v] \in Attempting
           => shipments'[row[v]] = shipments[row[v]]
  <2>1. CASE UNCHANGED shipments
    BY <2>1 DEF RowsInv
  <2>2. CASE stickerPc[w] \in Attempting /\ shipments' = [shipments EXCEPT ![row[w]] = to]
    <3>1. row[w] \in DOMAIN shipments
      BY <2>2 DEF RowsInv
    <3>2. /\ shipments' \in Seq(RowState) /\ DOMAIN shipments' = DOMAIN shipments
          /\ \A k \in DOMAIN shipments \ {row[w]} : shipments'[k] = shipments[k]
      BY <2>2, <3>1, MarkedRow DEF RowsInv
    <3>3. \A v \in Workers \ {w} : stickerPc[v] \in Attempting => row[v] # row[w]
          /\ row[v] \in DOMAIN shipments
      BY <2>2 DEF RowsInv
    <3> QED
      BY <3>2, <3>3
  <2> QED
    BY <2>1, <2>2
<1>3. \A v \in Workers : stickerPc'[v] \in Attempting => v # w /\ stickerPc[v] \in Attempting
      /\ row'[v] = row[v]
  BY <1>1 DEF Attempting
<1>4. ASSUME NEW v \in Workers
      PROVE  stickerPc'[v] = "idle" <=> stickerCur'[v] = None
  <2>1. CASE v = w
    BY <1>1, <2>1
  <2>2. CASE v # w
    <3>1. stickerPc'[v] = stickerPc[v] /\ stickerCur'[v] = stickerCur[v]
      BY <1>1, <2>2
    <3>2. stickerPc[v] = "idle" <=> stickerCur[v] = None
      BY DEF RowsInv
    <3> QED
      BY <3>1, <3>2
  <2> QED
    BY <2>1, <2>2
<1>5. \A v \in Workers : stickerPc'[v] \in Attempting =>
        row'[v] \in DOMAIN shipments' /\ shipments'[row'[v]] = "pending"
  BY <1>2, <1>3 DEF RowsInv
<1>6. \A v \in Workers : stickerPc'[v] = "dispatched" => row'[v] \in parcels'
  BY <1>1, <1>3 DEF RowsInv, Attempting
<1>7. \A u, v \in Workers :
        stickerPc'[u] \in Attempting /\ stickerPc'[v] \in Attempting /\ row'[u] = row'[v]
        => u = v
  BY <1>3 DEF RowsInv
<1>8. parcels' \subseteq DOMAIN shipments'
  BY <1>2 DEF RowsInv
<1> QED
  BY <1>1, <1>2, <1>4, <1>5, <1>6, <1>7, <1>8 DEF RowsInv

(* A worker that goes on with the row it works on. *)
LEMMA GoesOnRows ==
  ASSUME RowsInv, NEW w \in Workers, stickerPc[w] # "idle", NEW to \in Steps,
         stickerPc' = [stickerPc EXCEPT ![w] = to], UNCHANGED <<Sticker!queueVars, stickerCur,
         row>>,
         to \in Attempting => stickerPc[w] \in Attempting,
         parcels \subseteq parcels', parcels' \subseteq DOMAIN shipments,
         to = "dispatched" => row[w] \in parcels',
         NEW mark \in RowState,
         \/ UNCHANGED shipments
         \/ /\ stickerPc[w] \in Attempting /\ to \notin Attempting
            /\ shipments' = [shipments EXCEPT ![row[w]] = mark],
         manual' \in Nat, stickerFaults' \in Nat
  PROVE  RowsInv'
<1>1. /\ stickerPc'[w] = to /\ \A v \in Workers \ {w} : stickerPc'[v] = stickerPc[v]
      /\ stickerPc' \in [Workers -> Steps \union {"idle"}]
  BY DEF RowsInv
<1>2. to # "idle"
  BY DEF Steps, Attempting
<1>3. /\ shipments' \in Seq(RowState) /\ DOMAIN shipments' = DOMAIN shipments
      /\ \A v \in Workers : stickerPc'[v] \in Attempting =>
           /\ stickerPc[v] \in Attempting /\ shipments'[row[v]] = shipments[row[v]]
  <2>1. CASE UNCHANGED shipments
    BY <1>1, <2>1 DEF RowsInv
  <2>2. CASE /\ stickerPc[w] \in Attempting /\ to \notin Attempting
             /\ shipments' = [shipments EXCEPT ![row[w]] = mark]
    <3>1. row[w] \in DOMAIN shipments
      BY <2>2 DEF RowsInv
    <3>2. /\ shipments' \in Seq(RowState) /\ DOMAIN shipments' = DOMAIN shipments
          /\ \A k \in DOMAIN shipments \ {row[w]} : shipments'[k] = shipments[k]
      BY <2>2, <3>1, MarkedRow DEF RowsInv
    <3>3. \A v \in Workers \ {w} : stickerPc[v] \in Attempting => row[v] # row[w]
          /\ row[v] \in DOMAIN shipments
      BY <2>2 DEF RowsInv
    <3> QED
      BY <1>1, <2>2, <3>2, <3>3
  <2> QED
    BY <2>1, <2>2
<1>4. /\ \A v \in Workers : stickerPc'[v] = "idle" <=> stickerCur'[v] = None
      /\ \A v \in Workers : stickerPc'[v] \in Attempting =>
           row'[v] \in DOMAIN shipments' /\ shipments'[row'[v]] = "pending"
  BY <1>1, <1>2, <1>3 DEF RowsInv
<1>5. \A v \in Workers : stickerPc'[v] = "dispatched" => row'[v] \in parcels'
  BY <1>1 DEF RowsInv
<1>6. \A u, v \in Workers :
        stickerPc'[u] \in Attempting /\ stickerPc'[v] \in Attempting /\ row'[u] = row'[v]
        => u = v
  BY <1>3 DEF RowsInv
<1> QED
  BY <1>1, <1>3, <1>4, <1>5, <1>6 DEF RowsInv, Sticker!queueVars

(* A job that moves in the queue while no worker does. *)
LEMMA JobMovesRows ==
  ASSUME RowsInv, NEW j \in StickerJobs, NEW to \in Sticker!JobState \ {"absent", "active"},
         stickerJob' = [stickerJob EXCEPT ![j] = to],
         \/ to = "waiting" /\ stickerJob[j] = "absent" /\ UNCHANGED <<stickerLock,
              stickerStalls>>
         \/ stickerLock' = [stickerLock EXCEPT ![j] = None]
              /\ stickerStalls' = [stickerStalls EXCEPT ![j] = @ + 1],
         UNCHANGED <<stickerTries, Sticker!workerVars, shipments, parcels, manual>>,
         stickerFaults' \in Nat
  PROVE  RowsInv'
<1>1. /\ stickerJob'[j] = to /\ \A i \in StickerJobs \ {j} : stickerJob'[i] = stickerJob[i]
      /\ stickerJob' \in [StickerJobs -> Sticker!JobState]
  BY DEF RowsInv
<1>2. stickerStalls[j] + 1 \in Nat
  BY DEF RowsInv
<1>3. /\ stickerLock' \in [StickerJobs -> Workers \union {None}]
           /\ stickerStalls' \in [StickerJobs -> Nat]
      /\ stickerLock'[j] = None
      /\ \A i \in StickerJobs \ {j} : stickerLock'[i] = stickerLock[i]
  BY <1>2 DEF RowsInv
<1>4. \A i \in StickerJobs : stickerLock'[i] # None => stickerJob'[i] = "active"
  BY <1>1, <1>3 DEF RowsInv
<1> QED
  BY <1>1, <1>3, <1>4 DEF RowsInv, Sticker!workerVars

LEMMA RowsStep ==
  ASSUME RowsInv, [Sticker!Next]_Sticker!vars, None \notin StickerJobs
  PROVE  RowsInv'
<1>1. CASE UNCHANGED Sticker!vars
  BY <1>1 DEF RowsInv, Sticker!vars, Sticker!queueVars, Sticker!workerVars
<1>2. manual \in Nat /\ stickerFaults \in Nat /\ stickerFaults + 1 \in Nat /\ manual + 1 \in Nat
  BY DEF RowsInv
<1>3. "failed" \in RowState /\ "dispatched" \in RowState
  BY DEF RowState
<1>4. ASSUME NEW w \in Workers, Sticker!CheckFeature(w)
      PROVE  RowsInv'
  <2>1. stickerPc[w] = "check" /\ UNCHANGED <<shipments, parcels, manual, stickerFaults>>
    BY <1>4 DEF Sticker!CheckFeature
  <2>2. CASE Sticker!Return(w)
    BY <1>2, <1>3, <2>1, <2>2, LeavesRows DEF Sticker!Return
  <2>3. CASE Sticker!Goto(w, "check", "create") /\ UNCHANGED <<Sticker!queueVars, stickerCur,
             row, skipped>>
    <3>1. "create" \in Steps /\ "create" \notin Attempting
      BY DEF Steps, Attempting
    <3>2. parcels \subseteq DOMAIN shipments
      BY DEF RowsInv
    <3> QED
      BY <1>2, <1>3, <2>1, <2>3, <3>1, <3>2, GoesOnRows DEF Sticker!Goto
  <2> QED
    BY <1>4, <2>2, <2>3 DEF Sticker!CheckFeature
<1>5. ASSUME NEW w \in Workers, Sticker!CreateShipment(w)
      PROVE  RowsInv'
  <2>1. /\ stickerPc[w] = "create" /\ stickerPc' = [stickerPc EXCEPT ![w] = "carrier"]
        /\ shipments' = Append(shipments, "pending")
        /\ row' = [row EXCEPT ![w] = Len(shipments')]
        /\ UNCHANGED <<Sticker!queueVars, stickerCur, parcels, manual, stickerFaults>>
    BY <1>5 DEF Sticker!CreateShipment, Sticker!Goto
  <2>2. /\ shipments' \in Seq(RowState) /\ Len(shipments) \in Nat
        /\ DOMAIN shipments = 1..Len(shipments) /\ DOMAIN shipments' = 1..(Len(shipments) + 1)
        /\ Len(shipments') = Len(shipments) + 1
        /\ shipments'[Len(shipments) + 1] = "pending"
        /\ \A i \in DOMAIN shipments : shipments'[i] = shipments[i]
    <3>1. shipments \in Seq(RowState) /\ "pending" \in RowState
      BY DEF RowsInv, RowState
    <3> QED
      BY <2>1, <3>1, NewRow
  <2>3. /\ stickerPc'[w] = "carrier" /\ row'[w] = Len(shipments) + 1
        /\ \A v \in Workers \ {w} : stickerPc'[v] = stickerPc[v] /\ row'[v] = row[v]
        /\ stickerPc' \in [Workers -> Steps \union {"idle"}] /\ row' \in [Workers -> Nat]
    BY <2>1, <2>2 DEF RowsInv, Steps, Attempting
  <2>4. \A v \in Workers \ {w} : stickerPc[v] \in Attempting =>
          row[v] \in DOMAIN shipments /\ row[v] # Len(shipments) + 1
    BY <2>2 DEF RowsInv
  <2>5. \A v \in Workers : stickerPc'[v] = "idle" <=> stickerCur'[v] = None
    <3> SUFFICES ASSUME NEW v \in Workers
                 PROVE  stickerPc'[v] = "idle" <=> stickerCur[v] = None
      BY <2>1
    <3>1. stickerPc[v] = "idle" <=> stickerCur[v] = None
      BY DEF RowsInv
    <3>2. CASE v = w
      BY <2>1, <2>3, <3>1, <3>2
    <3>3. CASE v # w
      BY <2>3, <3>1, <3>3
    <3> QED
      BY <3>2, <3>3
  <2>6. \A v \in Workers : stickerPc'[v] \in Attempting =>
          row'[v] \in DOMAIN shipments' /\ shipments'[row'[v]] = "pending"
    <3>1. row'[w] \in DOMAIN shipments' /\ shipments'[row'[w]] = "pending"
      BY <2>2, <2>3
    <3>2. \A v \in Workers \ {w} : stickerPc[v] \in Attempting =>
            row[v] \in DOMAIN shipments' /\ shipments'[row[v]] = "pending"
      BY <2>2, <2>4 DEF RowsInv
    <3> QED
      BY <2>3, <3>1, <3>2
  <2>7. \A v \in Workers : stickerPc'[v] = "dispatched" => row'[v] \in parcels'
    BY <2>1, <2>3 DEF RowsInv
  <2>8. \A u, v \in Workers :
          stickerPc'[u] \in Attempting /\ stickerPc'[v] \in Attempting /\ row'[u] = row'[v]
          => u = v
    <3> SUFFICES ASSUME NEW u \in Workers, NEW v \in Workers, stickerPc'[u] \in Attempting,
                        stickerPc'[v] \in Attempting, row'[u] = row'[v], u # v
                 PROVE  FALSE
      OBVIOUS
    <3>1. CASE u = w
      BY <2>3, <2>4, <3>1
    <3>2. CASE v = w
      BY <2>3, <2>4, <3>2
    <3>3. CASE u # w /\ v # w
      BY <2>3, <3>3 DEF RowsInv
    <3> QED
      BY <3>1, <3>2, <3>3
  <2>9. parcels' \subseteq DOMAIN shipments'
    BY <2>1, <2>2 DEF RowsInv
  <2> QED
    BY <2>1, <2>2, <2>3, <2>5, <2>6, <2>7, <2>8, <2>9 DEF RowsInv, Sticker!queueVars
<1>6. ASSUME NEW w \in Workers, Sticker!CallCarrier(w)
      PROVE  RowsInv'
  <2>1. PICK parcel \in BOOLEAN, answer \in BOOLEAN :
          /\ Sticker!Goto(w, "carrier", IF parcel /\ answer THEN "dispatched" ELSE "failed")
          /\ parcels' = IF parcel THEN parcels \union {row[w]} ELSE parcels
    BY <1>6 DEF Sticker!CallCarrier
  <2>2. UNCHANGED <<Sticker!queueVars, stickerCur, row, shipments, skipped, manual,
        stickerFaults>>
    BY <1>6 DEF Sticker!CallCarrier
  <2>3. stickerPc[w] = "carrier" /\ row[w] \in DOMAIN shipments
        /\ parcels \subseteq DOMAIN shipments
    BY <2>1 DEF Sticker!Goto, RowsInv, Attempting
  <2>4. PICK to \in {"dispatched", "failed"} :
          stickerPc' = [stickerPc EXCEPT ![w] = to]
          /\ (to = "dispatched" => row[w] \in parcels')
    BY <2>1 DEF Sticker!Goto
  <2>5. parcels \subseteq parcels' /\ parcels' \subseteq DOMAIN shipments
    BY <2>1, <2>3
  <2>6. to \in Steps /\ stickerPc[w] \in Attempting
    BY <2>3 DEF Steps, Attempting
  <2> QED
    BY <1>2, <1>3, <2>2, <2>3, <2>4, <2>5, <2>6, GoesOnRows
<1>7. ASSUME NEW w \in Workers, Sticker!MarkDispatched(w)
      PROVE  RowsInv'
  <2>1. /\ stickerPc[w] = "dispatched" /\ Sticker!Idle(w) /\ Sticker!Complete(w, stickerCur[w])
        /\ shipments' = [shipments EXCEPT ![row[w]] = "dispatched"]
        /\ UNCHANGED <<parcels, manual, stickerFaults>>
    BY <1>7 DEF Sticker!MarkDispatched, Sticker!Return
  <2> QED
    BY <1>2, <1>3, <2>1, LeavesRows DEF Attempting
<1>8. ASSUME NEW w \in Workers, Sticker!MarkFailed(w)
      PROVE  RowsInv'
  <2>1. /\ stickerPc[w] = "failed" /\ stickerPc' = [stickerPc EXCEPT ![w] = "manual"]
        /\ shipments' = [shipments EXCEPT ![row[w]] = "failed"]
        /\ UNCHANGED <<Sticker!queueVars, stickerCur, row, parcels, manual, stickerFaults>>
    BY <1>8 DEF Sticker!MarkFailed, Sticker!Goto
  <2>2. "manual" \in Steps /\ "manual" \notin Attempting /\ stickerPc[w] \in Attempting
    BY <2>1 DEF Steps, Attempting
  <2>3. parcels \subseteq DOMAIN shipments
    BY DEF RowsInv
  <2> QED
    BY <1>2, <1>3, <2>1, <2>2, <2>3, GoesOnRows
<1>9. ASSUME NEW w \in Workers, Sticker!AskBroker(w)
      PROVE  RowsInv'
  <2>1. /\ stickerPc[w] = "manual" /\ Sticker!Idle(w) /\ Sticker!Throw(w, stickerCur[w])
             /\ manual' = manual + 1
        /\ UNCHANGED <<shipments, parcels, stickerFaults>>
    BY <1>9 DEF Sticker!AskBroker, Sticker!ThrowError
  <2> QED
    BY <1>2, <1>3, <2>1, LeavesRows
<1>10. ASSUME NEW w \in Workers, Sticker!HandlerThrows(w)
       PROVE  RowsInv'
  <2>1. stickerPc[w] # "idle" /\ stickerFaults' = stickerFaults + 1 /\ UNCHANGED <<shipments,
        parcels, manual>>
    BY <1>10 DEF Sticker!HandlerThrows, Sticker!Fault
  <2>2. CASE stickerPc[w] = "dispatched"
    <3>1. stickerPc' = [stickerPc EXCEPT ![w] = "failed"] /\ UNCHANGED <<Sticker!queueVars,
          stickerCur, row>>
      BY <1>10, <2>2 DEF Sticker!HandlerThrows, Sticker!Goto
    <3>2. "failed" \in Steps /\ stickerPc[w] \in Attempting
          /\ parcels \subseteq DOMAIN shipments
      BY <2>2 DEF Steps, Attempting, RowsInv
    <3> QED
      BY <1>2, <1>3, <2>1, <3>1, <3>2, GoesOnRows
  <2>3. CASE stickerPc[w] # "dispatched"
    <3>1. Sticker!Idle(w) /\ Sticker!Throw(w, stickerCur[w])
      BY <1>10, <2>3 DEF Sticker!HandlerThrows, Sticker!ThrowError
    <3> QED
      BY <1>2, <1>3, <2>1, <3>1, LeavesRows
  <2> QED
    BY <2>2, <2>3
<1>11. ASSUME NEW w \in Workers, Sticker!CrashWorker(w)
       PROVE  RowsInv'
  <2>1. /\ stickerPc[w] # "idle" /\ stickerFaults' = stickerFaults + 1 /\ Sticker!Idle(w)
        /\ UNCHANGED <<Sticker!queueVars, shipments, parcels, manual>>
    BY <1>11 DEF Sticker!CrashWorker, Sticker!Fault
  <2> QED
    BY <1>2, <1>3, <2>1, LeavesRows
<1>12. ASSUME NEW w \in Workers, NEW j \in StickerJobs, Sticker!TakeJob(w, j)
       PROVE  RowsInv'
  <2>1. /\ stickerPc[w] = "idle" /\ stickerPc' = [stickerPc EXCEPT ![w] = "check"]
        /\ stickerJob' = [stickerJob EXCEPT ![j] = "active"]
             /\ stickerLock' = [stickerLock EXCEPT ![j] = w]
        /\ stickerCur' = [stickerCur EXCEPT ![w] = j]
        /\ UNCHANGED <<stickerTries, stickerStalls, shipments, parcels, manual, row,
             stickerFaults>>
    BY <1>12 DEF Sticker!TakeJob, Sticker!Goto, Sticker!Take
  <2>2. /\ stickerPc'[w] = "check" /\ stickerCur'[w] = j
        /\ \A v \in Workers \ {w} : stickerPc'[v] = stickerPc[v]
             /\ stickerCur'[v] = stickerCur[v]
        /\ stickerPc' \in [Workers -> Steps \union {"idle"}]
        /\ stickerCur' \in [Workers -> StickerJobs \union {None}]
    BY <2>1 DEF RowsInv, Steps
  <2>3. /\ stickerJob' \in [StickerJobs -> Sticker!JobState]
             /\ stickerLock' \in [StickerJobs -> Workers \union {None}]
        /\ \A i \in StickerJobs : stickerLock'[i] # None => stickerJob'[i] = "active"
    BY <2>1 DEF RowsInv, Sticker!JobState
  <2>4. \A v \in Workers : stickerPc'[v] = "idle" <=> stickerCur'[v] = None
    <3> SUFFICES ASSUME NEW v \in Workers
                 PROVE  stickerPc'[v] = "idle" <=> stickerCur'[v] = None
      OBVIOUS
    <3>1. CASE v = w
      BY <2>2, <3>1
    <3>2. CASE v # w
      BY <2>2, <3>2 DEF RowsInv
    <3> QED
      BY <3>1, <3>2
  <2>5. \A v \in Workers : stickerPc'[v] \in Attempting => v # w
        /\ stickerPc[v] = stickerPc'[v] /\ row'[v] = row[v]
    BY <2>1, <2>2 DEF Attempting
  <2>6. \A v \in Workers : stickerPc'[v] = "dispatched" => v # w /\ stickerPc[v] = "dispatched"
    BY <2>2
  <2> QED
    BY <2>1, <2>2, <2>3, <2>4, <2>5, <2>6 DEF RowsInv
<1>13. ASSUME NEW j \in StickerJobs, Sticker!Order(j)
       PROVE  RowsInv'
  <2>1. /\ stickerJob[j] = "absent" /\ stickerJob' = [stickerJob EXCEPT ![j] = "waiting"]
        /\ UNCHANGED <<stickerTries, stickerStalls, stickerLock, shipments, parcels, manual,
             Sticker!workerVars, stickerFaults>>
    BY <1>13 DEF Sticker!Order, Sticker!Add, RowsInv
  <2> QED
    BY <1>2, <2>1, JobMovesRows DEF Sticker!JobState
<1>14. ASSUME NEW j \in StickerJobs, Sticker!Recover(j) \/ Sticker!LoseLock(j)
       PROVE  RowsInv'
  <2>1. PICK to \in {"waiting", "failed"} :
          /\ stickerJob' = [stickerJob EXCEPT ![j] = to]
               /\ stickerLock' = [stickerLock EXCEPT ![j] = None]
          /\ stickerStalls' = [stickerStalls EXCEPT ![j] = @ + 1]
          /\ UNCHANGED <<stickerTries, shipments, parcels, manual, Sticker!workerVars>>
    BY <1>14 DEF Sticker!Recover, Sticker!LoseLock, Sticker!Reclaim
  <2>2. stickerFaults' \in Nat
    BY <1>2, <1>14 DEF Sticker!Recover, Sticker!LoseLock, Sticker!Fault
  <2> QED
    BY <2>1, <2>2, JobMovesRows DEF Sticker!JobState
<1> QED
  BY <1>1, <1>4, <1>5, <1>6, <1>7, <1>8, <1>9, <1>10, <1>11, <1>12, <1>13, <1>14
     DEF Sticker!Next, Sticker!HandlerAction

Settled == Sticker!Dispatched # {} \/ manual > 0 \/ skipped = TRUE

Orphan(j) == stickerJob[j] = "active" /\ \A w \in Workers : stickerLock[j] = w
=> stickerCur[w] # j

CutShort(j) ==
  /\ stickerTries[j] + stickerStalls[j] <= stickerFaults
  /\ Orphan(j) => stickerTries[j] + stickerStalls[j] < stickerFaults

ForgottenInv ==
  \/ Settled
  \/ \A j \in StickerJobs :
       /\ CutShort(j)
       /\ stickerJob[j] # "completed"
       /\ stickerJob[j] = "failed" => stickerTries[j] + stickerStalls[j] > 1

LEMMA SettledStays ==
  ASSUME RowsInv, [Sticker!Next]_Sticker!vars, Settled
  PROVE  Settled'
<1>1. CASE UNCHANGED <<shipments, manual, skipped>>
  BY <1>1 DEF Settled, Sticker!Dispatched
<1>2. ASSUME NEW w \in Workers, Sticker!CheckFeature(w)
      PROVE  Settled'
  BY <1>2 DEF Sticker!CheckFeature, Settled, Sticker!Dispatched
<1>3. ASSUME NEW w \in Workers, Sticker!CreateShipment(w)
      PROVE  Settled'
  <2>1. \A i \in DOMAIN shipments : i \in DOMAIN shipments' /\ shipments'[i] = shipments[i]
    <3>1. shipments \in Seq(RowState) /\ "pending" \in RowState
          /\ shipments' = Append(shipments, "pending")
      BY <1>3 DEF RowsInv, RowState, Sticker!CreateShipment
    <3> QED
      BY <3>1, NewRow
  <2>2. Sticker!Dispatched \subseteq Sticker!Dispatched'
    BY <2>1 DEF Sticker!Dispatched
  <2> QED
    BY <1>3, <2>2 DEF Sticker!CreateShipment, Settled
<1>4. ASSUME NEW w \in Workers, Sticker!MarkDispatched(w) \/ Sticker!MarkFailed(w)
      PROVE  Settled'
  <2>1. PICK to \in RowState : shipments' = [shipments EXCEPT ![row[w]] = to]
    BY <1>4 DEF Sticker!MarkDispatched, Sticker!MarkFailed, RowState
  <2>2. row[w] \in DOMAIN shipments /\ shipments[row[w]] = "pending"
    BY <1>4 DEF RowsInv, Sticker!MarkDispatched, Sticker!MarkFailed, Sticker!Goto, Attempting
  <2>3. DOMAIN shipments' = DOMAIN shipments
        /\ \A i \in DOMAIN shipments \ {row[w]} : shipments'[i] = shipments[i]
    BY <2>1, <2>2, MarkedRow DEF RowsInv
  <2>4. Sticker!Dispatched \subseteq Sticker!Dispatched'
    BY <2>2, <2>3 DEF Sticker!Dispatched
  <2> QED
    BY <1>4, <2>4 DEF Sticker!MarkDispatched, Sticker!MarkFailed, Settled
<1>5. ASSUME NEW w \in Workers, Sticker!AskBroker(w)
      PROVE  Settled'
  BY <1>5 DEF Sticker!AskBroker, RowsInv, Settled
<1> QED
  BY <1>1, <1>2, <1>3, <1>4, <1>5
     DEF Sticker!Next, Sticker!HandlerAction, Sticker!CallCarrier, Sticker!HandlerThrows,
         Sticker!CrashWorker, Sticker!TakeJob, Sticker!Order,
         Sticker!Recover, Sticker!LoseLock, Sticker!vars

LEMMA ForgottenStep ==
  ASSUME RowsInv, ForgottenInv, [Sticker!Next]_Sticker!vars, None \notin StickerJobs,
         MaxAttempts \in Nat, MaxStalls \in Nat, MaxAttempts > 1, MaxStalls > 0
  PROVE  ForgottenInv'
<1> SUFFICES ASSUME ~Settled'
             PROVE  ForgottenInv'
  BY DEF ForgottenInv
<1>1. /\ ~Settled /\ RowsInv'
      /\ \A j \in StickerJobs :
           /\ CutShort(j) /\ stickerJob[j] # "completed"
           /\ stickerJob[j] = "failed" => stickerTries[j] + stickerStalls[j] > 1
  BY SettledStays, RowsStep DEF ForgottenInv
<1>2. /\ stickerFaults \in Nat
      /\ \A j \in StickerJobs : stickerTries[j] \in Nat /\ stickerStalls[j] \in Nat
  BY DEF RowsInv
<1>3. SUFFICES \A j \in StickerJobs :
                 /\ CutShort(j)' /\ stickerJob'[j] # "completed"
                 /\ stickerJob'[j] = "failed" => stickerTries'[j] + stickerStalls'[j] > 1
  BY DEF ForgottenInv
<1>4. CASE UNCHANGED <<Sticker!queueVars, stickerCur, stickerFaults>>
  BY <1>1, <1>4 DEF CutShort, Orphan, Sticker!queueVars
<1>5. ASSUME NEW w \in Workers, Sticker!CheckFeature(w)
      PROVE  UNCHANGED <<Sticker!queueVars, stickerCur, stickerFaults>>
  BY <1>5 DEF Sticker!CheckFeature, Settled
<1>6. ASSUME NEW w \in Workers, Sticker!MarkDispatched(w)
      PROVE  FALSE
  <2>1. row[w] \in DOMAIN shipments /\ shipments \in Seq(RowState)
    BY <1>6 DEF Sticker!MarkDispatched, RowsInv, Attempting
  <2>2. row[w] \in DOMAIN shipments' /\ shipments'[row[w]] = "dispatched"
    BY <1>6, <2>1, MarkedRow DEF Sticker!MarkDispatched, RowState
  <2> QED
    BY <2>2 DEF Settled, Sticker!Dispatched
<1>7. ASSUME NEW w \in Workers, Sticker!AskBroker(w)
      PROVE  FALSE
  BY <1>7 DEF Sticker!AskBroker, RowsInv, Settled
<1>8. ASSUME NEW w \in Workers, Sticker!CreateShipment(w) \/ Sticker!CallCarrier(w)
             \/ Sticker!MarkFailed(w)
      PROVE  UNCHANGED <<Sticker!queueVars, stickerCur, stickerFaults>>
  BY <1>8 DEF Sticker!CreateShipment, Sticker!CallCarrier, Sticker!MarkFailed
<1>9. ASSUME NEW w \in Workers, Sticker!HandlerThrows(w) \/ Sticker!CrashWorker(w)
      PROVE  \A j \in StickerJobs :
               /\ CutShort(j)' /\ stickerJob'[j] # "completed"
               /\ stickerJob'[j] = "failed" => stickerTries'[j] + stickerStalls'[j] > 1
  <2>1. stickerPc[w] # "idle" /\ stickerFaults' = stickerFaults + 1
    BY <1>9 DEF Sticker!HandlerThrows, Sticker!CrashWorker, Sticker!Fault
  <2>2. CASE UNCHANGED <<Sticker!queueVars, stickerCur>>
    BY <1>1, <1>2, <2>1, <2>2 DEF CutShort, Orphan, Sticker!queueVars
  <2>3. CASE Sticker!Idle(w) /\ (Sticker!Throw(w, stickerCur[w]) \/ UNCHANGED Sticker!queueVars)
    <3>1. /\ stickerStalls' = stickerStalls /\ stickerCur[w] \in StickerJobs
          /\ \A v \in Workers \ {w} : stickerCur'[v] = stickerCur[v]
          /\ stickerCur'[w] = None
          /\ \A j \in StickerJobs \ {stickerCur[w]} : stickerJob'[j] = stickerJob[j]
               /\ stickerLock'[j] = stickerLock[j] /\ stickerTries'[j] = stickerTries[j]
      BY <2>1, <2>3, Leaves DEF RowsInv
    <3>2. \A j \in StickerJobs \ {stickerCur[w]} : Orphan(j)' => Orphan(j)
      BY <3>1 DEF Orphan
    <3>3. \A j \in StickerJobs \ {stickerCur[w]} :
            /\ CutShort(j)' /\ stickerJob'[j] # "completed"
            /\ stickerJob'[j] = "failed" => stickerTries'[j] + stickerStalls'[j] > 1
      BY <1>1, <1>2, <2>1, <3>1, <3>2 DEF CutShort
    <3> PICK j \in StickerJobs : j = stickerCur[w]
      BY <3>1
    <3>4. CASE Sticker!Throw(w, j) /\ stickerLock[j] = w
      <4>1. /\ stickerTries'[j] = stickerTries[j] + 1
                 /\ stickerJob'[j] \in {"waiting", "failed"}
            /\ stickerJob'[j] = "failed" => ~(stickerTries[j] + 1 < MaxAttempts)
        BY <3>1, <3>4 DEF Sticker!Throw, RowsInv
      <4>2. stickerTries[j] + stickerStalls[j] <= stickerFaults
        BY <1>1, <3>1 DEF CutShort
      <4>3. ~Orphan(j)'
        BY <4>1 DEF Orphan
      <4>4. stickerTries'[j] + stickerStalls'[j] <= stickerFaults'
            /\ (stickerJob'[j] = "failed" => stickerTries'[j] + stickerStalls'[j] > 1)
        BY <1>2, <2>1, <3>1, <4>1, <4>2
      <4> QED
        BY <3>3, <4>1, <4>3, <4>4 DEF CutShort
    <3>5. CASE UNCHANGED Sticker!queueVars
      <4>1. stickerTries[j] + stickerStalls[j] <= stickerFaults /\ stickerJob[j] # "completed"
            /\ (stickerJob[j] = "failed" => stickerTries[j] + stickerStalls[j] > 1)
        BY <1>1, <3>1 DEF CutShort
      <4>2. stickerTries'[j] + stickerStalls'[j] < stickerFaults'
        BY <1>2, <2>1, <3>1, <3>5, <4>1 DEF Sticker!queueVars
      <4> QED
        BY <1>2, <2>1, <3>1, <3>3, <3>5, <4>1, <4>2 DEF CutShort, Sticker!queueVars
    <3> QED
      BY <2>3, <3>4, <3>5 DEF Sticker!Throw
  <2> QED
    BY <1>9, <2>2, <2>3 DEF Sticker!HandlerThrows, Sticker!CrashWorker, Sticker!ThrowError
<1>10. ASSUME NEW w \in Workers, NEW i \in StickerJobs, Sticker!TakeJob(w, i)
       PROVE  \A j \in StickerJobs :
                /\ CutShort(j)' /\ stickerJob'[j] # "completed"
                /\ stickerJob'[j] = "failed" => stickerTries'[j] + stickerStalls'[j] > 1
  <2>1. /\ stickerPc[w] = "idle" /\ stickerJob' = [stickerJob EXCEPT ![i] = "active"]
             /\ stickerLock' = [stickerLock EXCEPT ![i] = w]
        /\ stickerCur' = [stickerCur EXCEPT ![w] = i] /\ UNCHANGED <<stickerTries,
             stickerStalls, stickerFaults>>
    BY <1>10 DEF Sticker!TakeJob, Sticker!Goto, Sticker!Take
  <2>2. /\ stickerJob'[i] = "active" /\ stickerLock'[i] = w /\ stickerCur'[w] = i
             /\ stickerCur[w] = None
        /\ \A j \in StickerJobs \ {i} : stickerJob'[j] = stickerJob[j]
             /\ stickerLock'[j] = stickerLock[j]
        /\ \A v \in Workers \ {w} : stickerCur'[v] = stickerCur[v]
    BY <2>1 DEF RowsInv
  <2>3. \A j \in StickerJobs : Orphan(j)' => Orphan(j)
    BY <2>2 DEF Orphan
  <2> QED
    BY <1>1, <2>1, <2>2, <2>3 DEF CutShort
<1>11. ASSUME NEW i \in StickerJobs, Sticker!Order(i)
       PROVE  \A j \in StickerJobs :
                /\ CutShort(j)' /\ stickerJob'[j] # "completed"
                /\ stickerJob'[j] = "failed" => stickerTries'[j] + stickerStalls'[j] > 1
  <2>1. /\ stickerJob' = [stickerJob EXCEPT ![i] = "waiting"] /\ UNCHANGED <<stickerTries,
             stickerStalls, stickerLock, stickerCur, stickerFaults>>
    BY <1>11 DEF Sticker!Order, Sticker!Add, Sticker!workerVars, RowsInv
  <2>2. stickerJob'[i] = "waiting"
        /\ \A j \in StickerJobs \ {i} : stickerJob'[j] = stickerJob[j]
    BY <2>1 DEF RowsInv
  <2>3. \A j \in StickerJobs : Orphan(j)' => Orphan(j)
    BY <2>1, <2>2 DEF Orphan
  <2> QED
    BY <1>1, <2>1, <2>2, <2>3 DEF CutShort
<1>12. ASSUME NEW i \in StickerJobs, Sticker!Recover(i) \/ Sticker!LoseLock(i)
       PROVE  \A j \in StickerJobs :
                /\ CutShort(j)' /\ stickerJob'[j] # "completed"
                /\ stickerJob'[j] = "failed" => stickerTries'[j] + stickerStalls'[j] > 1
  <2>1. /\ stickerJob[i] = "active" /\ stickerStalls' = [stickerStalls EXCEPT ![i] = @ + 1]
        /\ stickerJob' = [stickerJob EXCEPT ![i] = IF stickerStalls[i] < MaxStalls THEN "waiting" ELSE "failed"]
        /\ stickerLock' = [stickerLock EXCEPT ![i] = None] /\ UNCHANGED <<stickerTries,
             stickerCur>>
    BY <1>12 DEF Sticker!Recover, Sticker!LoseLock, Sticker!Reclaim, Sticker!workerVars
  <2>2. /\ stickerStalls'[i] = stickerStalls[i] + 1 /\ stickerJob'[i] \in {"waiting", "failed"}
        /\ stickerJob'[i] = "failed" => ~(stickerStalls[i] < MaxStalls)
        /\ \A j \in StickerJobs \ {i} : stickerStalls'[j] = stickerStalls[j]
             /\ stickerJob'[j] = stickerJob[j] /\ stickerLock'[j] = stickerLock[j]
    BY <2>1 DEF RowsInv
  <2>3. \A j \in StickerJobs \ {i} : Orphan(j)' => Orphan(j)
    BY <2>1, <2>2 DEF Orphan
  <2>4. \/ stickerFaults' = stickerFaults /\ Orphan(i)
        \/ stickerFaults' = stickerFaults + 1
    BY <1>12, <2>1 DEF Sticker!Recover, Sticker!LoseLock, Sticker!Fault, Orphan
  <2>5. \A j \in StickerJobs \ {i} :
          /\ CutShort(j)' /\ stickerJob'[j] # "completed"
          /\ stickerJob'[j] = "failed" => stickerTries'[j] + stickerStalls'[j] > 1
    BY <1>1, <1>2, <2>1, <2>2, <2>3, <2>4 DEF CutShort
  <2>6. stickerTries[i] + stickerStalls[i] < stickerFaults'
    BY <1>1, <1>2, <2>4 DEF CutShort
  <2>7. stickerTries'[i] + stickerStalls'[i] <= stickerFaults'
        /\ (stickerJob'[i] = "failed" => stickerTries'[i] + stickerStalls'[i] > 1)
    <3>1. stickerTries'[i] = stickerTries[i] /\ stickerFaults' \in Nat
      BY <1>1, <2>1 DEF RowsInv
    <3> QED
      BY <1>2, <2>2, <2>6, <3>1
  <2>8. ~Orphan(i)'
    BY <2>2 DEF Orphan
  <2> QED
    BY <2>2, <2>5, <2>7, <2>8 DEF CutShort
<1> QED
  BY <1>4, <1>5, <1>6, <1>7, <1>8, <1>9, <1>10, <1>11, <1>12
     DEF Sticker!Next, Sticker!HandlerAction, Sticker!vars, Sticker!workerVars

Standing == {i \in parcels : shipments[i] # "failed"}
OpenJobs == {j \in StickerJobs : stickerJob[j] = "waiting" \/ Orphan(j)}
MaySend ==
  {w \in Workers : \/ stickerPc[w] \in {"check", "create", "carrier", "manual"}
                   \/ stickerPc[w] = "failed" /\ row[w] \notin parcels}
OrderedJobs == {j \in StickerJobs : stickerJob[j] # "absent"}

ParcelsInv ==
  Cardinality(Standing) + Cardinality(OpenJobs) + Cardinality(MaySend) <=
    Cardinality(OrderedJobs) + stickerFaults

LEMMA AccountIsFinite ==
  ASSUME RowsInv, IsFiniteSet(StickerJobs), IsFiniteSet(Workers)
  PROVE  /\ IsFiniteSet(Standing) /\ IsFiniteSet(OpenJobs)
         /\ IsFiniteSet(MaySend) /\ IsFiniteSet(OrderedJobs)
         /\ Cardinality(Standing) \in Nat /\ Cardinality(OpenJobs) \in Nat
         /\ Cardinality(MaySend) \in Nat /\ Cardinality(OrderedJobs) \in Nat
<1>1. Len(shipments) \in Nat /\ DOMAIN shipments = 1..Len(shipments)
  BY DEF RowsInv
<1>2. IsFiniteSet(1..Len(shipments))
  BY <1>1, FS_Interval
<1>3. Standing \subseteq 1..Len(shipments)
  BY <1>1 DEF Standing, RowsInv
<1>4. OpenJobs \subseteq StickerJobs /\ MaySend \subseteq Workers
      /\ OrderedJobs \subseteq StickerJobs
  BY DEF OpenJobs, MaySend, OrderedJobs
<1>5. /\ IsFiniteSet(Standing) /\ IsFiniteSet(OpenJobs)
      /\ IsFiniteSet(MaySend) /\ IsFiniteSet(OrderedJobs)
  BY <1>2, <1>3, <1>4, FS_Subset
<1> QED
  BY <1>5, FS_CardinalityType

LEMMA AccountHolds ==
  ASSUME RowsInv, RowsInv', ParcelsInv, IsFiniteSet(StickerJobs), IsFiniteSet(Workers),
         OrderedJobs \subseteq OrderedJobs', NEW i, NEW j, NEW w,
         \/ /\ Standing' \subseteq Standing /\ OpenJobs' \subseteq OpenJobs
            /\ MaySend' \subseteq MaySend /\ stickerFaults' = stickerFaults
         \/ /\ Standing' \subseteq Standing /\ OpenJobs' \subseteq OpenJobs \union {j}
            /\ MaySend' \subseteq MaySend /\ stickerFaults' = stickerFaults + 1
         \/ /\ Standing' \subseteq Standing /\ OpenJobs' \subseteq OpenJobs
            /\ MaySend' \subseteq MaySend \union {w} /\ stickerFaults' = stickerFaults + 1
         \/ /\ Standing' \subseteq Standing /\ OpenJobs' \subseteq OpenJobs \union {j}
            /\ w \in MaySend /\ MaySend' \subseteq MaySend \ {w}
                 /\ stickerFaults' = stickerFaults
         \/ /\ Standing' \subseteq Standing /\ j \in OpenJobs
                 /\ OpenJobs' \subseteq OpenJobs \ {j}
            /\ MaySend' \subseteq MaySend \union {w} /\ stickerFaults' = stickerFaults
         \/ /\ Standing' \subseteq Standing \union {i} /\ OpenJobs' \subseteq OpenJobs
            /\ w \in MaySend /\ MaySend' \subseteq MaySend \ {w}
                 /\ stickerFaults' = stickerFaults
         \/ /\ i \in Standing /\ Standing' \subseteq Standing \ {i}
                 /\ OpenJobs' \subseteq OpenJobs
            /\ MaySend' \subseteq MaySend \union {w} /\ stickerFaults' = stickerFaults
         \/ /\ Standing' \subseteq Standing /\ OpenJobs' \subseteq OpenJobs \union {j}
            /\ MaySend' \subseteq MaySend /\ stickerFaults' = stickerFaults
            /\ OrderedJobs' = OrderedJobs \union {j} /\ j \notin OrderedJobs
  PROVE  ParcelsInv'
<1> DEFINE s == Cardinality(Standing)
           d == Cardinality(OpenJobs)
           m == Cardinality(MaySend)
           o == Cardinality(OrderedJobs)
           ss == Cardinality(Standing')
           dd == Cardinality(OpenJobs')
           mm == Cardinality(MaySend')
           oo == Cardinality(OrderedJobs')
<1> SUFFICES ss + dd + mm <= oo + stickerFaults'
  BY DEF ParcelsInv
<1>1. /\ IsFiniteSet(Standing) /\ IsFiniteSet(OpenJobs)
      /\ IsFiniteSet(MaySend) /\ IsFiniteSet(OrderedJobs)
      /\ s \in Nat /\ d \in Nat /\ m \in Nat /\ o \in Nat
  BY AccountIsFinite
<1>2. OrderedJobs' \subseteq StickerJobs
  BY DEF OrderedJobs
<1>3. IsFiniteSet(OrderedJobs') /\ oo \in Nat /\ o <= oo
  BY <1>2, FS_Subset, FS_CardinalityType
<1>4. s + d + m <= o + stickerFaults /\ stickerFaults \in Nat /\ stickerFaults' \in Nat
  BY DEF ParcelsInv, RowsInv
<1>5. CASE /\ Standing' \subseteq Standing /\ OpenJobs' \subseteq OpenJobs
           /\ MaySend' \subseteq MaySend /\ stickerFaults' = stickerFaults
  <2>1. ss \in Nat /\ ss <= s /\ dd \in Nat /\ dd <= d /\ mm \in Nat /\ mm <= m
    BY <1>1, <1>5, NoMore
  <2> HIDE DEF s, d, m, o, ss, dd, mm, oo
  <2> QED
    BY <1>1, <1>3, <1>4, <1>5, <2>1
<1>6. CASE /\ Standing' \subseteq Standing /\ OpenJobs' \subseteq OpenJobs \union {j}
           /\ MaySend' \subseteq MaySend /\ stickerFaults' = stickerFaults + 1
  <2>1. ss \in Nat /\ ss <= s /\ dd \in Nat /\ dd <= d + 1 /\ mm \in Nat /\ mm <= m
    BY <1>1, <1>6, NoMore, OneMore
  <2> HIDE DEF s, d, m, o, ss, dd, mm, oo
  <2> QED
    BY <1>1, <1>3, <1>4, <1>6, <2>1
<1>7. CASE /\ Standing' \subseteq Standing /\ OpenJobs' \subseteq OpenJobs
           /\ MaySend' \subseteq MaySend \union {w} /\ stickerFaults' = stickerFaults + 1
  <2>1. ss \in Nat /\ ss <= s /\ dd \in Nat /\ dd <= d /\ mm \in Nat /\ mm <= m + 1
    BY <1>1, <1>7, NoMore, OneMore
  <2> HIDE DEF s, d, m, o, ss, dd, mm, oo
  <2> QED
    BY <1>1, <1>3, <1>4, <1>7, <2>1
<1>8. CASE /\ Standing' \subseteq Standing /\ OpenJobs' \subseteq OpenJobs \union {j}
           /\ w \in MaySend /\ MaySend' \subseteq MaySend \ {w}
                /\ stickerFaults' = stickerFaults
  <2>1. ss \in Nat /\ ss <= s /\ dd \in Nat /\ dd <= d + 1 /\ mm \in Nat /\ mm <= m - 1
    BY <1>1, <1>8, NoMore, OneMore, OneFewer
  <2> HIDE DEF s, d, m, o, ss, dd, mm, oo
  <2> QED
    BY <1>1, <1>3, <1>4, <1>8, <2>1
<1>9. CASE /\ Standing' \subseteq Standing /\ j \in OpenJobs
                /\ OpenJobs' \subseteq OpenJobs \ {j}
           /\ MaySend' \subseteq MaySend \union {w} /\ stickerFaults' = stickerFaults
  <2>1. ss \in Nat /\ ss <= s /\ dd \in Nat /\ dd <= d - 1 /\ mm \in Nat /\ mm <= m + 1
    BY <1>1, <1>9, NoMore, OneMore, OneFewer
  <2> HIDE DEF s, d, m, o, ss, dd, mm, oo
  <2> QED
    BY <1>1, <1>3, <1>4, <1>9, <2>1
<1>10. CASE /\ Standing' \subseteq Standing \union {i} /\ OpenJobs' \subseteq OpenJobs
            /\ w \in MaySend /\ MaySend' \subseteq MaySend \ {w}
                 /\ stickerFaults' = stickerFaults
  <2>1. ss \in Nat /\ ss <= s + 1 /\ dd \in Nat /\ dd <= d /\ mm \in Nat /\ mm <= m - 1
    BY <1>1, <1>10, NoMore, OneMore, OneFewer
  <2> HIDE DEF s, d, m, o, ss, dd, mm, oo
  <2> QED
    BY <1>1, <1>3, <1>4, <1>10, <2>1
<1>11. CASE /\ i \in Standing /\ Standing' \subseteq Standing \ {i}
                 /\ OpenJobs' \subseteq OpenJobs
            /\ MaySend' \subseteq MaySend \union {w} /\ stickerFaults' = stickerFaults
  <2>1. ss \in Nat /\ ss <= s - 1 /\ dd \in Nat /\ dd <= d /\ mm \in Nat /\ mm <= m + 1
    BY <1>1, <1>11, NoMore, OneMore, OneFewer
  <2> HIDE DEF s, d, m, o, ss, dd, mm, oo
  <2> QED
    BY <1>1, <1>3, <1>4, <1>11, <2>1
<1>12. CASE /\ Standing' \subseteq Standing /\ OpenJobs' \subseteq OpenJobs \union {j}
            /\ MaySend' \subseteq MaySend /\ stickerFaults' = stickerFaults
            /\ OrderedJobs' = OrderedJobs \union {j} /\ j \notin OrderedJobs
  <2>1. ss \in Nat /\ ss <= s /\ dd \in Nat /\ dd <= d + 1 /\ mm \in Nat /\ mm <= m
    BY <1>1, <1>12, NoMore, OneMore
  <2>2. oo = o + 1
    BY <1>1, <1>12, FS_AddElement
  <2> HIDE DEF s, d, m, o, ss, dd, mm, oo
  <2> QED
    BY <1>1, <1>3, <1>4, <1>12, <2>1, <2>2
<1> QED
  BY <1>5, <1>6, <1>7, <1>8, <1>9, <1>10, <1>11, <1>12

(* The jobs that a worker leaves behind. *)
LEMMA LeavesAccount ==
  ASSUME RowsInv, NEW w \in Workers, stickerPc[w] # "idle", Sticker!Idle(w),
         Sticker!Complete(w, stickerCur[w]) \/ Sticker!Throw(w, stickerCur[w])
         \/ UNCHANGED Sticker!queueVars,
         UNCHANGED parcels
  PROVE  /\ OrderedJobs \subseteq OrderedJobs' /\ MaySend' \subseteq MaySend \ {w}
         /\ OpenJobs' \subseteq OpenJobs \union {stickerCur[w]}
         /\ Sticker!Complete(w, stickerCur[w]) => OpenJobs' \subseteq OpenJobs
<1> PICK i \in StickerJobs : i = stickerCur[w]
  BY DEF RowsInv
<1>1. /\ stickerPc'[w] = "idle" /\ stickerCur'[w] = None
      /\ \A v \in Workers \ {w} : stickerPc'[v] = stickerPc[v]
           /\ stickerCur'[v] = stickerCur[v] /\ row'[v] = row[v]
      /\ \A j \in StickerJobs : stickerJob[j] # "absent" => stickerJob'[j] # "absent"
      /\ \A j \in StickerJobs \ {i} : stickerJob'[j] = stickerJob[j]
           /\ stickerLock'[j] = stickerLock[j]
  BY Leaves
<1>2. OrderedJobs \subseteq OrderedJobs'
  BY <1>1 DEF OrderedJobs
<1>3. MaySend' \subseteq MaySend \ {w}
  BY <1>1 DEF MaySend
<1>4. \A j \in StickerJobs \ {i} : Orphan(j)' => Orphan(j)
  BY <1>1 DEF Orphan
<1>5. OpenJobs' \subseteq OpenJobs \union {i}
  BY <1>1, <1>4 DEF OpenJobs
<1>6. ASSUME Sticker!Complete(w, i), i \in OpenJobs'
      PROVE  i \in OpenJobs
  <2>1. CASE stickerLock[i] = w
    <3>1. stickerJob'[i] = "completed"
      BY <1>6, <2>1 DEF Sticker!Complete, RowsInv
    <3> QED
      BY <1>6, <3>1 DEF OpenJobs, Orphan
  <2>2. CASE stickerLock[i] # w
    <3>1. UNCHANGED <<stickerJob, stickerLock>>
      BY <1>6, <2>2 DEF Sticker!Complete, Sticker!queueVars
    <3>2. Orphan(i)' => Orphan(i)
      BY <1>1, <2>2, <3>1 DEF Orphan
    <3> QED
      BY <1>6, <3>1, <3>2 DEF OpenJobs
  <2> QED
    BY <2>1, <2>2
<1> QED
  BY <1>2, <1>3, <1>5, <1>6

LEMMA ParcelsStep ==
  ASSUME RowsInv, ParcelsInv, [Sticker!Next]_Sticker!vars, None \notin StickerJobs,
         IsFiniteSet(StickerJobs), IsFiniteSet(Workers)
  PROVE  ParcelsInv'
<1>1. RowsInv' /\ stickerFaults \in Nat /\ shipments \in Seq(RowState)
  BY RowsStep DEF RowsInv
<1>2. CASE UNCHANGED <<Sticker!queueVars, stickerCur, stickerPc, row, shipments, parcels,
           stickerFaults>>
  BY <1>2 DEF ParcelsInv, Standing, OpenJobs, Orphan, MaySend, OrderedJobs, Sticker!queueVars
<1>3. ASSUME NEW w \in Workers, Sticker!CheckFeature(w)
      PROVE  ParcelsInv'
  <2>1. stickerPc[w] = "check" /\ UNCHANGED <<shipments, parcels, stickerFaults>>
    BY <1>3 DEF Sticker!CheckFeature
  <2>2. Standing' = Standing
    BY <2>1 DEF Standing
  <2>3. CASE Sticker!Return(w)
    <3>1. /\ OrderedJobs \subseteq OrderedJobs' /\ MaySend' \subseteq MaySend
          /\ OpenJobs' \subseteq OpenJobs
      BY <2>1, <2>3, LeavesAccount DEF Sticker!Return
    <3> QED
      BY <1>1, <2>1, <2>2, <3>1, AccountHolds
  <2>4. CASE Sticker!Goto(w, "check", "create") /\ UNCHANGED <<Sticker!queueVars, stickerCur,
             row>>
    <3>1. OpenJobs' = OpenJobs /\ OrderedJobs' = OrderedJobs
      BY <2>4 DEF OpenJobs, Orphan, OrderedJobs, Sticker!queueVars
    <3>2. MaySend' \subseteq MaySend
      BY <2>1, <2>4 DEF MaySend, Sticker!Goto, RowsInv
    <3> QED
      BY <1>1, <2>1, <2>2, <3>1, <3>2, AccountHolds
  <2> QED
    BY <1>3, <2>3, <2>4 DEF Sticker!CheckFeature
<1>4. ASSUME NEW w \in Workers, Sticker!CreateShipment(w)
      PROVE  ParcelsInv'
  <2>1. /\ stickerPc[w] = "create" /\ stickerPc' = [stickerPc EXCEPT ![w] = "carrier"]
        /\ shipments' = Append(shipments, "pending")
        /\ row' = [row EXCEPT ![w] = Len(shipments')]
        /\ UNCHANGED <<Sticker!queueVars, stickerCur, parcels, stickerFaults>>
    BY <1>4 DEF Sticker!CreateShipment, Sticker!Goto
  <2>2. \A i \in DOMAIN shipments : shipments'[i] = shipments[i]
    BY <1>1, <2>1, NewRow DEF RowState
  <2>3. Standing' \subseteq Standing
    BY <2>1, <2>2 DEF Standing, RowsInv
  <2>4. OpenJobs' = OpenJobs /\ OrderedJobs' = OrderedJobs
    BY <2>1 DEF OpenJobs, Orphan, OrderedJobs, Sticker!queueVars
  <2>5. MaySend' \subseteq MaySend
    BY <2>1 DEF MaySend, RowsInv
  <2> QED
    BY <1>1, <2>1, <2>3, <2>4, <2>5, AccountHolds
<1>5. ASSUME NEW w \in Workers, Sticker!CallCarrier(w)
      PROVE  ParcelsInv'
  <2>1. PICK parcel \in BOOLEAN, answer \in BOOLEAN :
          /\ Sticker!Goto(w, "carrier", IF parcel /\ answer THEN "dispatched" ELSE "failed")
          /\ parcels' = IF parcel THEN parcels \union {row[w]} ELSE parcels
    BY <1>5 DEF Sticker!CallCarrier
  <2>2. UNCHANGED <<Sticker!queueVars, stickerCur, row, shipments, stickerFaults>>
    BY <1>5 DEF Sticker!CallCarrier
  <2>3. w \in MaySend
    BY <2>1 DEF Sticker!Goto, MaySend
  <2>4. OpenJobs' = OpenJobs /\ OrderedJobs' = OrderedJobs
    BY <2>2 DEF OpenJobs, Orphan, OrderedJobs, Sticker!queueVars
  <2>5. stickerPc'[w] \in {"dispatched", "failed"}
        /\ \A v \in Workers \ {w} : stickerPc'[v] = stickerPc[v]
    BY <2>1 DEF Sticker!Goto, RowsInv
  <2>6. CASE parcel
    <3>1. parcels' = parcels \union {row[w]}
      BY <2>1, <2>6
    <3>2. Standing' \subseteq Standing \union {row[w]}
      BY <2>2, <3>1 DEF Standing
    <3>3. MaySend' \subseteq MaySend \ {w}
      BY <2>2, <2>5, <3>1 DEF MaySend
    <3> QED
      BY <1>1, <2>2, <2>3, <2>4, <3>2, <3>3, AccountHolds
  <2>7. CASE ~parcel
    <3>1. parcels' = parcels
      BY <2>1, <2>7
    <3>2. Standing' = Standing
      BY <2>2, <3>1 DEF Standing
    <3>3. MaySend' \subseteq MaySend
      BY <2>2, <2>3, <2>5, <3>1 DEF MaySend
    <3> QED
      BY <1>1, <2>2, <2>4, <3>2, <3>3, AccountHolds
  <2> QED
    BY <2>6, <2>7
<1>6. ASSUME NEW w \in Workers, Sticker!MarkDispatched(w)
      PROVE  ParcelsInv'
  <2>1. /\ stickerPc[w] = "dispatched" /\ Sticker!Idle(w) /\ Sticker!Complete(w, stickerCur[w])
        /\ shipments' = [shipments EXCEPT ![row[w]] = "dispatched"]
        /\ UNCHANGED <<parcels, stickerFaults>>
    BY <1>6 DEF Sticker!MarkDispatched, Sticker!Return
  <2>2. row[w] \in DOMAIN shipments /\ shipments[row[w]] = "pending"
    BY <2>1 DEF RowsInv, Attempting
  <2>3. \A i \in DOMAIN shipments \ {row[w]} : shipments'[i] = shipments[i]
    BY <1>1, <2>1, <2>2, MarkedRow DEF RowState
  <2>4. Standing' \subseteq Standing
    BY <2>1, <2>2, <2>3 DEF Standing, RowsInv
  <2>5. /\ OrderedJobs \subseteq OrderedJobs' /\ MaySend' \subseteq MaySend
        /\ OpenJobs' \subseteq OpenJobs
    BY <2>1, LeavesAccount
  <2> QED
    BY <1>1, <2>1, <2>4, <2>5, AccountHolds
<1>7. ASSUME NEW w \in Workers, Sticker!MarkFailed(w)
      PROVE  ParcelsInv'
  <2>1. /\ stickerPc[w] = "failed" /\ stickerPc' = [stickerPc EXCEPT ![w] = "manual"]
        /\ shipments' = [shipments EXCEPT ![row[w]] = "failed"]
        /\ UNCHANGED <<Sticker!queueVars, stickerCur, row, parcels, stickerFaults>>
    BY <1>7 DEF Sticker!MarkFailed, Sticker!Goto
  <2>2. row[w] \in DOMAIN shipments /\ shipments[row[w]] = "pending"
    BY <2>1 DEF RowsInv, Attempting
  <2>3. /\ \A i \in DOMAIN shipments \ {row[w]} : shipments'[i] = shipments[i]
        /\ shipments'[row[w]] = "failed"
    BY <1>1, <2>1, <2>2, MarkedRow DEF RowState
  <2>4. Standing' \subseteq Standing \ {row[w]}
    BY <2>1, <2>3 DEF Standing, RowsInv
  <2>5. OpenJobs' = OpenJobs /\ OrderedJobs' = OrderedJobs
    BY <2>1 DEF OpenJobs, Orphan, OrderedJobs, Sticker!queueVars
  <2>6. stickerPc'[w] = "manual" /\ \A v \in Workers \ {w} : stickerPc'[v] = stickerPc[v]
    BY <2>1 DEF RowsInv
  <2>7. MaySend' \subseteq MaySend \union {w}
    BY <2>1, <2>6 DEF MaySend
  <2>8. CASE row[w] \in parcels
    <3>1. row[w] \in Standing
      BY <2>2, <2>8 DEF Standing
    <3> QED
      BY <1>1, <2>1, <2>4, <2>5, <2>7, <3>1, AccountHolds
  <2>9. CASE row[w] \notin parcels
    <3>1. MaySend' \subseteq MaySend
      BY <2>1, <2>7, <2>9 DEF MaySend
    <3> QED
      BY <1>1, <2>1, <2>4, <2>5, <3>1, AccountHolds
  <2> QED
    BY <2>8, <2>9
<1>8. ASSUME NEW w \in Workers, Sticker!AskBroker(w)
      PROVE  ParcelsInv'
  <2>1. /\ stickerPc[w] = "manual" /\ Sticker!Idle(w) /\ Sticker!Throw(w, stickerCur[w])
        /\ UNCHANGED <<shipments, parcels, stickerFaults>>
    BY <1>8 DEF Sticker!AskBroker, Sticker!ThrowError
  <2>2. w \in MaySend
    BY <2>1 DEF MaySend
  <2>3. /\ OrderedJobs \subseteq OrderedJobs' /\ MaySend' \subseteq MaySend \ {w}
        /\ OpenJobs' \subseteq OpenJobs \union {stickerCur[w]}
    BY <2>1, LeavesAccount
  <2>4. Standing' = Standing
    BY <2>1 DEF Standing
  <2> QED
    BY <1>1, <2>1, <2>2, <2>3, <2>4, AccountHolds
<1>9. ASSUME NEW w \in Workers, Sticker!HandlerThrows(w) \/ Sticker!CrashWorker(w)
      PROVE  ParcelsInv'
  <2>1. stickerPc[w] # "idle" /\ stickerFaults' = stickerFaults + 1 /\ UNCHANGED <<shipments,
        parcels>>
    BY <1>9 DEF Sticker!HandlerThrows, Sticker!CrashWorker, Sticker!Fault
  <2>2. Standing' = Standing
    BY <2>1 DEF Standing
  <2>3. CASE Sticker!Idle(w) /\ (Sticker!Throw(w, stickerCur[w]) \/ UNCHANGED Sticker!queueVars)
    <3>1. /\ OrderedJobs \subseteq OrderedJobs' /\ MaySend' \subseteq MaySend
          /\ OpenJobs' \subseteq OpenJobs \union {stickerCur[w]}
      BY <2>1, <2>3, LeavesAccount
    <3> QED
      BY <1>1, <2>1, <2>2, <3>1, AccountHolds
  <2>4. CASE stickerPc' = [stickerPc EXCEPT ![w] = "failed"] /\ UNCHANGED <<Sticker!queueVars,
             stickerCur, row>>
    <3>1. OpenJobs' = OpenJobs /\ OrderedJobs' = OrderedJobs
      BY <2>4 DEF OpenJobs, Orphan, OrderedJobs, Sticker!queueVars
    <3>2. MaySend' \subseteq MaySend \union {w}
      BY <2>1, <2>4 DEF MaySend, RowsInv
    <3> QED
      BY <1>1, <2>1, <2>2, <3>1, <3>2, AccountHolds
  <2> QED
    BY <1>9, <2>3, <2>4 DEF Sticker!HandlerThrows, Sticker!CrashWorker, Sticker!ThrowError,
       Sticker!Goto
<1>10. ASSUME NEW w \in Workers, NEW i \in StickerJobs, Sticker!TakeJob(w, i)
       PROVE  ParcelsInv'
  <2>1. /\ stickerPc[w] = "idle" /\ stickerPc' = [stickerPc EXCEPT ![w] = "check"]
             /\ stickerJob[i] = "waiting"
        /\ stickerJob' = [stickerJob EXCEPT ![i] = "active"]
             /\ stickerLock' = [stickerLock EXCEPT ![i] = w]
        /\ stickerCur' = [stickerCur EXCEPT ![w] = i] /\ UNCHANGED <<shipments, parcels, row,
             stickerFaults>>
    BY <1>10 DEF Sticker!TakeJob, Sticker!Goto, Sticker!Take
  <2>2. /\ stickerJob'[i] = "active" /\ stickerLock'[i] = w /\ stickerCur'[w] = i
             /\ stickerCur[w] = None /\ stickerPc'[w] = "check"
        /\ \A j \in StickerJobs \ {i} : stickerJob'[j] = stickerJob[j]
             /\ stickerLock'[j] = stickerLock[j]
        /\ \A v \in Workers \ {w} : stickerCur'[v] = stickerCur[v]
             /\ stickerPc'[v] = stickerPc[v]
    BY <2>1 DEF RowsInv
  <2>3. \A j \in StickerJobs \ {i} : Orphan(j)' => Orphan(j)
    BY <2>2 DEF Orphan
  <2>4. ~Orphan(i)'
    BY <2>2 DEF Orphan
  <2>5. i \in OpenJobs /\ OpenJobs' \subseteq OpenJobs \ {i}
    BY <2>1, <2>2, <2>3, <2>4 DEF OpenJobs
  <2>6. MaySend' \subseteq MaySend \union {w}
    BY <2>1, <2>2 DEF MaySend
  <2>7. Standing' = Standing /\ OrderedJobs \subseteq OrderedJobs'
    BY <2>1, <2>2 DEF Standing, OrderedJobs
  <2> QED
    BY <1>1, <2>1, <2>5, <2>6, <2>7, AccountHolds
<1>11. ASSUME NEW i \in StickerJobs, Sticker!Order(i)
       PROVE  ParcelsInv'
  <2>1. /\ stickerJob[i] = "absent" /\ stickerJob' = [stickerJob EXCEPT ![i] = "waiting"]
        /\ UNCHANGED <<stickerLock, shipments, parcels, stickerPc, stickerCur, row,
             stickerFaults>>
    BY <1>11 DEF Sticker!Order, Sticker!Add, Sticker!workerVars, RowsInv
  <2>2. stickerJob'[i] = "waiting"
        /\ \A j \in StickerJobs \ {i} : stickerJob'[j] = stickerJob[j]
    BY <2>1 DEF RowsInv
  <2>3. \A j \in StickerJobs \ {i} : Orphan(j)' => Orphan(j)
    BY <2>1, <2>2 DEF Orphan
  <2>4. OpenJobs' \subseteq OpenJobs \union {i}
    BY <2>2, <2>3 DEF OpenJobs
  <2>5. OrderedJobs' = OrderedJobs \union {i} /\ i \notin OrderedJobs
    BY <2>1, <2>2 DEF OrderedJobs
  <2>6. Standing' = Standing /\ MaySend' = MaySend
    BY <2>1 DEF Standing, MaySend
  <2> QED
    BY <1>1, <2>1, <2>4, <2>5, <2>6, AccountHolds
<1>12. ASSUME NEW i \in StickerJobs, Sticker!Recover(i) \/ Sticker!LoseLock(i)
       PROVE  ParcelsInv'
  <2>1. /\ stickerJob[i] = "active" /\ stickerLock' = [stickerLock EXCEPT ![i] = None]
        /\ stickerJob' = [stickerJob EXCEPT ![i] = IF stickerStalls[i] < MaxStalls THEN "waiting" ELSE "failed"]
        /\ UNCHANGED <<shipments, parcels, stickerPc, stickerCur, row>>
    BY <1>12 DEF Sticker!Recover, Sticker!LoseLock, Sticker!Reclaim, Sticker!workerVars
  <2>2. /\ stickerJob'[i] \in {"waiting", "failed"}
        /\ \A j \in StickerJobs \ {i} : stickerJob'[j] = stickerJob[j]
             /\ stickerLock'[j] = stickerLock[j]
    BY <2>1 DEF RowsInv
  <2>3. \A j \in StickerJobs \ {i} : Orphan(j)' => Orphan(j)
    BY <2>1, <2>2 DEF Orphan
  <2>4. /\ OpenJobs' \subseteq OpenJobs \union {i} /\ OrderedJobs \subseteq OrderedJobs'
        /\ Standing' = Standing /\ MaySend' = MaySend
    BY <2>1, <2>2, <2>3 DEF OpenJobs, OrderedJobs, Standing, MaySend
  <2>5. CASE stickerFaults' = stickerFaults /\ Orphan(i)
    <3>1. i \in OpenJobs
      BY <2>5 DEF OpenJobs
    <3> QED
      BY <1>1, <2>4, <2>5, <3>1, AccountHolds
  <2>6. CASE stickerFaults' = stickerFaults + 1
    BY <1>1, <2>4, <2>6, AccountHolds
  <2> QED
    BY <1>12, <2>1, <2>5, <2>6 DEF Sticker!Recover, Sticker!LoseLock, Sticker!Fault, Orphan
<1> QED
  BY <1>2, <1>3, <1>4, <1>5, <1>6, <1>7, <1>8, <1>9, <1>10, <1>11, <1>12
     DEF Sticker!Next, Sticker!HandlerAction, Sticker!vars, Sticker!workerVars

(* A sticker job that is over has sent a parcel, asked the broker or was   *)
(* called off, unless two of its runs were cut short                       *)
(* (logistics.service.ts:84-125): the code's three attempts and one stall  *)
(* satisfy the assumptions.                                                *)
THEOREM NoStickerIsForgotten ==
  ASSUME None \notin StickerJobs, MaxAttempts \in Nat, MaxStalls \in Nat, MaxAttempts > 1,
         MaxStalls > 0
  PROVE  Sticker!Spec => []NoStickerForgotten
<1>1. Sticker!Init => RowsInv /\ ForgottenInv
  <2> SUFFICES ASSUME Sticker!Init
               PROVE  RowsInv /\ ForgottenInv
    OBVIOUS
  <2>1. RowsInv
    BY DEF Sticker!Init, Sticker!QueueInit, RowsInv, Sticker!JobState, Steps, Attempting
  <2>2. ForgottenInv
    BY DEF Sticker!Init, Sticker!QueueInit, ForgottenInv, CutShort, Orphan
  <2> QED
    BY <2>1, <2>2
<1>2. RowsInv /\ ForgottenInv /\ [Sticker!Next]_Sticker!vars => RowsInv' /\ ForgottenInv'
  BY RowsStep, ForgottenStep
<1>3. RowsInv /\ ForgottenInv => NoStickerForgotten
  <2> SUFFICES ASSUME RowsInv, ForgottenInv, NEW j \in StickerJobs, ~Settled,
                      stickerJob[j] = "completed"
                      \/ (stickerJob[j] = "failed" /\ stickerFaults < 2)
               PROVE  FALSE
    BY DEF NoStickerForgotten, Sticker!NoStickerForgotten, Settled
  <2>1. stickerTries[j] \in Nat /\ stickerStalls[j] \in Nat /\ stickerFaults \in Nat
    BY DEF RowsInv
  <2> QED
    BY <2>1 DEF ForgottenInv, CutShort
<1> QED
  BY <1>1, <1>2, <1>3, PTL DEF Sticker!Spec

(* Of the parcels of a policy, all but one have a row that says "failed"   *)
(* or a run that was cut short (logistics.service.ts:84-125), whatever     *)
(* workers overlap; the activation queues one job for a policy.            *)
THEOREM ParcelsAreExplained ==
  ASSUME IsFiniteSet(Workers), NEW l, StickerJobs = {l}, l # None
  PROVE  Sticker!Spec => []ParcelsExplained
<1>1. IsFiniteSet(StickerJobs) /\ Cardinality(StickerJobs) = 1 /\ None \notin StickerJobs
  BY FS_Singleton
<1>2. Sticker!Init => RowsInv /\ ParcelsInv
  <2> SUFFICES ASSUME Sticker!Init
               PROVE  RowsInv /\ ParcelsInv
    OBVIOUS
  <2>1. RowsInv
    BY <1>1 DEF Sticker!Init, Sticker!QueueInit, RowsInv, Sticker!JobState, Steps, Attempting
  <2>2. Standing = {} /\ OpenJobs = {} /\ MaySend = {} /\ OrderedJobs = {} /\ stickerFaults = 0
    BY DEF Sticker!Init, Sticker!QueueInit, Standing, OpenJobs, Orphan, MaySend, OrderedJobs
  <2> QED
    BY <2>1, <2>2, FS_EmptySet DEF ParcelsInv
<1>3. RowsInv /\ ParcelsInv /\ [Sticker!Next]_Sticker!vars => RowsInv' /\ ParcelsInv'
  BY <1>1, RowsStep, ParcelsStep
<1>4. RowsInv /\ ParcelsInv => ParcelsExplained
  <2> SUFFICES ASSUME RowsInv, ParcelsInv
               PROVE  Cardinality(Standing) <= 1 + stickerFaults
    BY DEF ParcelsExplained, Sticker!ParcelsExplained, Standing, Sticker!Cardinality,
           Cardinality
  <2>1. /\ Cardinality(Standing) \in Nat /\ Cardinality(OpenJobs) \in Nat
        /\ Cardinality(MaySend) \in Nat /\ Cardinality(OrderedJobs) \in Nat
             /\ stickerFaults \in Nat
    BY <1>1, AccountIsFinite DEF RowsInv
  <2>2. Cardinality(OrderedJobs) <= 1
    BY <1>1, NoMore DEF OrderedJobs
  <2> QED
    BY <2>1, <2>2 DEF ParcelsInv
<1> QED
  BY <1>2, <1>3, <1>4, PTL DEF Sticker!Spec

-----------------------------------------------------------------------------
(***************************************************************************)
(* The wizard of the mobile application.  Its screen may lag behind its    *)
(* state; what is drawn never leads to a wrong side unless an event slips. *)
(***************************************************************************)
Pictures == [no: Nat, side: Nat]
ViewStates ==
  [view: {"capture", "crop", "processing", "results", "left"}, step: Nat,
   photo: Pictures \union {None}]

ScanStates == [next: Nat \ {0}, got: SUBSET Nat]

WizardTypes ==
  /\ view \in ViewStates /\ shown \in ViewStates
  /\ view.view = "crop" => view.photo \in Pictures
  /\ shown.view = "crop" => shown.photo \in Pictures
  /\ photographs \in Seq(Pictures) /\ corners \in Seq(Nat)
  /\ stream \in Nat \union {None}
  /\ shot \in [step: Nat, side: Nat] \union {None}
  /\ scans \in Seq(ScanStates)
  /\ slipped \in BOOLEAN /\ photos \in Nat

(* The photos and the corners lie in the order of the sides.               *)
InOrder ==
  /\ Len(photographs) <= TotalSteps /\ Len(corners) <= Len(photographs)
  /\ \A i \in 1..Len(photographs) : photographs[i].side = i - 1
  /\ \A i \in 1..Len(corners) : corners[i] \in {0, photographs[i].no}

(* What the state is about.                                                *)
InStep ==
  /\ view.view = "capture" =>
       view.step < TotalSteps /\ Len(photographs) = view.step /\ corners = <<>>
  /\ view.view = "crop" =>
       /\ view.step < TotalSteps /\ Len(photographs) = TotalSteps
       /\ Len(corners) = view.step /\ view.photo = photographs[view.step + 1]

(* A screen that is still the one before shows an earlier side, or the     *)
(* last one.                                                               *)
DrawnBefore ==
  /\ shown.view = "capture" /\ view.view = "capture" => shown.step <= view.step
  /\ shown.view = "capture" /\ view.view = "crop" => shown.step = TotalSteps - 1
  /\ shown.view = "crop" /\ view.view = "crop" /\ shown.step = view.step =>
       shown.photo = view.photo

(* A picture is of the side it was taken for, or is bound to slip.         *)
ShotFits ==
  shot # None /\ view.view \in {"capture", "crop"} =>
    \/ view.view = "capture" /\ view.step # shot.step
    \/ /\ shot.side = shot.step
       /\ view.view = "crop" => shot.step = TotalSteps - 1
       /\ shown.view = "capture" => shot.step <= shown.step
       /\ shown.view = "crop" => view.view = "crop"

WizardInv ==
  /\ WizardTypes /\ Wizard!SidesExplained
  /\ ~slipped => InOrder /\ InStep /\ DrawnBefore /\ ShotFits

LEMMA ListsStayLists ==
  ASSUME NEW S, NEW list \in Seq(S), NEW e \in S
  PROVE  /\ Append(list, e) \in Seq(S)
         /\ \A i \in DOMAIN list : [list EXCEPT ![i] = e] \in Seq(S)
OBVIOUS

LEMMA WizardInit ==
  ASSUME TotalSteps \in Nat, TotalSteps > 1
  PROVE  Wizard!Init => WizardInv
<1> SUFFICES ASSUME Wizard!Init
             PROVE  WizardInv
  OBVIOUS
<1>1. WizardTypes
  <2>1. Wizard!Capture(0) \in ViewStates /\ Wizard!Capture(0).view = "capture"
    BY DEF Wizard!Capture, ViewStates
  <2>2. photographs \in Seq(Pictures) /\ corners \in Seq(Nat) /\ scans \in Seq(ScanStates)
    BY DEF Wizard!Init
  <2>3. view \in ViewStates /\ shown \in ViewStates /\ view.view = "capture"
        /\ shown.view = "capture"
    BY <2>1 DEF Wizard!Init
  <2>4. stream = None /\ shot = None /\ slipped = FALSE /\ photos = 0
    BY DEF Wizard!Init
  <2> QED
    BY <2>2, <2>3, <2>4 DEF WizardTypes
<1>2. InOrder /\ InStep /\ DrawnBefore /\ ShotFits
  BY DEF Wizard!Init, InOrder, InStep, DrawnBefore, ShotFits, Wizard!Capture
<1> QED
  BY <1>1, <1>2 DEF WizardInv, Wizard!SidesExplained, Wizard!Init

(* The steps after which the state, the photos and the corners are as      *)
(* before.                                                                 *)
LEMMA LookingKeeps ==
  ASSUME WizardInv, WizardTypes', UNCHANGED <<view, photographs, corners, sent, slipped>>,
         UNCHANGED shown \/ shown' = view,
         \/ UNCHANGED shot \/ shot' = None
         \/ shot'.side = shown.step /\ shown.view = "capture" /\ UNCHANGED shown
            /\ (shot'.step = shown.step \/ shown = view)
  PROVE  WizardInv'
<1>1. Wizard!SidesExplained'
  BY DEF WizardInv, Wizard!SidesExplained
<1> SUFFICES ASSUME ~slipped
             PROVE  (InOrder /\ InStep /\ DrawnBefore /\ ShotFits)'
  BY <1>1 DEF WizardInv
<1>2. InOrder' /\ InStep'
  BY DEF WizardInv, InOrder, InStep
<1>3. DrawnBefore'
  <2>1. CASE UNCHANGED shown
    BY <2>1 DEF WizardInv, DrawnBefore
  <2>2. CASE shown' = view
    BY <2>2 DEF WizardInv, DrawnBefore, WizardTypes, ViewStates
  <2> QED
    BY <2>1, <2>2
<1>4. ShotFits'
  <2>1. CASE UNCHANGED shown /\ UNCHANGED shot
    BY <2>1 DEF WizardInv, ShotFits
  <2>2. CASE shot' = None
    BY <2>2 DEF ShotFits
  <2>3. CASE shown' = view /\ UNCHANGED shot
    <3> SUFFICES ASSUME shot # None, view.view \in {"capture", "crop"},
                        ~(view.view = "capture" /\ view.step # shot.step)
                 PROVE  /\ shot.side = shot.step
                        /\ view.view = "crop" => shot.step = TotalSteps - 1
                        /\ view.view = "capture" => shot.step <= view.step
      BY <2>3 DEF ShotFits
    <3> QED
      BY DEF WizardInv, ShotFits, WizardTypes, ViewStates
  <2>4. CASE shot'.side = shown.step /\ shown.view = "capture" /\ UNCHANGED shown
             /\ (shot'.step = shown.step \/ shown = view)
    <3>1. shown.step \in Nat /\ view.step \in Nat
      BY DEF WizardInv, WizardTypes, ViewStates
    <3>2. CASE shot'.step = shown.step
      BY <2>4, <3>1, <3>2 DEF WizardInv, ShotFits, DrawnBefore
    <3>3. CASE shown = view
      BY <2>4, <3>1, <3>3 DEF WizardInv, ShotFits
    <3> QED
      BY <2>4, <3>2, <3>3
  <2> QED
    BY <2>1, <2>2, <2>3, <2>4
<1> QED
  BY <1>2, <1>3, <1>4

(* The end of the photographs: nothing is asked of the state any more.     *)
LEMMA LeavingKeeps ==
  ASSUME WizardInv, WizardTypes', view'.view \in {"processing", "results", "left"},
         UNCHANGED <<photographs, corners, sent, slipped>>
  PROVE  WizardInv'
BY DEF WizardInv, Wizard!SidesExplained, InOrder, InStep, DrawnBefore, ShotFits

LEMMA WizardSteps ==
  ASSUME TotalSteps \in Nat, TotalSteps > 1, WizardInv, [Wizard!Next]_(Wizard!vars)
  PROVE  WizardInv'
<1>1. WizardTypes /\ Wizard!SidesExplained
  BY DEF WizardInv
<1>t. /\ view.view \in {"capture", "crop", "processing", "results", "left"} /\ view.step \in Nat
      /\ shown.view \in {"capture", "crop", "processing", "results", "left"}
      /\ shown.step \in Nat /\ slipped \in BOOLEAN
  BY <1>1 DEF WizardTypes, ViewStates
<1>2. CASE UNCHANGED Wizard!vars
  BY <1>1, <1>2, LookingKeeps DEF WizardTypes, Wizard!vars, Wizard!takenVars, Wizard!cameraVars,
     Wizard!scanVars
<1>3. CASE Wizard!Redraw
  BY <1>1, <1>3, LookingKeeps DEF Wizard!Redraw, WizardTypes, Wizard!takenVars, Wizard!cameraVars,
     Wizard!scanVars
<1>4. CASE Wizard!LoadImage
  BY <1>1, <1>4, LookingKeeps DEF Wizard!LoadImage, WizardTypes, Wizard!takenVars,
     Wizard!cameraVars, Wizard!scanVars
<1>5. CASE Wizard!TapCapture
  <2>1. shot' = [step |-> shown.step, side |-> shown.step] /\ photos' = photos + 1
        /\ shown.view = "capture"
        /\ UNCHANGED <<view, shown, photographs, corners, sent, slipped, stream, scans>>
    BY <1>5 DEF Wizard!TapCapture, Wizard!Snap, Wizard!CameraOffers, Wizard!takenVars,
       Wizard!cameraVars, Wizard!scanVars
  <2>2. WizardTypes'
    BY <1>1, <1>t, <2>1 DEF WizardTypes
  <2> QED
    BY <2>1, <2>2, LookingKeeps
<1>6. CASE Wizard!AutoCapture
  <2>1. /\ shown.view = "capture" /\ shown = view /\ stream # None /\ stream' = None
        /\ \/ shot' = [step |-> stream, side |-> shown.step] /\ photos' = photos + 1
           \/ UNCHANGED <<shot, photos>>
        /\ UNCHANGED <<view, shown, photographs, corners, sent, slipped, scans>>
    BY <1>6 DEF Wizard!AutoCapture, Wizard!Snap, Wizard!CameraOffers, Wizard!takenVars,
       Wizard!cameraVars, Wizard!scanVars
  <2>2. WizardTypes'
    BY <1>1, <1>t, <2>1 DEF WizardTypes
  <2> QED
    BY <2>1, <2>2, LookingKeeps
<1>7. CASE Wizard!ToggleAutoCapture
  <2>1. /\ stream' \in {None, stream, 0, view.step}
        /\ UNCHANGED <<view, shown, photographs, corners, sent, slipped, scans, shot, photos>>
    BY <1>7 DEF Wizard!ToggleAutoCapture, Wizard!StartStream, Wizard!takenVars,
       Wizard!cameraVars, Wizard!scanVars
  <2>2. WizardTypes'
    BY <1>1, <1>t, <2>1 DEF WizardTypes
  <2> QED
    BY <2>1, <2>2, LookingKeeps
<1>8. CASE Wizard!PictureFails \/ Wizard!Inactive \/ Wizard!Resumed
  <2>1. /\ stream' \in {None, stream} /\ shot' \in {None, shot}
        /\ UNCHANGED <<view, shown, photographs, corners, sent, slipped, scans, photos>>
    BY <1>8 DEF Wizard!PictureFails, Wizard!Inactive, Wizard!Resumed, Wizard!takenVars,
       Wizard!cameraVars, Wizard!scanVars
  <2>2. WizardTypes'
    BY <1>1, <1>t, <2>1 DEF WizardTypes
  <2> QED
    BY <2>1, <2>2, LookingKeeps
<1>9. CASE Wizard!ImageCaptured
  <2> DEFINE next == IF shot.step + 1 < TotalSteps THEN Wizard!Capture(shot.step + 1)
                     ELSE Wizard!Crop(0, photographs')
             pic == [no |-> photos, side |-> shot.side]
  <2>1. /\ shot # None /\ shot' = None /\ photographs' = Append(photographs, pic)
        /\ view' = next /\ slipped' = (slipped \/ view # Wizard!Capture(shot.step))
        /\ UNCHANGED <<shown, corners, scans, sent, photos>>
    BY <1>9 DEF Wizard!ImageCaptured, Wizard!Emit, Wizard!scanVars
  <2>2. shot \in [step: Nat, side: Nat] /\ shot.step \in Nat /\ shot.side \in Nat
        /\ pic \in Pictures
    BY <1>1, <2>1 DEF WizardTypes, Pictures
  <2>3. /\ photographs' \in Seq(Pictures) /\ Len(photographs') = Len(photographs) + 1
        /\ photographs'[Len(photographs) + 1] = pic
        /\ \A i \in 1..Len(photographs) : photographs'[i] = photographs[i]
    BY <1>1, <2>1, <2>2 DEF WizardTypes
  <2>4. photographs'[1] \in Pictures
    BY <1>1, <2>3 DEF WizardTypes
  <2>5. stream' \in {None, stream, shot.step + 1}
    BY <1>9, <2>1 DEF Wizard!ImageCaptured, Wizard!Emit, Wizard!StartStream, Wizard!Capture,
       Wizard!Crop
  <2>6. WizardTypes'
    <3>1. next \in ViewStates /\ (next.view = "crop" => next.photo \in Pictures)
      BY <2>2, <2>4 DEF Wizard!Capture, Wizard!Crop, ViewStates
    <3> HIDE DEF next, pic
    <3> QED
      BY <1>1, <2>1, <2>2, <2>3, <2>5, <3>1 DEF WizardTypes
  <2>7. Wizard!SidesExplained'
    BY <1>1, <2>1 DEF Wizard!SidesExplained
  <2>8. ASSUME ~slipped'
        PROVE  (InOrder /\ InStep /\ DrawnBefore /\ ShotFits)'
    <3>0. ~slipped /\ view = Wizard!Capture(shot.step)
      BY <2>1, <2>8, Zenon
    <3>1. /\ ~slipped /\ view.view = "capture" /\ view.step = shot.step
      BY <3>0 DEF Wizard!Capture
    <3>2. InOrder /\ InStep /\ DrawnBefore /\ ShotFits
      BY <3>1 DEF WizardInv
    <3>3. /\ Len(photographs) = shot.step /\ corners = <<>> /\ shot.step < TotalSteps
          /\ shot.side = shot.step /\ shown.view # "crop"
          /\ shown.view = "capture" => shown.step = shot.step
      BY <1>t, <2>1, <2>2, <3>1, <3>2 DEF InStep, ShotFits, DrawnBefore
    <3>4. InOrder'
      BY <2>1, <2>2, <2>3, <3>2, <3>3 DEF InOrder
    <3>5. CASE shot.step + 1 < TotalSteps
      <4>1. view'.view = "capture" /\ view'.step = shot.step + 1
        BY <2>1, <3>5 DEF Wizard!Capture
      <4> QED
        BY <1>t, <2>1, <2>2, <2>3, <3>3, <3>4, <3>5, <4>1 DEF InStep, DrawnBefore, ShotFits
    <3>6. CASE ~(shot.step + 1 < TotalSteps)
      <4>1. view'.view = "crop" /\ view'.step = 0 /\ view'.photo = photographs'[1]
        BY <2>1, <3>6 DEF Wizard!Crop
      <4> QED
        BY <1>t, <2>1, <2>2, <2>3, <3>3, <3>4, <3>6, <4>1 DEF InStep, DrawnBefore, ShotFits
    <3> QED
      BY <3>5, <3>6
  <2> QED
    BY <2>6, <2>7, <2>8 DEF WizardInv
<1>10. CASE Wizard!CropConfirmed
  <2> DEFINE corner == IF loaded THEN shown.photo.no ELSE 0
  <2>1. /\ shown.view = "crop" /\ corners' = Append(corners, corner)
        /\ slipped' = (slipped \/ view.view # shown.view \/ view.step # shown.step)
        /\ UNCHANGED <<shown, photographs, shot, sent, photos>>
    BY <1>10 DEF Wizard!CropConfirmed, Wizard!CropOffers, Wizard!Slip
  <2>2. \/ /\ shown.step + 1 < Len(photographs) /\ UNCHANGED scans
           /\ view' = Wizard!Crop(shown.step + 1, photographs)
        \/ /\ ~(shown.step + 1 < Len(photographs)) /\ photographs = <<>>
           /\ UNCHANGED <<view, scans>>
        \/ /\ ~(shown.step + 1 < Len(photographs)) /\ photographs # <<>>
           /\ view' = Wizard!View("processing")
           /\ scans' = Append(scans, [next |-> 1, got |-> {}])
    BY <1>10 DEF Wizard!CropConfirmed, Wizard!ScanSubmitted, Wizard!Emit
  <2>3. shown.photo \in Pictures /\ corner \in Nat
    BY <1>1, <2>1 DEF WizardTypes, Pictures
  <2>4. stream' \in {None, stream}
    BY <1>10, <2>2 DEF Wizard!CropConfirmed, Wizard!ScanSubmitted, Wizard!Emit, Wizard!Crop,
       Wizard!View
  <2>5. /\ corners' \in Seq(Nat) /\ Len(corners') = Len(corners) + 1
        /\ corners'[Len(corners) + 1] = corner
        /\ \A i \in 1..Len(corners) : corners'[i] = corners[i]
    BY <1>1, <2>1, <2>3 DEF WizardTypes
  <2>6. WizardTypes'
    <3>1. view' \in ViewStates /\ (view'.view = "crop" => view'.photo \in Pictures)
      <4>1. CASE view' = Wizard!Crop(shown.step + 1, photographs)
                 /\ shown.step + 1 < Len(photographs)
        <5>1. shown.step + 2 \in 1..Len(photographs)
          BY <1>1, <1>t, <4>1 DEF WizardTypes
        <5>2. photographs[shown.step + 2] \in Pictures
          BY <1>1, <5>1 DEF WizardTypes
        <5>3. view' = [view |-> "crop", step |-> shown.step + 1,
                       photo |-> photographs[shown.step + 2]]
          BY <1>t, <4>1 DEF Wizard!Crop
        <5> QED
          BY <1>t, <5>2, <5>3 DEF ViewStates
      <4>2. CASE view' = Wizard!View("processing")
        BY <4>2 DEF Wizard!View, ViewStates
      <4>3. CASE view' = view
        BY <1>1, <4>3 DEF WizardTypes
      <4> QED
        BY <2>2, <4>1, <4>2, <4>3
    <3>2. scans' \in Seq(ScanStates)
      <4>1. [next |-> 1, got |-> {}] \in ScanStates
        BY DEF ScanStates
      <4>2. Append(scans, [next |-> 1, got |-> {}]) \in Seq(ScanStates)
        BY <1>1, <4>1, ListsStayLists DEF WizardTypes
      <4> QED
        BY <1>1, <2>2, <4>2 DEF WizardTypes
    <3> QED
      BY <1>1, <2>1, <2>4, <2>5, <3>1, <3>2 DEF WizardTypes
  <2>7. Wizard!SidesExplained'
    BY <1>1, <2>1 DEF Wizard!SidesExplained
  <2>8. ASSUME ~slipped'
        PROVE  (InOrder /\ InStep /\ DrawnBefore /\ ShotFits)'
    <3>1. ~slipped /\ view.view = "crop" /\ view.step = shown.step
      BY <2>1, <2>8
    <3>2. InOrder /\ InStep /\ DrawnBefore /\ ShotFits
      BY <3>1 DEF WizardInv
    <3>3. /\ Len(photographs) = TotalSteps /\ Len(corners) = view.step /\ view.step < TotalSteps
          /\ shown.photo = photographs[view.step + 1]
      BY <2>1, <3>1, <3>2 DEF InStep, DrawnBefore
    <3>4. corner \in {0, photographs[Len(corners) + 1].no}
      BY <3>3
    <3>5. InOrder'
      <4> HIDE DEF corner
      <4> QED
        BY <1>t, <2>1, <2>5, <3>2, <3>3, <3>4 DEF InOrder
    <3>6. CASE view' = Wizard!Crop(shown.step + 1, photographs)
               /\ shown.step + 1 < Len(photographs)
      <4>1. view'.view = "crop" /\ view'.step = view.step + 1
            /\ view'.photo = photographs[view'.step + 1]
        BY <1>t, <3>1, <3>6 DEF Wizard!Crop
      <4>2. InStep'
        BY <1>t, <2>1, <2>5, <3>1, <3>3, <3>6, <4>1 DEF InStep
      <4>3. DrawnBefore' /\ ShotFits'
        BY <1>t, <2>1, <3>1, <3>2, <4>1 DEF DrawnBefore, ShotFits
      <4> QED
        BY <3>5, <4>2, <4>3
    <3>7. CASE view' = Wizard!View("processing")
      BY <3>5, <3>7 DEF Wizard!View, InStep, DrawnBefore, ShotFits
    <3>8. photographs # <<>>
      BY <3>3
    <3> QED
      BY <2>2, <3>6, <3>7, <3>8
  <2> QED
    BY <2>6, <2>7, <2>8 DEF WizardInv
<1>11. CASE Wizard!PreviewRetake
  <2>1. /\ shown.view = "crop" /\ photographs' = <<>> /\ corners' = <<>>
        /\ view' = Wizard!Capture(0) /\ stream' \in {stream, 0}
        /\ slipped' = (slipped \/ view.view # shown.view \/ view.step # shown.step)
        /\ UNCHANGED <<shown, shot, scans, sent, photos>>
    BY <1>11 DEF Wizard!PreviewRetake, Wizard!CropOffers, Wizard!Slip, Wizard!Emit,
       Wizard!StartStream, Wizard!Capture, Wizard!scanVars
  <2>2. WizardTypes'
    BY <1>1, <2>1 DEF WizardTypes, ViewStates, Wizard!Capture
  <2>3. Wizard!SidesExplained'
    BY <1>1, <2>1 DEF Wizard!SidesExplained
  <2>4. ASSUME ~slipped'
        PROVE  (InOrder /\ InStep /\ DrawnBefore /\ ShotFits)'
    <3>1. ~slipped /\ view.view = "crop"
      BY <2>1, <2>4
    <3>2. ShotFits
      BY <3>1 DEF WizardInv
    <3>3. view'.view = "capture" /\ view'.step = 0
      BY <2>1 DEF Wizard!Capture
    <3>4. InOrder' /\ InStep' /\ DrawnBefore'
      BY <2>1, <3>3 DEF InOrder, InStep, DrawnBefore
    <3>5. shot # None => shot.step # 0
      BY <2>1, <3>1, <3>2 DEF ShotFits
    <3> QED
      BY <2>1, <3>3, <3>4, <3>5 DEF ShotFits
  <2> QED
    BY <2>2, <2>3, <2>4 DEF WizardInv
<1>12. ASSUME NEW s \in 1..MaxScans, Wizard!CallStep(s)
       PROVE  WizardInv'
  <2> DEFINE i == scans[s].next
             asked == [step |-> i - 1, photo |-> photographs[i],
                        corners |-> IF i <= Len(corners) THEN corners[i] ELSE 0]
  <2>1. /\ s \in DOMAIN scans /\ i <= Len(photographs) /\ sent' = sent \union {asked}
        /\ \E answered \in {{}, {i - 1}} :
             scans' = [scans EXCEPT ![s] = [next |-> i + 1, got |-> scans[s].got \union answered]]
        /\ UNCHANGED <<view, shown, photographs, corners, stream, shot, slipped, photos>>
    BY <1>12 DEF Wizard!CallStep, Wizard!HasNext, Wizard!takenVars, Wizard!cameraVars
  <2>2. scans[s] \in ScanStates
    BY <1>1, <2>1 DEF WizardTypes
  <2>3. i \in Nat \ {0} /\ i \in 1..Len(photographs)
    BY <1>1, <2>1, <2>2 DEF WizardTypes, ScanStates
  <2>4. scans' \in Seq(ScanStates)
    <3>1. PICK answered \in {{}, {i - 1}} :
            scans' = [scans EXCEPT ![s] = [next |-> i + 1, got |-> scans[s].got \union answered]]
      BY <2>1
    <3>2. [next |-> i + 1, got |-> scans[s].got \union answered]
            \in ScanStates
      BY <2>2, <2>3 DEF ScanStates
    <3>3. scans \in Seq(ScanStates) /\ s \in DOMAIN scans
      BY <1>1, <2>1 DEF WizardTypes
    <3> HIDE DEF i, asked
    <3> QED
      BY <3>1, <3>2, <3>3, ListsStayLists
  <2>5. WizardTypes'
    <3> HIDE DEF i, asked
    <3> QED
      BY <1>1, <2>1, <2>4 DEF WizardTypes
  <2>6. ~slipped => asked.photo.side = asked.step /\ asked.corners \in {0, asked.photo.no}
    BY <2>3 DEF WizardInv, InOrder
  <2>7. Wizard!SidesExplained'
    <3> HIDE DEF asked
    <3> QED
      BY <1>1, <2>1, <2>6 DEF Wizard!SidesExplained
  <2>8. ~slipped' => (InOrder /\ InStep /\ DrawnBefore /\ ShotFits)'
    BY <2>1 DEF WizardInv, InOrder, InStep, DrawnBefore, ShotFits
  <2> QED
    BY <2>5, <2>7, <2>8 DEF WizardInv
<1>13. ASSUME NEW s \in 1..MaxScans, Wizard!Completed(s)
       PROVE  WizardInv'
  <2>1. /\ s \in DOMAIN scans /\ scans' = [scans EXCEPT ![s].next = TotalSteps + 2]
        /\ view' = Wizard!View("results") /\ stream' = stream
        /\ UNCHANGED <<shown, photographs, corners, shot, sent, slipped, photos>>
    BY <1>13 DEF Wizard!Completed, Wizard!Emit, Wizard!View, Wizard!takenVars
  <2>2. scans' \in Seq(ScanStates)
    <3>1. scans[s] \in ScanStates
      BY <1>1, <2>1 DEF WizardTypes
    <3>2. [scans[s] EXCEPT !.next = TotalSteps + 2] \in ScanStates
      BY <3>1 DEF ScanStates
    <3> QED
      BY <1>1, <2>1, <3>2 DEF WizardTypes
  <2>3. view' \in ViewStates /\ view'.view = "results"
    BY <2>1 DEF Wizard!View, ViewStates
  <2>4. WizardTypes'
    BY <1>1, <2>1, <2>2, <2>3 DEF WizardTypes
  <2> QED
    BY <2>1, <2>3, <2>4, LeavingKeeps
<1>14. CASE Wizard!Leave
  <2>1. /\ view' = Wizard!View("left") /\ shown' = Wizard!View("left") /\ stream' = None
        /\ shot' = None /\ scans' = <<>>
        /\ UNCHANGED <<photographs, corners, sent, slipped, photos>>
    BY <1>14 DEF Wizard!Leave, Wizard!takenVars
  <2>2. view' \in ViewStates /\ shown' \in ViewStates /\ view'.view = "left"
        /\ shown'.view = "left"
    BY <2>1 DEF Wizard!View, ViewStates
  <2>3. WizardTypes'
    BY <1>1, <2>1, <2>2 DEF WizardTypes
  <2> QED
    BY <2>1, <2>2, <2>3, LeavingKeeps
<1> QED
  BY <1>2, <1>3, <1>4, <1>5, <1>6, <1>7, <1>8, <1>9, <1>10, <1>11, <1>12, <1>13, <1>14
     DEF Wizard!Next, Wizard!Scan

-----------------------------------------------------------------------------
(***************************************************************************)
(* The talon on the quotes page: the slots with their editor and panels,   *)
(* the form with what was read, and the service's limit.                   *)
(***************************************************************************)
SlotStates == [photo: Photos, points: Quads, preview: Quads \union {None}, moved: BOOLEAN]
CropStates ==
  [slot: Sides, photo: Photos, quad: Quads, asked: Quads \union {None},
   phase: {"edit", "loading", "preview"}, moved: BOOLEAN]

SlotTypes ==
  /\ slots \in [Sides -> SlotStates \union {None}] /\ talonSlots = slots
  /\ crop # None => crop \in CropStates
  /\ panels \in [Sides -> Talon!Panel]

(* Corners that differ from those of the preview were moved meanwhile.     *)
CropInv ==
  crop # None =>
    /\ crop.phase \in {"loading", "preview"} => crop.quad = crop.asked \/ crop.moved = TRUE
    /\ slots[crop.slot] # None => slots[crop.slot].photo = crop.photo

PanelsInv ==
  \A i \in Sides :
    /\ panels[i].asked # None => slots[i] # None /\ slots[i].photo = panels[i].asked.photo
    /\ panels[i].data # None => slots[i] # None /\ slots[i].photo = panels[i].data.photo

PreviewsInv ==
  \A i \in Sides : slots[i] # None =>
    slots[i].points = slots[i].preview \/ slots[i].moved = TRUE

SlotsInv == SlotTypes /\ CropInv /\ PanelsInv /\ PreviewsInv

(* A picture of a slot.                                                    *)
LEMMA PictureOfASlot ==
  ASSUME SlotsInv, NEW i \in Sides, slots[i] # None
  PROVE  /\ slots[i] \in SlotStates
         /\ Talon!PictureIn(slots[i]) = [photo |-> slots[i].photo, points |-> slots[i].points]
         /\ Talon!PictureIn(slots[i]) \in Talon!Picture
<1>1. slots[i] \in SlotStates
  BY DEF SlotsInv, SlotTypes
<1> QED
  BY <1>1 DEF SlotStates, Talon!PictureIn, Talon!Picture

LEMMA EditorKeepsSlots ==
  ASSUME SlotsInv, UNCHANGED <<slots, talonSlots, panels>>,
         crop' # None => crop' \in CropStates /\ CropInv'
  PROVE  SlotsInv'
<1>1. CropInv'
  BY DEF CropInv
<1> QED
  BY <1>1 DEF SlotsInv, SlotTypes, PanelsInv, PreviewsInv

LEMMA CropOpens ==
  ASSUME Quads # {}, SlotsInv, NEW i \in Sides, NEW p \in Photos, Talon!Crop(i, p),
         slots[i] # None => slots[i].photo = p
  PROVE  SlotsInv'
<1>1. Talon!DefaultQuad \in Quads
  BY DEF Talon!DefaultQuad
<1>2. /\ crop' = [slot |-> i, photo |-> p, quad |-> Talon!DefaultQuad, asked |-> None,
                  phase |-> "edit", moved |-> FALSE]
      /\ UNCHANGED <<slots, talonSlots, panels>>
  BY DEF Talon!Crop, Talon!Editor
<1>3. crop' \in CropStates /\ crop'.phase = "edit" /\ crop'.slot = i /\ crop'.photo = p
  BY <1>1, <1>2 DEF CropStates
<1>4. CropInv'
  BY <1>2, <1>3 DEF CropInv
<1> QED
  BY <1>2, <1>3, <1>4, EditorKeepsSlots

(* A slot takes a photo, whose panel shows that photo, or is emptied with  *)
(* its panel.                                                              *)
LEMMA SlotIsFilled ==
  ASSUME None \notin SlotStates, SlotsInv, Talon!HandleCropConfirm
  PROVE  SlotsInv'
<1> DEFINE i == crop.slot
           slot == [photo |-> crop.photo, points |-> crop.quad, preview |-> crop.asked,
                    moved |-> crop.moved]
<1>1. /\ crop # None /\ crop.phase = "preview" /\ crop' = None /\ UNCHANGED panels
      /\ slots' = [slots EXCEPT ![i] = slot] /\ talonSlots' = slots'
  BY DEF Talon!HandleCropConfirm, Talon!ChangeSlot
<1>2. crop \in CropStates /\ i \in Sides
  BY <1>1 DEF SlotsInv, SlotTypes, CropStates
<1>3. slot \in SlotStates
  BY <1>2 DEF CropStates, SlotStates
<1>4. slot.points = slot.preview \/ slot.moved = TRUE
  BY <1>1 DEF SlotsInv, CropInv
<1>5. slots[i] # None => slots[i].photo = slot.photo
  BY <1>1 DEF SlotsInv, CropInv
<1> HIDE DEF slot, i
<1>6. /\ slots' \in [Sides -> SlotStates \union {None}] /\ slots'[i] = slot
      /\ \A j \in Sides \ {i} : slots'[j] = slots[j]
  BY <1>1, <1>2, <1>3 DEF SlotsInv, SlotTypes
<1>7. SlotTypes' /\ CropInv'
  BY <1>1, <1>6 DEF SlotsInv, SlotTypes, CropInv
<1>8. PreviewsInv'
  <2> SUFFICES ASSUME NEW j \in Sides, slots'[j] # None
               PROVE  slots'[j].points = slots'[j].preview \/ slots'[j].moved = TRUE
    BY DEF PreviewsInv
  <2>1. CASE j = i
    BY <1>4, <1>6, <2>1
  <2>2. CASE j # i
    BY <1>6, <2>2 DEF SlotsInv, PreviewsInv
  <2> QED
    BY <2>1, <2>2
<1>9. slot # None
  BY <1>3
<1>10. PanelsInv'
  BY <1>1, <1>2, <1>5, <1>6, <1>9 DEF SlotsInv, PanelsInv
<1> QED
  BY <1>7, <1>8, <1>10 DEF SlotsInv

LEMMA SlotIsEmptied ==
  ASSUME SlotsInv, NEW i \in Sides, Talon!HandleRemove(i)
  PROVE  SlotsInv'
<1>1. /\ crop = None /\ crop' = None /\ slots' = [slots EXCEPT ![i] = None]
      /\ talonSlots' = slots' /\ panels' = [panels EXCEPT ![i] = [asked |-> None, data |-> None]]
  BY DEF Talon!HandleRemove, Talon!ChangeSlot, Talon!NoPanel
<1>2. [asked |-> None, data |-> None] \in Talon!Panel
  BY DEF Talon!Panel
<1>3. /\ slots' \in [Sides -> SlotStates \union {None}] /\ slots'[i] = None
      /\ panels' \in [Sides -> Talon!Panel] /\ panels'[i] = [asked |-> None, data |-> None]
      /\ \A j \in Sides \ {i} : slots'[j] = slots[j] /\ panels'[j] = panels[j]
  BY <1>1, <1>2 DEF SlotsInv, SlotTypes
<1>4. panels'[i].asked = None /\ panels'[i].data = None
  BY <1>3
<1>5. SlotTypes' /\ CropInv'
  BY <1>1, <1>3 DEF SlotsInv, SlotTypes, CropInv
<1>6. PreviewsInv'
  BY <1>3 DEF SlotsInv, PreviewsInv
<1>7. PanelsInv'
  BY <1>3, <1>4 DEF SlotsInv, PanelsInv
<1> QED
  BY <1>5, <1>6, <1>7 DEF SlotsInv

(* A panel of a slot with a photo shows it, or asks for it.                *)
LEMMA PanelStep ==
  ASSUME SlotsInv, UNCHANGED <<slots, talonSlots, crop>>, NEW i \in Sides, NEW panel \in Talon!Panel,
         panels' = [panels EXCEPT ![i] = panel],
         panel.asked # None => slots[i] # None /\ slots[i].photo = panel.asked.photo,
         panel.data # None => slots[i] # None /\ slots[i].photo = panel.data.photo
  PROVE  SlotsInv'
<1>1. /\ panels' \in [Sides -> Talon!Panel] /\ panels'[i] = panel
      /\ \A j \in Sides \ {i} : panels'[j] = panels[j]
  BY DEF SlotsInv, SlotTypes
<1>2. PanelsInv'
  BY <1>1 DEF SlotsInv, PanelsInv
<1> QED
  BY <1>1, <1>2 DEF SlotsInv, SlotTypes, CropInv, PreviewsInv

LEMMA SlotsInit ==
  Talon!Init => SlotsInv
<1> SUFFICES ASSUME Talon!Init
             PROVE  SlotsInv
  OBVIOUS
<1>1. /\ slots = [i \in Sides |-> None] /\ talonSlots = slots /\ crop = None
      /\ panels = [i \in Sides |-> [asked |-> None, data |-> None]]
  BY DEF Talon!Init, Talon!NoPanel
<1>2. [asked |-> None, data |-> None] \in Talon!Panel
  BY DEF Talon!Panel
<1>3. \A i \in Sides : panels[i].asked = None /\ panels[i].data = None
  BY <1>1
<1> QED
  BY <1>1, <1>2, <1>3 DEF SlotsInv, SlotTypes, CropInv, PanelsInv, PreviewsInv

LEMMA SlotsStep ==
  ASSUME None \notin SlotStates, Quads # {}, SlotsInv, [Talon!Next]_(Talon!vars)
  PROVE  SlotsInv'
<1>f. ASSUME UNCHANGED <<slots, talonSlots, crop, panels>>
      PROVE  SlotsInv'
  BY <1>f DEF SlotsInv, SlotTypes, CropInv, PanelsInv, PreviewsInv
<1>c. crop # None => crop \in CropStates
  BY DEF SlotsInv, SlotTypes
<1>1. CASE UNCHANGED Talon!vars
  BY <1>1, <1>f DEF Talon!vars, Talon!pageVars
<1>2. CASE Talon!Drag
  <2>1. PICK q \in Quads \ {crop.quad} :
          crop' = [crop EXCEPT !.quad = q, !.moved = (crop.phase = "loading")]
    BY <1>2 DEF Talon!Drag, Talon!Edit
  <2>2. /\ crop # None /\ crop.phase # "preview" /\ UNCHANGED <<slots, talonSlots, panels>>
    BY <1>2 DEF Talon!Drag, Talon!Edit
  <2>3. crop' = [slot |-> crop.slot, photo |-> crop.photo, quad |-> q, asked |-> crop.asked,
                 phase |-> crop.phase, moved |-> (crop.phase = "loading")]
    BY <1>c, <2>1, <2>2 DEF CropStates
  <2>4. crop' \in CropStates
    BY <1>c, <2>2, <2>3 DEF CropStates
  <2>5. /\ crop'.slot = crop.slot /\ crop'.photo = crop.photo /\ crop'.phase = crop.phase
        /\ crop'.phase = "loading" => crop'.moved = TRUE
    BY <2>3
  <2>6. CropInv'
    BY <2>2, <2>5 DEF SlotsInv, CropInv
  <2> QED
    BY <2>2, <2>4, <2>6, EditorKeepsSlots
<1>3. CASE Talon!HandleConfirmClick
  <2>1. /\ crop # None /\ UNCHANGED <<slots, talonSlots, panels>>
        /\ crop' = [crop EXCEPT !.phase = "loading", !.asked = crop.quad, !.moved = FALSE]
    BY <1>3 DEF Talon!HandleConfirmClick, Talon!Edit
  <2>2. crop' = [slot |-> crop.slot, photo |-> crop.photo, quad |-> crop.quad,
                 asked |-> crop.quad, phase |-> "loading", moved |-> FALSE]
    BY <1>c, <2>1 DEF CropStates
  <2>3. crop' \in CropStates
    BY <1>c, <2>1, <2>2 DEF CropStates
  <2>4. crop'.slot = crop.slot /\ crop'.photo = crop.photo /\ crop'.quad = crop'.asked
    BY <2>2
  <2>5. CropInv'
    BY <2>1, <2>4 DEF SlotsInv, CropInv
  <2> QED
    BY <2>1, <2>3, <2>5, EditorKeepsSlots
<1>4. CASE Talon!PreviewArrives \/ Talon!Back
  <2>1. /\ crop # None /\ UNCHANGED <<slots, talonSlots, panels>>
        /\ \/ crop.phase = "loading" /\ crop' = [crop EXCEPT !.phase = "preview"]
           \/ crop' = [crop EXCEPT !.phase = "edit", !.asked = None]
           \/ crop' = [crop EXCEPT !.phase = "edit"]
    BY <1>4 DEF Talon!PreviewArrives, Talon!Back, Talon!Edit
  <2>2. crop' \in CropStates /\ crop'.slot = crop.slot /\ crop'.photo = crop.photo
    BY <1>c, <2>1 DEF CropStates
  <2>3. /\ crop'.quad = crop.quad /\ crop'.moved = crop.moved
        /\ \/ crop'.phase = "edit"
           \/ crop'.phase = "preview" /\ crop.phase = "loading" /\ crop'.asked = crop.asked
    BY <1>c, <2>1 DEF CropStates
  <2>4. CropInv'
    BY <2>1, <2>2, <2>3 DEF SlotsInv, CropInv
  <2> QED
    BY <2>1, <2>2, <2>4, EditorKeepsSlots
<1>5. CASE Talon!HandleCropCancel
  <2>1. crop' = None /\ UNCHANGED <<slots, talonSlots, panels>>
    BY <1>5 DEF Talon!HandleCropCancel, Talon!Edit
  <2> QED
    BY <2>1, EditorKeepsSlots
<1>6. CASE Talon!HandleCropConfirm
  BY <1>6, SlotIsFilled
<1>7. ASSUME NEW i \in Sides, Talon!HandleFileChange(i)
      PROVE  SlotsInv'
  BY <1>7, CropOpens DEF Talon!HandleFileChange
<1>8. ASSUME NEW i \in Sides, Talon!HandleReCrop(i)
      PROVE  SlotsInv'
  <2>1. slots[i] # None /\ Talon!Crop(i, slots[i].photo)
    BY <1>8 DEF Talon!HandleReCrop
  <2>2. slots[i].photo \in Photos
    BY <2>1 DEF SlotsInv, SlotTypes, SlotStates
  <2> QED
    BY <2>1, <2>2, CropOpens
<1>9. ASSUME NEW i \in Sides, Talon!HandleRemove(i)
      PROVE  SlotsInv'
  BY <1>9, SlotIsEmptied
<1>10. ASSUME NEW i \in Sides, Talon!ReadSide(i)
       PROVE  SlotsInv'
  BY <1>10, <1>f DEF Talon!ReadSide, Talon!pageVars
<1>11. ASSUME NEW i \in Sides, Talon!ShowPipeline(i)
       PROVE  SlotsInv'
  <2>1. /\ slots[i] # None /\ talonSlots = slots /\ UNCHANGED <<slots, talonSlots, crop>>
        /\ panels' = [panels EXCEPT ![i].asked = Talon!PictureIn(talonSlots[i])]
    BY <1>11 DEF Talon!ShowPipeline, Talon!pageVars, SlotsInv, SlotTypes
  <2>2. panels[i] \in Talon!Panel
    BY DEF SlotsInv, SlotTypes
  <2> DEFINE picture == [photo |-> slots[i].photo, points |-> slots[i].points]
             panel == [asked |-> picture, data |-> panels[i].data]
  <2>3. Talon!PictureIn(slots[i]) = picture /\ picture \in Talon!Picture
    BY <2>1, PictureOfASlot
  <2>4. panels' = [panels EXCEPT ![i] = panel]
    <3>1. panels' = [panels EXCEPT ![i] = [panels[i] EXCEPT !.asked = picture]]
      BY <2>1, <2>3
    <3>2. [panels[i] EXCEPT !.asked = picture] = panel
      BY <2>2 DEF Talon!Panel
    <3> QED
      BY <3>1, <3>2
  <2>5. panel \in Talon!Panel
    BY <2>2, <2>3 DEF Talon!Panel
  <2>6. panel.data = panels[i].data /\ panel.asked.photo = slots[i].photo
    OBVIOUS
  <2>7. panel.data # None => slots[i] # None /\ slots[i].photo = panel.data.photo
    BY <2>6 DEF SlotsInv, PanelsInv
  <2> HIDE DEF panel
  <2> QED
    BY <2>1, <2>4, <2>5, <2>6, <2>7, PanelStep
<1>12. ASSUME NEW i \in Sides, Talon!PipelineArrives(i)
       PROVE  SlotsInv'
  <2>1. /\ panels[i].asked # None /\ UNCHANGED <<slots, talonSlots, crop>>
        /\ \/ panels' = [panels EXCEPT ![i] = [asked |-> None, data |-> panels[i].asked]]
           \/ panels' = [panels EXCEPT ![i].asked = None]
    BY <1>12 DEF Talon!PipelineArrives, Talon!pageVars
  <2>2. panels[i] \in Talon!Panel
    BY DEF SlotsInv, SlotTypes
  <2>3. ASSUME NEW data, data \in {panels[i].asked, panels[i].data},
               panels' = [panels EXCEPT ![i] = [asked |-> None, data |-> data]]
        PROVE  SlotsInv'
    <3> DEFINE panel == [asked |-> None, data |-> data]
    <3>1. panel \in Talon!Panel
      BY <2>2, <2>3 DEF Talon!Panel
    <3>2. panel.asked = None /\ panel.data = data
      OBVIOUS
    <3>3. data # None => slots[i] # None /\ slots[i].photo = data.photo
      BY <2>3 DEF SlotsInv, PanelsInv
    <3> HIDE DEF panel
    <3>4. panels' = [panels EXCEPT ![i] = panel]
      BY <2>3 DEF panel
    <3> QED
      BY <2>1, <3>1, <3>2, <3>3, <3>4, PanelStep
  <2>4. CASE panels' = [panels EXCEPT ![i] = [asked |-> None, data |-> panels[i].asked]]
    BY <2>3, <2>4
  <2>5. CASE panels' = [panels EXCEPT ![i].asked = None]
    <3>1. panels' = [panels EXCEPT ![i] = [panels[i] EXCEPT !.asked = None]]
      BY <2>5
    <3>2. [panels[i] EXCEPT !.asked = None] = [asked |-> None, data |-> panels[i].data]
      BY <2>2 DEF Talon!Panel
    <3> QED
      BY <2>3, <3>1, <3>2
  <2> QED
    BY <2>1, <2>4, <2>5
<1>13. ASSUME NEW f \in Fields, NEW text \in Texts \union {None}, Talon!SetField(f, text)
       PROVE  SlotsInv'
  BY <1>13, <1>f DEF Talon!SetField, Talon!pageVars
<1>14. CASE Talon!HandleSubmit \/ Talon!MergeOcrResults \/ Talon!QuotesArrive
            \/ Talon!OthersRead \/ Talon!TimePasses
  BY <1>14, <1>f DEF Talon!HandleSubmit, Talon!MergeOcrResults, Talon!QuotesArrive,
     Talon!OthersRead, Talon!TimePasses, Talon!pageVars
<1> QED
  BY <1>1, <1>2, <1>3, <1>4, <1>5, <1>6, <1>7, <1>8, <1>9, <1>10, <1>11, <1>12, <1>13, <1>14
     DEF Talon!Next, Talon!EditorNext, Talon!SlotNext

-----------------------------------------------------------------------------
(* The service's limit.  What the bucket has forgotten is too old to be in *)
(* a window with what comes now.                                           *)
Within(t) == {n \in DOMAIN admitted : admitted[n] \in t..t + Window}

LimitInv ==
  /\ admitted \in Seq(Nat) /\ bucket \subseteq DOMAIN admitted /\ clock \in Nat
  /\ \A n \in DOMAIN admitted :
       admitted[n] <= clock /\ (n \notin bucket => clock - admitted[n] > Window)
  /\ \A t \in Nat : Cardinality(Within(t)) <= Limit

LEMMA LimitInit ==
  ASSUME Limit \in Nat
  PROVE  Talon!Init => LimitInv
<1> SUFFICES ASSUME Talon!Init
             PROVE  LimitInv
  OBVIOUS
<1>1. admitted = <<>> /\ bucket = {} /\ clock = 0
  BY DEF Talon!Init
<1>2. \A t : Within(t) = {}
  BY <1>1 DEF Within
<1> QED
  BY <1>1, <1>2, FS_EmptySet DEF LimitInv

LEMMA ArriveKeepsLimit ==
  ASSUME Limit \in Nat, Window \in Nat, LimitInv, Talon!Arrive
  PROVE  LimitInv'
<1> DEFINE live == {n \in bucket : clock - admitted[n] <= Window}
           new == Len(admitted) + 1
<1>1. DOMAIN admitted = 1..Len(admitted) /\ Len(admitted) \in Nat
  BY DEF LimitInv
<1>2. IsFiniteSet(live)
  <2>1. IsFiniteSet(1..Len(admitted)) /\ live \subseteq 1..Len(admitted)
    BY <1>1, FS_Interval DEF LimitInv
  <2> QED
    BY <2>1, FS_Subset
<1>3. Cardinality(live) \in Nat /\ Talon!Live = live
      /\ (Talon!Admits <=> Cardinality(live) < Limit) /\ clock' = clock
  BY <1>2, FS_CardinalityType DEF Talon!Live, Talon!Admits, Talon!Cardinality, Cardinality,
     Talon!Arrive
<1>4. CASE Cardinality(live) < Limit
  <2>1. bucket' = live \union {new} /\ admitted' = Append(admitted, clock)
    BY <1>3, <1>4 DEF Talon!Arrive
  <2>2. /\ admitted' \in Seq(Nat) /\ DOMAIN admitted' = 1..new /\ admitted'[new] = clock
        /\ \A n \in 1..Len(admitted) : admitted'[n] = admitted[n]
    BY <1>1, <2>1 DEF LimitInv
  <2>3. \A n \in DOMAIN admitted' :
          admitted'[n] <= clock' /\ (n \notin bucket' => clock' - admitted'[n] > Window)
    <3> SUFFICES ASSUME NEW n \in DOMAIN admitted'
                 PROVE  /\ admitted'[n] <= clock'
                        /\ n \notin bucket' => clock' - admitted'[n] > Window
      OBVIOUS
    <3>1. CASE n = new
      BY <1>3, <2>1, <2>2, <3>1 DEF LimitInv
    <3>2. CASE n # new
      <4>1. n \in DOMAIN admitted /\ admitted'[n] = admitted[n] /\ admitted[n] \in Nat
        BY <1>1, <2>2, <3>2 DEF LimitInv
      <4> QED
        BY <1>3, <2>1, <4>1 DEF LimitInv
    <3> QED
      BY <3>1, <3>2
  <2>4. ASSUME NEW t \in Nat
        PROVE  Cardinality(Within(t)') <= Limit
    <3>1. CASE clock \in t..t + Window
      <4>1. Within(t)' \subseteq live \union {new}
        <5> SUFFICES ASSUME NEW n \in DOMAIN admitted', admitted'[n] \in t..t + Window, n # new
                     PROVE  n \in live
          BY DEF Within
        <5>1. n \in DOMAIN admitted /\ admitted[n] \in t..t + Window /\ admitted[n] \in Nat
          BY <1>1, <2>2 DEF LimitInv
        <5>2. clock - admitted[n] <= Window
          BY <3>1, <5>1 DEF LimitInv
        <5> QED
          BY <5>1, <5>2 DEF LimitInv
      <4>2. IsFiniteSet(live \union {new}) /\ Cardinality(live \union {new}) <= Cardinality(live) + 1
        <5> HIDE DEF live, new
        <5>1. /\ IsFiniteSet(live \union {new})
              /\ \/ Cardinality(live \union {new}) = Cardinality(live)
                 \/ Cardinality(live \union {new}) = Cardinality(live) + 1
          BY <1>2, FS_AddElement
        <5> QED
          BY <1>3, <5>1
      <4>3. Cardinality(Within(t)') <= Cardinality(live \union {new})
            /\ IsFiniteSet(Within(t)')
        BY <4>1, <4>2, FS_Subset
      <4>4. Cardinality(Within(t)') \in Nat /\ Cardinality(live \union {new}) \in Nat
        BY <4>2, <4>3, FS_CardinalityType
      <4> HIDE DEF live
      <4> QED
        BY <1>3, <1>4, <4>2, <4>3, <4>4
    <3>2. CASE clock \notin t..t + Window
      <4>1. Within(t)' = Within(t)
        BY <1>1, <2>2, <3>2 DEF Within
      <4> QED
        BY <4>1 DEF LimitInv
    <3> QED
      BY <3>1, <3>2
  <2>5. bucket' \subseteq DOMAIN admitted'
    BY <1>1, <2>1, <2>2 DEF LimitInv
  <2> QED
    BY <1>3, <2>2, <2>3, <2>4, <2>5 DEF LimitInv
<1>5. CASE ~(Cardinality(live) < Limit)
  <2>1. bucket' = live /\ admitted' = admitted
    BY <1>3, <1>5 DEF Talon!Arrive
  <2>2. \A t : Within(t)' = Within(t)
    BY <2>1 DEF Within
  <2>3. \A n \in DOMAIN admitted : n \notin live => clock - admitted[n] > Window
    <3> SUFFICES ASSUME NEW n \in DOMAIN admitted, n \in bucket, ~(clock - admitted[n] <= Window)
                 PROVE  clock - admitted[n] > Window
      BY DEF LimitInv
    <3>1. admitted[n] \in Nat
      BY DEF LimitInv
    <3> QED
      BY <3>1 DEF LimitInv
  <2> HIDE DEF live
  <2>4. live \subseteq bucket
    BY DEF live
  <2> QED
    BY <1>3, <2>1, <2>2, <2>3, <2>4 DEF LimitInv
<1> QED
  BY <1>4, <1>5

LEMMA LimitStep ==
  ASSUME Limit \in Nat, Window \in Nat, LimitInv, [Talon!Next]_(Talon!vars)
  PROVE  LimitInv'
<1>1. ASSUME UNCHANGED <<bucket, admitted, clock>>
      PROVE  LimitInv'
  BY <1>1 DEF LimitInv, Within
<1>2. CASE UNCHANGED Talon!vars
  BY <1>1, <1>2 DEF Talon!vars, Talon!limitVars
<1>3. CASE Talon!EditorNext
  BY <1>1, <1>3 DEF Talon!EditorNext, Talon!Drag, Talon!HandleConfirmClick, Talon!PreviewArrives,
     Talon!Back, Talon!HandleCropCancel, Talon!HandleCropConfirm, Talon!Edit, Talon!ChangeSlot,
     Talon!limitVars
<1>4. ASSUME NEW i \in Sides, Talon!SlotNext(i) \/ Talon!ShowPipeline(i)
      PROVE  LimitInv'
  BY <1>1, <1>4 DEF Talon!SlotNext, Talon!HandleFileChange, Talon!HandleReCrop,
     Talon!HandleRemove, Talon!Crop, Talon!ChangeSlot, Talon!ShowPipeline, Talon!limitVars
<1>5. ASSUME NEW i \in Sides, Talon!ReadSide(i) \/ Talon!PipelineArrives(i)
      PROVE  LimitInv'
  BY <1>5, ArriveKeepsLimit DEF Talon!ReadSide, Talon!PipelineArrives
<1>6. ASSUME NEW f \in Fields, NEW text \in Texts \union {None}, Talon!SetField(f, text)
      PROVE  LimitInv'
  BY <1>1, <1>6 DEF Talon!SetField, Talon!limitVars
<1>7. CASE Talon!HandleSubmit \/ Talon!MergeOcrResults \/ Talon!QuotesArrive
  BY <1>1, <1>7 DEF Talon!HandleSubmit, Talon!MergeOcrResults, Talon!QuotesArrive,
     Talon!limitVars
<1>8. CASE Talon!OthersRead
  BY <1>8, ArriveKeepsLimit DEF Talon!OthersRead
<1>9. CASE Talon!TimePasses
  <2>1. clock' = clock + 1 /\ UNCHANGED <<bucket, admitted>>
    BY <1>9 DEF Talon!TimePasses
  <2>2. \A n \in DOMAIN admitted : admitted[n] \in Nat
    BY DEF LimitInv
  <2> QED
    BY <2>1, <2>2 DEF LimitInv, Within
<1> QED
  BY <1>2, <1>3, <1>4, <1>5, <1>6, <1>7, <1>8, <1>9 DEF Talon!Next

-----------------------------------------------------------------------------
(* The form.  A value that was read is of the picture in its slot, unless  *)
(* the slot was changed while the value was in use.                        *)
ReadingStates ==
  [phase: {"reading", "quoting"}, values: Talon!Values, waiting: SUBSET Sides,
   pictures: [Sides -> Talon!Picture \union {None}],
   answers: [Sides -> [Fields -> Talon!Read \union {None}]]]

FormTypes ==
  /\ formValues \in Talon!Values /\ typed \in [Fields -> Texts \union {None}]
  /\ reading # None => reading \in ReadingStates
  /\ retyped \subseteq Fields /\ changed \subseteq Sides /\ torn \in BOOLEAN

Fits(i, picture) == Talon!PictureIn(slots[i]) = picture \/ i \in changed
PictureOf(value) == [photo |-> value.photo, points |-> value.points]
AsPhotographed(value) ==
  value \in Talon!Read =>
    Fits(value.step, PictureOf(value)) /\ (value.own = TRUE \/ torn = TRUE)

FieldsInv == \A f \in Fields : AsPhotographed(formValues[f])

ReadingInv ==
  Talon!Reading =>
    /\ \A f \in Fields : AsPhotographed(reading.values[f])
    /\ \A f \in Fields \ retyped : reading.values[f] = formValues[f]
    /\ \A i \in Sides : reading.pictures[i] # None => Fits(i, reading.pictures[i])
    /\ \A i \in reading.waiting : reading.pictures[i] # None
    /\ \A i \in Sides, f \in Fields : reading.answers[i][f] # None =>
         /\ reading.answers[i][f].step = i /\ reading.pictures[i] # None
         /\ PictureOf(reading.answers[i][f]) = reading.pictures[i]
         /\ reading.answers[i][f].own = TRUE \/ torn = TRUE

FormInv == FormTypes /\ FieldsInv /\ ReadingInv /\ Talon!TypedStays

NoneIsApart ==
  /\ None \notin SlotStates /\ None \notin Talon!Picture /\ None \notin Talon!Read
  /\ Texts \intersect Talon!Read = {}

LEMMA FormInit ==
  ASSUME NoneIsApart
  PROVE  Talon!Init => FormInv
<1> SUFFICES ASSUME Talon!Init
             PROVE  FormInv
  OBVIOUS
<1>1. /\ formValues = [f \in Fields |-> None] /\ typed = [f \in Fields |-> None]
      /\ reading = None /\ retyped = {} /\ changed = {} /\ torn = FALSE
  BY DEF Talon!Init
<1>2. FormTypes
  BY <1>1 DEF FormTypes, Talon!Values
<1>3. FieldsInv /\ ReadingInv /\ Talon!TypedStays
  BY <1>1 DEF FieldsInv, AsPhotographed, NoneIsApart, ReadingInv, Talon!Reading,
     Talon!TypedStays
<1> QED
  BY <1>2, <1>3 DEF FormInv

LEMMA ValuesOfPictures ==
  ASSUME NEW value \in Talon!Read
  PROVE  value.step \in Sides /\ PictureOf(value) \in Talon!Picture
BY DEF Talon!Read, PictureOf, Talon!Picture

(* A slot is changed.                                                      *)
LEMMA ChangeKeepsForm ==
  ASSUME NoneIsApart, FormInv, NEW i \in Sides, NEW slot, Talon!ChangeSlot(i, slot),
         slots \in [Sides -> SlotStates \union {None}]
  PROVE  FormInv'
<1>1. /\ slots' = [slots EXCEPT ![i] = slot]
      /\ changed' = IF slots[i] # None /\ Talon!InUse(i) THEN changed \union {i} ELSE changed
      /\ UNCHANGED <<formValues, typed, retyped, reading, torn>>
  BY DEF Talon!ChangeSlot, Talon!formVars
<1>2. \A j \in Sides \ {i} : slots'[j] = slots[j]
  BY <1>1
<1>3. changed \subseteq changed' /\ changed' \subseteq Sides
  BY <1>1 DEF FormInv, FormTypes
<1>4. i \in changed' \/ (i \notin changed /\ (slots[i] = None \/ ~Talon!InUse(i)))
  BY <1>1
<1>5. slots[i] = None => Talon!PictureIn(slots[i]) = None
  BY DEF Talon!PictureIn
<1>6. ASSUME NEW j \in Sides, NEW picture \in Talon!Picture, Fits(j, picture),
             j # i \/ slots[i] = None \/ i \in changed'
      PROVE  Talon!PictureIn(slots'[j]) = picture \/ j \in changed'
  <2>1. CASE j # i
    BY <1>2, <1>3, <1>6, <2>1 DEF Fits
  <2>2. CASE i \in changed'
    BY <1>6, <2>1, <2>2
  <2>3. CASE j = i /\ slots[i] = None
    BY <1>3, <1>5, <1>6, <2>3 DEF Fits, NoneIsApart
  <2> QED
    BY <1>6, <2>1, <2>2, <2>3
<1>7. Talon!Reading => slots[i] = None \/ i \in changed'
  BY <1>4 DEF Talon!InUse, Talon!Reading
<1>8. FormTypes'
  BY <1>1, <1>3 DEF FormInv, FormTypes
<1>9. FieldsInv'
  <2> SUFFICES ASSUME NEW f \in Fields, formValues[f] \in Talon!Read
               PROVE  /\ Talon!PictureIn(slots'[formValues[f].step]) = PictureOf(formValues[f])
                         \/ formValues[f].step \in changed'
                      /\ formValues[f].own = TRUE \/ torn = TRUE
    BY <1>1 DEF FieldsInv, AsPhotographed, Fits, PictureOf
  <2>1. /\ Fits(formValues[f].step, PictureOf(formValues[f]))
        /\ formValues[f].own = TRUE \/ torn = TRUE
    BY DEF FormInv, FieldsInv, AsPhotographed
  <2>2. formValues[f].step \in Sides /\ PictureOf(formValues[f]) \in Talon!Picture
    BY ValuesOfPictures
  <2>3. formValues[f].step # i \/ slots[i] = None \/ i \in changed'
    BY <1>4 DEF Talon!InUse
  <2> QED
    BY <1>6, <2>1, <2>2, <2>3
<1>10. ReadingInv'
  <2> SUFFICES ASSUME Talon!Reading
               PROVE  ReadingInv'
    BY <1>1 DEF ReadingInv, Talon!Reading
  <2>1. ReadingInv /\ reading \in ReadingStates
    BY DEF FormInv, FormTypes, Talon!Reading
  <2>2. \A f \in Fields : reading.values[f] \in Talon!Read =>
          /\ Talon!PictureIn(slots'[reading.values[f].step]) = PictureOf(reading.values[f])
             \/ reading.values[f].step \in changed'
          /\ reading.values[f].own = TRUE \/ torn = TRUE
    <3> TAKE f \in Fields
    <3> HAVE reading.values[f] \in Talon!Read
    <3>1. /\ Fits(reading.values[f].step, PictureOf(reading.values[f]))
          /\ reading.values[f].own = TRUE \/ torn = TRUE
      BY <2>1 DEF ReadingInv, AsPhotographed
    <3>2. reading.values[f].step \in Sides /\ PictureOf(reading.values[f]) \in Talon!Picture
      BY ValuesOfPictures
    <3> QED
      BY <1>6, <1>7, <3>1, <3>2
  <2>3. \A j \in Sides : reading.pictures[j] # None =>
          Talon!PictureIn(slots'[j]) = reading.pictures[j] \/ j \in changed'
    <3> TAKE j \in Sides
    <3> HAVE reading.pictures[j] # None
    <3>1. reading.pictures[j] \in Talon!Picture
      BY <2>1 DEF ReadingStates
    <3>2. Fits(j, reading.pictures[j])
      BY <2>1 DEF ReadingInv
    <3> QED
      BY <1>6, <1>7, <3>1, <3>2
  <2> QED
    BY <1>1, <2>1, <2>2, <2>3 DEF ReadingInv, AsPhotographed, Fits, PictureOf
<1>11. Talon!TypedStays'
  BY <1>1 DEF FormInv, Talon!TypedStays
<1> QED
  BY <1>8, <1>9, <1>10, <1>11 DEF FormInv

(* Somebody types.                                                         *)
LEMMA TypingKeepsForm ==
  ASSUME NoneIsApart, FormInv, NEW f \in Fields, NEW text \in Texts \union {None},
         Talon!SetField(f, text)
  PROVE  FormInv'
<1>1. /\ formValues' = [formValues EXCEPT ![f] = text] /\ typed' = [typed EXCEPT ![f] = text]
      /\ retyped' = IF Talon!Reading THEN retyped \union {f} ELSE retyped \ {f}
      /\ UNCHANGED <<slots, reading, changed, torn>>
  BY DEF Talon!SetField, Talon!pageVars
<1>2. /\ formValues' \in Talon!Values /\ typed' \in [Fields -> Texts \union {None}]
      /\ formValues'[f] = text /\ typed'[f] = text
      /\ \A g \in Fields \ {f} : formValues'[g] = formValues[g] /\ typed'[g] = typed[g]
  BY <1>1 DEF FormInv, FormTypes, Talon!Values
<1>3. text \notin Talon!Read
  BY DEF NoneIsApart
<1>4. FormTypes'
  BY <1>1, <1>2 DEF FormInv, FormTypes
<1>5. FieldsInv'
  <2> SUFFICES ASSUME NEW g \in Fields
               PROVE  AsPhotographed(formValues[g])'
    BY DEF FieldsInv
  <2>1. CASE g = f
    BY <1>2, <1>3, <2>1 DEF AsPhotographed
  <2>2. CASE g # f
    BY <1>1, <1>2, <2>2 DEF FormInv, FieldsInv, AsPhotographed, Fits, PictureOf
  <2> QED
    BY <2>1, <2>2
<1>6. ReadingInv'
  <2> SUFFICES ASSUME Talon!Reading
               PROVE  ReadingInv'
    BY <1>1 DEF ReadingInv, Talon!Reading
  <2>1. ReadingInv
    BY DEF FormInv
  <2>2. \A g \in Fields \ retyped' : reading.values[g] = formValues'[g]
    BY <1>1, <1>2, <2>1 DEF ReadingInv
  <2> QED
    BY <1>1, <2>1, <2>2 DEF ReadingInv, AsPhotographed, Fits, PictureOf
<1>7. Talon!TypedStays'
  BY <1>1, <1>2 DEF FormInv, Talon!TypedStays
<1> QED
  BY <1>4, <1>5, <1>6, <1>7 DEF FormInv

(* The form is sent.                                                       *)
LEMMA SubmitKeepsForm ==
  ASSUME NoneIsApart, SlotsInv, FormInv, Talon!HandleSubmit
  PROVE  FormInv'
<1> DEFINE submitted ==
             [phase |-> "reading", values |-> formValues,
              pictures |-> [i \in Sides |-> Talon!PictureIn(slots[i])],
              waiting |-> {i \in Sides : slots[i] # None},
              answers |-> [i \in Sides |-> [f \in Fields |-> None]]]
<1>1. reading' = submitted /\ UNCHANGED <<slots, formValues, typed, retyped, changed, torn>>
  BY DEF Talon!HandleSubmit, Talon!pageVars, Talon!formVars, SlotsInv, SlotTypes
<1>2. \A i \in Sides : /\ Talon!PictureIn(slots[i]) \in Talon!Picture \union {None}
                       /\ slots[i] # None => Talon!PictureIn(slots[i]) # None
  <2> TAKE i \in Sides
  <2>1. CASE slots[i] = None
    BY <2>1 DEF Talon!PictureIn
  <2>2. CASE slots[i] # None
    BY <2>2, PictureOfASlot DEF NoneIsApart
  <2> QED
    BY <2>1, <2>2
<1>3. submitted \in ReadingStates
  BY <1>2 DEF ReadingStates, FormInv, FormTypes
<1>4. /\ reading'.values = formValues
      /\ \A i \in Sides : reading'.pictures[i] = Talon!PictureIn(slots[i])
      /\ \A i \in reading'.waiting : i \in Sides /\ slots[i] # None
      /\ \A i \in Sides, f \in Fields : reading'.answers[i][f] = None
  BY <1>1
<1> HIDE DEF submitted
<1>5. FormTypes'
  BY <1>1, <1>3 DEF FormInv, FormTypes
<1>6. FieldsInv' /\ Talon!TypedStays'
  BY <1>1 DEF FormInv, FieldsInv, AsPhotographed, Fits, PictureOf, Talon!TypedStays
<1>7. ReadingInv'
  <2>1. \A f \in Fields : AsPhotographed(reading.values[f])'
    BY <1>1, <1>4 DEF FormInv, FieldsInv, AsPhotographed, Fits, PictureOf
  <2>2. \A i \in Sides : Fits(i, reading.pictures[i])'
    BY <1>1, <1>4 DEF Fits
  <2> QED
    BY <1>1, <1>2, <1>4, <2>1, <2>2 DEF ReadingInv
<1> QED
  BY <1>5, <1>6, <1>7 DEF FormInv

-----------------------------------------------------------------------------
(* What is read of a side.                                                 *)
LEMMA FirstLines ==
  ASSUME NEW lines \in SUBSET (1..3), 1 \in lines, 2 \in lines
  PROVE  /\ Cardinality(lines) >= 2 /\ Talon!Min(lines) = 1
         /\ Talon!Min(lines \ {Talon!Min(lines)}) = 2
<1>1. ASSUME NEW S \in SUBSET (1..3), NEW x \in S, \A y \in S : x <= y
      PROVE  Talon!Min(S) = x
  <2>1. \E y \in S : \A z \in S : y <= z
    BY <1>1
  <2>2. PICK m : m = Talon!Min(S)
    OBVIOUS
  <2>3. m \in S /\ m <= x
    BY <1>1, <2>1, <2>2 DEF Talon!Min
  <2>4. m \in 1..3 /\ x \in 1..3 /\ x <= m
    BY <1>1, <2>3
  <2> QED
    BY <2>2, <2>3, <2>4
<1>2. Talon!Min(lines) = 1 /\ Talon!Min(lines \ {1}) = 2
  <2>1. /\ lines \in SUBSET (1..3) /\ \A y \in lines : 1 <= y
        /\ lines \ {1} \in SUBSET (1..3) /\ 2 \in lines \ {1}
        /\ \A y \in lines \ {1} : 2 <= y
    OBVIOUS
  <2> QED
    BY <1>1, <2>1
<1>3. Cardinality(lines) >= 2
  <2>1. IsFiniteSet({1}) /\ Cardinality({1}) = 1
    BY FS_Singleton
  <2>2. Cardinality({1} \union {2}) = 2
    BY <2>1, FS_AddElement
  <2>3. IsFiniteSet(1..3)
    <3>1. 1 \in Int /\ 3 \in Int
      OBVIOUS
    <3> QED
      BY <3>1, FS_Interval
  <2>4. IsFiniteSet(lines)
    BY <2>3, FS_Subset
  <2>5. {1} \union {2} \subseteq lines
    OBVIOUS
  <2>6. Cardinality({1} \union {2}) <= Cardinality(lines)
    BY <2>4, <2>5, FS_Subset
  <2>7. Cardinality(lines) \in Nat
    BY <2>4, FS_CardinalityType
  <2> QED
    BY <2>2, <2>6, <2>7
<1> QED
  BY <1>2, <1>3

(* The texts that a reading yields are the fields' own, but for a first    *)
(* side without one of its first two lines.                                *)
LEMMA OwnOrTorn ==
  ASSUME Sides \subseteq 1..3, NEW i \in Sides, NEW lines \in SUBSET (1..3),
         i # 1 \/ {1, 2} \subseteq lines,
         NEW y \in Talon!Yields(i, lines), NEW f \in Fields
  PROVE  y[f] = None \/ y[f] = TRUE
<1>1. CASE i > 1
  BY <1>1 DEF Talon!Yields
<1>2. CASE ~(i > 1) /\ {1, 2} \subseteq lines
  <2>1. Talon!ParsePlate(lines) = {TRUE} /\ Talon!ParseVin(lines) = {TRUE}
    BY <1>2, FirstLines DEF Talon!ParsePlate, Talon!ParseVin, Talon!Holds, Talon!Cardinality,
       Cardinality
  <2> QED
    BY <1>2, <2>1 DEF Talon!Yields
<1>3. i > 1 \/ i = 1
  OBVIOUS
<1> QED
  BY <1>1, <1>2, <1>3

(* The answer for a side is of the picture that was sent.                  *)
ReadsPicture(answer, i, picture, lines) ==
  /\ answer \in [Fields -> Talon!Read \union {None}]
  /\ \A f \in Fields : answer[f] # None =>
       /\ answer[f].step = i /\ PictureOf(answer[f]) = picture
       /\ answer[f].own = TRUE \/ (i = 1 /\ ~({1, 2} \subseteq lines))

LEMMA ReadingOfAPicture ==
  ASSUME NoneIsApart, Sides \subseteq 1..3, NEW i \in Sides, NEW lines \in SUBSET (1..3),
         NEW y \in Talon!Yields(i, lines), NEW picture \in Talon!Picture
  PROVE  ReadsPicture(Talon!ReadBy(i, picture, y), i, picture, lines)
<1> DEFINE value(f) == [step |-> i, photo |-> picture.photo, points |-> picture.points,
                        own |-> y[f]]
<1>1. y \in [Fields -> BOOLEAN \union {None}]
  BY DEF Talon!Yields
<1>2. ASSUME NEW f \in Fields
      PROVE  Talon!ReadBy(i, picture, y)[f] = IF y[f] = None THEN None ELSE value(f)
  BY DEF Talon!ReadBy
<1>3. ASSUME NEW f \in Fields, y[f] # None
      PROVE  value(f) \in Talon!Read
  <2>1. y[f] \in BOOLEAN
    BY <1>1, <1>3
  <2> QED
    BY <2>1 DEF Talon!Read, Talon!Picture
<1>4. ASSUME NEW f \in Fields, y[f] # None
      PROVE  /\ value(f).step = i /\ PictureOf(value(f)) = picture
             /\ value(f).own = TRUE \/ (i = 1 /\ ~({1, 2} \subseteq lines))
  <2>1. PictureOf(value(f)) = picture
    BY DEF PictureOf, Talon!Picture
  <2>2. value(f).step = i /\ value(f).own = y[f]
    OBVIOUS
  <2>3. i # 1 \/ {1, 2} \subseteq lines => y[f] = TRUE
    BY <1>4, OwnOrTorn
  <2> QED
    BY <2>1, <2>2, <2>3
<1>5. Talon!ReadBy(i, picture, y) \in [Fields -> Talon!Read \union {None}]
  <2>1. \A f \in Fields : (IF y[f] = None THEN None ELSE value(f)) \in Talon!Read \union {None}
    BY <1>3
  <2> HIDE DEF value
  <2>2. Talon!ReadBy(i, picture, y) = [f \in Fields |-> IF y[f] = None THEN None ELSE value(f)]
    BY DEF Talon!ReadBy, value
  <2> QED
    BY <2>1, <2>2
<1> HIDE DEF value
<1> QED
  BY <1>2, <1>4, <1>5 DEF ReadsPicture

(* An answer for a side arrives, or none.                                  *)
LEMMA AnswerKeepsForm ==
  ASSUME FormInv, Talon!Reading, NEW i \in reading.waiting,
         NEW answers \in [Sides -> [Fields -> Talon!Read \union {None}]],
         UNCHANGED <<slots, formValues, typed, retyped, changed>>,
         torn' \in BOOLEAN, torn = TRUE => torn' = TRUE,
         reading' = [phase |-> "reading", values |-> reading.values,
                     waiting |-> reading.waiting \ {i}, pictures |-> reading.pictures,
                     answers |-> answers],
         \A j \in Sides \ {i} : answers[j] = reading.answers[j],
         \A f \in Fields : \/ answers[i][f] = reading.answers[i][f]
                          \/ answers[i][f] = None
                          \/ /\ answers[i][f].step = i
                             /\ PictureOf(answers[i][f]) = reading.pictures[i]
                             /\ answers[i][f].own = TRUE \/ torn' = TRUE
  PROVE  FormInv'
<1>1. reading \in ReadingStates /\ ReadingInv /\ i \in Sides /\ reading.pictures[i] # None
  BY DEF FormInv, FormTypes, Talon!Reading, ReadingStates, ReadingInv
<1>2. reading' \in ReadingStates
  BY <1>1 DEF ReadingStates
<1>3. /\ reading'.values = reading.values /\ reading'.pictures = reading.pictures
      /\ reading'.waiting \subseteq reading.waiting /\ reading'.answers = answers
  OBVIOUS
<1>4. FormTypes'
  BY <1>2 DEF FormInv, FormTypes
<1>5. FieldsInv' /\ Talon!TypedStays'
  BY DEF FormInv, FieldsInv, AsPhotographed, Fits, PictureOf, Talon!TypedStays
<1>6. \A j \in Sides, f \in Fields : reading'.answers[j][f] # None =>
         /\ reading'.answers[j][f].step = j /\ reading'.pictures[j] # None
         /\ PictureOf(reading'.answers[j][f]) = reading'.pictures[j]
         /\ reading'.answers[j][f].own = TRUE \/ torn' = TRUE
  <2> SUFFICES ASSUME NEW j \in Sides, NEW f \in Fields, answers[j][f] # None
               PROVE  /\ answers[j][f].step = j /\ reading.pictures[j] # None
                      /\ PictureOf(answers[j][f]) = reading.pictures[j]
                      /\ answers[j][f].own = TRUE \/ torn' = TRUE
    BY <1>3
  <2>1. CASE answers[j][f] = reading.answers[j][f]
    BY <1>1, <2>1 DEF ReadingInv, Talon!Reading
  <2>2. CASE answers[j][f] # reading.answers[j][f]
    <3>1. j = i
      BY <2>2
    <3> QED
      BY <1>1, <2>2, <3>1
  <2> QED
    BY <2>1, <2>2
<1>7. ReadingInv'
  <2>1. \A f \in Fields : AsPhotographed(reading.values[f])'
    <3> SUFFICES ASSUME NEW f \in Fields, reading.values[f] \in Talon!Read
                 PROVE  /\ Fits(reading.values[f].step, PictureOf(reading.values[f]))
                        /\ reading.values[f].own = TRUE \/ torn' = TRUE
      BY <1>3 DEF AsPhotographed, Fits, PictureOf
    <3> QED
      BY <1>1 DEF ReadingInv, AsPhotographed
  <2>2. \A j \in Sides : reading'.pictures[j] # None => Fits(j, reading.pictures[j])'
    BY <1>1, <1>3 DEF ReadingInv, Fits
  <2> QED
    BY <1>1, <1>3, <1>6, <2>1, <2>2 DEF ReadingInv, PictureOf
<1> QED
  BY <1>4, <1>5, <1>7 DEF FormInv

LEMMA ReadKeepsForm ==
  ASSUME NoneIsApart, Sides \subseteq 1..3, FormInv, NEW i \in Sides, Talon!ReadSide(i)
  PROVE  FormInv'
<1>1. /\ Talon!Reading /\ i \in reading.waiting
      /\ UNCHANGED <<slots, formValues, typed, retyped, changed>>
  BY DEF Talon!ReadSide, Talon!pageVars, Talon!formVars
<1>2. /\ reading \in ReadingStates /\ reading.phase = "reading"
      /\ reading.pictures[i] \in Talon!Picture
  <2>1. reading \in ReadingStates /\ reading.phase = "reading"
    BY <1>1 DEF FormInv, FormTypes, Talon!Reading
  <2>2. reading.pictures[i] # None
    BY <1>1 DEF FormInv, ReadingInv
  <2>3. reading.pictures[i] \in Talon!Picture \union {None}
    BY <2>1 DEF ReadingStates
  <2> QED
    BY <2>1, <2>2, <2>3
<1>3. CASE reading' = [reading EXCEPT !.waiting = reading.waiting \ {i}] /\ UNCHANGED torn
  <2>1. reading' = [phase |-> "reading", values |-> reading.values,
                    waiting |-> reading.waiting \ {i}, pictures |-> reading.pictures,
                    answers |-> reading.answers]
    BY <1>2, <1>3 DEF ReadingStates
  <2>2. reading.answers \in [Sides -> [Fields -> Talon!Read \union {None}]]
    BY <1>2 DEF ReadingStates
  <2>3. torn' = torn /\ torn \in BOOLEAN
    BY <1>3 DEF FormInv, FormTypes
  <2> QED
    BY <1>1, <2>1, <2>2, <2>3, AnswerKeepsForm
<1>4. ASSUME NEW lines \in SUBSET (1..3), NEW y \in Talon!Yields(i, lines),
             reading' = [reading EXCEPT !.waiting = reading.waiting \ {i},
                           !.answers[i] = Talon!ReadBy(i, reading.pictures[i], y)],
             torn' = (torn \/ (i = 1 /\ ~({1, 2} \subseteq lines)))
      PROVE  FormInv'
  <2> DEFINE answer == Talon!ReadBy(i, reading.pictures[i], y)
             answers == [reading.answers EXCEPT ![i] = answer]
  <2>1. ReadsPicture(answer, i, reading.pictures[i], lines)
    BY <1>2, ReadingOfAPicture
  <2> HIDE DEF answer
  <2>2. /\ answers \in [Sides -> [Fields -> Talon!Read \union {None}]] /\ answers[i] = answer
        /\ \A j \in Sides \ {i} : answers[j] = reading.answers[j]
    BY <1>2, <2>1 DEF ReadingStates, ReadsPicture
  <2>3. reading' = [phase |-> "reading", values |-> reading.values,
                    waiting |-> reading.waiting \ {i}, pictures |-> reading.pictures,
                    answers |-> answers]
    BY <1>2, <1>4 DEF ReadingStates, answer
  <2>4. torn' \in BOOLEAN /\ (torn = TRUE => torn' = TRUE)
    BY <1>4, Zenon DEF FormInv, FormTypes
  <2>5. (i = 1 /\ ~({1, 2} \subseteq lines)) => torn' = TRUE
    BY <1>4, Zenon
  <2> HIDE DEF answers
  <2> QED
    BY <1>1, <2>1, <2>2, <2>3, <2>4, <2>5, AnswerKeepsForm DEF ReadsPicture
<1> QED
  BY <1>3, <1>4 DEF Talon!ReadSide, Talon!Lines

(* What was read is added to the values of the form that was sent.         *)
LEMMA FirstIsOne ==
  ASSUME Sides \subseteq 1..3, NEW answers, NEW f \in Fields,
         Talon!FirstDefined(f, answers) # None
  PROVE  \E i \in Sides : answers[i][f] # None /\ Talon!FirstDefined(f, answers) = answers[i][f]
<1> DEFINE with == {i \in Sides : answers[i][f] # None}
<1>1. with # {} /\ Talon!FirstDefined(f, answers) = answers[Talon!Min(with)][f]
  BY DEF Talon!FirstDefined
<1>2. \E x \in with : \A y \in with : x <= y
  <2>1. PICK x \in with : TRUE
    BY <1>1
  <2>2. CASE 1 \in with
    BY <2>2
  <2>3. CASE 1 \notin with /\ 2 \in with
    BY <2>3
  <2>4. CASE 1 \notin with /\ 2 \notin with
    <3>1. \A y \in with : y = 3
      BY <2>4
    <3> QED
      BY <2>1, <3>1
  <2> QED
    BY <2>2, <2>3, <2>4
<1>3. Talon!Min(with) \in with
  BY <1>2 DEF Talon!Min
<1> QED
  BY <1>1, <1>3

LEMMA MergeKeepsForm ==
  ASSUME NoneIsApart, Sides \subseteq 1..3, FormInv, Talon!MergeOcrResults
  PROVE  FormInv'
<1>1. /\ Talon!Reading /\ reading' = [reading EXCEPT !.phase = "quoting"]
      /\ formValues' \in {formValues, Talon!Merged}
      /\ UNCHANGED <<slots, typed, retyped, changed, torn>>
  BY DEF Talon!MergeOcrResults, Talon!pageVars
<1>2. reading \in ReadingStates /\ ReadingInv
  BY <1>1 DEF FormInv, FormTypes, Talon!Reading
<1>3. ASSUME NEW f \in Fields
      PROVE  /\ Talon!Merged[f] \in Texts \union Talon!Read \union {None}
             /\ AsPhotographed(Talon!Merged[f])
             /\ reading.values[f] # None => Talon!Merged[f] = reading.values[f]
  <2>1. Talon!Merged[f] = IF reading.values[f] # None THEN reading.values[f]
                          ELSE Talon!FirstDefined(f, reading.answers)
    BY DEF Talon!Merged
  <2>2. CASE reading.values[f] # None
    BY <1>1, <1>2, <2>1, <2>2 DEF ReadingInv, ReadingStates, Talon!Values
  <2>3. CASE reading.values[f] = None /\ Talon!FirstDefined(f, reading.answers) = None
    BY <2>1, <2>3 DEF AsPhotographed, NoneIsApart
  <2>4. CASE reading.values[f] = None /\ Talon!FirstDefined(f, reading.answers) # None
    <3>1. PICK i \in Sides : /\ reading.answers[i][f] # None
                             /\ Talon!Merged[f] = reading.answers[i][f]
      BY <2>1, <2>4, FirstIsOne
    <3>2. reading.answers[i][f] \in Talon!Read
      BY <1>2, <3>1 DEF ReadingStates
    <3>3. /\ reading.answers[i][f].step = i
          /\ PictureOf(reading.answers[i][f]) = reading.pictures[i]
          /\ reading.answers[i][f].own = TRUE \/ torn = TRUE
          /\ Fits(i, reading.pictures[i])
      BY <1>1, <1>2, <3>1 DEF ReadingInv
    <3> QED
      BY <2>4, <3>1, <3>2, <3>3 DEF AsPhotographed
  <2> QED
    BY <2>2, <2>3, <2>4
<1>4. Talon!Merged \in Talon!Values
  <2>1. Talon!Merged = [f \in Fields |-> Talon!Merged[f]]
    BY DEF Talon!Merged
  <2> QED
    BY <1>3, <2>1 DEF Talon!Values
<1>5. FormTypes'
  <2>1. reading' \in ReadingStates
    BY <1>1, <1>2 DEF ReadingStates
  <2> QED
    BY <1>1, <1>4, <2>1 DEF FormInv, FormTypes
<1>6. \A f \in Fields : AsPhotographed(formValues'[f])
  BY <1>1, <1>3 DEF FormInv, FieldsInv
<1>7. FieldsInv'
  BY <1>1, <1>6 DEF FieldsInv, AsPhotographed, Fits, PictureOf
<1>8. ReadingInv'
  <2>1. reading'.phase = "quoting"
    BY <1>1, <1>2 DEF ReadingStates
  <2> QED
    BY <2>1 DEF ReadingInv, Talon!Reading
<1>9. Talon!TypedStays'
  <2> SUFFICES ASSUME NEW f \in Fields, typed[f] # None, f \notin retyped
               PROVE  formValues'[f] = typed[f]
    BY <1>1 DEF Talon!TypedStays
  <2>1. formValues[f] = typed[f] /\ reading.values[f] = formValues[f]
    BY <1>1, <1>2 DEF FormInv, Talon!TypedStays, ReadingInv
  <2> QED
    BY <1>1, <1>3, <2>1
<1> QED
  BY <1>5, <1>7, <1>8, <1>9 DEF FormInv

LEMMA FormStep ==
  ASSUME NoneIsApart, Sides \subseteq 1..3, SlotsInv, FormInv, [Talon!Next]_(Talon!vars)
  PROVE  FormInv'
<1>1. ASSUME UNCHANGED <<slots, formValues, typed, retyped, reading, changed, torn>>
      PROVE  FormInv'
  BY <1>1 DEF FormInv, FormTypes, FieldsInv, AsPhotographed, Fits, PictureOf, ReadingInv,
     Talon!Reading, Talon!TypedStays
<1>2. slots \in [Sides -> SlotStates \union {None}]
  BY DEF SlotsInv, SlotTypes
<1>3. CASE UNCHANGED Talon!vars
  BY <1>1, <1>3 DEF Talon!vars, Talon!pageVars, Talon!formVars
<1>4. CASE Talon!Drag \/ Talon!HandleConfirmClick \/ Talon!PreviewArrives \/ Talon!Back
           \/ Talon!HandleCropCancel
  BY <1>1, <1>4 DEF Talon!Drag, Talon!HandleConfirmClick, Talon!PreviewArrives, Talon!Back,
     Talon!HandleCropCancel, Talon!Edit, Talon!formVars
<1>5. CASE Talon!HandleCropConfirm
  <2>1. crop.slot \in Sides
    BY <1>5 DEF Talon!HandleCropConfirm, SlotsInv, SlotTypes, CropStates
  <2> QED
    BY <1>2, <1>5, <2>1, ChangeKeepsForm DEF Talon!HandleCropConfirm
<1>6. ASSUME NEW i \in Sides, Talon!HandleFileChange(i) \/ Talon!HandleReCrop(i)
      PROVE  FormInv'
  BY <1>1, <1>6 DEF Talon!HandleFileChange, Talon!HandleReCrop, Talon!Crop, Talon!formVars
<1>7. ASSUME NEW i \in Sides, Talon!HandleRemove(i)
      PROVE  FormInv'
  BY <1>2, <1>7, ChangeKeepsForm DEF Talon!HandleRemove
<1>8. ASSUME NEW i \in Sides, Talon!ReadSide(i)
      PROVE  FormInv'
  BY <1>8, ReadKeepsForm
<1>9. ASSUME NEW i \in Sides, Talon!ShowPipeline(i) \/ Talon!PipelineArrives(i)
      PROVE  FormInv'
  BY <1>1, <1>9 DEF Talon!ShowPipeline, Talon!PipelineArrives, Talon!pageVars, Talon!formVars
<1>10. ASSUME NEW f \in Fields, NEW text \in Texts \union {None}, Talon!SetField(f, text)
       PROVE  FormInv'
  BY <1>10, TypingKeepsForm
<1>11. CASE Talon!HandleSubmit
  BY <1>11, SubmitKeepsForm
<1>12. CASE Talon!MergeOcrResults
  BY <1>12, MergeKeepsForm
<1>13. CASE Talon!QuotesArrive
  <2>1. reading' = None /\ UNCHANGED <<slots, formValues, typed, retyped, changed, torn>>
    BY <1>13 DEF Talon!QuotesArrive, Talon!pageVars, Talon!formVars
  <2> QED
    BY <2>1 DEF FormInv, FormTypes, FieldsInv, AsPhotographed, Fits, PictureOf, ReadingInv,
       Talon!Reading, Talon!TypedStays
<1>14. CASE Talon!OthersRead \/ Talon!TimePasses
  BY <1>1, <1>14 DEF Talon!OthersRead, Talon!TimePasses, Talon!pageVars, Talon!formVars
<1> QED
  BY <1>3, <1>4, <1>5, <1>6, <1>7, <1>8, <1>9, <1>10, <1>11, <1>12, <1>13, <1>14
     DEF Talon!Next, Talon!EditorNext, Talon!SlotNext

-----------------------------------------------------------------------------
LEMMA InvariantsExplain ==
  ASSUME MaxClock \in Nat, SlotsInv, FormInv, LimitInv
  PROVE  Talon!UploadExplained
<1>1. Talon!SlotsAsPreviewed
  BY DEF SlotsInv, PreviewsInv, Talon!SlotsAsPreviewed
<1>2. Talon!FieldsAsPhotographed
  BY DEF FormInv, FieldsInv, AsPhotographed, Fits, PictureOf, Talon!FieldsAsPhotographed
<1>3. Talon!PanelsShowTheirPhoto
  BY DEF SlotsInv, PanelsInv, Talon!PanelsShowTheirPhoto
<1>4. Talon!ReadingsAreLimited
  <2> SUFFICES ASSUME NEW t \in 0..MaxClock
               PROVE  Cardinality(Within(t)) <= Limit
    BY DEF Talon!ReadingsAreLimited, Within, Talon!Cardinality, Cardinality
  <2> QED
    BY DEF LimitInv
<1> QED
  BY <1>1, <1>2, <1>3, <1>4 DEF FormInv, Talon!UploadExplained

(* The quotes page: a slot is cropped as its preview was, a field that was *)
(* read is of the picture in its slot, what the user typed stays, and the  *)
(* service never admits more readings than its limit, but for the cases    *)
(* that UploadExplained names (crop-editor.tsx:207-258, page.tsx:76-104,   *)
(* main.py:22-48); for any photos, corners, fields, limit and window.      *)
THEOREM UploadIsExplained ==
  ASSUME Sides \subseteq 1..3, Quads # {}, NoneIsApart, Limit \in Nat, Window \in Nat,
         MaxClock \in Nat
  PROVE  Talon!Spec => []Talon!UploadExplained
<1> DEFINE Inv == SlotsInv /\ FormInv /\ LimitInv
<1>1. Talon!Init => Inv
  BY SlotsInit, FormInit, LimitInit
<1>2. Inv /\ [Talon!Next]_(Talon!vars) => Inv'
  BY SlotsStep, FormStep, LimitStep DEF NoneIsApart
<1>3. Inv => Talon!UploadExplained
  BY InvariantsExplain
<1> HIDE DEF Inv
<1> QED
  BY <1>1, <1>2, <1>3, PTL DEF Talon!Spec

(* The wizard of the mobile application sends each photo for its side, with *)
(* its own corners or none, unless an event was about a state that has     *)
(* passed (ocr_wizard_bloc.dart:66-180); for every number of photos and    *)
(* scans.                                                                  *)
THEOREM WizardIsExplained ==
  ASSUME TotalSteps \in Nat, TotalSteps > 1
  PROVE  Wizard!Spec => []Wizard!SidesExplained
<1>1. Wizard!Init => WizardInv
  BY WizardInit
<1>2. WizardInv /\ [Wizard!Next]_(Wizard!vars) => WizardInv'
  BY WizardSteps
<1>3. WizardInv => Wizard!SidesExplained
  BY DEF WizardInv
<1> QED
  BY <1>1, <1>2, <1>3, PTL DEF Wizard!Spec

(* Each behaviour of the composition is one of the wizard and one of the   *)
(* quotes page.                                                            *)
LEMMA OrderIsEach ==
  OrderSpec => Wizard!Spec /\ Talon!Spec
<1>1. OrderInit => Wizard!Init /\ Talon!Init
  BY DEF OrderInit
<1>2. [OrderNext]_<<side, vars, stickerVars, scanVars, mobileVars, wizardVars, talonVars>>
        => [Wizard!Next]_(Wizard!vars) /\ [Talon!Next]_(Talon!vars)
  <2>1. UNCHANGED wizardVars => UNCHANGED Wizard!vars
    BY DEF wizardVars, Wizard!vars, Wizard!takenVars, Wizard!cameraVars, Wizard!scanVars
  <2>2. UNCHANGED talonVars => UNCHANGED Talon!vars
    BY DEF talonVars, Talon!vars, Talon!pageVars, Talon!formVars, Talon!limitVars
  <2> QED
    BY <2>1, <2>2 DEF OrderNext
<1> QED
  BY <1>1, <1>2, PTL DEF OrderSpec, Wizard!Spec, Talon!Spec

(* What the two screens show of a talon can be explained (OcrWizard,       *)
(* TalonUpload), in every behaviour of the composition.                    *)
THEOREM SidesAreExplained ==
  ASSUME TotalSteps \in Nat, TotalSteps > 1, Sides \subseteq 1..3, Quads # {}, NoneIsApart,
         Limit \in Nat, Window \in Nat, MaxClock \in Nat
  PROVE  OrderSpec => []SidesExplained
<1>1. Wizard!Spec => []Wizard!SidesExplained
  BY WizardIsExplained
<1>2. Talon!Spec => []Talon!UploadExplained
  BY UploadIsExplained
<1>3. Wizard!SidesExplained /\ Talon!UploadExplained => SidesExplained
  BY DEF SidesExplained
<1> QED
  BY <1>1, <1>2, <1>3, OrderIsEach, PTL
=============================================================================
