----------------------------- MODULE OfficeProofs -----------------------------
(***************************************************************************)
(* What a broker's office relies on: the export of a fleet's policies, for *)
(* every batch and any number of workers, all of which may assemble, and   *)
(* the texts for the clients, for every number of editors, phones and      *)
(* languages.                                                              *)
(***************************************************************************)
EXTENDS MCOffice, FiniteSetTheorems, TLAPS

-----------------------------------------------------------------------------
(***************************************************************************)
(* What an export that is ready says is true.  The row only counts, so the *)
(* invariant relates its counters to the policies behind them, and what an *)
(* assembly has read of the row to what others have written since.  It     *)
(* does so as long as no job fails after it has counted its policy and     *)
(* none is run twice, and says of an export that was disturbed what is     *)
(* left.                                                                   *)
(***************************************************************************)
Before == {"generate", "completed", "failed"}
Reading == {"try", "assemble"}
Writing == {"markFailed", "zip", "ready"}
After == Reading \union Writing \union {"notify"}
Final == {"completed", "partial", "failed"}

TypesOK ==
  /\ job \in [Jobs -> JobState] /\ lock \in [Jobs -> Workers \union {None}]
  /\ completed \in Nat /\ failed \in Nat /\ faults \in Nat
  /\ failedIds \subseteq Policies /\ pdfs \subseteq Policies /\ zip \subseteq Policies
  /\ pc \in [Workers -> {"idle"} \union Before \union After]
  /\ cur \in [Workers -> Policies \union {None}]
  /\ snap \in [Workers -> Counts] /\ newest \in Nat /\ outrun \in BOOLEAN
  /\ \A w \in Workers : pc[w] # "idle" => cur[w] \in Policies

(* A job that is active has its worker, and that worker no other job.      *)
JobInv ==
  /\ \A p \in Policies :
       /\ job[p] # "failed"
       /\ job[p] = "active" => lock[p] \in Workers /\ cur[lock[p]] = p
  /\ \A w \in Workers :
       /\ cur[w] = None <=> pc[w] = "idle"
       /\ cur[w] # None => job[cur[w]] = "active" /\ lock[cur[w]] = w

(* The policies that a job has counted in the row. *)
Counted ==
  {p \in Policies : \/ job[p] = "completed"
                    \/ \E w \in Workers : cur[w] = p /\ pc[w] \in After}

CountInv ==
  /\ failedIds \subseteq Counted
  /\ Cardinality(failedIds) = failed
  /\ Cardinality(Counted) = completed + failed
  /\ Counted \ failedIds \subseteq pdfs
  /\ \A w \in Workers : pc[w] = "completed" => cur[w] \in pdfs

(* What a worker has read of the row is a part of what it holds now.  Some *)
(* policy was counted by then, and the PDFs of the completed were there.   *)
SnapInv ==
  \A w \in Workers : pc[w] \in Writing =>
    /\ snap[w].completed <= completed /\ snap[w].failed <= failed
    /\ 0 < snap[w].completed + snap[w].failed
    /\ pc[w] = "markFailed" <=> snap[w].completed = 0
    /\ snap[w].completed > 0 => snap[w].pdfs \ snap[w].failedIds # {}
    /\ snap[w].completed = Total => snap[w].pdfs \ snap[w].failedIds = Policies

ZipInv ==
  /\ \A w \in Workers : pc[w] = "ready" => zip # {}
  /\ status \in {"completed", "partial"} => zip # {}

Read(w) == snap[w].completed + snap[w].failed

(* What is counted has been written from, or somebody will read it or      *)
(* write what it has read of it.                                           *)
Pending(w) ==
  pc[w] \in Reading \/ (pc[w] \in Writing /\ Read(w) = completed + failed)

NewestInv ==
  /\ newest <= completed + failed
  /\ \A w \in Workers : pc[w] = "ready" => Read(w) <= newest
  /\ newest = completed + failed \/ \E w \in Workers : Pending(w)
  /\ status = "completed" => completed = Total /\ newest = Total

Said == (status = "completed" <=> failed = 0) /\ (status = "failed" <=> completed = 0)

(* What is written from a whole batch stays, if nobody is outrun. *)
WholeInv ==
  ~outrun /\ newest = Total =>
    /\ completed = Total => zip = Policies
    /\ status \in Final => Said \/ \E w \in Workers : pc[w] = "ready" /\ Read(w) = Total

OrderInv == SnapInv /\ ZipInv /\ NewestInv /\ WholeInv

CalmInv == JobInv /\ CountInv /\ OrderInv

KeyInv == status \in {"completed", "partial"} => zipKey

IInv == TypesOK /\ KeyInv /\ (Undisturbed => CalmInv)

-----------------------------------------------------------------------------
(* What the counters say of the policies. *)
LEMMA CountsAreFinite ==
  ASSUME IsFiniteSet(Jobs), TypesOK
  PROVE  /\ IsFiniteSet(Counted) /\ IsFiniteSet(failedIds)
         /\ Total \in Nat /\ Cardinality(Counted) \in Nat /\ Cardinality(Counted) <= Total
         /\ Cardinality(Counted) = Total => Counted = Policies
<1>1. Counted \in SUBSET Policies /\ failedIds \in SUBSET Policies /\ IsFiniteSet(Policies)
  BY DEF Counted, TypesOK, Policies
<1>2. /\ IsFiniteSet(Counted) /\ IsFiniteSet(failedIds)
      /\ Cardinality(Counted) <= Cardinality(Policies)
      /\ Cardinality(Policies) = Cardinality(Counted) => Policies = Counted
  BY <1>1, FS_Subset
<1>3. Cardinality(Counted) \in Nat /\ Cardinality(Policies) \in Nat
  BY <1>1, <1>2, FS_CardinalityType
<1> QED
  BY <1>2, <1>3 DEF Total

LEMMA SomeCompleted ==
  ASSUME IsFiniteSet(Jobs), TypesOK, CountInv, completed > 0
  PROVE  Counted \ failedIds # {}
<1> SUFFICES ASSUME Counted \ failedIds = {}
             PROVE  FALSE
  OBVIOUS
<1>1. Counted = failedIds
  BY DEF CountInv
<1>2. completed + failed = failed
  BY <1>1 DEF CountInv
<1> QED
  BY <1>2 DEF TypesOK

LEMMA AllCompleted ==
  ASSUME IsFiniteSet(Jobs), TypesOK, CountInv, completed = Total
  PROVE  failedIds = {} /\ Counted = Policies
<1>1. failed = 0 /\ Cardinality(Counted) = Total
  BY CountsAreFinite DEF CountInv, TypesOK
<1>2. failedIds = {}
  BY <1>1, CountsAreFinite, FS_EmptySet DEF CountInv
<1> QED
  BY <1>1, <1>2, CountsAreFinite

(* A policy that is counted once more. *)
LEMMA OneMoreCounted ==
  ASSUME IsFiniteSet(Jobs), TypesOK, CountInv, NEW p \in Policies \ Counted,
         Counted' = Counted \union {p},
         \/ completed' = completed + 1 /\ p \in pdfs /\ UNCHANGED <<failed, failedIds>>
         \/ failed' = failed + 1 /\ failedIds' = failedIds \union {p} /\ UNCHANGED completed,
         UNCHANGED pdfs,
         \A v \in Workers : pc'[v] = "completed" => cur'[v] \in pdfs
  PROVE  CountInv'
<1>1. Cardinality(Counted') = Cardinality(Counted) + 1
  BY CountsAreFinite, FS_AddElement
<1>2. Cardinality(failedIds \union {p}) = Cardinality(failedIds) + 1
  <2>1. p \notin failedIds
    BY DEF CountInv
  <2> QED
    BY <2>1, CountsAreFinite, FS_AddElement
<1>3. Cardinality(Counted) = completed + failed /\ Cardinality(failedIds) = failed
  BY DEF CountInv
<1>4. completed \in Nat /\ failed \in Nat
  BY DEF TypesOK
<1>5. CASE completed' = completed + 1 /\ p \in pdfs /\ UNCHANGED <<failed, failedIds>>
  <2>1. Cardinality(Counted') = completed' + failed'
    BY <1>1, <1>3, <1>4, <1>5
  <2> QED
    BY <1>5, <2>1 DEF CountInv
<1>6. CASE failed' = failed + 1 /\ failedIds' = failedIds \union {p} /\ UNCHANGED completed
  <2>1. Cardinality(Counted') = completed' + failed' /\ Cardinality(failedIds') = failed'
    BY <1>1, <1>2, <1>3, <1>4, <1>6
  <2> QED
    BY <1>6, <2>1 DEF CountInv
<1> QED
  BY <1>5, <1>6

LEMMA SameCounted ==
  ASSUME CountInv, Counted' = Counted, UNCHANGED <<completed, failed, failedIds>>,
         pdfs \subseteq pdfs',
         \A v \in Workers : pc'[v] = "completed" => cur'[v] \in pdfs'
  PROVE  CountInv'
  BY DEF CountInv

-----------------------------------------------------------------------------
(* How a step of one worker changes what is counted. *)
LEMMA WorkerMoves ==
  ASSUME TypesOK, JobInv, NEW w \in Workers, pc[w] # "idle", NEW to \in Before \union After,
         pc' = [pc EXCEPT ![w] = to], UNCHANGED <<job, lock, cur>>
  PROVE  /\ JobInv'
         /\ (pc[w] \in After <=> to \in After) => Counted' = Counted
         /\ pc[w] \in Before /\ to \in After =>
              /\ cur[w] \in Policies \ Counted
              /\ Counted' = Counted \union {cur[w]}
<1>1. pc'[w] = to /\ \A v \in Workers \ {w} : pc'[v] = pc[v]
  BY DEF TypesOK
<1>2. cur[w] # None /\ cur[w] \in Policies /\ job[cur[w]] = "active" /\ lock[cur[w]] = w
  BY DEF JobInv, TypesOK
<1>3. JobInv'
  <2>1. to # "idle"
    BY DEF Before, After, Reading, Writing
  <2> QED
    BY <1>1, <2>1 DEF JobInv
<1>4. \A v \in Workers : cur[v] = cur[w] => v = w
  BY <1>2 DEF JobInv
<1>5. (pc[w] \in After <=> to \in After) => Counted' = Counted
  BY <1>1 DEF Counted
<1>6. ASSUME pc[w] \in Before, to \in After
      PROVE  cur[w] \notin Counted /\ Counted' = Counted \union {cur[w]}
  <2>1. pc[w] \notin After
    BY <1>6 DEF Before, After, Reading, Writing
  <2>2. cur[w] \notin Counted
    BY <1>2, <1>4, <2>1 DEF Counted
  <2>3. Counted' = Counted \union {cur[w]}
    BY <1>1, <1>2, <1>6, <2>1 DEF Counted
  <2> QED
    BY <2>2, <2>3
<1> QED
  BY <1>2, <1>3, <1>5, <1>6

LEMMA WorkerFinishes ==
  ASSUME TypesOK, JobInv, NEW w \in Workers, pc[w] \in After, Idle(w), Complete(w, cur[w])
  PROVE  /\ JobInv' /\ Counted' = Counted
         /\ pc'[w] = "idle" /\ \A v \in Workers \ {w} :
              pc'[v] = pc[v] /\ cur'[v] = cur[v] /\ snap'[v] = snap[v]
<1>1. pc[w] # "idle"
  BY DEF After, Reading, Writing
<1>2. cur[w] # None /\ cur[w] \in Policies /\ job[cur[w]] = "active" /\ lock[cur[w]] = w
  BY <1>1 DEF JobInv, TypesOK
<1>3. /\ job' = [job EXCEPT ![cur[w]] = "completed"] /\ lock' = [lock EXCEPT ![cur[w]] = None]
  BY <1>2 DEF Complete
<1>4. /\ job'[cur[w]] = "completed"
      /\ \A p \in Policies \ {cur[w]} : job'[p] = job[p] /\ lock'[p] = lock[p]
  BY <1>2, <1>3 DEF TypesOK, Policies
<1>5. /\ pc'[w] = "idle" /\ cur'[w] = None
      /\ \A v \in Workers \ {w} : pc'[v] = pc[v] /\ cur'[v] = cur[v] /\ snap'[v] = snap[v]
  BY DEF Idle, TypesOK
<1>6. \A v \in Workers \ {w} : cur[v] # cur[w]
  BY <1>2 DEF JobInv
<1>7. JobInv'
  <2>1. ASSUME NEW p \in Policies
        PROVE  /\ job'[p] # "failed"
               /\ job'[p] = "active" => lock'[p] \in Workers /\ cur'[lock'[p]] = p
    <3>1. CASE p = cur[w]
      BY <1>4, <3>1
    <3>2. CASE p # cur[w]
      BY <1>2, <1>4, <1>5, <3>2 DEF JobInv
    <3> QED
      BY <3>1, <3>2
  <2>2. ASSUME NEW v \in Workers
        PROVE  /\ cur'[v] = None <=> pc'[v] = "idle"
               /\ cur'[v] # None => job'[cur'[v]] = "active" /\ lock'[cur'[v]] = v
    <3>1. CASE v = w
      BY <1>5, <3>1
    <3>2. CASE v # w
      BY <1>4, <1>5, <1>6, <3>2 DEF JobInv, TypesOK
    <3> QED
      BY <3>1, <3>2
  <2> QED
    BY <2>1, <2>2 DEF JobInv
<1>8. Counted' = Counted
  BY <1>2, <1>4, <1>5, <1>6 DEF Counted, After, Reading, Writing
<1> QED
  BY <1>5, <1>7, <1>8

LEMMA WorkerTakes ==
  ASSUME TypesOK, JobInv, NEW w \in Workers, NEW p \in Policies, TakeJob(w, p)
  PROVE  /\ JobInv' /\ Counted' = Counted
         /\ pc'[w] = "generate" /\ \A v \in Workers \ {w} : pc'[v] = pc[v] /\ cur'[v] = cur[v]
<1>1. /\ pc[w] = "idle" /\ job[p] = "waiting"
      /\ pc' = [pc EXCEPT ![w] = "generate"] /\ cur' = [cur EXCEPT ![w] = p]
      /\ job' = [job EXCEPT ![p] = "active"] /\ lock' = [lock EXCEPT ![p] = w]
  BY DEF TakeJob, Goto, Take
<1>2. /\ pc'[w] = "generate" /\ cur'[w] = p /\ p # None
      /\ \A v \in Workers \ {w} : pc'[v] = pc[v] /\ cur'[v] = cur[v]
  BY <1>1, QueueAssumption DEF TypesOK, Policies
<1>3. /\ job'[p] = "active" /\ lock'[p] = w
      /\ \A q \in Policies \ {p} : job'[q] = job[q] /\ lock'[q] = lock[q]
  BY <1>1 DEF TypesOK, Policies
<1>4. cur[w] = None /\ \A v \in Workers : cur[v] # p
  <2>1. \A v \in Workers : cur[v] = p => job[p] = "active"
    BY <1>2 DEF JobInv
  <2> QED
    BY <1>1, <2>1 DEF JobInv
<1>5. JobInv'
  <2>1. ASSUME NEW q \in Policies
        PROVE  /\ job'[q] # "failed"
               /\ job'[q] = "active" => lock'[q] \in Workers /\ cur'[lock'[q]] = q
    <3>1. CASE q = p
      BY <1>2, <1>3, <3>1
    <3>2. CASE q # p
      <4>1. job[q] = "active" => lock[q] \in Workers /\ cur[lock[q]] = q /\ lock[q] # w
        BY <1>4, QueueAssumption DEF JobInv, Policies
      <4> QED
        BY <1>2, <1>3, <3>2, <4>1 DEF JobInv
    <3> QED
      BY <3>1, <3>2
  <2>2. ASSUME NEW v \in Workers
        PROVE  /\ cur'[v] = None <=> pc'[v] = "idle"
               /\ cur'[v] # None => job'[cur'[v]] = "active" /\ lock'[cur'[v]] = v
    <3>1. CASE v = w
      BY <1>2, <1>3, <3>1
    <3>2. CASE v # w
      BY <1>2, <1>3, <1>4, <3>2 DEF JobInv, TypesOK
    <3> QED
      BY <3>1, <3>2
  <2> QED
    BY <2>1, <2>2 DEF JobInv
<1>6. Counted' = Counted
  BY <1>1, <1>2, <1>3, <1>4 DEF Counted, After, Reading, Writing
<1> QED
  BY <1>2, <1>5, <1>6

-----------------------------------------------------------------------------
(* A step in which nobody counts a policy, reads the row or writes. *)
LEMMA Unwritten ==
  ASSUME OrderInv, UNCHANGED <<completed, failed, newest, outrun, zip>>,
         \A v \in Workers : pc'[v] \in Writing => pc'[v] = pc[v] /\ snap'[v] = snap[v],
         \A v \in Workers : pc[v] \in Writing => pc'[v] = pc[v] /\ snap'[v] = snap[v],
         \A v \in Workers : pc[v] \in Reading => pc'[v] \in Reading,
         status' \in Final => status' = status
  PROVE  OrderInv'
<1>1. SnapInv'
  BY DEF OrderInv, SnapInv, Total, Policies
<1>2. ZipInv'
  BY DEF OrderInv, ZipInv, Writing, Final
<1>3. NewestInv'
  <2>1. \A v \in Workers : Pending(v) => Pending(v)'
    BY DEF Pending, Read
  <2>2. \A v \in Workers : pc'[v] = "ready" => pc[v] = "ready" /\ Read(v)' = Read(v)
    BY DEF Writing, Read
  <2> QED
    BY <2>1, <2>2 DEF OrderInv, NewestInv, Final, Total, Policies
<1>4. WholeInv'
  <2>1. \A v \in Workers : pc[v] = "ready" => pc'[v] = "ready" /\ Read(v)' = Read(v)
    BY DEF Writing, Read
  <2> QED
    BY <2>1 DEF OrderInv, WholeInv, Said, Total, Policies
<1> QED
  BY <1>1, <1>2, <1>3, <1>4 DEF OrderInv

(* A step that counts one more policy: nothing was written from a whole    *)
(* batch before.                                                           *)
LEMMA CountedMore ==
  ASSUME TypesOK, OrderInv, Total \in Nat, completed + failed < Total,
         NEW w \in Workers, pc'[w] = "try", pc[w] \in Before,
         \A v \in Workers \ {w} : pc'[v] = pc[v],
         \/ completed' = completed + 1 /\ failed' = failed
         \/ completed' = completed /\ failed' = failed + 1,
         UNCHANGED <<newest, outrun, zip, snap, status>>
  PROVE  OrderInv'
<1> USE DEF TypesOK
<1>1. /\ completed' \in Nat /\ failed' \in Nat /\ completed <= completed' /\ failed <= failed'
      /\ newest < Total /\ newest <= completed' + failed'
  <2>1. newest <= completed + failed
    BY DEF OrderInv, NewestInv
  <2> QED
    BY <2>1
<1>2. /\ \A v \in Workers : pc'[v] \in Writing => pc'[v] = pc[v] /\ snap[v] \in Counts
      /\ pc'[w] \in Reading
  BY DEF Reading, Writing
<1>3. SnapInv'
  <2> SUFFICES ASSUME NEW v \in Workers, pc'[v] \in Writing
               PROVE  snap[v].completed <= completed' /\ snap[v].failed <= failed'
    BY <1>2 DEF OrderInv, SnapInv, Total, Policies
  <2>1. /\ snap[v].completed <= completed /\ snap[v].failed <= failed
        /\ snap[v].completed \in Nat /\ snap[v].failed \in Nat
    BY <1>2 DEF OrderInv, SnapInv, Counts
  <2> QED
    BY <1>1, <2>1
<1>4. ZipInv'
  BY <1>2 DEF OrderInv, ZipInv, Writing
<1>5. NewestInv'
  <2>1. \A v \in Workers : pc'[v] = "ready" => Read(v)' <= newest'
    BY <1>2 DEF OrderInv, NewestInv, Read, Writing
  <2>2. Pending(w)'
    BY <1>2 DEF Pending
  <2>3. status # "completed"
    BY <1>1 DEF OrderInv, NewestInv
  <2> QED
    BY <1>1, <2>1, <2>2, <2>3 DEF NewestInv
<1>6. WholeInv'
  BY <1>1 DEF WholeInv, Total, Policies
<1> QED
  BY <1>3, <1>4, <1>5, <1>6 DEF OrderInv

(* A step in which neither a job nor a worker moves. *)
LEMMA NobodyMoves ==
  ASSUME TypesOK, CalmInv, UNCHANGED <<queueVars, workerVars>>,
         UNCHANGED <<completed, failed, failedIds, s3Vars, orderVars>>,
         status' \in Final => status' = status
  PROVE  CalmInv'
<1> USE DEF CalmInv, queueVars, workerVars, s3Vars, orderVars
<1>1. JobInv' /\ Counted' = Counted
  BY DEF JobInv, Counted
<1>2. CountInv'
  BY <1>1, SameCounted DEF CountInv
<1>3. OrderInv'
  BY Unwritten
<1> QED
  BY <1>1, <1>2, <1>3

LEMMA CallStep ==
  ASSUME TypesOK, CalmInv, CallAction
  PROVE  CalmInv'
<1>1. CASE SaveExport
  BY <1>1, NobodyMoves DEF SaveExport, s3Vars, Final
<1>2. CASE MarkProcessing
  BY <1>2, NobodyMoves DEF MarkProcessing, s3Vars, Final
<1>3. ASSUME NEW p \in Policies, QueueJob(p)
      PROVE  CalmInv'
  <2>1. /\ job[p] = "absent" /\ job' = [job EXCEPT ![p] = "waiting"]
        /\ UNCHANGED <<lock, cur, pc, snap, completed, failed, failedIds, status, pdfs, zip,
                       newest, outrun>>
    BY <1>3 DEF QueueJob, Add, rowVars, s3Vars, workerVars, orderVars, TypesOK, Policies
  <2>2. job'[p] = "waiting" /\ \A q \in Policies \ {p} : job'[q] = job[q]
    BY <2>1 DEF TypesOK, Policies
  <2>3. JobInv'
    BY <2>1, <2>2 DEF CalmInv, JobInv, TypesOK
  <2>4. Counted' = Counted
    BY <2>1, <2>2 DEF Counted
  <2>5. CountInv'
    BY <2>1, <2>4, SameCounted DEF CalmInv, CountInv
  <2>6. OrderInv'
    BY <2>1, Unwritten DEF CalmInv
  <2> QED
    BY <2>3, <2>5, <2>6 DEF CalmInv
<1> QED
  BY <1>1, <1>2, <1>3 DEF CallAction

-----------------------------------------------------------------------------
(* The steps of a job, one by one. *)
LEMMA PdfStep ==
  ASSUME TypesOK, CalmInv, NEW w \in Workers, GeneratePdf(w) \/ PdfFails(w)
  PROVE  CalmInv'
<1>1. PICK to \in {"completed", "failed"} :
        /\ pc[w] = "generate" /\ pc' = [pc EXCEPT ![w] = to]
        /\ to = "completed" => pdfs' = pdfs \union {cur[w]}
        /\ to = "failed" => pdfs' = pdfs
        /\ UNCHANGED <<job, lock, cur, snap, completed, failed, failedIds, status, zip,
                       newest, outrun>>
  BY DEF GeneratePdf, PdfFails, Goto, queueVars, rowVars, s3Vars, orderVars
<1>2. JobInv' /\ Counted' = Counted
  <2>1. to \in Before \union After /\ pc[w] # "idle" /\ pc[w] \notin After /\ to \notin After
    BY <1>1 DEF Before, After, Reading, Writing
  <2> QED
    BY <1>1, <2>1, WorkerMoves DEF CalmInv
<1>3. pc'[w] = to /\ \A v \in Workers \ {w} : pc'[v] = pc[v]
  BY <1>1 DEF TypesOK
<1>4. \A v \in Workers : pc'[v] = "completed" => cur'[v] \in pdfs'
  BY <1>1, <1>3 DEF CalmInv, CountInv
<1>5. CountInv'
  BY <1>1, <1>2, <1>4, SameCounted DEF CalmInv
<1>6. OrderInv'
  BY <1>1, <1>3, Unwritten DEF CalmInv, Reading, Writing
<1> QED
  BY <1>2, <1>5, <1>6 DEF CalmInv

LEMMA CountCompletedStep ==
  ASSUME IsFiniteSet(Jobs), TypesOK, CalmInv, NEW w \in Workers, IncrementCompleted(w)
  PROVE  CalmInv'
<1>1. /\ pc[w] = "completed" /\ pc' = [pc EXCEPT ![w] = "try"] /\ completed' = completed + 1
      /\ UNCHANGED <<job, lock, cur, snap, failed, failedIds, status, zip, pdfs, newest, outrun>>
  BY DEF IncrementCompleted, Goto, queueVars, s3Vars, orderVars
<1>2. JobInv' /\ cur[w] \in Policies \ Counted /\ Counted' = Counted \union {cur[w]}
  BY <1>1, WorkerMoves DEF CalmInv, Before, After, Reading, Writing
<1>3. pc'[w] = "try" /\ \A v \in Workers \ {w} : pc'[v] = pc[v]
  BY <1>1 DEF TypesOK
<1>4. cur[w] \in pdfs /\ \A v \in Workers : pc'[v] = "completed" => cur'[v] \in pdfs
  BY <1>1, <1>3 DEF CalmInv, CountInv
<1>5. CountInv'
  BY <1>1, <1>2, <1>4, OneMoreCounted DEF CalmInv
<1>6. Cardinality(Counted) < Total /\ Total \in Nat
  BY <1>2, CountsAreFinite
<1>7. completed + failed < Total
  BY <1>6 DEF CalmInv, CountInv
<1>8. OrderInv'
  BY <1>1, <1>3, <1>6, <1>7, CountedMore DEF CalmInv, Before
<1> QED
  BY <1>2, <1>5, <1>8 DEF CalmInv

LEMMA CountFailedStep ==
  ASSUME IsFiniteSet(Jobs), TypesOK, CalmInv, NEW w \in Workers, IncrementFailed(w)
  PROVE  CalmInv'
<1>1. /\ pc[w] = "failed" /\ pc' = [pc EXCEPT ![w] = "try"]
      /\ failed' = failed + 1 /\ failedIds' = failedIds \union {cur[w]}
      /\ UNCHANGED <<job, lock, cur, snap, completed, status, zip, pdfs, newest, outrun>>
  BY DEF IncrementFailed, Goto, queueVars, s3Vars, orderVars
<1>2. JobInv' /\ cur[w] \in Policies \ Counted /\ Counted' = Counted \union {cur[w]}
  BY <1>1, WorkerMoves DEF CalmInv, Before, After, Reading, Writing
<1>3. pc'[w] = "try" /\ \A v \in Workers \ {w} : pc'[v] = pc[v]
  BY <1>1 DEF TypesOK
<1>4. \A v \in Workers : pc'[v] = "completed" => cur'[v] \in pdfs
  BY <1>1, <1>3 DEF CalmInv, CountInv
<1>5. CountInv'
  BY <1>1, <1>2, <1>4, OneMoreCounted DEF CalmInv
<1>6. Cardinality(Counted) < Total /\ Total \in Nat
  BY <1>2, CountsAreFinite
<1>7. completed + failed < Total
  BY <1>6 DEF CalmInv, CountInv
<1>8. OrderInv'
  BY <1>1, <1>3, <1>6, <1>7, CountedMore DEF CalmInv, Before
<1> QED
  BY <1>2, <1>5, <1>8 DEF CalmInv

LEMMA TakeStep ==
  ASSUME TypesOK, CalmInv, NEW w \in Workers, NEW p \in Policies, TakeJob(w, p)
  PROVE  CalmInv'
<1>1. /\ pc[w] = "idle"
      /\ UNCHANGED <<snap, completed, failed, failedIds, status, zip, pdfs, newest, outrun>>
  BY DEF TakeJob, Goto, rowVars, s3Vars, orderVars
<1>2. /\ JobInv' /\ Counted' = Counted
      /\ pc'[w] = "generate" /\ \A v \in Workers \ {w} : pc'[v] = pc[v] /\ cur'[v] = cur[v]
  BY WorkerTakes DEF CalmInv
<1>3. \A v \in Workers : pc'[v] = "completed" => cur'[v] \in pdfs'
  BY <1>1, <1>2 DEF CalmInv, CountInv
<1>4. CountInv'
  BY <1>1, <1>2, <1>3, SameCounted DEF CalmInv
<1>5. OrderInv'
  BY <1>1, <1>2, Unwritten DEF CalmInv, Reading, Writing
<1> QED
  BY <1>2, <1>4, <1>5 DEF CalmInv

(* A worker goes from one statement of the assembly to the next. *)
LEMMA AssemblyMoves ==
  ASSUME TypesOK, CalmInv, NEW w \in Workers, NEW to \in After, pc[w] \in After,
         pc' = [pc EXCEPT ![w] = to],
         UNCHANGED <<queueVars, cur, completed, failed, failedIds, pdfs>>
  PROVE  /\ JobInv' /\ CountInv'
         /\ pc'[w] = to /\ \A v \in Workers \ {w} : pc'[v] = pc[v]
<1>1. JobInv' /\ Counted' = Counted
  BY WorkerMoves DEF CalmInv, After, Reading, Writing, queueVars
<1>2. pc'[w] = to /\ \A v \in Workers \ {w} : pc'[v] = pc[v]
  BY DEF TypesOK
<1>3. \A v \in Workers : pc'[v] = "completed" => cur'[v] \in pdfs'
  BY <1>2 DEF CalmInv, CountInv, After, Reading, Writing
<1>4. CountInv'
  BY <1>1, <1>3, SameCounted DEF CalmInv
<1> QED
  BY <1>1, <1>2, <1>4

LEMMA FinishStep ==
  ASSUME TypesOK, CalmInv, NEW w \in Workers, NotifyBroker(w)
  PROVE  CalmInv'
<1>1. /\ pc[w] = "notify" /\ Idle(w) /\ Complete(w, cur[w])
      /\ UNCHANGED <<completed, failed, failedIds, status, zip, pdfs, newest, outrun>>
  BY DEF NotifyBroker, rowVars, s3Vars, orderVars
<1>2. /\ JobInv' /\ Counted' = Counted
      /\ pc'[w] = "idle" /\ \A v \in Workers \ {w} :
           pc'[v] = pc[v] /\ cur'[v] = cur[v] /\ snap'[v] = snap[v]
  BY <1>1, WorkerFinishes DEF CalmInv, After
<1>3. \A v \in Workers : pc'[v] = "completed" => cur'[v] \in pdfs'
  BY <1>1, <1>2 DEF CalmInv, CountInv
<1>4. CountInv'
  BY <1>1, <1>2, <1>3, SameCounted DEF CalmInv
<1>5. OrderInv'
  BY <1>1, <1>2, Unwritten DEF CalmInv, Reading, Writing
<1> QED
  BY <1>2, <1>4, <1>5 DEF CalmInv

LEMMA TryStep ==
  ASSUME TypesOK, CalmInv, NEW w \in Workers, TryAssemble(w)
  PROVE  CalmInv'
<1>1. /\ pc[w] = "try" /\ pc' = [pc EXCEPT ![w] = "assemble"]
      /\ status' = (IF AllCounted THEN "assembling" ELSE status)
      /\ UNCHANGED <<queueVars, cur, snap, completed, failed, failedIds, zip, pdfs, newest,
                     outrun>>
  BY DEF TryAssemble, Goto, s3Vars, orderVars
<1>2. /\ JobInv' /\ CountInv'
      /\ pc'[w] = "assemble" /\ \A v \in Workers \ {w} : pc'[v] = pc[v]
  BY <1>1, AssemblyMoves DEF After, Reading
<1>3. OrderInv'
  BY <1>1, <1>2, Unwritten DEF CalmInv, Reading, Writing, Final
<1> QED
  BY <1>2, <1>3 DEF CalmInv

LEMMA ReadStep ==
  ASSUME IsFiniteSet(Jobs), TypesOK, CalmInv, NEW w \in Workers, ReadExport(w)
  PROVE  CalmInv'
<1> DEFINE to == IF completed = 0 THEN "markFailed" ELSE "zip"
<1> DEFINE row == [completed |-> completed, failed |-> failed, failedIds |-> failedIds,
                   pdfs |-> pdfs]
<1>1. /\ pc[w] = "assemble" /\ pc' = [pc EXCEPT ![w] = to] /\ snap' = [snap EXCEPT ![w] = row]
      /\ UNCHANGED <<queueVars, cur, completed, failed, failedIds, status, zip, pdfs, newest,
                     outrun>>
  BY DEF ReadExport, Goto, rowVars, s3Vars, orderVars
<1>2. /\ JobInv' /\ CountInv'
      /\ pc'[w] = to /\ \A v \in Workers \ {w} : pc'[v] = pc[v]
  <2>1. pc[w] \in After /\ to \in After
    BY <1>1 DEF After, Reading, Writing
  <2> QED
    BY <1>1, <2>1, AssemblyMoves
<1>3. snap'[w] = row /\ \A v \in Workers \ {w} : snap'[v] = snap[v]
  BY <1>1 DEF TypesOK
<1>4. completed \in Nat /\ failed \in Nat
  BY DEF TypesOK
<1>5. 0 < completed + failed
  <2>1. cur[w] \in Counted
    BY <1>1 DEF Counted, TypesOK, After, Reading
  <2>2. Cardinality(Counted) # 0
    BY <2>1, CountsAreFinite, FS_EmptySet
  <2> QED
    BY <1>4, <2>2 DEF CalmInv, CountInv
<1>6. /\ completed > 0 => pdfs \ failedIds # {}
      /\ completed = Total => pdfs \ failedIds = Policies
  <2>1. Counted \ failedIds \subseteq pdfs \ failedIds /\ pdfs \subseteq Policies
    BY DEF CalmInv, CountInv, TypesOK
  <2>2. completed > 0 => Counted \ failedIds # {}
    BY SomeCompleted DEF CalmInv
  <2>3. completed = Total => failedIds = {} /\ Counted = Policies
    BY AllCompleted DEF CalmInv
  <2> QED
    BY <2>1, <2>2, <2>3
<1>7. SnapInv'
  <2> SUFFICES ASSUME NEW v \in Workers, pc'[v] \in Writing
               PROVE  /\ snap'[v].completed <= completed' /\ snap'[v].failed <= failed'
                      /\ 0 < snap'[v].completed + snap'[v].failed
                      /\ pc'[v] = "markFailed" <=> snap'[v].completed = 0
                      /\ snap'[v].completed > 0 => snap'[v].pdfs \ snap'[v].failedIds # {}
                      /\ snap'[v].completed = Total =>
                           snap'[v].pdfs \ snap'[v].failedIds = Policies
    BY DEF SnapInv, Total, Policies
  <2>1. CASE v = w
    BY <1>1, <1>2, <1>3, <1>4, <1>5, <1>6, <2>1
  <2>2. CASE v # w
    BY <1>1, <1>2, <1>3, <2>2 DEF CalmInv, OrderInv, SnapInv
  <2> QED
    BY <2>1, <2>2
<1>8. pc'[w] # "ready" /\ pc[w] # "ready"
  BY <1>1, <1>2
<1>9. ZipInv'
  BY <1>1, <1>2, <1>8 DEF CalmInv, OrderInv, ZipInv
<1>10. NewestInv'
  <2>1. Pending(w)'
    BY <1>1, <1>2, <1>3, <1>4 DEF Pending, Read, Writing
  <2>2. \A v \in Workers : pc'[v] = "ready" => Read(v)' <= newest
    BY <1>2, <1>3, <1>8 DEF CalmInv, OrderInv, NewestInv, Read
  <2> QED
    BY <1>1, <2>1, <2>2 DEF CalmInv, OrderInv, NewestInv, Total, Policies
<1>11. WholeInv'
  <2>1. \A v \in Workers : pc[v] = "ready" => pc'[v] = "ready" /\ Read(v)' = Read(v)
    BY <1>2, <1>3, <1>8 DEF Read
  <2> QED
    BY <1>1, <2>1 DEF CalmInv, OrderInv, WholeInv, Said, Total, Policies
<1> QED
  BY <1>2, <1>7, <1>9, <1>10, <1>11 DEF CalmInv, OrderInv

(* What the assemblies that have not written still hold, when one of them  *)
(* writes and goes on.                                                     *)
LEMMA WriterMoves ==
  ASSUME TypesOK, CalmInv, NEW w \in Workers, pc[w] \in Writing, Writes(w),
         NEW to \in {"ready", "notify"}, pc' = [pc EXCEPT ![w] = to],
         pc[w] = "markFailed" => to # "ready",
         UNCHANGED <<snap, completed, failed>>
  PROVE  /\ SnapInv' /\ newest' \in Nat /\ newest <= newest' /\ newest' <= completed + failed
         /\ Read(w) \in Nat /\ Read(w) <= newest'
         /\ \A v \in Workers : pc'[v] = "ready" => Read(v)' <= newest'
         /\ newest' = completed + failed \/ \E v \in Workers : Pending(v)'
         /\ ~outrun' => ~outrun /\ newest' = Read(w)
<1>1. pc'[w] = to /\ \A v \in Workers \ {w} : pc'[v] = pc[v]
  BY DEF TypesOK
<1>2. SnapInv'
  <2>1. \A v \in Workers : pc'[v] \in Writing =>
          pc[v] \in Writing /\ (pc'[v] = "markFailed" <=> pc[v] = "markFailed")
    BY <1>1 DEF Writing
  <2> QED
    BY <2>1 DEF CalmInv, OrderInv, SnapInv, Total, Policies
<1>3. /\ Read(w) \in Nat /\ snap[w].completed \in Nat /\ snap[w].failed \in Nat
      /\ newest \in Nat /\ completed \in Nat /\ failed \in Nat
  BY DEF Read, TypesOK, Counts
<1>4. Read(w) <= completed + failed
  <2>1. snap[w].completed <= completed /\ snap[w].failed <= failed
    BY DEF CalmInv, OrderInv, SnapInv
  <2> QED
    BY <1>3, <2>1 DEF Read
<1>5. newest <= completed + failed
  BY DEF CalmInv, OrderInv, NewestInv
<1>6. /\ newest' = (IF newest < Read(w) THEN Read(w) ELSE newest)
      /\ outrun' = (outrun \/ Read(w) < newest)
  BY DEF Writes, Read
<1>7. /\ newest' \in Nat /\ newest <= newest' /\ newest' <= completed + failed
      /\ Read(w) <= newest' /\ (Read(w) = completed + failed => newest' = completed + failed)
  BY <1>3, <1>4, <1>5, <1>6
<1>8. ~outrun' => ~outrun /\ newest' = Read(w)
  <2>1. ~outrun' => ~outrun /\ ~(Read(w) < newest)
    BY <1>6, Zenon
  <2>2. ~(Read(w) < newest) => newest' = Read(w)
    BY <1>3, <1>6
  <2> QED
    BY <2>1, <2>2, Zenon
<1>9. ASSUME NEW v \in Workers, pc'[v] = "ready"
      PROVE  Read(v)' <= newest'
  <2>1. CASE v = w
    BY <1>7, <2>1 DEF Read
  <2>2. CASE v # w
    <3>1. Read(v) <= newest /\ Read(v) \in Nat
      BY <1>1, <1>9, <2>2 DEF CalmInv, OrderInv, NewestInv, Read, TypesOK, Counts
    <3> QED
      BY <1>3, <1>7, <3>1 DEF Read
  <2> QED
    BY <2>1, <2>2
<1>10. newest' = completed + failed \/ \E v \in Workers : Pending(v)'
  <2>1. CASE newest = completed + failed
    BY <1>3, <1>7, <2>1
  <2>2. CASE Pending(w)
    BY <1>7, <2>2 DEF Pending, Reading, Writing
  <2>3. ASSUME NEW v \in Workers, v # w, Pending(v)
        PROVE  Pending(v)'
    BY <1>1, <2>3 DEF Pending, Read
  <2> QED
    BY <2>1, <2>2, <2>3 DEF CalmInv, OrderInv, NewestInv
<1> QED
  BY <1>2, <1>3, <1>7, <1>8, <1>9, <1>10

(* A worker that has read the whole batch has read the row as it is. *)
LEMMA ReadIsRow ==
  ASSUME IsFiniteSet(Jobs), TypesOK, CalmInv, NEW w \in Workers, pc[w] \in Writing
  PROVE  /\ completed \in Nat /\ failed \in Nat /\ Total \in Nat /\ completed + failed <= Total
         /\ snap[w].completed \in Nat /\ snap[w].failed \in Nat
         /\ snap[w].completed <= completed /\ snap[w].failed <= failed
         /\ Read(w) = Total => /\ snap[w].completed = completed /\ snap[w].failed = failed
                               /\ completed + failed = Total
         /\ snap[w].completed = Total =>
              completed = Total /\ failed = 0 /\ snap[w].failed = 0 /\ Read(w) = Total
<1>1. completed \in Nat /\ failed \in Nat /\ Total \in Nat /\ completed + failed <= Total
  BY CountsAreFinite DEF CalmInv, CountInv, TypesOK
<1>2. snap[w].completed \in Nat /\ snap[w].failed \in Nat
  BY DEF TypesOK, Counts
<1>3. snap[w].completed <= completed /\ snap[w].failed <= failed
  BY DEF CalmInv, OrderInv, SnapInv
<1> QED
  BY <1>1, <1>2, <1>3 DEF Read

LEMMA MarkFailedStep ==
  ASSUME IsFiniteSet(Jobs), TypesOK, CalmInv, NEW w \in Workers, MarkExportFailed(w)
  PROVE  CalmInv'
<1>1. /\ pc[w] = "markFailed" /\ pc' = [pc EXCEPT ![w] = "notify"] /\ status' = "failed"
      /\ Writes(w)
      /\ UNCHANGED <<queueVars, cur, snap, completed, failed, failedIds, zip, pdfs>>
  BY DEF MarkExportFailed, Goto, s3Vars
<1>2. pc[w] \in Writing
  BY <1>1 DEF Writing
<1>3. /\ JobInv' /\ CountInv'
      /\ pc'[w] = "notify" /\ \A v \in Workers \ {w} : pc'[v] = pc[v]
  BY <1>1, AssemblyMoves DEF After, Writing
<1>4. /\ SnapInv' /\ newest' <= completed + failed
      /\ \A v \in Workers : pc'[v] = "ready" => Read(v)' <= newest'
      /\ newest' = completed + failed \/ \E v \in Workers : Pending(v)'
      /\ ~outrun' => ~outrun /\ newest' = Read(w)
  BY <1>1, <1>2, WriterMoves
<1>5. ZipInv'
  BY <1>1, <1>3 DEF CalmInv, OrderInv, ZipInv
<1>6. NewestInv'
  BY <1>1, <1>4 DEF NewestInv
<1>7. WholeInv'
  <2> SUFFICES ASSUME ~outrun', newest' = Total
               PROVE  (completed = Total => zip = Policies) /\ Said'
    BY <1>1 DEF WholeInv, Total, Policies
  <2>1. Read(w) = Total
    BY <1>4
  <2>2. /\ snap[w].completed = 0 /\ 0 < snap[w].completed + snap[w].failed
    BY <1>1, <1>2 DEF CalmInv, OrderInv, SnapInv
  <2>3. completed = 0 /\ failed # 0 /\ completed # Total
    BY <1>2, <2>1, <2>2, ReadIsRow
  <2> QED
    BY <1>1, <2>3 DEF Said
<1> QED
  BY <1>3, <1>4, <1>5, <1>6, <1>7 DEF CalmInv, OrderInv

(* The ZIP holds what was completed when its worker read the row, and that *)
(* is not nothing.                                                         *)
LEMMA ZipStep ==
  ASSUME IsFiniteSet(Jobs), TypesOK, CalmInv, NEW w \in Workers, BuildZip(w)
  PROVE  CalmInv'
<1>1. /\ pc[w] = "zip" /\ pc' = [pc EXCEPT ![w] = "ready"] /\ Writes(w)
      /\ UNCHANGED <<queueVars, cur, snap, completed, failed, failedIds, status, pdfs>>
  BY DEF BuildZip, Goto, rowVars
<1>2. PICK found \in SUBSET pdfs :
        snap[w].pdfs \subseteq found /\ zip' = found \ snap[w].failedIds
  BY DEF BuildZip
<1>3. pc[w] \in Writing
  BY <1>1 DEF Writing
<1>4. /\ JobInv' /\ CountInv'
      /\ pc'[w] = "ready" /\ \A v \in Workers \ {w} : pc'[v] = pc[v]
  BY <1>1, AssemblyMoves DEF After, Writing
<1>5. /\ SnapInv' /\ newest' \in Nat /\ newest <= newest' /\ newest' <= completed + failed
      /\ \A v \in Workers : pc'[v] = "ready" => Read(v)' <= newest'
      /\ newest' = completed + failed \/ \E v \in Workers : Pending(v)'
      /\ ~outrun' => ~outrun /\ newest' = Read(w)
  BY <1>1, <1>3, WriterMoves
<1>6. snap[w].pdfs \ snap[w].failedIds \subseteq zip' /\ zip' \subseteq Policies
  BY <1>2 DEF TypesOK
<1>7. zip' # {}
  <2>1. snap[w].completed > 0
    BY <1>1, <1>3, ReadIsRow DEF CalmInv, OrderInv, SnapInv
  <2>2. snap[w].pdfs \ snap[w].failedIds # {}
    BY <1>3, <2>1 DEF CalmInv, OrderInv, SnapInv
  <2> QED
    BY <1>6, <2>2
<1>8. ZipInv'
  BY <1>7 DEF ZipInv
<1>9. NewestInv'
  <2>1. status' = "completed" => completed' = Total /\ newest' = Total
    <3>1. status = "completed" => completed = Total /\ newest = Total
      BY DEF CalmInv, OrderInv, NewestInv
    <3>2. completed + failed <= Total /\ newest \in Nat /\ Total \in Nat
          /\ completed \in Nat /\ failed \in Nat
      BY <1>3, ReadIsRow DEF TypesOK
    <3> QED
      BY <1>1, <1>5, <3>1, <3>2
  <2> QED
    BY <1>1, <1>5, <2>1 DEF NewestInv, Total, Policies
<1>10. WholeInv'
  <2> SUFFICES ASSUME ~outrun', newest' = Total
               PROVE  /\ completed = Total => zip' = Policies
                      /\ \E v \in Workers : pc'[v] = "ready" /\ Read(v)' = Total
    BY <1>1 DEF WholeInv, Total, Policies
  <2>1. Read(w) = Total /\ Read(w)' = Read(w)
    BY <1>1, <1>5 DEF Read
  <2>2. completed = Total => snap[w].completed = Total
    BY <1>3, <2>1, ReadIsRow
  <2>3. completed = Total => snap[w].pdfs \ snap[w].failedIds = Policies
    BY <1>3, <2>2 DEF CalmInv, OrderInv, SnapInv
  <2> QED
    BY <1>4, <1>6, <2>1, <2>3
<1> QED
  BY <1>4, <1>5, <1>8, <1>9, <1>10 DEF CalmInv, OrderInv

LEMMA ReadyStep ==
  ASSUME IsFiniteSet(Jobs), TypesOK, CalmInv, NEW w \in Workers, MarkReady(w)
  PROVE  CalmInv'
<1>1. /\ pc[w] = "ready" /\ pc' = [pc EXCEPT ![w] = "notify"] /\ Writes(w)
      /\ status' = (IF snap[w].completed = Total THEN "completed" ELSE "partial")
      /\ UNCHANGED <<queueVars, cur, snap, completed, failed, failedIds, zip, pdfs>>
  BY DEF MarkReady, Goto, s3Vars
<1>2. pc[w] \in Writing
  BY <1>1 DEF Writing
<1>3. /\ JobInv' /\ CountInv'
      /\ pc'[w] = "notify" /\ \A v \in Workers \ {w} : pc'[v] = pc[v]
  BY <1>1, AssemblyMoves DEF After, Writing
<1>4. /\ SnapInv' /\ newest' \in Nat /\ newest <= newest' /\ newest' <= completed + failed
      /\ Read(w) <= newest'
      /\ \A v \in Workers : pc'[v] = "ready" => Read(v)' <= newest'
      /\ newest' = completed + failed \/ \E v \in Workers : Pending(v)'
      /\ ~outrun' => ~outrun /\ newest' = Read(w)
  BY <1>1, <1>2, WriterMoves
<1>5. ZipInv'
  BY <1>1, <1>3 DEF CalmInv, OrderInv, ZipInv
<1>6. NewestInv'
  <2>1. status' = "completed" => completed' = Total /\ newest' = Total
    BY <1>1, <1>2, <1>4, ReadIsRow
  <2> QED
    BY <1>1, <1>4, <2>1 DEF NewestInv, Total, Policies
<1>7. WholeInv'
  <2> SUFFICES ASSUME ~outrun', newest' = Total
               PROVE  (completed = Total => zip = Policies) /\ Said'
    BY <1>1 DEF WholeInv, Total, Policies
  <2>1. ~outrun /\ Read(w) = Total /\ newest = Total
    <3>1. Read(w) <= newest /\ newest \in Nat
      BY <1>1 DEF CalmInv, OrderInv, NewestInv, TypesOK
    <3>2. Total \in Nat
      BY <1>2, ReadIsRow
    <3> QED
      BY <1>4, <3>1, <3>2
  <2>2. completed = Total => zip = Policies
    BY <2>1 DEF CalmInv, OrderInv, WholeInv
  <2>3. snap[w].completed # 0
    BY <1>1, <1>2 DEF CalmInv, OrderInv, SnapInv
  <2>4. completed # 0 /\ (snap[w].completed = Total <=> failed = 0)
    BY <1>2, <2>1, <2>3, ReadIsRow
  <2>5. status' = "completed" <=> failed = 0
    BY <1>1, <2>4
  <2> QED
    BY <1>1, <2>2, <2>4, <2>5 DEF Said
<1> QED
  BY <1>3, <1>4, <1>5, <1>6, <1>7 DEF CalmInv, OrderInv

-----------------------------------------------------------------------------
(* The export's rows and jobs keep their types, whatever fails. *)
LEMMA QueueTypes ==
  ASSUME job \in [Jobs -> JobState], lock \in [Jobs -> Workers \union {None}],
         NEW w \in Workers, NEW p \in Policies \union {None},
         \/ Add(p) \/ Take(w, p) \/ Complete(w, p) \/ Throw(w, p) \/ Reclaim(p)
         \/ UNCHANGED queueVars
  PROVE  job' \in [Jobs -> JobState] /\ lock' \in [Jobs -> Workers \union {None}]
<1> USE DEF JobState, Policies
<1>1. CASE Add(p)
  <2>1. job' = [job EXCEPT ![p] = IF job[p] = "absent" THEN "waiting" ELSE job[p]]
        /\ lock' = lock
    BY <1>1 DEF Add
  <2>2. CASE p \in Jobs
    BY <2>1, <2>2
  <2>3. CASE p \notin Jobs
    BY <2>1, <2>3
  <2> QED
    BY <2>2, <2>3
<1>2. CASE Take(w, p)
  BY <1>2 DEF Take
<1>3. CASE Complete(w, p)
  BY <1>3 DEF Complete, queueVars
<1>4. CASE Throw(w, p)
  BY <1>4 DEF Throw, queueVars
<1>5. CASE Reclaim(p)
  BY <1>5 DEF Reclaim
<1>6. CASE UNCHANGED queueVars
  BY <1>6 DEF queueVars
<1> QED
  BY <1>1, <1>2, <1>3, <1>4, <1>5, <1>6

(* A worker at another statement of its job. *)
LEMMA MovedTypes ==
  ASSUME TypesOK, NEW w \in Workers, NEW to \in Before \union After, pc[w] # "idle",
         pc' = [pc EXCEPT ![w] = to], UNCHANGED cur
  PROVE  /\ pc' \in [Workers -> {"idle"} \union Before \union After]
         /\ \A v \in Workers : pc'[v] # "idle" => cur'[v] \in Policies
  BY DEF TypesOK

(* A worker that has left its job. *)
LEMMA IdleTypes ==
  ASSUME TypesOK, NEW w \in Workers, Idle(w)
  PROVE  /\ pc' \in [Workers -> {"idle"} \union Before \union After]
         /\ cur' \in [Workers -> Policies \union {None}] /\ snap' \in [Workers -> Counts]
         /\ \A v \in Workers : pc'[v] # "idle" => cur'[v] \in Policies
<1>1. NoSnap \in Counts
  BY DEF NoSnap, Counts
<1> QED
  BY <1>1 DEF TypesOK, Idle

LEMMA WritesTypes ==
  ASSUME TypesOK, NEW w \in Workers, Writes(w)
  PROVE  newest' \in Nat /\ outrun' \in BOOLEAN
<1>1. Read(w) \in Nat
  BY DEF Read, TypesOK, Counts
<1> QED
  BY <1>1 DEF Writes, Read, TypesOK

LEMMA HandlerTypes ==
  ASSUME TypesOK, NEW w \in Workers, HandlerAction(w) \/ PdfFails(w)
  PROVE  TypesOK'
<1> USE DEF Before, After, Reading, Writing, orderVars
<1>1. CASE GeneratePdf(w)
  <2>1. pdfs' \subseteq Policies
    BY <1>1 DEF GeneratePdf, Goto, TypesOK
  <2> QED
    BY <1>1, <2>1, MovedTypes DEF GeneratePdf, Goto, queueVars, rowVars, TypesOK
<1>2. CASE PdfFails(w)
  BY <1>2, MovedTypes DEF PdfFails, Goto, queueVars, rowVars, s3Vars, TypesOK
<1>3. CASE IncrementCompleted(w)
  <2>1. completed' \in Nat
    BY <1>3 DEF IncrementCompleted, TypesOK
  <2> QED
    BY <1>3, <2>1, MovedTypes DEF IncrementCompleted, Goto, queueVars, s3Vars, TypesOK
<1>4. CASE IncrementFailed(w)
  <2>1. failedIds' \subseteq Policies
    BY <1>4 DEF IncrementFailed, Goto, TypesOK
  <2>2. failed' \in Nat
    BY <1>4 DEF IncrementFailed, TypesOK
  <2>3. /\ pc' \in [Workers -> {"idle"} \union Before \union After]
        /\ \A v \in Workers : pc'[v] # "idle" => cur'[v] \in Policies
    BY <1>4, MovedTypes DEF IncrementFailed, Goto
  <2>4. UNCHANGED <<job, lock, completed, pdfs, zip, cur, snap, newest, outrun, faults>>
    BY <1>4 DEF IncrementFailed, queueVars, s3Vars
  <2> QED
    BY <2>1, <2>2, <2>3, <2>4 DEF TypesOK
<1>5. CASE TryAssemble(w)
  BY <1>5, MovedTypes DEF TryAssemble, Goto, queueVars, s3Vars, TypesOK
<1>6. CASE ReadExport(w)
  <2> DEFINE to == IF completed = 0 THEN "markFailed" ELSE "zip"
  <2>1. to \in Before \union After /\ pc[w] # "idle" /\ pc' = [pc EXCEPT ![w] = to]
    BY <1>6 DEF ReadExport, Goto
  <2>2. [completed |-> completed, failed |-> failed, failedIds |-> failedIds,
         pdfs |-> pdfs] \in Counts
    BY DEF TypesOK, Counts
  <2>3. snap' \in [Workers -> Counts]
    BY <1>6, <2>2 DEF ReadExport, TypesOK
  <2> HIDE DEF to
  <2> QED
    BY <1>6, <2>1, <2>3, MovedTypes DEF ReadExport, queueVars, rowVars, s3Vars, TypesOK
<1>7. CASE MarkExportFailed(w)
  BY <1>7, MovedTypes, WritesTypes DEF MarkExportFailed, Goto, queueVars, s3Vars, TypesOK
<1>8. CASE BuildZip(w)
  <2>1. zip' \subseteq Policies
    BY <1>8 DEF BuildZip, TypesOK
  <2> QED
    BY <1>8, <2>1, MovedTypes, WritesTypes DEF BuildZip, Goto, queueVars, rowVars, TypesOK
<1>9. CASE MarkReady(w)
  BY <1>9, MovedTypes, WritesTypes DEF MarkReady, Goto, queueVars, s3Vars, TypesOK
<1>10. CASE NotifyBroker(w)
  <2>1. Idle(w) /\ Complete(w, cur[w]) /\ cur[w] \in Policies \union {None}
    BY <1>10 DEF NotifyBroker, TypesOK
  <2>2. job' \in [Jobs -> JobState] /\ lock' \in [Jobs -> Workers \union {None}]
    BY <2>1, QueueTypes DEF TypesOK
  <2> QED
    BY <1>10, <2>1, <2>2, IdleTypes DEF NotifyBroker, rowVars, s3Vars, TypesOK
<1> QED
  BY <1>1, <1>2, <1>3, <1>4, <1>5, <1>6, <1>7, <1>8, <1>9, <1>10 DEF HandlerAction

LEMMA TypesStep ==
  ASSUME TypesOK, Next
  PROVE  TypesOK'
<1> USE DEF Before, After, Reading, Writing, orderVars
<1>1. CASE SaveExport
  BY <1>1 DEF SaveExport, queueVars, s3Vars, workerVars, TypesOK
<1>2. CASE MarkProcessing
  BY <1>2 DEF MarkProcessing, queueVars, s3Vars, workerVars, TypesOK
<1>3. ASSUME NEW p \in Policies, QueueJob(p)
      PROVE  TypesOK'
  <2>1. job' \in [Jobs -> JobState] /\ UNCHANGED lock
    BY <1>3 DEF QueueJob, Add, JobState, Policies, TypesOK
  <2> QED
    BY <1>3, <2>1 DEF QueueJob, rowVars, s3Vars, workerVars, TypesOK
<1>4. CASE CrashCall
  BY <1>4 DEF CrashCall, Fault, queueVars, rowVars, s3Vars, workerVars, TypesOK
<1>5. ASSUME NEW w \in Workers, HandlerAction(w) \/ PdfFails(w)
      PROVE  TypesOK'
  BY <1>5, HandlerTypes
<1>6. ASSUME NEW w \in Workers, HandlerThrows(w)
      PROVE  TypesOK'
  <2>1. UNCHANGED <<completed, failed, failedIds, pdfs, zip, newest, outrun>> /\ faults' \in Nat
        /\ pc[w] # "idle"
    BY <1>6 DEF HandlerThrows, Fault, rowVars, s3Vars, TypesOK
  <2>2. CASE inTry[w]
    BY <1>6, <2>1, <2>2, MovedTypes DEF HandlerThrows, queueVars, TypesOK
  <2>3. CASE ~inTry[w]
    <3>1. Idle(w) /\ Throw(w, cur[w]) /\ cur[w] \in Policies \union {None}
      BY <1>6, <2>3 DEF HandlerThrows, TypesOK
    <3>2. job' \in [Jobs -> JobState] /\ lock' \in [Jobs -> Workers \union {None}]
      BY <3>1, QueueTypes DEF TypesOK
    <3> QED
      BY <2>1, <3>1, <3>2, IdleTypes DEF TypesOK
  <2> QED
    BY <2>2, <2>3
<1>7. ASSUME NEW w \in Workers, CrashWorker(w)
      PROVE  TypesOK'
  BY <1>7, IdleTypes DEF CrashWorker, Fault, queueVars, rowVars, s3Vars, TypesOK
<1>8. ASSUME NEW w \in Workers, NEW p \in Policies, TakeJob(w, p)
      PROVE  TypesOK'
  <2>1. job' \in [Jobs -> JobState] /\ lock' \in [Jobs -> Workers \union {None}]
    BY <1>8, QueueTypes DEF TakeJob, TypesOK
  <2>2. /\ pc' \in [Workers -> {"idle"} \union Before \union After]
        /\ cur' \in [Workers -> Policies \union {None}]
        /\ \A v \in Workers : pc'[v] # "idle" => cur'[v] \in Policies
    BY <1>8 DEF TakeJob, Goto, TypesOK
  <2> QED
    BY <1>8, <2>1, <2>2 DEF TakeJob, rowVars, s3Vars, TypesOK
<1>9. ASSUME NEW p \in Policies, Recover(p) \/ LoseLock(p)
      PROVE  TypesOK'
  <2>1. job' \in [Jobs -> JobState] /\ lock' \in [Jobs -> Workers \union {None}]
    BY <1>9 DEF Recover, LoseLock, Reclaim, JobState, Policies, TypesOK
  <2>2. faults' \in Nat
    BY <1>9 DEF Recover, LoseLock, Fault, TypesOK
  <2> QED
    BY <1>9, <2>1, <2>2 DEF Recover, LoseLock, rowVars, s3Vars, workerVars, TypesOK
<1> QED
  BY <1>1, <1>2, <1>3, <1>4, <1>5, <1>6, <1>7, <1>8, <1>9 DEF Next, CallAction

-----------------------------------------------------------------------------
(* The row names a ZIP before it says that there is one. *)
LEMMA KeyStep ==
  ASSUME KeyInv, Next
  PROVE  KeyInv'
<1> USE DEF KeyInv, rowVars
<1>1. CASE CallAction \/ CrashCall
  BY <1>1 DEF CallAction, SaveExport, MarkProcessing, QueueJob, CrashCall
<1>2. ASSUME NEW w \in Workers, HandlerAction(w)
      PROVE  KeyInv'
  BY <1>2 DEF HandlerAction, GeneratePdf, IncrementCompleted, IncrementFailed, TryAssemble,
              ReadExport, MarkExportFailed, BuildZip, MarkReady, NotifyBroker
<1>3. ASSUME NEW w \in Workers, PdfFails(w) \/ HandlerThrows(w) \/ CrashWorker(w)
      PROVE  KeyInv'
  BY <1>3 DEF PdfFails, HandlerThrows, CrashWorker
<1>4. ASSUME NEW w \in Workers, NEW p \in Policies, TakeJob(w, p)
      PROVE  KeyInv'
  BY <1>4 DEF TakeJob
<1>5. ASSUME NEW p \in Policies, Recover(p) \/ LoseLock(p)
      PROVE  KeyInv'
  BY <1>5 DEF Recover, LoseLock
<1> QED
  BY <1>1, <1>2, <1>3, <1>4, <1>5 DEF Next

-----------------------------------------------------------------------------
(* While nothing is disturbed, no job is stalled and no statement throws. *)
LEMMA CalmStep ==
  ASSUME IsFiniteSet(Jobs), TypesOK, CalmInv, Next, Undisturbed'
  PROVE  CalmInv'
<1>1. CASE CallAction
  BY <1>1, CallStep
<1>2. ASSUME Fault
      PROVE  FALSE
  BY <1>2 DEF Fault, Undisturbed, TypesOK
<1>3. ASSUME NEW w \in Workers, HandlerAction(w) \/ PdfFails(w)
      PROVE  CalmInv'
  <2>1. CASE GeneratePdf(w) \/ PdfFails(w)
    BY <2>1, PdfStep
  <2>2. CASE IncrementCompleted(w)
    BY <2>2, CountCompletedStep
  <2>3. CASE IncrementFailed(w)
    BY <2>3, CountFailedStep
  <2>4. CASE TryAssemble(w)
    BY <2>4, TryStep
  <2>5. CASE ReadExport(w)
    BY <2>5, ReadStep
  <2>6. CASE MarkExportFailed(w)
    BY <2>6, MarkFailedStep
  <2>7. CASE BuildZip(w)
    BY <2>7, ZipStep
  <2>8. CASE MarkReady(w)
    BY <2>8, ReadyStep
  <2>9. CASE NotifyBroker(w)
    BY <2>9, FinishStep
  <2> QED
    BY <1>3, <2>1, <2>2, <2>3, <2>4, <2>5, <2>6, <2>7, <2>8, <2>9 DEF HandlerAction
<1>4. ASSUME NEW w \in Workers, NEW p \in Policies, TakeJob(w, p)
      PROVE  CalmInv'
  BY <1>4, TakeStep
<1>5. ASSUME NEW p \in Policies, Recover(p)
      PROVE  FALSE
  BY <1>5 DEF Recover, Reclaim, CalmInv, JobInv
<1> QED
  BY <1>1, <1>2, <1>3, <1>4, <1>5
     DEF Next, CrashCall, HandlerThrows, CrashWorker, LoseLock

LEMMA IInvInit ==
  ASSUME IsFiniteSet(Jobs), Init
  PROVE  IInv
<1> USE DEF Init, QueueInit, Policies
<1>1. TypesOK
  <2>1. NoSnap \in Counts
    BY DEF NoSnap, Counts
  <2> QED
    BY <2>1 DEF TypesOK, JobState
<1>2. JobInv
  BY DEF JobInv
<1>3. Counted = {}
  BY QueueAssumption DEF Counted, After, Reading, Writing
<1>4. CountInv
  BY <1>3, FS_EmptySet DEF CountInv
<1>5. SnapInv /\ ZipInv /\ NewestInv /\ KeyInv
  BY DEF SnapInv, ZipInv, NewestInv, KeyInv, Writing
<1>6. WholeInv
  <2>1. Total = 0 => Policies = {}
    BY FS_EmptySet DEF Total
  <2> QED
    BY <2>1 DEF WholeInv, Final
<1> QED
  BY <1>1, <1>2, <1>4, <1>5, <1>6 DEF IInv, CalmInv, OrderInv

(* What has been disturbed remains so. *)
LEMMA CalmOnlyEnds ==
  ASSUME TypesOK, Next
  PROVE  Undisturbed' => Undisturbed
<1>1. CASE UNCHANGED faults
  BY <1>1 DEF Undisturbed
<1>2. CASE Fault
  BY <1>2 DEF Fault, Undisturbed, TypesOK
<1> QED
  BY <1>1, <1>2
     DEF Next, CallAction, SaveExport, MarkProcessing, QueueJob, CrashCall, HandlerAction,
         GeneratePdf, IncrementCompleted, IncrementFailed, TryAssemble, ReadExport,
         MarkExportFailed, BuildZip, MarkReady, NotifyBroker, PdfFails, HandlerThrows,
         CrashWorker, TakeJob, Recover, LoseLock

LEMMA IInvStep ==
  ASSUME IsFiniteSet(Jobs), IInv, [Next]_vars
  PROVE  IInv'
<1>1. CASE Next
  <2>1. TypesOK' /\ KeyInv'
    BY <1>1, TypesStep, KeyStep DEF IInv
  <2>2. Undisturbed' => Undisturbed
    BY <1>1, CalmOnlyEnds DEF IInv
  <2> QED
    BY <1>1, <2>1, <2>2, CalmStep DEF IInv
<1>2. CASE UNCHANGED vars
  <2>1. /\ UNCHANGED <<job, lock, pc, cur, snap, completed, failed, failedIds, status>>
        /\ UNCHANGED <<zipKey, zip, pdfs, newest, outrun, faults>>
    BY <1>2 DEF vars, queueVars, rowVars, s3Vars, workerVars, orderVars
  <2>2. TypesOK' /\ KeyInv' /\ Undisturbed' = Undisturbed
    BY <2>1 DEF IInv, TypesOK, KeyInv, Undisturbed, Policies, Counts
  <2>3. JobInv /\ CountInv => JobInv' /\ CountInv'
    BY <2>1 DEF JobInv, CountInv, Counted, Policies
  <2>4. OrderInv => OrderInv'
    BY <2>1, Unwritten
  <2> QED
    BY <2>2, <2>3, <2>4 DEF IInv, CalmInv
<1> QED
  BY <1>1, <1>2

(* What an export says is true however many jobs assemble it at once: the  *)
(* key of its ZIP is in the row when it is ready, whatever failed.         *)
(* Undisturbed, the ZIP is not empty; and unless an assembly wrote what it *)
(* had read after one that had read more, an export called completed has   *)
(* every policy of the batch in its ZIP, and the last status tells what    *)
(* became of them (fleet-pdf-export.service.ts:129, 150-228).              *)
THEOREM ReadyExportIsTrue ==
  ASSUME IsFiniteSet(Jobs)
  PROVE  Spec => []ReadyIsTrue
<1>1. Init => IInv
  BY IInvInit
<1>2. IInv /\ [Next]_vars => IInv'
  BY IInvStep
<1>3. IInv => ReadyIsTrue
  <2> SUFFICES ASSUME IInv
               PROVE  CompletedExportIsWhole /\ LastWordIsTrue /\ ReadyHasZip
    BY DEF ReadyIsTrue
  <2>1. CompletedExportIsWhole
    BY DEF IInv, CalmInv, OrderInv, NewestInv, WholeInv, CompletedExportIsWhole
  <2>2. ReadyHasZip
    BY DEF IInv, CalmInv, OrderInv, ZipInv, KeyInv, ReadyHasZip
  <2>3. ASSUME Undisturbed, ~outrun, \A p \in Policies : job[p] = "completed", status \in Final
        PROVE  Said
    <3>1. CalmInv /\ TypesOK
      BY <2>3 DEF IInv
    <3>2. \A w \in Workers : pc[w] = "idle"
      BY <2>3, <3>1 DEF CalmInv, JobInv, TypesOK
    <3>3. newest = completed + failed
      BY <3>1, <3>2 DEF CalmInv, OrderInv, NewestInv, Pending, Reading, Writing
    <3>4. Counted = Policies
      BY <2>3 DEF Counted
    <3>5. newest = Total
      BY <3>1, <3>3, <3>4 DEF CalmInv, CountInv, Total
    <3> QED
      BY <2>3, <3>1, <3>2, <3>5 DEF CalmInv, OrderInv, WholeInv
  <2> QED
    BY <2>1, <2>2, <2>3 DEF LastWordIsTrue, Said, Final
<1> QED
  BY <1>1, <1>2, <1>3, PTL DEF Spec

(* The texts take nothing from the export: what is proved of it holds of   *)
(* the office (fleet-pdf-export.service.ts:120-252).                       *)
THEOREM ReadyInTheOffice ==
  ASSUME IsFiniteSet(Jobs)
  PROVE  OfficeSpec => []ReadyIsTrue
<1>1. OfficeInit => Init
  BY DEF OfficeInit
<1>2. [OfficeNext]_<<side, vars, textVars>> => [Next]_vars
  BY DEF OfficeNext
<1>3. OfficeSpec => Spec
  BY <1>1, <1>2, PTL DEF OfficeSpec, Spec
<1> QED
  BY <1>3, ReadyExportIsTrue, PTL

-----------------------------------------------------------------------------
(***************************************************************************)
(* The greatest of finitely many versions.  A set of numbers has a least   *)
(* element because the sets 1..n are well-founded under inclusion.         *)
(***************************************************************************)
LEMMA LeastOf ==
  ASSUME NEW T, T \subseteq Nat, T # {}
  PROVE  \E n \in T : \A m \in T : n <= m
<1> DEFINE U == {1..n : n \in T}
<1>1. U \subseteq FiniteSubsetsOf(Nat) /\ U # {}
  <2>1. ASSUME NEW n \in T
        PROVE  1..n \in FiniteSubsetsOf(Nat)
    <3>1. IsFiniteSet(1..n)
      BY FS_Interval
    <3> QED
      BY <3>1 DEF FiniteSubsetsOf
  <2>2. PICK n \in T : TRUE
    OBVIOUS
  <2>3. 1..n \in U
    OBVIOUS
  <2> QED
    BY <2>1, <2>3
<1>2. IsWellFoundedOn(StrictSubsetOrdering(Nat), FiniteSubsetsOf(Nat))
  BY FS_StrictSubsetOrderingWellFounded
<1>3. PICK x \in U : \A y \in U : <<y, x>> \notin StrictSubsetOrdering(Nat)
  BY <1>1, <1>2, WFMin
<1>4. PICK n \in T : x = 1..n
  OBVIOUS
<1>5. ASSUME NEW m \in T, m < n
      PROVE  FALSE
  <2>1. 1..m \subseteq 1..n /\ n \in 1..n /\ n \notin 1..m
    BY <1>5
  <2>2. <<1..m, 1..n>> \in StrictSubsetOrdering(Nat)
    BY <2>1 DEF StrictSubsetOrdering
  <2> QED
    BY <1>3, <1>4, <2>2
<1> QED
  BY <1>5

LEMMA GreatestOf ==
  ASSUME NEW N \in Nat, NEW T, T \subseteq 0..N, T # {}
  PROVE  \E n \in T : \A m \in T : n >= m
<1> DEFINE U == {N - n : n \in T}
<1>1. U \subseteq Nat /\ U # {}
  <2>1. PICK n \in T : TRUE
    OBVIOUS
  <2>2. N - n \in U
    OBVIOUS
  <2>3. \A m \in T : N - m \in Nat
    OBVIOUS
  <2> QED
    BY <2>2, <2>3
<1>2. PICK k \in U : \A j \in U : k <= j
  BY <1>1, LeastOf
<1>3. PICK n \in T : k = N - n
  OBVIOUS
<1>4. \A m \in T : N - n <= N - m
  BY <1>2, <1>3
<1>5. \A m \in T : n >= m
  <2> SUFFICES ASSUME NEW m \in T PROVE n >= m
    OBVIOUS
  <2>1. m \in 0..N /\ n \in 0..N /\ N - n <= N - m
    BY <1>4
  <2> QED
    BY <2>1
<1> QED
  BY <1>5

LEMMA MaxOfIs ==
  ASSUME MaxVersion \in Nat, NEW S, S \subseteq Texts!Text
  PROVE  /\ Texts!MaxOf(S) \in 0..MaxVersion
         /\ \A t \in S : t[2] <= Texts!MaxOf(S)
         /\ S # {} => \E t \in S : t[2] = Texts!MaxOf(S)
<1> DEFINE V == {t[2] : t \in S}
<1>1. CASE S = {}
  BY <1>1 DEF Texts!MaxOf
<1>2. CASE S # {}
  <2>1. \A t \in S : t[2] \in 0..MaxVersion
    BY DEF Texts!Text
  <2>2. V \subseteq 0..MaxVersion
    BY <2>1
  <2>3. V # {}
    <3>1. PICK t \in S : TRUE
      BY <1>2
    <3>2. t[2] \in V
      OBVIOUS
    <3> QED
      BY <3>2
  <2>4. \E n \in V : \A m \in V : n >= m
    BY <2>2, <2>3, GreatestOf
  <2>5. Texts!MaxOf(S) = CHOOSE n \in V : \A m \in V : n >= m
    BY <1>2 DEF Texts!MaxOf, Texts!Max
  <2>6. Texts!MaxOf(S) \in V /\ \A m \in V : Texts!MaxOf(S) >= m
    BY <2>4, <2>5
  <2>7. \A t \in S : Texts!MaxOf(S) >= t[2]
    BY <2>6
  <2>8. \E t \in S : t[2] = Texts!MaxOf(S)
    BY <2>6
  <2>9. \A m, n \in 0..MaxVersion : m >= n => n <= m
    OBVIOUS
  <2> QED
    BY <2>1, <2>2, <2>6, <2>7, <2>8, <2>9
<1> QED
  BY <1>1, <1>2

LEMMA MaxOfGrows ==
  ASSUME MaxVersion \in Nat, NEW S, S \subseteq Texts!Text, NEW R, R \subseteq S
  PROVE  Texts!MaxOf(R) <= Texts!MaxOf(S)
<1>1. Texts!MaxOf(R) \in 0..MaxVersion /\ Texts!MaxOf(S) \in 0..MaxVersion
  BY MaxOfIs
<1>2. CASE R = {}
  BY <1>1, <1>2 DEF Texts!MaxOf
<1>3. CASE R # {}
  <2>1. PICK t \in R : t[2] = Texts!MaxOf(R)
    BY <1>3, MaxOfIs
  <2>2. t[2] <= Texts!MaxOf(S)
    BY MaxOfIs
  <2> QED
    BY <2>1, <2>2
<1> QED
  BY <1>2, <1>3

-----------------------------------------------------------------------------
(***************************************************************************)
(* The texts.  An editor about to insert a version knows all before it in  *)
(* the language; a client is shown only what is published; and what its    *)
(* phone has saved is at the server or counts as unsynced.                 *)
(***************************************************************************)
TextsOK ==
  /\ texts \subseteq Texts!Text /\ published \subseteq texts
  /\ \A t \in texts, v \in 1..MaxVersion : v < t[2] => <<t[1], v>> \in texts

EditorsOK ==
  /\ DOMAIN epc = Editors /\ DOMAIN draft = Editors
  /\ \A e \in Editors :
       /\ epc[e] = "insert" =>
            /\ draft[e] \in Texts!Text
            /\ \A v \in 1..MaxVersion : v < draft[e][2] => <<draft[e][1], v>> \in texts
       /\ epc[e] = "save" => draft[e] \in texts

TermsInv ==
  /\ DOMAIN ppc = Phones /\ DOMAIN shown = Phones /\ DOMAIN asked = Phones
  /\ accepted \subseteq published
  /\ kind # "cookie" => \A p \in Phones : ppc[p] \in {"start", "terms", "home"}
  /\ kind = "tos" => \A p \in Phones :
       /\ ppc[p] = "terms" => /\ shown[p] \in Texts!Text /\ asked[p] = shown[p][2]
       /\ ppc[p] = "home" /\ asked[p] # None =>
            asked[p] \in Nat /\ asked[p] <= Texts!MaxOf(accepted)

ConsentInv ==
  /\ DOMAIN choice = Phones /\ DOMAIN number = Phones
  /\ \A p \in Phones : number[p] # None => \E t \in published : t[2] = number[p]
  /\ record # None =>
       /\ last \in Phones
       /\ last \in unsynced \/ record.marketing = choice[last]
       /\ record.version # None => \E t \in published : t[2] = record.version

TextsInv == TextsOK /\ EditorsOK /\ TermsInv /\ ConsentInv

LEMMA TextsInit == Texts!Init => TextsInv
  BY DEF Texts!Init, TextsInv, TextsOK, EditorsOK, TermsInv, ConsentInv

(* What a broker does, as the clients see it. *)
LEMMA EditorKeeps ==
  ASSUME TextsInv, MaxVersion \in Nat, TextsOK', EditorsOK', published \subseteq published',
         UNCHANGED <<kind, accepted, ppc, shown, asked, choice, number, record, last, unsynced>>
  PROVE  TextsInv'
<1>1. TermsInv'
  BY DEF TextsInv, TermsInv, Texts!MaxOf, Texts!Text
<1>2. ConsentInv'
  BY DEF TextsInv, ConsentInv
<1> QED
  BY <1>1, <1>2 DEF TextsInv

(* What a phone does. *)
LEMMA PhoneKeeps ==
  ASSUME TextsInv, UNCHANGED <<texts, published, epc, draft>>, TermsInv', ConsentInv'
  PROVE  TextsInv'
  BY DEF TextsInv, TextsOK, EditorsOK, Texts!Text

LEMMA ReadKeeps ==
  ASSUME TextsInv, MaxVersion \in Nat, NEW e \in Editors, NEW language \in Languages,
         Texts!ReadMaxVersion(e, language)
  PROVE  TextsInv'
<1> DEFINE S == {t \in texts : t[1] = language}
           version == Texts!MaxOf(S) + 1
<1>1. S \subseteq Texts!Text /\ TextsOK /\ EditorsOK
  BY DEF TextsInv, TextsOK
<1>2. /\ Texts!MaxOf(S) \in 0..MaxVersion
      /\ S # {} => \E t \in S : t[2] = Texts!MaxOf(S)
  BY <1>1, MaxOfIs
<1>3. /\ version <= MaxVersion
      /\ epc' = [epc EXCEPT ![e] = "insert"]
           /\ draft' = [draft EXCEPT ![e] = <<language, version>>]
      /\ UNCHANGED <<texts, published, kind, accepted, ppc, shown, asked, choice, number,
           record,
                     last, unsynced>>
  BY DEF Texts!ReadMaxVersion, Texts!EditorStep, Texts!textVars, Texts!termsVars,
         Texts!consentVars
<1>4. version \in 1..MaxVersion
  BY <1>2, <1>3
<1>5. ASSUME NEW v \in 1..MaxVersion, v < version
      PROVE  <<language, v>> \in texts
  <2>1. v <= Texts!MaxOf(S) /\ Texts!MaxOf(S) # 0
    BY <1>2, <1>5
  <2>2. S # {}
    BY <2>1 DEF Texts!MaxOf
  <2>3. PICK t \in S : t[2] = Texts!MaxOf(S)
    BY <1>2, <2>2
  <2>4. CASE v = Texts!MaxOf(S)
    <3>1. t \in Languages \X (1..MaxVersion) /\ t[1] = language
      BY <1>1 DEF Texts!Text
    <3>2. t = <<language, v>>
      BY <2>3, <2>4, <3>1
    <3> QED
      BY <3>2
  <2>5. CASE v < t[2]
    BY <1>1, <2>5 DEF TextsOK
  <2> QED
    BY <1>2, <2>1, <2>3, <2>4, <2>5
<1>6. <<language, version>> \in Texts!Text
  BY <1>4 DEF Texts!Text
<1> HIDE DEF version
<1>7. EditorsOK'
  <2>1. DOMAIN epc' = Editors /\ DOMAIN draft' = Editors
    BY <1>1, <1>3 DEF EditorsOK
  <2>2. epc'[e] = "insert" /\ draft'[e] = <<language, version>>
    BY <1>1, <1>3 DEF EditorsOK
  <2>3. \A f \in Editors \ {e} : epc'[f] = epc[f] /\ draft'[f] = draft[f]
    BY <1>1, <1>3 DEF EditorsOK
  <2>4. ASSUME NEW f \in Editors
        PROVE  /\ epc'[f] = "insert" =>
                    /\ draft'[f] \in Texts!Text
                    /\ \A v \in 1..MaxVersion : v < draft'[f][2] => <<draft'[f][1],
                         v>> \in texts
               /\ epc'[f] = "save" => draft'[f] \in texts
    BY <1>1, <1>5, <1>6, <2>2, <2>3 DEF EditorsOK
  <2> QED
    BY <1>3, <2>1, <2>4 DEF EditorsOK, Texts!Text
<1>8. TextsOK'
  BY <1>1, <1>3 DEF TextsOK, Texts!Text
<1> QED
  BY <1>3, <1>7, <1>8, EditorKeeps

LEMMA CreateKeeps ==
  ASSUME TextsInv, MaxVersion \in Nat, NEW e \in Editors, Texts!Create(e)
  PROVE  TextsInv'
<1>1. TextsOK /\ EditorsOK
  BY DEF TextsInv
<1>2. /\ epc[e] = "insert" /\ epc' = [epc EXCEPT ![e] = "idle"]
      /\ draft' = [draft EXCEPT ![e] = None] /\ texts' = texts \union {draft[e]}
      /\ UNCHANGED <<published, kind, accepted, ppc, shown, asked, choice, number, record,
                     last, unsynced>>
  BY DEF Texts!Create, Texts!EditorStep, Texts!termsVars, Texts!consentVars
<1>3. draft[e] \in Texts!Text
      /\ \A v \in 1..MaxVersion : v < draft[e][2] => <<draft[e][1], v>> \in texts
  BY <1>1, <1>2 DEF EditorsOK
<1>4. TextsOK'
  BY <1>1, <1>2, <1>3 DEF TextsOK, Texts!Text
<1>5. EditorsOK'
  <2>1. DOMAIN epc' = Editors /\ DOMAIN draft' = Editors /\ epc'[e] = "idle"
        /\ \A f \in Editors \ {e} : epc'[f] = epc[f] /\ draft'[f] = draft[f]
    BY <1>1, <1>2 DEF EditorsOK
  <2> QED
    BY <1>1, <1>2, <2>1 DEF EditorsOK, Texts!Text
<1> QED
  BY <1>2, <1>4, <1>5, EditorKeeps

LEMMA FindKeeps ==
  ASSUME TextsInv, MaxVersion \in Nat, NEW e \in Editors, NEW t \in texts, Texts!FindText(e, t)
  PROVE  TextsInv'
<1>1. TextsOK /\ EditorsOK
  BY DEF TextsInv
<1>2. /\ epc' = [epc EXCEPT ![e] = "save"] /\ draft' = [draft EXCEPT ![e] = t]
      /\ UNCHANGED <<texts, published, kind, accepted, ppc, shown, asked, choice, number,
           record,
                     last, unsynced>>
  BY DEF Texts!FindText, Texts!EditorStep, Texts!textVars, Texts!termsVars, Texts!consentVars
<1>3. TextsOK'
  BY <1>1, <1>2 DEF TextsOK, Texts!Text
<1>4. EditorsOK'
  <2>1. DOMAIN epc' = Editors /\ DOMAIN draft' = Editors /\ epc'[e] = "save" /\ draft'[e] = t
        /\ \A f \in Editors \ {e} : epc'[f] = epc[f] /\ draft'[f] = draft[f]
    BY <1>1, <1>2 DEF EditorsOK
  <2> QED
    BY <1>1, <1>2, <2>1 DEF EditorsOK, Texts!Text
<1> QED
  BY <1>2, <1>3, <1>4, EditorKeeps

LEMMA PublishKeeps ==
  ASSUME TextsInv, MaxVersion \in Nat, NEW e \in Editors, Texts!Publish(e)
  PROVE  TextsInv'
<1>1. TextsOK /\ EditorsOK
  BY DEF TextsInv
<1>2. /\ epc[e] = "save" /\ epc' = [epc EXCEPT ![e] = "idle"]
      /\ draft' = [draft EXCEPT ![e] = None] /\ published' = published \union {draft[e]}
      /\ UNCHANGED <<texts, kind, accepted, ppc, shown, asked, choice, number, record,
                     last, unsynced>>
  BY DEF Texts!Publish, Texts!EditorStep, Texts!termsVars, Texts!consentVars
<1>3. draft[e] \in texts
  BY <1>1, <1>2 DEF EditorsOK
<1>4. TextsOK'
  BY <1>1, <1>2, <1>3 DEF TextsOK, Texts!Text
<1>5. EditorsOK'
  <2>1. DOMAIN epc' = Editors /\ DOMAIN draft' = Editors /\ epc'[e] = "idle"
        /\ \A f \in Editors \ {e} : epc'[f] = epc[f] /\ draft'[f] = draft[f]
    BY <1>1, <1>2 DEF EditorsOK
  <2> QED
    BY <1>1, <1>2, <2>1 DEF EditorsOK, Texts!Text
<1> QED
  BY <1>2, <1>4, <1>5, EditorKeeps

(* A phone that only goes from one page to another. *)
LEMMA PageKeeps ==
  ASSUME TextsInv, NEW p \in Phones, NEW to,
         UNCHANGED <<kind, accepted, published, shown>>,
         ppc' = [ppc EXCEPT ![p] = to],
         DOMAIN asked' = Phones, \A q \in Phones \ {p} : asked'[q] = asked[q],
         kind # "cookie" => to \in {"start", "home"},
         kind = "tos" /\ to = "home" /\ asked'[p] # None =>
           asked'[p] \in Nat /\ asked'[p] <= Texts!MaxOf(accepted),
         kind = "tos" => to # "terms"
  PROVE  TermsInv'
<1>1. TermsInv
  BY DEF TextsInv
<1>2. DOMAIN ppc' = Phones /\ ppc'[p] = to /\ \A q \in Phones \ {p} : ppc'[q] = ppc[q]
  BY <1>1 DEF TermsInv
<1>3. Texts!MaxOf(accepted)' = Texts!MaxOf(accepted)
  BY DEF Texts!MaxOf
<1>4. ASSUME kind = "tos", NEW q \in Phones
      PROVE  /\ ppc'[q] = "terms" => /\ shown'[q] \in Texts!Text /\ asked'[q] = shown'[q][2]
             /\ ppc'[q] = "home" /\ asked'[q] # None =>
                  asked'[q] \in Nat /\ asked'[q] <= Texts!MaxOf(accepted)
  BY <1>1, <1>2, <1>4 DEF TermsInv
<1>5. ASSUME kind # "cookie", NEW q \in Phones
      PROVE  ppc'[q] \in {"start", "terms", "home"}
  BY <1>1, <1>2, <1>5 DEF TermsInv
<1> QED
  BY <1>1, <1>2, <1>3, <1>4, <1>5 DEF TermsInv, Texts!Text

LEMMA StatusKeeps ==
  ASSUME TextsInv, MaxVersion \in Nat, NEW p \in Phones, Texts!GetStatus(p)
  PROVE  TextsInv'
<1>1. TextsOK /\ TermsInv /\ ConsentInv
  BY DEF TextsInv
<1>2. published \subseteq Texts!Text /\ accepted \subseteq Texts!Text
  BY <1>1 DEF TextsOK, TermsInv
<1>3. Texts!MaxOf(published) \in Nat /\ Texts!MaxOf(accepted) \in Nat
  BY <1>2, MaxOfIs
<1>4. /\ asked' = [asked EXCEPT ![p] = Texts!MaxOf(published)] /\ kind = "tos"
      /\ UNCHANGED <<kind, texts, published, epc, draft, accepted, choice, number, record, last,
                     unsynced>>
  BY DEF Texts!GetStatus, Texts!textVars, Texts!editorVars, Texts!consentVars
<1>5. /\ DOMAIN asked' = Phones /\ asked'[p] = Texts!MaxOf(published)
      /\ \A q \in Phones \ {p} : asked'[q] = asked[q]
  BY <1>1, <1>4 DEF TermsInv
<1>6. ConsentInv'
  BY <1>1, <1>4 DEF ConsentInv
<1>7. TermsInv'
  <2>1. CASE Texts!RequiresAcceptance
    <3>1. PICK t \in published : /\ t[2] = Texts!MaxOf(published)
                                 /\ shown' = [shown EXCEPT ![p] = t]
                                 /\ ppc' = [ppc EXCEPT ![p] = "terms"]
      BY <2>1 DEF Texts!GetStatus, Texts!PhoneStep
    <3>2. /\ DOMAIN ppc' = Phones /\ ppc'[p] = "terms" /\ DOMAIN shown' = Phones
               /\ shown'[p] = t
          /\ \A q \in Phones \ {p} : ppc'[q] = ppc[q] /\ shown'[q] = shown[q]
      BY <1>1, <3>1 DEF TermsInv
    <3>3. ASSUME NEW q \in Phones
          PROVE  /\ ppc'[q] \in {"start", "terms", "home"}
                 /\ ppc'[q] = "terms" => /\ shown'[q] \in Texts!Text /\ asked'[q] = shown'[q][2]
                 /\ ppc'[q] = "home" /\ asked'[q] # None =>
                      asked'[q] \in Nat /\ asked'[q] <= Texts!MaxOf(accepted)
      BY <1>1, <1>2, <1>4, <1>5, <3>1, <3>2 DEF TermsInv
    <3>4. Texts!MaxOf(accepted)' = Texts!MaxOf(accepted)
      BY <1>4 DEF Texts!MaxOf
    <3> QED
      BY <1>1, <1>4, <1>5, <3>2, <3>3, <3>4 DEF TermsInv, Texts!Text
  <2>2. CASE ~Texts!RequiresAcceptance
    <3>1. ppc' = [ppc EXCEPT ![p] = "home"] /\ UNCHANGED shown
      BY <2>2 DEF Texts!GetStatus, Texts!PhoneStep
    <3>2. Texts!MaxOf(published) <= Texts!MaxOf(accepted)
      BY <1>3, <2>2 DEF Texts!RequiresAcceptance
    <3> QED
      BY <1>3, <1>4, <1>5, <3>1, <3>2, PageKeeps
  <2> QED
    BY <2>1, <2>2
<1> QED
  BY <1>4, <1>6, <1>7, PhoneKeeps

LEMMA AcceptKeeps ==
  ASSUME TextsInv, MaxVersion \in Nat, NEW p \in Phones, Texts!Accept(p)
  PROVE  TextsInv'
<1>1. TextsOK /\ TermsInv /\ ConsentInv
  BY DEF TextsInv
<1>2. /\ shown[p] \in published /\ ppc[p] = "terms" /\ ppc' = [ppc EXCEPT ![p] = "home"]
      /\ accepted' = accepted \union {shown[p]}
      /\ UNCHANGED <<kind, texts, published, epc, draft, shown, asked, choice, number, record,
                     last, unsynced>>
  BY DEF Texts!Accept, Texts!PhoneStep, Texts!textVars, Texts!editorVars, Texts!consentVars
<1>3. DOMAIN ppc' = Phones /\ ppc'[p] = "home" /\ \A q \in Phones \ {p} : ppc'[q] = ppc[q]
  BY <1>1, <1>2 DEF TermsInv
<1>4. accepted' \subseteq published /\ accepted' \subseteq Texts!Text
  BY <1>1, <1>2 DEF TextsOK, TermsInv
<1> DEFINE new == accepted \union {shown[p]}
<1>5. /\ Texts!MaxOf(new) \in Nat /\ Texts!MaxOf(accepted) \in Nat
      /\ Texts!MaxOf(accepted) <= Texts!MaxOf(new) /\ shown[p][2] <= Texts!MaxOf(new)
  BY <1>2, <1>4, MaxOfIs, MaxOfGrows
<1>6. shown[p][2] \in Nat
  BY <1>2, <1>4 DEF Texts!Text
<1>7. Texts!MaxOf(accepted)' = Texts!MaxOf(new)
  BY <1>2 DEF Texts!MaxOf
<1>8. ASSUME kind = "tos", NEW q \in Phones
      PROVE  /\ ppc'[q] = "terms" => /\ shown'[q] \in Texts!Text /\ asked'[q] = shown'[q][2]
             /\ ppc'[q] = "home" /\ asked'[q] # None =>
                  asked'[q] \in Nat /\ asked'[q] <= Texts!MaxOf(new)
  <2> HIDE DEF new
  <2>1. CASE q = p
    BY <1>1, <1>2, <1>3, <1>5, <1>6, <1>8, <2>1 DEF TermsInv
  <2>2. CASE q # p
    <3>1. ppc'[q] = ppc[q] /\ asked'[q] = asked[q] /\ shown'[q] = shown[q]
      BY <1>2, <1>3, <2>2
    <3>2. asked[q] \in Nat /\ asked[q] <= Texts!MaxOf(accepted) => asked[q] <= Texts!MaxOf(new)
      BY <1>5
    <3> QED
      BY <1>1, <1>8, <3>1, <3>2 DEF TermsInv
  <2> QED
    BY <2>1, <2>2
<1>9. ASSUME kind # "cookie", NEW q \in Phones
      PROVE  ppc'[q] \in {"start", "terms", "home"}
  BY <1>1, <1>3, <1>9 DEF TermsInv
<1>10. TermsInv'
  BY <1>1, <1>2, <1>3, <1>4, <1>7, <1>8, <1>9 DEF TermsInv, Texts!Text
<1>11. ConsentInv'
  BY <1>1, <1>2 DEF ConsentInv
<1> QED
  BY <1>2, <1>10, <1>11, PhoneKeeps

LEMMA TextsStep ==
  ASSUME TextsInv, MaxVersion \in Nat, [Texts!Next]_Texts!vars
  PROVE  TextsInv'
<1>1. TextsOK /\ TermsInv /\ ConsentInv
  BY DEF TextsInv
<1>2. CASE UNCHANGED Texts!vars
  <2>1. UNCHANGED <<kind, texts, published, epc, draft, accepted, shown, asked, ppc, choice,
                    number, record, last, unsynced>>
    BY <1>2 DEF Texts!vars, Texts!textVars, Texts!editorVars, Texts!termsVars, Texts!consentVars
  <2>2. TextsOK' /\ EditorsOK' /\ published \subseteq published'
    BY <2>1 DEF TextsInv, TextsOK, EditorsOK, Texts!Text
  <2> QED
    BY <2>1, <2>2, EditorKeeps
<1>3. ASSUME NEW p \in Phones, Texts!StatusFails(p) PROVE TextsInv'
  <2>1. /\ ppc' = [ppc EXCEPT ![p] = "home"] /\ asked' = [asked EXCEPT ![p] = None]
        /\ UNCHANGED <<kind, texts, published, epc, draft, accepted, shown, choice, number,
             record,
                       last, unsynced>>
    BY <1>3 DEF Texts!StatusFails, Texts!PhoneStep, Texts!textVars, Texts!editorVars,
                Texts!consentVars
  <2>2. DOMAIN asked' = Phones /\ asked'[p] = None
        /\ \A q \in Phones \ {p} : asked'[q] = asked[q]
    BY <1>1, <2>1 DEF TermsInv
  <2>3. TermsInv'
    BY <2>1, <2>2, PageKeeps
  <2>4. ConsentInv'
    BY <1>1, <2>1 DEF ConsentInv
  <2> QED
    BY <2>1, <2>3, <2>4, PhoneKeeps
<1>4. ASSUME NEW p \in Phones, Texts!Restart(p) PROVE TextsInv'
  <2>1. /\ ppc' = [ppc EXCEPT ![p] = "start"] /\ shown' = [shown EXCEPT ![p] = None]
        /\ UNCHANGED <<kind, texts, published, epc, draft, accepted, asked, choice, number,
             record,
                       last, unsynced>>
    BY <1>4 DEF Texts!Restart, Texts!textVars, Texts!editorVars, Texts!consentVars
  <2>2. /\ DOMAIN ppc' = Phones /\ ppc'[p] = "start" /\ DOMAIN shown' = Phones
        /\ \A q \in Phones \ {p} : ppc'[q] = ppc[q] /\ shown'[q] = shown[q]
    BY <1>1, <2>1 DEF TermsInv
  <2>3. Texts!MaxOf(accepted)' = Texts!MaxOf(accepted)
    BY <2>1 DEF Texts!MaxOf
  <2>4. TermsInv'
    BY <1>1, <2>1, <2>2, <2>3 DEF TermsInv, Texts!Text
  <2>5. ConsentInv'
    BY <1>1, <2>1 DEF ConsentInv
  <2> QED
    BY <2>1, <2>4, <2>5, PhoneKeeps
<1>5. ASSUME NEW p \in Phones, Texts!ShowCookieConsent(p) PROVE TextsInv'
  <2>1. /\ ppc' = [ppc EXCEPT ![p] = "sheet"] /\ kind = "cookie"
        /\ UNCHANGED <<kind, texts, published, epc, draft, accepted, shown, asked, choice,
             number,
                       record, last, unsynced>>
    BY <1>5 DEF Texts!ShowCookieConsent, Texts!PhoneStep, Texts!textVars, Texts!editorVars,
                Texts!termsVars, Texts!consentVars
  <2>2. TermsInv'
    BY <1>1, <2>1, PageKeeps DEF TermsInv
  <2>3. ConsentInv'
    BY <1>1, <2>1 DEF ConsentInv
  <2> QED
    BY <2>1, <2>2, <2>3, PhoneKeeps
<1>6. ASSUME NEW p \in Phones, ppc[p] \in {"sheet", "find", "upsert"} PROVE kind = "cookie"
  BY <1>1, <1>6 DEF TermsInv
<1>7. ASSUME NEW p \in Phones, Texts!SaveConsent(p) PROVE TextsInv'
  <2>1. /\ ppc[p] = "sheet" /\ ppc' = [ppc EXCEPT ![p] = "find"]
        /\ unsynced' = unsynced \union {p}
        /\ UNCHANGED <<kind, texts, published, epc, draft, accepted, shown, asked, number,
                       record, last>>
    BY <1>7 DEF Texts!SaveConsent, Texts!PhoneStep, Texts!textVars, Texts!editorVars,
                Texts!termsVars
  <2>2. PICK marketing \in BOOLEAN : choice' = [choice EXCEPT ![p] = marketing]
    BY <1>7 DEF Texts!SaveConsent
  <2>3. TermsInv'
    BY <1>1, <1>6, <2>1, PageKeeps DEF TermsInv
  <2>4. DOMAIN choice' = Phones /\ \A q \in Phones \ {p} : choice'[q] = choice[q]
    BY <1>1, <2>2 DEF ConsentInv
  <2>5. ASSUME record # None
        PROVE  /\ last \in Phones
               /\ last \in unsynced' \/ record.marketing = choice'[last]
               /\ record.version # None => \E t \in published : t[2] = record.version
    BY <1>1, <2>1, <2>4, <2>5 DEF ConsentInv
  <2>6. ConsentInv'
    BY <1>1, <2>1, <2>4, <2>5 DEF ConsentInv
  <2> QED
    BY <2>1, <2>3, <2>6, PhoneKeeps
<1>8. ASSUME NEW p \in Phones, Texts!FindPolicy(p) PROVE TextsInv'
  <2>1. /\ ppc[p] = "find" /\ ppc' = [ppc EXCEPT ![p] = "upsert"]
        /\ number' = [number EXCEPT ![p] = IF published = {} THEN None
                                           ELSE Texts!MaxOf(published)]
        /\ UNCHANGED <<kind, texts, published, epc, draft, accepted, shown, asked, choice,
                       record, last, unsynced>>
    BY <1>8 DEF Texts!FindPolicy, Texts!PhoneStep, Texts!textVars, Texts!editorVars,
                Texts!termsVars
  <2>2. TermsInv'
    BY <1>1, <1>6, <2>1, PageKeeps DEF TermsInv
  <2>3. published # {} => \E t \in published : t[2] = Texts!MaxOf(published)
    BY <1>1, MaxOfIs DEF TextsOK
  <2>4. DOMAIN number' = Phones
        /\ (number'[p] # None => \E t \in published : t[2] = number'[p])
        /\ \A q \in Phones \ {p} : number'[q] = number[q]
    BY <1>1, <2>1, <2>3 DEF ConsentInv
  <2>5. ConsentInv'
    BY <1>1, <2>1, <2>4 DEF ConsentInv
  <2> QED
    BY <2>1, <2>2, <2>5, PhoneKeeps
<1>9. ASSUME NEW p \in Phones, Texts!UpsertConsent(p) PROVE TextsInv'
  <2>1. /\ ppc[p] = "upsert" /\ ppc' = [ppc EXCEPT ![p] = "home"] /\ last' = p
        /\ record' = [marketing |-> choice[p], version |-> number[p]]
        /\ unsynced' = unsynced \ {p}
        /\ UNCHANGED <<kind, texts, published, epc, draft, accepted, shown, asked, choice,
             number>>
    BY <1>9 DEF Texts!UpsertConsent, Texts!PhoneStep, Texts!textVars, Texts!editorVars,
                Texts!termsVars
  <2>2. TermsInv'
    BY <1>1, <1>6, <2>1, PageKeeps DEF TermsInv
  <2>3. record'.marketing = choice[p] /\ record'.version = number[p]
    BY <2>1
  <2>4. ConsentInv'
    BY <1>1, <2>1, <2>3 DEF ConsentInv
  <2> QED
    BY <2>1, <2>2, <2>4, PhoneKeeps
<1>10. ASSUME NEW p \in Phones, Texts!SyncFails(p) PROVE TextsInv'
  <2>1. /\ ppc[p] \in {"find", "upsert"} /\ ppc' = [ppc EXCEPT ![p] = "home"]
        /\ UNCHANGED <<kind, texts, published, epc, draft, accepted, shown, asked, choice,
             number,
                       record, last, unsynced>>
    BY <1>10 DEF Texts!SyncFails, Texts!textVars, Texts!editorVars, Texts!termsVars,
                 Texts!consentVars
  <2>2. TermsInv'
    BY <1>1, <1>6, <2>1, PageKeeps DEF TermsInv
  <2>3. ConsentInv'
    BY <1>1, <2>1 DEF ConsentInv
  <2> QED
    BY <2>1, <2>2, <2>3, PhoneKeeps
<1> QED
  BY <1>2, <1>3, <1>4, <1>5, <1>7, <1>8, <1>9, <1>10, ReadKeeps, CreateKeeps, FindKeeps,
     PublishKeeps, StatusKeeps, AcceptKeeps
     DEF Texts!Next

(* Clients accept the newest terms they were told of, the consent at the   *)
(* server is the one a phone has given or is still sending, and versions   *)
(* have no gap, for every number of editors, phones and languages          *)
(* (tos.service.ts:34-202, cookie-consent.service.ts:24-72).               *)
THEOREM TextsAreFollowed ==
  ASSUME MaxVersion \in Nat
  PROVE  OfficeSpec => []TextsExplained
<1>1. OfficeInit => TextsInv
  BY TextsInit DEF OfficeInit
<1>2. TextsInv /\ [OfficeNext]_<<side, vars, textVars>> => TextsInv'
  <2> SUFFICES ASSUME TextsInv, [OfficeNext]_<<side, vars, textVars>>
               PROVE  TextsInv'
    OBVIOUS
  <2>1. Texts!Next \/ UNCHANGED textVars
    BY DEF OfficeNext
  <2>2. [Texts!Next]_Texts!vars
    BY <2>1 DEF textVars, Texts!vars, Texts!textVars, Texts!editorVars, Texts!termsVars,
                Texts!consentVars
  <2> QED
    BY <2>2, TextsStep
<1>3. TextsInv => TextsExplained
  <2> SUFFICES ASSUME TextsInv
               PROVE  Texts!TermsKnown /\ Texts!ConsentKept /\ Texts!NoGaps
    BY DEF TextsExplained, Texts!TextsExplained
  <2>1. accepted \subseteq Texts!Text
    BY DEF TextsInv, TextsOK, TermsInv
  <2>2. Texts!MaxOf(accepted) \in Nat
    BY <2>1, MaxOfIs
  <2>3. \A m, n \in Nat : m <= n => n >= m
    OBVIOUS
  <2>4. Texts!TermsKnown
    BY <2>2, <2>3 DEF TextsInv, TermsInv, Texts!TermsKnown
  <2>5. Texts!ConsentKept
    BY DEF TextsInv, ConsentInv, Texts!ConsentKept
  <2>6. Texts!NoGaps
    BY DEF TextsInv, TextsOK, Texts!NoGaps
  <2> QED
    BY <2>4, <2>5, <2>6
<1> QED
  BY <1>1, <1>2, <1>3, PTL DEF OfficeSpec
===============================================================================
