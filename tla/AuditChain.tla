------------------------------ MODULE AuditChain ------------------------------
(***************************************************************************)
(* The audit log of one tenant (audit.service.ts): every entry carries the *)
(* hash of the one before it, found and inserted under a lock, and         *)
(* verifyChain follows the hashes in the order of created_at and id.       *)
(* created_at has milliseconds of the writing process, and the id is       *)
(* random.  An entry's hash is as good as its place in the log, and what   *)
(* it says is left out.                                                    *)
(***************************************************************************)
EXTENDS Naturals, Sequences

CONSTANTS
  Processes,
  Ids,         \* numbers, in the order of the ids
  None,
  MaxTime,     \* last millisecond of a clock
  MaxFaults    \* bound on failing writes

VARIABLES
  log,         \* the entries, in the order of their inserts
  clock,       \* per process
  lock,        \* the process that has the advisory lock, or None
  prev,        \* per process: the entry it read as the last one; None: it has not
  faults

vars == <<log, clock, lock, prev, faults>>

Entry == [time: 0..MaxTime, id: Ids, prev: Nat]
Genesis == 0

TypeOK ==
  /\ log \in Seq(Entry)
  /\ clock \in [Processes -> 0..MaxTime]
  /\ lock \in Processes \union {None}
  /\ prev \in [Processes -> Nat \union {None}]
  /\ faults \in 0..MaxFaults

Init ==
  /\ log = <<>> /\ clock = [p \in Processes |-> 0]
  /\ lock = None /\ prev = [p \in Processes |-> None]
  /\ faults = 0

(* ORDER BY created_at, id *)
Before(e, f) == e.time < f.time \/ (e.time = f.time /\ e.id < f.id)
Earlier(i) == {k \in DOMAIN log : Before(log[k], log[i])}
LastOf(S) == {i \in S : \A k \in S \ {i} : Before(log[k], log[i])}
Predecessor(S) == IF S = {} THEN Genesis ELSE CHOOSE i \in LastOf(S) : TRUE

-----------------------------------------------------------------------------
ClockTicks(p) ==
  /\ clock[p] < MaxTime /\ clock' = [clock EXCEPT ![p] = @ + 1]
  /\ UNCHANGED <<log, lock, prev, faults>>

(* Mutant: no lock is taken. *)
LockNothing(p) ==
  /\ lock' = p
  /\ UNCHANGED <<log, clock, prev, faults>>

TakeLock(p) ==
  /\ lock = None /\ lock' = p
  /\ UNCHANGED <<log, clock, prev, faults>>

FindLast(p) ==
  /\ lock = p /\ prev[p] = None
  /\ prev' = [prev EXCEPT ![p] = Predecessor(DOMAIN log)]
  /\ UNCHANGED <<log, clock, lock, faults>>

(* The insert, and the commit that gives the lock back. *)
InsertEntry(p) ==
  /\ prev[p] # None
  /\ \E id \in Ids :
       /\ \A i \in DOMAIN log : log[i].id # id
       /\ log' = Append(log, [time |-> clock[p], id |-> id, prev |-> prev[p]])
  /\ lock' = None /\ prev' = [prev EXCEPT ![p] = None]
  /\ UNCHANGED <<clock, faults>>

(* The caller goes on without its entry. *)
LogFails(p) ==
  /\ lock = p /\ lock' = None /\ prev' = [prev EXCEPT ![p] = None]
  /\ faults < MaxFaults /\ faults' = faults + 1
  /\ UNCHANGED <<log, clock>>

Next == \E p \in Processes :
  ClockTicks(p) \/ TakeLock(p) \/ FindLast(p) \/ InsertEntry(p) \/ LogFails(p)

Spec == Init /\ [][Next]_vars

-----------------------------------------------------------------------------
(* What verifyChain answers. *)
ChainIsValid == \A i \in DOMAIN log : log[i].prev = Predecessor(Earlier(i))

(* Writes of one tenant, one after the other, build a chain that verifies  *)
(* ("последователни writes за един тенант изграждат верифицируема верига", *)
(* audit.service.spec.ts:86).                                              *)
SequentialWritesVerify == ChainIsValid

(* Whichever processes write, and whichever writes fail, the chain         *)
(* verifies, unless two entries have one timestamp, or a clock was behind  *)
(* the one of the entry before (audit.service.ts:16-135).                  *)
BrokenChainExplained ==
  \/ ChainIsValid
  \/ \E i, k \in DOMAIN log : i < k /\ log[i].time >= log[k].time
=============================================================================
