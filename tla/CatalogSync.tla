----------------------------- MODULE CatalogSync -----------------------------
(***************************************************************************)
(* The vehicle catalog's synchronisation: an administrator starts a run, a *)
(* queue worker scrapes the catalog brand by brand with a child process    *)
(* that keeps a checkpoint (autodata24-scraper.ts), then imports the file  *)
(* it wrote; an import alone runs outside the queue.  The row of a run is  *)
(* all that says whether one is under way.  The queue runs one job at a    *)
(* time and repeats once a job whose worker died.                          *)
(***************************************************************************)
EXTENDS Naturals, Sequences, SequencesExt

CONSTANTS
  Runs, Brands, None,
  MaxFaults    \* bound on dying workers, scrapers and failing statements

VARIABLES
  run,         \* status of the row
  pc,          \* per run: statement of its request or job
  imports,     \* runs that only import
  jobs,        \* waiting in the queue
  repeated,    \* jobs run a second time
  mem,         \* the scraper's completed brands and results; None: not running
  checkpoint, output,      \* its files
  input, db,   \* per run: what its import read; brands in the catalog
  gaps,        \* per run: brands its scrape went past without their page
  faults

files == <<mem, checkpoint, output>>
importVars == <<input, db>>
vars == <<run, pc, imports, jobs, repeated, files, importVars, gaps, faults>>

(* missed is not in the file: the brands of done whose page failed. *)
Scraped == [done: SUBSET Brands, have: SUBSET Brands, missed: SUBSET Brands]
Nothing == [done |-> {}, have |-> {}, missed |-> {}]
Active == {"pending", "scraping", "importing"}
Working == {"start", "scrape", "results", "scraped", "import"}

TypeOK ==
  /\ run \in [Runs -> Active \union {"none", "done", "failed"}]
  /\ pc \in [Runs -> Working \union {"idle", "save", "enqueue", "queued", "fail", "end"}]
  /\ imports \subseteq Runs /\ repeated \subseteq Runs
  /\ jobs \in Seq(Runs)
  /\ mem = None \/ mem \in Scraped
  /\ checkpoint \in Scraped /\ output \subseteq Brands
  /\ input \in [Runs -> SUBSET Brands] /\ db \subseteq Brands
  /\ gaps \in [Runs -> SUBSET Brands]
  /\ faults \in 0..MaxFaults

Init ==
  /\ run = [r \in Runs |-> "none"] /\ pc = [r \in Runs |-> "idle"]
  /\ imports = {} /\ repeated = {} /\ jobs = <<>>
  /\ mem = None /\ checkpoint = Nothing /\ output = {}
  /\ input = [r \in Runs |-> {}] /\ db = {}
  /\ gaps = [r \in Runs |-> {}]
  /\ faults = 0

Goto(r, from, to) == pc[r] = from /\ pc' = [pc EXCEPT ![r] = to]
Write(r, status) == run' = [run EXCEPT ![r] = status]
Fault == faults < MaxFaults /\ faults' = faults + 1

-----------------------------------------------------------------------------
(* startSync looks for an active run and then saves its own. *)
StartSync(r) ==
  /\ \A q \in Runs : run[q] \notin Active
  /\ Goto(r, "idle", "save")
  /\ UNCHANGED <<run, imports, jobs, repeated, files, importVars, gaps, faults>>

SaveRun(r) ==
  /\ Goto(r, "save", "enqueue") /\ Write(r, "pending")
  /\ UNCHANGED <<imports, jobs, repeated, files, importVars, gaps, faults>>

EnqueueRun(r) ==
  /\ \/ Goto(r, "enqueue", "queued") /\ jobs' = Append(jobs, r) /\ UNCHANGED faults
     \/ Goto(r, "enqueue", "end") /\ Fault /\ UNCHANGED jobs
  /\ UNCHANGED <<run, imports, repeated, files, importVars, gaps>>

StartImportOnly(r) ==
  /\ Goto(r, "idle", "import") /\ Write(r, "importing")
  /\ imports' = imports \union {r}
  /\ input' = [input EXCEPT ![r] = output]
  /\ UNCHANGED <<jobs, repeated, files, db, gaps, faults>>

-----------------------------------------------------------------------------
TakeJob(r) ==
  /\ jobs # <<>> /\ Head(jobs) = r
  /\ \A q \in Runs \ imports : pc[q] \notin Working \union {"fail"}
  /\ Goto(r, "queued", "start") /\ Write(r, "scraping")
  /\ jobs' = Tail(jobs)
  /\ UNCHANGED <<imports, repeated, files, importVars, gaps, faults>>

LoadCheckpoint(r) ==
  /\ Goto(r, "start", "scrape")
  /\ mem' = checkpoint
  /\ UNCHANGED <<run, imports, jobs, repeated, checkpoint, output, importVars, gaps, faults>>

(* A brand whose page cannot be fetched counts as completed. *)
ProcessBrand(r, b) ==
  /\ pc[r] = "scrape" /\ mem # None /\ b \notin mem.done
  /\ checkpoint = mem
  /\ \/ mem' = [mem EXCEPT !.done = @ \union {b}, !.have = @ \union {b}]
     \/ mem' = [mem EXCEPT !.done = @ \union {b}, !.missed = @ \union {b}]
  /\ UNCHANGED <<run, pc, imports, jobs, repeated, checkpoint, output, importVars, gaps, faults>>

(* After a brand: the checkpoint, then the results. *)
SaveCheckpoint(r) ==
  /\ mem # None /\ checkpoint # mem
  /\ Goto(r, "scrape", "results")
  /\ checkpoint' = mem
  /\ UNCHANGED <<run, imports, jobs, repeated, mem, output, importVars, gaps, faults>>

SaveResults(r) ==
  /\ mem # None
  /\ Goto(r, "results", "scrape")
  /\ output' = mem.have
  /\ UNCHANGED <<run, imports, jobs, repeated, mem, checkpoint, importVars, gaps, faults>>

FinishScrape(r) ==
  /\ Goto(r, "scrape", "scraped")
  /\ mem # None /\ mem.done = Brands /\ checkpoint = mem
  /\ output' = mem.have /\ checkpoint' = Nothing /\ mem' = None
  /\ gaps' = [gaps EXCEPT ![r] = mem.missed]
  /\ Write(r, "importing")
  /\ UNCHANGED <<imports, jobs, repeated, importVars, faults>>

(* Exit code other than 0: the list of brands, or a model's generations. *)
ScraperFails(r) ==
  /\ Goto(r, "scrape", "fail")
  /\ mem' = None
  /\ UNCHANGED <<run, imports, jobs, repeated, checkpoint, output, importVars, gaps, faults>>

ReadFile(r) ==
  /\ Goto(r, "scraped", "import")
  /\ input' = [input EXCEPT ![r] = output]
  /\ UNCHANGED <<run, imports, jobs, repeated, files, db, gaps, faults>>

(* Upserts, batch after batch and in no transaction. *)
ImportBatch(r) ==
  /\ pc[r] = "import"
  /\ \E b \in input[r] \ db : db' = db \union {b}
  /\ UNCHANGED <<run, pc, imports, jobs, repeated, files, input, gaps, faults>>

(* Mutant: the run is done when its import has begun. *)
FinishImportEarly(r) ==
  /\ Goto(r, "import", "end") /\ Write(r, "done")
  /\ UNCHANGED <<imports, jobs, repeated, files, importVars, gaps, faults>>

FinishImport(r) ==
  /\ input[r] \subseteq db
  /\ Goto(r, "import", "end") /\ Write(r, "done")
  /\ UNCHANGED <<imports, jobs, repeated, files, importVars, gaps, faults>>

ImportFails(r) ==
  /\ \/ Goto(r, "scraped", "fail")
     \/ Goto(r, "import", "fail")
  /\ Fault
  /\ UNCHANGED <<run, imports, jobs, repeated, files, importVars, gaps>>

MarkFailed(r) ==
  /\ Goto(r, "fail", "end") /\ Write(r, "failed")
  /\ UNCHANGED <<imports, jobs, repeated, files, importVars, gaps, faults>>

(* The API process dies: the import outside the queue is gone, a job is    *)
(* repeated, unless it was already; its scraper dies with its pipes.       *)
Crash(r) ==
  /\ Fault
  /\ \/ r \notin imports \union repeated /\ pc[r] \in Working
        /\ Goto(r, pc[r], "queued")
        /\ jobs' = <<r>> \o jobs /\ repeated' = repeated \union {r}
     \/ r \in imports \union repeated /\ pc[r] \in Working
        /\ Goto(r, pc[r], "end") /\ UNCHANGED <<jobs, repeated>>
  /\ mem' = IF r \in imports THEN mem ELSE None
  /\ UNCHANGED <<run, imports, checkpoint, output, importVars, gaps>>

Next == \E r \in Runs :
  \/ StartSync(r) \/ SaveRun(r) \/ EnqueueRun(r) \/ StartImportOnly(r)
  \/ TakeJob(r) \/ LoadCheckpoint(r) \/ SaveCheckpoint(r) \/ SaveResults(r)
  \/ FinishScrape(r) \/ ScraperFails(r) \/ ReadFile(r) \/ ImportBatch(r)
  \/ FinishImport(r) \/ ImportFails(r) \/ MarkFailed(r) \/ Crash(r)
  \/ \E b \in Brands : ProcessBrand(r, b)

Spec == Init /\ [][Next]_vars

-----------------------------------------------------------------------------
(* A run that is done has put every brand into the catalog but those whose *)
(* page failed since the checkpoint it started from was begun: crashes,    *)
(* repeated jobs and imports beside it lose none                           *)
(* (vehicle-catalog-sync.processor.ts:46-92, autodata24-scraper.ts:480-580). *)
DoneIsWhole ==
  \A r \in Runs \ imports : run[r] = "done" => Brands \ gaps[r] \subseteq db

(* A run whose row says that it is under way is, unless a process or a     *)
(* statement failed: such a run refuses every later one                    *)
(* (vehicle-catalog-sync.service.ts:51-63).                                *)
NoRunLeftBehind ==
  \A r \in Runs : run[r] \in Active => pc[r] # "end" \/ faults > 0
=============================================================================
