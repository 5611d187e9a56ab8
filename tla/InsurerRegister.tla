--------------------------- MODULE InsurerRegister ---------------------------
(***************************************************************************)
(* The register of insurers that the office keeps from the pages of the    *)
(* Financial Supervision Commission (modules/insurers): a synchronisation  *)
(* scrapes one page per category, looks at the companies' web sites, and   *)
(* merges what it found into the rows; another operation asks Trustpilot   *)
(* about every row.  Both read the rows, spend minutes on the network and  *)
(* then save whole entities, of which typeorm writes every column that     *)
(* differs from the table.                                                 *)
(***************************************************************************)
EXTENDS Integers, FiniteSets, Sequences, SequencesExt

CONSTANTS
  Processes,      \* processes of the API: two while a deployment rolls over
  Companies,      \* companies the Commission lists
  HeaderLike,     \* those whose name is taken for the header of the table
  MaxChanges,     \* bound: changes of the Commission's pages
  MaxRuns,        \* bound: synchronisations and enrichments started
  MaxFaults,      \* bound: pages that fail or come back empty, processes that die
  None

Categories == <<"life", "non_life">>

VARIABLES
  listed,    \* listed[k]: the companies on the page of category k
  eik,       \* eik[c]: the number the page gives for the company, None while it gives none
  address,   \* address[c]: the version of its address on the page
  rows,      \* the rows of fsc_insurers, in the order of their ids
  sync,      \* sync[p]: the run of process p, with what it has scraped and read
  enrich,    \* enrich[p]: the rows an enrichment of Trustpilot has read, None when none runs
  status,    \* status[p]: latestSyncStatus, in the memory of the process
  page,      \* the office's page: the process its request waits for, or what it was told
  writes,    \* ghost: how often the table was written
  overlapped,\* ghost: some save went out over rows written after they were read
  cleared,   \* ghost: a value that was there has been lost or replaced by a synchronisation
  left,      \* bounds: changes, runs and faults left
  seen       \* ghost: seen[p]: the keys the run of process p has scraped

vars == <<listed, eik, address, rows, sync, enrich, status, page, writes, overlapped, cleared,
          left, seen>>

Idle == [pc |-> "idle", at |-> 0, scraped |-> {}, read |-> <<>>, since |-> 0]

Init ==
  /\ listed \in {[k \in 1..2 |-> IF k = 1 THEN Companies ELSE {}],
                 [k \in 1..2 |-> IF k = 1 THEN {} ELSE Companies]}
  /\ eik \in [Companies -> {None, 1}]
  /\ address = [c \in Companies |-> 1]
  /\ rows = <<>>
  /\ sync = [p \in Processes |-> Idle]
  /\ enrich = [p \in Processes |-> None]
  /\ status = [p \in Processes |-> "idle"]
  /\ page = "open"
  /\ writes = 0 /\ overlapped = FALSE /\ cleared = FALSE
  /\ left = [changes |-> MaxChanges, runs |-> MaxRuns, faults |-> MaxFaults]
  /\ seen = [p \in Processes |-> {}]

-----------------------------------------------------------------------------
(* The pages of the Commission change: a company gets its number, moves.   *)

Publish(c) ==
  /\ left.changes > 0 /\ left' = [left EXCEPT !.changes = @ - 1]
  /\ \/ eik[c] = None /\ eik' = [eik EXCEPT ![c] = 1] /\ UNCHANGED address
     \/ address' = [address EXCEPT ![c] = @ + 1] /\ UNCHANGED eik
  /\ UNCHANGED <<listed, rows, sync, enrich, status, page, writes, overlapped, cleared, seen>>

-----------------------------------------------------------------------------
(* isHeaderRow drops a row whose name contains the letters of a column's   *)
(* title.                                                                  *)
isHeaderRow(c) == c \in HeaderLike

(* scrapeCategory and enrichRows: what the page says of each company, and  *)
(* what its web site said when it answered (site: the companies it did).   *)
ParsedRow(k, c, site) ==
  [category |-> k, name |-> c, eik |-> eik[c], address |-> address[c],
   description |-> IF c \in site THEN 1 ELSE None,
   trustpilotUrl |-> IF c \in site THEN 1 ELSE None]

enrichRows(k, site) ==
  {ParsedRow(k, c, site) : c \in {c \in listed[k] : ~isHeaderRow(c)}}

getDedupKey(r) == <<r.category, r.eik, r.name>>

Pick(a, b) == IF a # None THEN a ELSE b

NewEntity(r) ==
  [category |-> r.category, name |-> r.name, eik |-> r.eik, address |-> r.address,
   description |-> r.description, logo |-> None,
   trustpilotUrl |-> r.trustpilotUrl, score |-> None]

(* A bug someone could write: the page is newer, so it wins.               *)
ScrapedWins(old, r) ==
  [old EXCEPT !.eik = Pick(r.eik, @),
              !.address = Pick(r.address, @),
              !.description = Pick(r.description, @),
              !.logo = Pick(r.description, @),
              !.trustpilotUrl = Pick(r.trustpilotUrl, @)]

(* What a row already has is kept: the page only fills what is empty.      *)
buildMergedEntity(old, r) ==
  [old EXCEPT !.eik = Pick(@, r.eik),
              !.address = Pick(@, r.address),
              !.description = Pick(@, r.description),
              !.logo = Pick(@, r.description),
              !.trustpilotUrl = Pick(@, r.trustpilotUrl)]

-----------------------------------------------------------------------------
(* syncFromFsc: a second caller of the same process waits for the run that *)
(* is going on.  Another process knows nothing of it.                      *)

Start(p) ==
  /\ sync[p].pc = "idle" /\ left.runs > 0
  /\ left' = [left EXCEPT !.runs = @ - 1]
  /\ sync' = [sync EXCEPT ![p] = [Idle EXCEPT !.pc = "scrape", !.at = 1]]
  /\ status' = [status EXCEPT ![p] = "running"]
  /\ seen' = [seen EXCEPT ![p] = {}]
  /\ UNCHANGED <<listed, eik, address, rows, enrich, writes, overlapped, cleared>>

(* The cron of every night.                                                *)
handleDailySync(p) == Start(p) /\ UNCHANGED page

(* The button of the page.                                                 *)
syncFromFsc(p) ==
  /\ page \notin Processes
  /\ page' = p
  /\ \/ Start(p)
     \/ /\ sync[p].pc # "idle"
        /\ UNCHANGED <<listed, eik, address, rows, sync, enrich, status, writes, overlapped,
                       cleared, left, seen>>

Answer(p, text) == page' = IF page = p THEN text ELSE page

Advance(p, r) ==
  IF r.at < Len(Categories)
  THEN /\ sync' = [sync EXCEPT ![p] = [Idle EXCEPT !.pc = "scrape", !.at = r.at + 1]]
       /\ UNCHANGED <<status, page>>
  ELSE /\ sync' = [sync EXCEPT ![p] = Idle]
       /\ status' = [status EXCEPT ![p] = "success"]
       /\ Answer(p, "done")

Fail(p) ==
  /\ sync' = [sync EXCEPT ![p] = Idle]
  /\ status' = [status EXCEPT ![p] = "error"]
  /\ Answer(p, "failed")

(* The page of the category: rows, none ("Keeping previous data"), or an   *)
(* error that ends the run.                                                *)
ScrapeCategory(p) ==
  LET r == sync[p] IN
  /\ r.pc = "scrape"
  /\ \E site \in SUBSET Companies :
       LET found == enrichRows(r.at, site) IN
       /\ \/ found # {}
             /\ sync' = [sync EXCEPT ![p].pc = "find", ![p].scraped = found]
             /\ seen' = [seen EXCEPT ![p] = @ \cup {getDedupKey(x) : x \in found}]
             /\ UNCHANGED <<status, page>>
          \/ found = {} /\ Advance(p, r) /\ UNCHANGED seen
       /\ UNCHANGED left
  /\ UNCHANGED <<listed, eik, address, rows, enrich, writes, overlapped, cleared>>

PageFails(p) ==
  /\ sync[p].pc = "scrape" /\ left.faults > 0
  /\ left' = [left EXCEPT !.faults = @ - 1]
  /\ \/ Fail(p)
     \/ Advance(p, sync[p])
  /\ UNCHANGED <<listed, eik, address, rows, enrich, writes, overlapped, cleared, seen>>

FindExisting(p) ==
  /\ sync[p].pc = "find"
  /\ sync' = [sync EXCEPT ![p].pc = "save", ![p].read = rows, ![p].since = writes]
  /\ UNCHANGED <<listed, eik, address, rows, enrich, status, page, writes, overlapped, cleared,
                 left, seen>>

(* existingByKey: of several rows of one key the last is found.            *)
Existing(read, r) == {i \in DOMAIN read : getDedupKey(read[i]) = getDedupKey(r)}
Newest(read, i) == \A j \in Existing(read, read[i]) : j <= i

Merged(read, scraped) ==
  [i \in {i \in DOMAIN read : Newest(read, i)
                            /\ \E r \in scraped : getDedupKey(r) = getDedupKey(read[i])} |->
     buildMergedEntity(read[i],
       CHOOSE r \in scraped : getDedupKey(r) = getDedupKey(read[i]))]

Inserted(read, scraped) == {r \in scraped : Existing(read, r) = {}}

NewEntities(set) ==
  LET order == SetToSeq(set) IN [n \in DOMAIN order |-> NewEntity(order[n])]

Lost(old, new) ==
  \/ \E f \in {"address", "description", "logo", "eik"} : old[f] # None /\ new[f] # old[f]
  \/ \E f \in {"trustpilotUrl", "score"} : old[f] # None /\ new[f] = None

(* repo.save(entities), one transaction: the unique index on category,     *)
(* number and name refuses a second row, unless the number is null.        *)
SaveCategory(p) ==
  LET r == sync[p]
      merged == Merged(r.read, r.scraped)
      new == Inserted(r.read, r.scraped)
      refused == \E x \in new : x.eik # None /\ Existing(rows, x) # {}
      kept == [i \in DOMAIN rows |-> IF i \in DOMAIN merged THEN merged[i] ELSE rows[i]]
  IN
  /\ r.pc = "save"
  /\ IF refused
     THEN Fail(p) /\ UNCHANGED <<rows, writes, overlapped, cleared>>
     ELSE /\ rows' = kept \o NewEntities(new)
          /\ writes' = writes + 1
          /\ overlapped' = (overlapped \/ r.since # writes)
          /\ cleared' = (cleared \/ \E i \in DOMAIN rows : Lost(rows[i], kept[i]))
          /\ Advance(p, r)
  /\ UNCHANGED <<listed, eik, address, enrich, left, seen>>

-----------------------------------------------------------------------------
(* enrichAll: the rows are read, Trustpilot is asked for each, and those   *)
(* it knows are saved; a row that fails is counted and left out.           *)

enrichTrustpilotAll(p) ==
  /\ enrich[p] = None /\ rows # <<>> /\ left.runs > 0
  /\ left' = [left EXCEPT !.runs = @ - 1]
  /\ enrich' = [enrich EXCEPT ![p] = [read |-> rows, since |-> writes]]
  /\ UNCHANGED <<listed, eik, address, rows, sync, status, page, writes, overlapped, cleared,
                 seen>>

Enriched(read, known) ==
  [i \in DOMAIN rows |-> IF i \in known
                        THEN [read[i] EXCEPT !.trustpilotUrl = 2, !.score = 1]
                        ELSE rows[i]]

SaveTrustpilot(p) ==
  /\ enrich[p] # None
  /\ enrich' = [enrich EXCEPT ![p] = None]
  /\ \E known \in SUBSET DOMAIN enrich[p].read :
       LET kept == Enriched(enrich[p].read, known) IN
          IF known = {}
          THEN UNCHANGED <<rows, writes, overlapped, cleared>>
          ELSE /\ rows' = kept
               /\ writes' = writes + 1
               /\ overlapped' = (overlapped \/ enrich[p].since # writes)
               /\ cleared' = (cleared \/ \E i \in DOMAIN rows : Lost(rows[i], kept[i]))
  /\ UNCHANGED <<listed, eik, address, sync, status, page, left, seen>>

-----------------------------------------------------------------------------
(* The process dies: its runs are gone, and so is what it knew of them.    *)
Crash(p) ==
  /\ left.faults > 0 /\ left' = [left EXCEPT !.faults = @ - 1]
  /\ sync[p].pc # "idle" \/ enrich[p] # None
  /\ sync' = [sync EXCEPT ![p] = Idle]
  /\ enrich' = [enrich EXCEPT ![p] = None]
  /\ status' = [status EXCEPT ![p] = "idle"]
  /\ Answer(p, "failed")
  /\ UNCHANGED <<listed, eik, address, rows, writes, overlapped, cleared, seen>>

Next ==
  \/ \E c \in Companies : Publish(c)
  \/ \E p \in Processes :
       \/ handleDailySync(p) \/ syncFromFsc(p)
       \/ ScrapeCategory(p) \/ PageFails(p) \/ FindExisting(p) \/ SaveCategory(p)
       \/ enrichTrustpilotAll(p) \/ SaveTrustpilot(p)
       \/ Crash(p)

Spec == Init /\ [][Next]_vars

-----------------------------------------------------------------------------
(* What a row holds is neither lost nor replaced by a later reading of the *)
(* pages, unless two operations read and saved over each other: the merge  *)
(* only fills gaps (buildMergedEntity).                                    *)
FilledStays == cleared => overlapped

(* A company stands once in a category under one number: a second row      *)
(* needs two runs over each other and a company without a number, which    *)
(* the unique index does not see.                                          *)
NoTwins ==
  \A i, j \in DOMAIN rows :
    i # j /\ getDedupKey(rows[i]) = getDedupKey(rows[j]) => rows[i].eik = None /\ overlapped

(* A run that reports success has put every company it read in the table.  *)
SuccessIsWhole ==
  \A p \in Processes : status[p] = "success" =>
    \A key \in seen[p] : \E i \in DOMAIN rows : getDedupKey(rows[i]) = key

RegisterExplained == FilledStays /\ NoTwins /\ SuccessIsWhole
=============================================================================
