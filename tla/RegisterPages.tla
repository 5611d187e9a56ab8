--------------------------- MODULE RegisterPages ---------------------------
(***************************************************************************)
(* The register of insurers as the office sees it: a page with a card per  *)
(* row, that starts a synchronisation and shows its progress, and a page   *)
(* per row, which keeps what it loaded in a cache of its own.  What runs   *)
(* in the API meanwhile (InsurerRegister) is here: a run starts, saves     *)
(* rows and ends.                                                          *)
(***************************************************************************)
EXTENDS Naturals, Sequences

CONSTANTS
  Entries, FirstTab,   \* the rows, and those on the tab that the page opens with
  Logos, Broken,       \* addresses of pictures, and those that do not load
  MaxSaves,            \* bound on the tables saved
  MaxVisits,           \* bound on the rows' pages opened
  MaxFaults,           \* bound on answers that are lost, or say nothing
  None

VARIABLES
  tables,    \* tables[v]: the logo of each row when the table was saved for the v-th time
  running,   \* latestSyncStatus says so
  view,      \* the row whose page is open, or None: the register is
  filter,    \* the rows that the tab and the search let through
  list,      \* the register's rows, in the cache of the application
  progress,  \* the progress of a run, there too
  detail,    \* the rows' pages, in theirs
  sync,      \* what came of the synchronisation asked for: here, and before the page was left
  polling, message,
  failed,    \* cards whose logo did not load
  lost,      \* ghost: pictures of a card that did not load while it stood
  since,     \* ghost: the table that was there when the run asked for had ended
  opened,    \* ghost: what the register showed of the row whose page is open
  stale,     \* queries that are out of date
  excused,   \* ghost: queries that failed, or that nobody asks again
  visits, faults

serverVars == <<tables, running>>
registerVars == <<filter, polling, message>>
queryVars == <<list, progress, detail, stale>>
ghosts == <<since, opened, excused>>
vars == <<serverVars, view, registerVars, queryVars, sync, failed, lost, ghosts, visits,
        faults>>
-----------------------------------------------------------------------------
(* A query of React Query.  A query that is declared out of date is asked  *)
(* again at once while something on the screen uses it, except when its    *)
(* first answer is still under way: then that one is waited for.           *)
NoQuery == [data |-> None, asked |-> FALSE, answer |-> None]
AskFor(q) == [q EXCEPT !.asked = TRUE, !.answer = None]
IsFirst(q) == q.asked /\ q.data = None
Invalidate(q, active) == IF active /\ ~IsFirst(q) THEN AskFor(q) ELSE q
Mount(q, old) == IF ~q.asked /\ (q.data = None \/ old) THEN AskFor(q) ELSE q
Unanswered(q) == q.asked /\ q.answer = None
Answered(q, a) == [q EXCEPT !.answer = a]
Arrived(q) == [NoQuery EXCEPT !.data = q.answer]
Failed(q) == [q EXCEPT !.asked = FALSE, !.answer = None]

Versions == 0..MaxSaves
Query(S) == [data: S \union {None}, asked: BOOLEAN, answer: S \union {None}]
Queries == {"list", "progress"} \union Entries

TypeOK ==
  /\ tables \in Seq([Entries -> Logos \union {None}]) /\ Len(tables) \in 1..MaxSaves
  /\ running \in BOOLEAN
  /\ view \in Entries \union {None}
  /\ filter \subseteq Entries
  /\ list \in Query(Versions) /\ progress \in Query(BOOLEAN)
  /\ detail \in [Entries -> Query(Versions)]
  /\ sync \in [{"here", "before"} -> {"none", "waiting", "success", "error"}]
  /\ polling \in BOOLEAN
  /\ message \in {"none", "started", "synced", "failed"}
  /\ failed \subseteq Entries /\ lost \subseteq Entries \X Logos
  /\ since \in Versions /\ opened \in Versions
  /\ stale \subseteq Queries /\ excused \subseteq Queries
  /\ visits \in 0..MaxVisits /\ faults \in 0..MaxFaults

Init ==
  /\ tables \in {<<t>> : t \in [Entries -> Logos \union {None}]}
  /\ running = FALSE /\ view = None
  /\ filter = FirstTab
  /\ list = AskFor(NoQuery) /\ progress = NoQuery /\ detail = [c \in Entries |-> NoQuery]
  /\ sync = [r \in {"here", "before"} |-> "none"]
  /\ polling = FALSE /\ message = "none"
  /\ failed = {} /\ lost = {} /\ since = 0 /\ opened = 0 /\ stale = {} /\ excused = {}
  /\ visits = 0 /\ faults = 0

(* The cards that stand on the register, and the picture that each has.    *)
(* An API that cannot be reached looks like an empty register.             *)
Shown ==
  IF view # None \/ list.data \in {None, 0} THEN {}
  ELSE filter
Logo(c) == tables[list.data][c]

(* A card that is no longer on the screen forgets what failed.             *)
Cards(more) ==
  /\ failed' = (failed \union more) \intersect Shown'
  /\ lost' = {l \in lost \union {<<c, Logo(c)>> : c \in more} : l[1] \in Shown'}
-----------------------------------------------------------------------------
(* The API: its cron and other admins start runs too; a second caller gets *)
(* the answer of the run that is going on.                                 *)

StartElsewhere ==
  /\ ~running /\ Len(tables) < MaxSaves
  /\ running' = TRUE
  /\ UNCHANGED <<tables, view, registerVars, queryVars, sync, ghosts, visits, faults>>

Save ==
  /\ running /\ Len(tables) < MaxSaves
  /\ \E c \in Entries : \E l \in Logos : tables' = Append(tables, [tables[Len(tables)] EXCEPT ![c] = l])
  /\ UNCHANGED <<running, view, registerVars, queryVars, sync, ghosts, visits, faults>>

RunEnds ==
  /\ running /\ running' = FALSE
  /\ \E end \in {"success", "error"} :
       sync' = [r \in DOMAIN sync |-> IF sync[r] = "waiting" THEN end ELSE sync[r]]
  /\ UNCHANGED <<tables, view, registerVars, queryVars, ghosts, visits, faults>>

(* The web server gives the answer up.                                     *)
AnswerLost(r) ==
  /\ sync[r] = "waiting" /\ faults < MaxFaults
  /\ sync' = [sync EXCEPT ![r] = "error"] /\ faults' = faults + 1
  /\ UNCHANGED <<serverVars, view, registerVars, queryVars, ghosts, visits>>
-----------------------------------------------------------------------------
(* The register's page.                                                    *)

SyncFsc ==
  /\ view = None /\ sync["here"] = "none"
  /\ sync' = [sync EXCEPT !["here"] = "waiting"]
  /\ running' = TRUE
  /\ message' = "started" /\ polling' = TRUE /\ since' = 0
  /\ UNCHANGED <<tables, view, filter, queryVars, opened, excused, visits, faults>>

Excused(set, q, name, active) ==
  IF ~active THEN set ELSE IF IsFirst(q) THEN set \union {name} ELSE set \ {name}

(* The answer: what it says is shown by the page that asked, if it still   *)
(* stands; the queries are declared out of date in any case.               *)
SyncSettled(r) ==
  /\ sync[r] \in {"success", "error"}
  /\ sync' = [sync EXCEPT ![r] = "none"]
  /\ progress' = Invalidate(progress, polling)
  /\ IF sync[r] = "success"
     THEN /\ list' = Invalidate(list, view = None)
          /\ stale' = IF list.data = None THEN stale ELSE stale \union {"list"}
          /\ excused' = Excused(Excused(excused, progress, "progress", polling), list, "list",
               view = None)
     ELSE /\ excused' = Excused(excused, progress, "progress", polling)
          /\ UNCHANGED <<list, stale>>
  /\ IF r = "here"
     THEN /\ polling' = FALSE
          /\ message' = IF sync[r] = "success" THEN "synced" ELSE "failed"
          /\ since' = IF sync[r] = "success" THEN Len(tables) ELSE 0
     ELSE UNCHANGED <<polling, message, since>>
  /\ UNCHANGED <<serverVars, view, filter, detail, opened, visits, faults>>

(* No route answers the other button, and what it says goes to the same    *)
(* place.                                                                  *)
EnrichTrustpilot ==
  /\ view = None /\ message # "failed" /\ message' = "failed"
  /\ UNCHANGED <<serverVars, view, filter, polling, queryVars, sync, ghosts, visits, faults>>

(* The tab and the search decide which rows have a card.                   *)
Filter ==
  /\ view = None /\ filter' \in (SUBSET Entries) \ {filter}
  /\ UNCHANGED <<serverVars, view, polling, message, queryVars, sync, ghosts, visits, faults>>

LogoFails(c) ==
  /\ c \in Shown \ failed /\ Logo(c) \in Broken
  /\ UNCHANGED <<serverVars, view, registerVars, queryVars, sync, ghosts, visits, faults>>

(* The card leads to the page of the row.                                  *)
OpenDetail(c) ==
  /\ c \in Shown /\ visits < MaxVisits
  /\ sync["here"] = "none" \/ sync["before"] = "none"
  /\ view' = c /\ visits' = visits + 1
  /\ detail' = [detail EXCEPT ![c] = Mount(@, c \in stale)]
  /\ sync' = IF sync["here"] = "none" THEN sync
             ELSE [sync EXCEPT !["here"] = "none", !["before"] = sync["here"]]
  /\ opened' = list.data /\ since' = 0
  /\ excused' = (excused \ {c}) \union (IF polling THEN {"progress"} ELSE {})
  /\ filter' = FirstTab /\ polling' = FALSE /\ message' = "none"
  /\ UNCHANGED <<serverVars, list, progress, stale, faults>>

BackToList ==
  /\ view # None /\ view' = None
  /\ list' = Mount(list, "list" \in stale) /\ opened' = 0
  /\ UNCHANGED <<serverVars, registerVars, progress, detail, stale, sync, since, excused,
       visits, faults>>
-----------------------------------------------------------------------------
(* The queries.                                                            *)

Others == <<serverVars, view, registerVars, sync, since, opened, visits>>

Poll ==
  /\ polling /\ ~progress.asked
  /\ progress' = AskFor(progress) /\ excused' = excused \ {"progress"}
  /\ UNCHANGED <<Others, list, detail, stale, faults>>

(* The page may have stopped to ask while a run goes on.                   *)
ProgressAnswered ==
  /\ Unanswered(progress)
  /\ \/ progress' = Answered(progress, running) /\ UNCHANGED faults
     \/ faults < MaxFaults /\ progress' = Answered(progress, FALSE) /\ faults' = faults + 1
  /\ excused' = IF ~polling /\ running THEN excused \union {"progress"} ELSE excused
  /\ UNCHANGED <<Others, list, detail, stale>>

ListAnswered ==
  /\ Unanswered(list)
  /\ \/ list' = Answered(list, Len(tables)) /\ UNCHANGED faults
     \/ faults < MaxFaults /\ list' = Answered(list, 0) /\ faults' = faults + 1
  /\ UNCHANGED <<Others, progress, detail, stale, excused>>

ProgressArrives ==
  /\ progress.answer # None /\ progress' = Arrived(progress)
  /\ UNCHANGED <<Others, list, detail, stale, excused, faults>>

ListArrives ==
  /\ list.answer # None /\ list' = Arrived(list) /\ stale' = stale \ {"list"}
  /\ UNCHANGED <<Others, progress, detail, excused, faults>>

DetailArrives(c) ==
  /\ detail[c].asked /\ stale' = stale \ {c}
  /\ detail' = [detail EXCEPT ![c] = Arrived(Answered(@, Len(tables)))]
  /\ UNCHANGED <<Others, progress, list, excused, faults>>

Fail ==
  /\ faults < MaxFaults /\ faults' = faults + 1
  /\ \/ /\ progress.asked /\ progress' = Failed(progress)
             /\ excused' = excused \union {"progress"}
        /\ UNCHANGED <<list, detail>>
     \/ /\ list.asked /\ list' = Failed(list) /\ excused' = excused \union {"list"}
        /\ UNCHANGED <<progress, detail>>
     \/ \E c \in Entries :
          /\ detail[c].asked /\ excused' = excused \union {c}
          /\ detail' = [detail EXCEPT ![c] = Failed(@)]
          /\ UNCHANGED <<progress, list>>
  /\ UNCHANGED <<Others, stale>>

MinutePasses ==
  /\ stale' = stale \union {c \in Entries : detail[c].data # None}
                   \union (IF list.data = None THEN {} ELSE {"list"})
  /\ excused' = IF view = None THEN excused ELSE excused \union {view}
  /\ UNCHANGED <<Others, list, progress, detail, faults>>

(* The window is looked at again.                                          *)
Focus ==
  /\ list' = IF view = None THEN Mount(list, "list" \in stale) ELSE list
  /\ detail' = [c \in Entries |-> IF view = c THEN Mount(detail[c], c \in stale) ELSE detail[c]]
  /\ UNCHANGED <<Others, progress, stale, excused, faults>>

QueryNext ==
  \/ Poll \/ ProgressAnswered \/ ListAnswered \/ ProgressArrives \/ ListArrives
  \/ (\E c \in Entries : DetailArrives(c)) \/ Fail \/ MinutePasses \/ Focus

Next ==
  \/ /\ \/ StartElsewhere \/ Save \/ RunEnds \/ \E r \in DOMAIN sync : AnswerLost(r)
        \/ SyncFsc \/ (\E r \in DOMAIN sync : SyncSettled(r))
        \/ EnrichTrustpilot \/ Filter
        \/ (\E c \in Entries : OpenDetail(c)) \/ BackToList
        \/ QueryNext
     /\ Cards({})
  \/ \E c \in Entries : LogoFails(c) /\ Cards({c})

Spec == Init /\ [][Next]_vars
-----------------------------------------------------------------------------
(* A page that says the synchronisation has succeeded shows its rows, or   *)
(* asks for them: unless the request failed, the API could not be reached  *)
(* or the rows were being loaded for the first time (page.tsx:432-438).    *)
ListFollows ==
  view = None /\ message = "synced" =>
    list.asked \/ list.data = 0 \/ (list.data # None /\ list.data >= since)
    \/ "list" \in excused

(* The progress shown is that of a run that is going on, or is asked for:  *)
(* unless the request failed, it was the first, the page was left, or the  *)
(* run outlived its answer (page.tsx:423-446).                             *)
ProgressFollows ==
  progress.data = TRUE /\ ~running => polling \/ progress.asked \/ "progress" \in excused

(* A card stands without its logo only after a picture of its failed while *)
(* it stood (page.tsx:153-206).                                            *)
FallbackExplained ==
  \A c \in failed : c \in Shown /\ \E l \in Broken : <<c, l>> \in lost

(* The page of a row shows no less than the register did when it was       *)
(* opened, or asks for it: unless the request failed, a minute passed on   *)
(* the page, or the row was loaded less than a minute before               *)
(* (fsc/[id]/page.tsx:31,167-171).                                         *)
DetailFollows ==
  view # None /\ detail[view].data # None /\ detail[view].data < opened =>
    detail[view].asked \/ view \notin stale \/ view \in excused

PagesExplained == ListFollows /\ ProgressFollows /\ FallbackExplained /\ DetailFollows
=============================================================================
