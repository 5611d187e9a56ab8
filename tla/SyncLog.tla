-------------------------------- MODULE SyncLog --------------------------------
(***************************************************************************)
(* How an administrator follows a run of the vehicle catalog's import: the *)
(* run's row collects lines, streamProgress reads it every second and      *)
(* sends what is new, and the panel of the catalog page keeps what it was  *)
(* sent.  The lines and statuses come in the order the worker and the      *)
(* import endpoint write them; CatalogSync has what they do between.       *)
(***************************************************************************)
EXTENDS Naturals, Sequences

CONSTANTS
  None,
  MaxRuns,     \* bound on runs
  MaxLines,    \* bound on lines before a run's end
  MaxOpens     \* bound on times the panel is opened or a button of it pressed

VARIABLES
  runs,        \* rows: status, lines, and whether the last line is still owed
  watched,     \* the page's run (syncRunId); 0: none
  starting,    \* what the page asked for and has no answer to yet
  open,        \* the panel
  stream,      \* its event source: run, lines sent, reads under way; None: closed
  logs,        \* the lines the panel was sent
  known,       \* run and number of lines of the page's last look at the status
  opens,
  ended,       \* the stream's end was announced
  dropped,     \* lines were read by a look at the row that came too late
  cleared      \* the lines were wiped while their stream went on, or it broke

vars == <<runs, watched, starting, open, stream, logs, known, opens, ended, dropped, cleared>>

Terminal == {"done", "failed"}
Line(r, n) == [run |-> r, no |-> n]
Lines(r) == [n \in 1..runs[r].lines |-> Line(r, n)]
Latest == Len(runs)

Init ==
  /\ runs = <<>> /\ watched = 0 /\ starting = {}
  /\ open = FALSE /\ stream = None /\ logs = <<>>
  /\ known = [run |-> 0, lines |-> 0, busy |-> FALSE] /\ opens = 0
  /\ ended = FALSE /\ dropped = FALSE /\ cleared = FALSE

-----------------------------------------------------------------------------
(* Runs.  A worker's run ends with its status and then one more line; an   *)
(* import that fails writes both at once, one that succeeds no more lines. *)
Append1(r) == runs' = [runs EXCEPT ![r].lines = @ + 1]

Log(r) ==
  /\ runs[r].status \notin Terminal /\ runs[r].lines < MaxLines /\ Append1(r)
  /\ UNCHANGED <<watched, starting, open, stream, logs, known, opens, ended, dropped, cleared>>

Finish(r) ==
  /\ runs[r].status \notin Terminal
  /\ \/ runs' = [runs EXCEPT ![r] = [@ EXCEPT !.status = "failed", !.owes = TRUE]]
     \/ /\ runs[r].kind = "import" /\ runs[r].lines < MaxLines
        /\ runs' = [runs EXCEPT ![r] = [@ EXCEPT !.status = "failed", !.lines = runs[r].lines + 1]]
     \/ runs' = [runs EXCEPT ![r] = [@ EXCEPT !.status = "done", !.owes = runs[r].kind = "sync"]]
  /\ UNCHANGED <<watched, starting, open, stream, logs, known, opens, ended, dropped, cleared>>

LastLine(r) ==
  /\ runs[r].owes
  /\ runs' = [runs EXCEPT ![r] = [@ EXCEPT !.lines = runs[r].lines + 1, !.owes = FALSE]]
  /\ UNCHANGED <<watched, starting, open, stream, logs, known, opens, ended, dropped, cleared>>

-----------------------------------------------------------------------------
(* The stream.  A look that is still under way when the next one starts    *)
(* ("old") has its result thrown away, but not its count of what was read. *)
Connect(r) == [run |-> r, last |-> 0, looks |-> {}]

Tick ==
  /\ stream # None /\ "old" \notin stream.looks
  /\ stream' = [stream EXCEPT !.looks =
                  IF "new" \in @ THEN {"new", "old"} ELSE {"new"}]
  /\ UNCHANGED <<runs, watched, starting, open, logs, known, opens, ended, dropped, cleared>>

Fresh == SubSeq(Lines(stream.run), stream.last + 1, runs[stream.run].lines)
Seen(look) == [stream EXCEPT !.last = runs[stream.run].lines, !.looks = @ \ {look}]

(* Mutant: the end is announced as soon as the status says so.             *)
EndsAtOnce == runs[stream.run].status \in Terminal

Ends == runs[stream.run].status \in Terminal /\ Fresh = <<>>

Look ==
  /\ stream # None /\ "new" \in stream.looks
  /\ logs' = IF Ends THEN logs ELSE logs \o Fresh
  /\ stream' = IF Ends THEN None ELSE Seen("new")
  /\ ended' = (ended \/ Ends)
  /\ UNCHANGED <<runs, watched, starting, open, known, opens, dropped, cleared>>

LateLook ==
  /\ stream # None /\ "old" \in stream.looks
  /\ stream' = Seen("old") /\ dropped' = (dropped \/ Fresh # <<>>)
  /\ UNCHANGED <<runs, watched, starting, open, logs, known, opens, ended, cleared>>

(* onerror: the panel closes a stream that broke and does not come back.   *)
Break ==
  /\ stream # None /\ stream' = None /\ cleared' = TRUE
  /\ UNCHANGED <<runs, watched, starting, open, logs, known, opens, ended, dropped>>

-----------------------------------------------------------------------------
(* The panel.  Its effect: an open panel with a run streams it anew.       *)
Follow(run, shown) ==
  /\ open' = shown /\ watched' = run
  /\ IF shown /\ run # 0
     THEN /\ stream' = Connect(run) /\ logs' = <<>>
          /\ ended' = FALSE /\ dropped' = FALSE /\ cleared' = FALSE
     ELSE stream' = None /\ UNCHANGED <<logs, ended, dropped, cleared>>

Toggle ==
  /\ opens < MaxOpens /\ opens' = opens + 1
  /\ Follow(watched, ~open)
  /\ UNCHANGED <<runs, starting, known>>

(* handleStartSync, handleImport: what is shown is wiped, and an open      *)
(* panel's stream goes on until the answer.                                *)
Press(kind) ==
  /\ open /\ kind \notin starting /\ ~known.busy
  /\ opens < MaxOpens /\ opens' = opens + 1
  /\ starting' = starting \union {kind} /\ logs' = <<>>
  /\ cleared' = (cleared \/ logs # <<>>)
  /\ UNCHANGED <<runs, watched, open, stream, known, ended, dropped>>

(* startSync refuses while a row is active; an import alone asks nothing.  *)
Busy == \E r \in 1..Latest : runs[r].status \notin Terminal

Started(kind) ==
  /\ kind \in starting /\ starting' = starting \ {kind}
  /\ \/ /\ kind = "import" \/ ~Busy
        /\ Latest < MaxRuns
        /\ runs' = Append(runs, [kind |-> kind, status |-> "active", lines |-> 0,
                                 owes |-> FALSE])
        /\ Follow(Latest + 1, open)
     \/ /\ kind = "sync" /\ Busy
        /\ UNCHANGED <<runs, watched, open, stream, logs, ended, dropped, cleared>>
  /\ UNCHANGED <<known, opens>>

(* The request fails: a toast.                                             *)
NotStarted(kind) ==
  /\ kind \in starting /\ starting' = starting \ {kind}
  /\ UNCHANGED <<runs, watched, open, stream, logs, known, opens, ended, dropped, cleared>>

(* The status is asked for every 15 seconds: the newest run's.             *)
AskStatus ==
  /\ Latest > 0
  /\ known' = [run |-> Latest, lines |-> runs[Latest].lines,
               busy |-> runs[Latest].status \notin Terminal]
  /\ UNCHANGED <<runs, watched, starting, open, stream, logs, opens, ended, dropped, cleared>>

(* The button to wipe the lines.                                           *)
Wipe ==
  /\ open /\ logs # <<>> /\ opens < MaxOpens /\ opens' = opens + 1
  /\ logs' = <<>> /\ cleared' = TRUE
  /\ UNCHANGED <<runs, watched, starting, open, stream, known, ended, dropped>>

Next ==
  \/ \E r \in 1..Latest : Log(r) \/ Finish(r) \/ LastLine(r)
  \/ Tick \/ Look \/ LateLook \/ Break
  \/ Toggle \/ AskStatus \/ Wipe
  \/ \E kind \in {"sync", "import"} : Press(kind) \/ Started(kind) \/ NotStarted(kind)

Spec == Init /\ [][Next]_vars

-----------------------------------------------------------------------------
(* The panel's own lines, or, when it has none, those of the status; a     *)
(* panel that is closed shows none, and wipes its own when it is opened    *)
(* (sync-panel.tsx:86).                                                    *)
visibleLogs ==
  IF logs # <<>> \/ known.run = 0 THEN logs ELSE SubSeq(Lines(known.run), 1, known.lines)

(* A stream that has announced the end of a run has sent all of it, except *)
(* what a slow look at the row read, what was wiped, and the last line,    *)
(* written after the status that ends the stream                           *)
(* (vehicle-catalog-sync.service.ts:133-188, the processor's :84-104).     *)
LogIsComplete ==
  open /\ ended /\ ~dropped /\ ~cleared =>
    /\ Len(logs) + 1 >= runs[watched].lines
    /\ \/ logs = Lines(watched)
       \/ runs[watched].kind = "sync" \/ runs[watched].status = "failed"

(* The panel's lines are of the run it follows, in their order, none twice.*)
LogIsOfTheRun ==
  open => \A i \in 1..Len(logs) :
    /\ logs[i].run = watched
    /\ \A j \in 1..(i - 1) : logs[j].no < logs[i].no

(* The panel never goes blank while the run it follows has a line the page *)
(* knows of, unless a newer run is the one it knows.                       *)
PanelIsNotBlank ==
  open /\ watched # 0 /\ known.run = watched /\ known.lines > 0 => visibleLogs # <<>>

LogExplained == LogIsComplete /\ LogIsOfTheRun /\ PanelIsNotBlank
=============================================================================
