------------------------------ MODULE Reading ------------------------------
(***************************************************************************)
(* What reads the checkpoint while a search may be writing it: the export  *)
(* that ends a search, the export command, a request of the dashboard, the *)
(* triage command.  Each query is a statement of its own, without a        *)
(* transaction around them, and so one action here.                        *)
(*                                                                         *)
(* Of a file it matters whether the reading at hand has made it: "stale"   *)
(* is what an earlier one has left, or nothing, and "part" is cut short.   *)
(***************************************************************************)
EXTENDS Store, Completion

Exports == {"search", "export"}
Kinds == Exports \cup {"dashboard", "triage"}

\* The context of a search ends with Ctrl-C and that of a request when the
\* browser is gone; that of the other commands never does.
Cancellable(kind) == kind \in {"search", "dashboard"}

ExportFiles == <<"hits.json", "observations.json", "messages.csv", "report.md", "report.html">>
Files == {ExportFiles[n] : n \in DOMAIN ExportFiles} \cup {"triage.md"}
FileStates == {"stale", "part", "new"}

ASSUME ReadingAssumption == RunIDs # {}

VARIABLES
  reading,  \* the reading at hand
  disk      \* the files of exports_<run_id>

readingVars == <<reading, disk, completionVars>>

\* A summary, as far as it says whom it found.
Findings == [guild : GuildKeys, best : MatchLevels, reason : Reasons, user : Users \cup {NoUser}]

Rows ==
  [ scans        : SUBSET Findings,
    observations : SUBSET (GuildKeys \X Identities),
    messages     : SUBSET (GuildKeys \X MessageIDs) ]

NothingRead == [scans |-> {}, observations |-> {}, messages |-> {}]

Queries == DOMAIN NothingRead
Steps == Queries \cup {"idle", "run", "use", "write", "ask", "save"}

NoReading ==
  [ kind |-> "export", run |-> CHOOSE r \in RunIDs : TRUE, at |-> "idle",
    cut |-> {}, seen |-> NothingRead, file |-> 1, open |-> FALSE ]

ReadingTypeOK ==
  /\ reading \in [ kind : Kinds, run : RunIDs, at : Steps, cut : SUBSET Queries, seen : Rows,
                   file : 1 .. Len(ExportFiles) + 1, open : BOOLEAN ]
  /\ disk \in [Files -> FileStates]
  /\ CompletionTypeOK

ReadingInit ==
  /\ reading = NoReading
  /\ disk = [f \in Files |-> "stale"]
  /\ CompletionInit

-----------------------------------------------------------------------------
(* The queries *)

Begin ==
  /\ reading.at = "idle"
  /\ \E kind \in Kinds, r \in RunIDs :
       reading' = [NoReading EXCEPT !.kind = kind, !.run = r, !.at = "run"]
  /\ disk' = [f \in Files |-> "stale"]
  /\ UNCHANGED completionVars

\* An error of any step ends the reading, and what is on the disk stays.
End ==
  /\ reading' = NoReading
  /\ UNCHANGED <<disk, completionVars>>

\* Any query may fail, and does when its context is done before it begins.
QueryFails ==
  /\ reading.at \in Queries \cup {"run"}
  /\ End

GetRun ==
  /\ reading.at = "run" /\ RunExists(reading.run)
  /\ reading' = [reading EXCEPT !.at = IF reading.kind = "triage" THEN "messages" ELSE "scans"]
  /\ UNCHANGED <<disk, completionVars>>

\* Defect: a query under a context of its own.
ReturnsRegardless(query, next, rows) ==
  /\ reading.at = query
  /\ \/ reading' = [reading EXCEPT !.at = next, !.seen[query] = rows]
     \/ /\ Cancellable(reading.kind)
        /\ \E part \in SUBSET rows :
             reading' = [reading EXCEPT !.at = next, !.seen[query] = part, !.cut = @ \cup {query}]
  /\ UNCHANGED <<disk, completionVars>>

\* The rows come back whole, or in part, with no error, when the context ends
\* while they are read: rows.Next returns false, and nobody asks rows.Err.
Returns(query, next, rows) ==
  /\ reading.at = query /\ reading.cut = {}
  /\ \/ reading' = [reading EXCEPT !.at = next, !.seen[query] = rows]
     \/ /\ Cancellable(reading.kind)
        /\ \E part \in SUBSET rows :
             reading' = [reading EXCEPT !.at = next, !.seen[query] = part, !.cut = {query}]
  /\ UNCHANGED <<disk, completionVars>>

FindingOf(g) ==
  LET row == scans[reading.run][g]
  IN  [guild |-> g, best |-> row.best, reason |-> row.reason, user |-> row.user]

Scanned(r) == {g \in GuildKeys : scans[r][g] # NoRow}

Observed(r) ==
  {item \in GuildKeys \X Identities : observations[r][item[1]][item[2]] # NoRow}

Collected(r) ==
  {item \in GuildKeys \X MessageIDs : messages[r][item[1]][item[2]] # NoRow}

GetRunGuildScans ==
  Returns("scans", "observations", {FindingOf(g) : g \in Scanned(reading.run)})

GetRunObservations == Returns("observations", "messages", Observed(reading.run))

GetRunMessages == Returns("messages", "use", Collected(reading.run))

-----------------------------------------------------------------------------
(* What becomes of it *)

\* The dashboard encodes the four results; a report.html it makes of them is
\* not stored.
Respond ==
  /\ reading.at = "use" /\ reading.kind = "dashboard"
  /\ End

\* From here on the rows themselves do not matter, nor does the context.
Proceed(step) == reading' = [NoReading EXCEPT !.run = reading.run, !.at = step]

BeginExport ==
  /\ reading.at = "use" /\ reading.kind \in Exports
  /\ Proceed("write")
  /\ UNCHANGED <<disk, completionVars>>

CurrentFile == ExportFiles[reading.file]

\* os.WriteFile and os.Create empty the file that was there.
CreateFile ==
  /\ reading.at = "write" /\ reading.file <= Len(ExportFiles) /\ ~reading.open
  /\ disk' = [disk EXCEPT ![CurrentFile] = "part"]
  /\ reading' = [reading EXCEPT !.open = TRUE]
  /\ UNCHANGED completionVars

FinishFile ==
  /\ reading.open
  /\ disk' = [disk EXCEPT ![CurrentFile] = "new"]
  /\ reading' = [reading EXCEPT !.open = FALSE, !.file = @ + 1]
  /\ UNCHANGED completionVars

\* Defect: a file that fails is skipped.
ExportSkips ==
  /\ reading.at = "write" /\ reading.file <= Len(ExportFiles)
  /\ reading' = [reading EXCEPT !.open = FALSE, !.file = @ + 1]
  /\ UNCHANGED <<disk, completionVars>>

\* The directory or a file cannot be created, or a write fails.
ExportFails ==
  /\ reading.at = "write" /\ reading.file <= Len(ExportFiles)
  /\ End

Exported ==
  /\ reading.at = "write" /\ reading.file > Len(ExportFiles)
  /\ End

\* Without messages nobody is asked.
TriageEvidence ==
  /\ reading.at = "use" /\ reading.kind = "triage"
  /\ IF reading.seen.messages = {} THEN Proceed("save") /\ UNCHANGED completionVars
                                   ELSE Proceed("ask") /\ BeginCall
  /\ UNCHANGED disk

TriageAnswered ==
  /\ reading.at = "ask" /\ call = "answered"
  /\ Proceed("save")
  /\ call' = "outside" /\ heard' = <<>>
  /\ UNCHANGED disk

\* Defect: the endpoint is asked again, for as long as it takes.
TriageAsksAgain ==
  /\ reading.at = "ask" /\ call = "failed"
  /\ BeginCall
  /\ UNCHANGED <<reading, disk>>

TriageFails ==
  /\ reading.at = "ask" /\ call = "failed"
  /\ reading' = NoReading
  /\ call' = "outside" /\ heard' = <<>>
  /\ UNCHANGED disk

\* The errors of MkdirAll and WriteFile are dropped, and the file is announced
\* as saved whatever became of it.
SaveTriage ==
  /\ reading.at = "save"
  /\ \E result \in FileStates :
       disk' = [disk EXCEPT !["triage.md"] = result]
  /\ reading' = NoReading
  /\ UNCHANGED completionVars

\* The process dies.
ReaderCrash ==
  /\ reading.at # "idle"
  /\ reading' = NoReading
  /\ call' = "outside" /\ heard' = <<>>
  /\ UNCHANGED disk

ReaderStep ==
  \/ QueryFails \/ GetRun \/ GetRunGuildScans \/ GetRunObservations \/ GetRunMessages
  \/ Respond \/ BeginExport \/ CreateFile \/ FinishFile \/ ExportFails \/ Exported
  \/ TriageEvidence \/ TriageAnswered \/ TriageFails \/ SaveTriage
  \/ (Reply \/ Pause) /\ UNCHANGED <<reading, disk>>

ReaderNext == Begin \/ ReaderStep \/ ReaderCrash
=============================================================================
