------------------------------ MODULE Readers ------------------------------
(***************************************************************************)
(* A reader and the writer of one checkpoint: between any two queries of   *)
(* the reader the writer may take any number of steps.                     *)
(***************************************************************************)
EXTENDS Reading, StoreProps

Init == StoreInit /\ ReadingInit

Next ==
  \/ StoreNext /\ UNCHANGED readingVars
  \/ ReaderNext /\ UNCHANGED storeVars

vars == <<storeVars, readingVars>>

\* Queries, files and requests to the AI endpoint succeed, fail or time out.
Spec == Init /\ [][Next]_vars /\ WF_vars(ReaderStep /\ UNCHANGED storeVars)

-----------------------------------------------------------------------------
(* Properties *)

ReadersTypeOK == StoreTypeOK /\ ReadingTypeOK

\* Whatever is committed between the queries, a reading shows the evidence of
\* every confirmation it shows: the summaries are read first.  Only the last
\* query may come back cut short, since a context that is done while rows are
\* read fails the query after it.
ShownMatchesHaveEvidence ==
  reading.at = "use" /\ reading.kind # "triage" =>
    /\ reading.cut \subseteq {"messages"}
    /\ \A row \in reading.seen.scans : row.best = "confirmed" =>
         \/ \E i \in Identities : <<row.guild, i>> \in reading.seen.observations /\ IdentUser[i] = row.user
         \/ \E m \in MessageIDs : <<row.guild, m>> \in reading.seen.messages /\ MessageAuthor[m] = row.user
         \/ row.reason = "message_author_id_exact" /\ reading.cut # {}

\* What has been read is never contradicted later: every row is still in the
\* checkpoint, and a summary is at least as strong.
ShownIsStillStored ==
  /\ \A row \in reading.seen.scans :
       /\ row.guild \in Scanned(reading.run)
       /\ MatchRank(scans[reading.run][row.guild].best) >= MatchRank(row.best)
  /\ reading.seen.observations \subseteq Observed(reading.run)
  /\ reading.seen.messages \subseteq Collected(reading.run)

\* A report on the disk has the findings and the evidence it was made from next
\* to it, wherever an export fails or dies.
ReportHasItsFiles ==
  /\ disk["report.html"] = "new" => disk["report.md"] = "new"
  /\ disk["report.md"] = "new" =>
       \A f \in {"hits.json", "observations.json", "messages.csv"} : disk[f] = "new"

\* Every reading ends, the triage's patience with its endpoint included.
ReadingEnds == reading.at # "idle" ~> reading.at = "idle"
=============================================================================
