----------------------------- MODULE StoreProps -----------------------------
(***************************************************************************)
(* What the checkpoint promises to whoever reads it later: the exporter,   *)
(* the dashboard, the triage command and resume.                           *)
(***************************************************************************)
EXTENDS Store

MatchRank(level) ==
  CASE level = "confirmed" -> 2 [] level = "candidate" -> 1 [] OTHER -> 0

\* A rescan of a guild never weakens its recorded match, whatever is written
\* and in whatever order: the CASE of best_match_status only promotes.
NeverDowngraded ==
  [][\A r \in RunIDs, g \in GuildKeys : scans[r][g] # NoRow =>
       /\ scans[r][g]' # NoRow
       /\ MatchRank(scans[r][g].best)' >= MatchRank(scans[r][g].best)]_scans

\* The columns of the summary row are promoted together: after any number of
\* rescans the reason is still one that explains the match it stands next to.
ReasonsFor(level) ==
  CASE level = "confirmed" -> ConfirmReasons
    [] level = "candidate" -> CandidateReasons
    [] OTHER -> {"none"}

ReasonFitsMatch ==
  \A r \in RunIDs, g \in GuildKeys :
    scans[r][g] # NoRow => scans[r][g].reason \in ReasonsFor(scans[r][g].best)

Shows(obsTable, msgTable, u) ==
  \/ \E i \in Identities : IdentUser[i] = u /\ obsTable[i] # NoRow
  \/ \E m \in MessageIDs : MessageAuthor[m] = u /\ msgTable[m] # NoRow

Evidence(r, g, u) == Shows(observations[r][g], messages[r][g], u)

\* The user a confirmed summary names has an observation or a message of the
\* same run and guild in the other two tables.
ConfirmedHasEvidence ==
  \A r \in RunIDs, g \in GuildKeys :
    scans[r][g] # NoRow /\ scans[r][g].best = "confirmed" =>
      /\ scans[r][g].user \in Users
      /\ Evidence(r, g, scans[r][g].user)

\* The two reasons, each with what makes it true.
Explains(row, target, obsTable, msgTable) ==
  \/ /\ row.reason = "user_id_exact" /\ row.user = target
     /\ \E i \in Identities : obsTable[i] = "confirmed" /\ IdentUser[i] = target
  \/ /\ row.reason = "message_author_id_exact"
     /\ \E m \in MessageIDs : MessageAuthor[m] = row.user /\ msgTable[m] # NoRow

\* Whatever rescans are merged into a summary, the reason it gives for a
\* confirmation is true of what is stored next to it: an identity with the id
\* the run looks for, or a message of the user it names.
ConfirmedByItsReason ==
  \A r \in RunIDs, g \in GuildKeys :
    scans[r][g] # NoRow /\ scans[r][g].best = "confirmed" =>
      Explains(scans[r][g], runs[r].userID, observations[r][g], messages[r][g])

\* Observations and messages never stand without the summary row of their
\* guild: the three tables are written by one transaction.
EvidenceHasScan ==
  \A r \in RunIDs, g \in GuildKeys, u \in Users :
    Evidence(r, g, u) => scans[r][g] # NoRow

\* A summary is never weaker than the evidence next to it, whatever scans, errors
\* and rescans are merged into the three tables: a guild on record as not found,
\* or as unknown, has no observation and no message, and one with a message or
\* a confirmed identity is confirmed.  The CASE of best_match_status, the CHECK
\* and the engine's own summary have to agree on it.
EvidenceIsSummarised ==
  \A r \in RunIDs, g \in GuildKeys : scans[r][g] # NoRow =>
    /\ \A i \in Identities : observations[r][g][i] # NoRow =>
         MatchRank(scans[r][g].best) >= MatchRank(observations[r][g][i])
    /\ \A m \in MessageIDs : messages[r][g][m] # NoRow => scans[r][g].best = "confirmed"

\* Evidence is append-only: no later scan removes an observation or a message
\* or rewrites what it says, and a channel name once known stays known.
EvidenceKept ==
  [][\A r \in RunIDs, g \in GuildKeys :
       /\ \A i \in Identities : observations[r][g][i] # NoRow =>
            observations[r][g][i]' = observations[r][g][i]
       /\ \A m \in MessageIDs : messages[r][g][m] # NoRow =>
            /\ messages[r][g][m]' # NoRow
            /\ messages[r][g][m] # NoName => messages[r][g][m]' # NoName
    ]_<<observations, messages>>

-----------------------------------------------------------------------------
(* The refinement mapping to the ledger *)

LedgerPhase ==
  [r \in RunIDs |-> IF ~RunExists(r) THEN "none"
                    ELSE IF runs[r].status = "complete" THEN "closed" ELSE "open"]

LedgerFinding ==
  [r \in RunIDs |-> [g \in GuildKeys |->
     IF scans[r][g] = NoRow THEN "absent"
     ELSE IF scans[r][g].best \in MatchKinds THEN scans[r][g].best ELSE "nothing"]]

LedgerItems == ({"observation"} \X Identities) \cup ({"message"} \X MessageIDs)

LedgerEvidence ==
  [r \in RunIDs |-> [g \in GuildKeys |->
     {<<"observation", i>> : i \in {j \in Identities : observations[r][g][j] # NoRow}}
     \cup {<<"message", m>> : m \in {n \in MessageIDs : messages[r][g][n] # NoRow}}]]

Promise == INSTANCE Ledger WITH
  Items <- LedgerItems, phase <- LedgerPhase,
  finding <- LedgerFinding, evidence <- LedgerEvidence

\* The tables of the store, read through the mapping above, behave as the
\* ledger: every statement and transaction of store.go is a ledger step.
ImplementsLedger == Promise!Spec
=============================================================================
