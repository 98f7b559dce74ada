--------------------------- MODULE ReadersProofs ---------------------------
(***************************************************************************)
(* What a reading of the checkpoint shows is sound, whatever the writer    *)
(* commits between its queries, and a report on the disk has its files.    *)
(* Proved for any number of runs, guilds, identities, messages and         *)
(* retries.                                                                *)
(***************************************************************************)
EXTENDS Readers, StoreProofs

-----------------------------------------------------------------------------
(* One more invariant of the store: the reason of a confirmation says in   *)
(* which of the two tables its evidence is.                                *)

Backed(obsTable, msgTable, reason, u) ==
  /\ reason = "user_id_exact" =>
       \E i \in Identities : IdentUser[i] = u /\ obsTable[i] # NoRow
  /\ reason = "message_author_id_exact" =>
       \E m \in MessageIDs : MessageAuthor[m] = u /\ msgTable[m] # NoRow

SummariesBacked ==
  \A r \in RunIDs, g \in GuildKeys :
    scans[r][g] # NoRow /\ scans[r][g].best = "confirmed" =>
      Backed(observations[r][g], messages[r][g], scans[r][g].reason, scans[r][g].user)

\* Backing is evidence, and evidence is kept.
LEMMA BackingSurvives ==
  ASSUME NEW r \in RunIDs, NEW g \in GuildKeys, Kept(r, g), NEW reason, NEW u,
         Backed(observations[r][g], messages[r][g], reason, u)
  PROVE  Backed(observations'[r][g], messages'[r][g], reason, u)
  BY DEF Kept, Backed

LEMMA MergeBacks ==
  ASSUME NEW old \in ScanRows, NEW scan \in ScanRows, MergedScan(old, scan).best = "confirmed"
  PROVE  \/ /\ scan.best = "confirmed"
            /\ MergedScan(old, scan).user = scan.user
            /\ MergedScan(old, scan).reason = scan.reason
         \/ /\ old.best = "confirmed"
            /\ MergedScan(old, scan).user = old.user
            /\ MergedScan(old, scan).reason = old.reason
  <1>1. old.best \in MatchLevels /\ scan.best \in MatchLevels
    BY DEF ScanRows
  <1> QED
    BY <1>1 DEF MergedScan, Promotes, PromotedMatch, PromotedUser, PromotedReason, MatchLevels

LEMMA RecordingBacks ==
  ASSUME StoreTypeOK, SummariesBacked, NEW r \in RunIDs, NEW g \in GuildKeys,
         NEW scan \in UnreadScans \cup ReadScans, NEW obs, NEW msgs,
         Recording(r, g, scan, obs, msgs)
  PROVE  SummariesBacked'
  <1>1. scan.best = "confirmed" =>
          Backed(observations'[r][g], messages'[r][g], scan.reason, scan.user)
    <2> SUFFICES ASSUME scan.best = "confirmed"
                 PROVE  Backed(observations'[r][g], messages'[r][g], scan.reason, scan.user)
      OBVIOUS
    <2>1. observations[r][g] \in ObservationTable /\ messages[r][g] \in MessageTable
      BY DEF StoreTypeOK, ObservationTable, MessageTable
    <2>2. \A i \in DOMAIN obs : i \in Identities /\ observations'[r][g][i] # NoRow
      BY <2>1, InsertObservations, ObservationBatch DEF Recording
    <2>3. \A m \in DOMAIN msgs : m \in MessageIDs /\ messages'[r][g][m] # NoRow
      BY <2>1, UpsertMessages, MessageBatch DEF Recording
    <2>4. CASE scan.reason = "user_id_exact"
      <3>1. \E i \in DOMAIN obs : IdentUser[i] = scan.user
        BY <2>4 DEF Recording, SummaryFits
      <3> QED BY <2>2, <2>4, <3>1 DEF Backed
    <2>5. CASE scan.reason = "message_author_id_exact"
      <3>1. \E m \in DOMAIN msgs : MessageAuthor[m] = scan.user
        BY <2>5 DEF Recording, SummaryFits
      <3> QED BY <2>3, <2>5, <3>1 DEF Backed
    <2> QED BY <2>4, <2>5 DEF Backed
  <1> SUFFICES ASSUME NEW q \in RunIDs, NEW h \in GuildKeys,
                      scans'[q][h] # NoRow, scans'[q][h].best = "confirmed"
               PROVE  Backed(observations'[q][h], messages'[q][h],
                             scans'[q][h].reason, scans'[q][h].user)
    BY DEF SummariesBacked
  <1>2. Kept(q, h)
    BY RecordingKeeps
  <1>3. CASE q = r /\ h = g
    <2>1. CASE scans[q][h] = NoRow
      BY <1>1, <1>3, <2>1 DEF Recording, UpsertedScan
    <2>2. CASE scans[q][h] # NoRow
      <3>1. scans'[q][h] = MergedScan(scans[q][h], scan)
        BY <1>3, <2>2 DEF Recording, UpsertedScan
      <3>2. scans[q][h] \in ScanRows /\ scan \in ScanRows
        BY <2>2, EngineScanIsScanRow DEF StoreTypeOK
      <3>3. CASE /\ scan.best = "confirmed"
                 /\ scans'[q][h].user = scan.user /\ scans'[q][h].reason = scan.reason
        BY <1>1, <1>3, <3>3
      <3>4. CASE /\ scans[q][h].best = "confirmed"
                 /\ scans'[q][h].user = scans[q][h].user
                 /\ scans'[q][h].reason = scans[q][h].reason
        <4>1. Backed(observations[q][h], messages[q][h], scans[q][h].reason, scans[q][h].user)
          BY <2>2, <3>4 DEF SummariesBacked
        <4> QED BY <1>2, <3>4, <4>1, BackingSurvives
      <3> QED BY <3>1, <3>2, <3>3, <3>4, MergeBacks
    <2> QED BY <2>1, <2>2
  <1>4. CASE ~(q = r /\ h = g)
    <2>1. scans'[q][h] = scans[q][h]
      BY <1>4 DEF Recording
    <2>2. Backed(observations[q][h], messages[q][h], scans[q][h].reason, scans[q][h].user)
      BY <2>1 DEF SummariesBacked
    <2> QED BY <1>2, <2>1, <2>2, BackingSurvives
  <1> QED BY <1>3, <1>4

StoreInv == SafetyInv /\ SummariesBacked

LEMMA StoreStep ==
  ASSUME StoreInv, [StoreNext]_storeVars
  PROVE  StoreInv' /\ \A r \in RunIDs, g \in GuildKeys : Kept(r, g)
  <1>1. StoreTypeOK
    BY DEF StoreInv, SafetyInv
  <1>2. \A r \in RunIDs, g \in GuildKeys : Kept(r, g)
    BY <1>1, StepKeeps
  <1>3. SafetyInv'
    BY SafetyStep DEF StoreInv
  <1>4. SummariesBacked'
    <2>1. CASE Quiet \/ Renaming
      <3>1. scans' = scans
        BY <2>1 DEF Quiet, Renaming
      <3> QED BY <1>2, <3>1, BackingSurvives DEF StoreInv, SummariesBacked
    <2>2. CASE \E r \in RunIDs, g \in GuildKeys, scan \in UnreadScans \cup ReadScans,
                  obs \in ObservationBatches, msgs \in MessageBatches :
                 Recording(r, g, scan, obs, msgs)
      BY <1>1, <2>2, RecordingBacks DEF StoreInv
    <2> QED BY <1>1, <2>1, <2>2, StepKinds
  <1> QED BY <1>2, <1>3, <1>4 DEF StoreInv

-----------------------------------------------------------------------------
(* The reading at hand *)

\* The query a reading has come to is the first one after a cut.
CutLast ==
  /\ reading.at = "run" => reading.cut = {}
  /\ reading.at = "observations" => reading.cut \subseteq {"scans"}
  /\ reading.at = "messages" => reading.cut \subseteq {"observations"}
  /\ reading.at = "use" => reading.cut \subseteq {"messages"}

\* What has been read is in the checkpoint, and so is what backs it.
SeenStored ==
  \A row \in reading.seen.scans :
    /\ row.guild \in GuildKeys /\ scans[reading.run][row.guild] # NoRow
    /\ MatchRank(scans[reading.run][row.guild].best) >= MatchRank(row.best)
    /\ row.best = "confirmed" =>
         /\ row.reason \in ConfirmReasons
         /\ Backed(observations[reading.run][row.guild], messages[reading.run][row.guild],
                   row.reason, row.user)

SeenEvidence ==
  /\ reading.seen.observations \subseteq Observed(reading.run)
  /\ reading.seen.messages \subseteq Collected(reading.run)

\* The evidence read after the summaries includes all that they rest on.
ObservationsShown ==
  \A row \in reading.seen.scans :
    row.best = "confirmed" /\ row.reason = "user_id_exact" =>
      \E i \in Identities :
        <<row.guild, i>> \in reading.seen.observations /\ IdentUser[i] = row.user

MessagesShown ==
  \A row \in reading.seen.scans :
    row.best = "confirmed" /\ row.reason = "message_author_id_exact" =>
      \E m \in MessageIDs :
        <<row.guild, m>> \in reading.seen.messages /\ MessageAuthor[m] = row.user

EvidenceShown ==
  reading.kind # "triage" =>
    /\ reading.at \in {"messages", "use"} /\ reading.cut \subseteq {"messages"} => ObservationsShown
    /\ reading.at = "use" /\ reading.cut = {} => MessagesShown

SeenInv == CutLast /\ SeenStored /\ SeenEvidence /\ EvidenceShown

LEMMA SeenAfterWrite ==
  ASSUME StoreInv, ReadingTypeOK, SeenInv, [StoreNext]_storeVars, UNCHANGED reading
  PROVE  SeenInv'
  <1>1. \A r \in RunIDs, g \in GuildKeys : Kept(r, g)
    BY StoreStep
  <1>2. reading.run \in RunIDs
    BY DEF ReadingTypeOK
  <1>3. SeenStored'
    <2> SUFFICES ASSUME NEW row \in reading.seen.scans
                 PROVE  /\ row.guild \in GuildKeys /\ scans'[reading.run][row.guild] # NoRow
                        /\ MatchRank(scans'[reading.run][row.guild].best) >= MatchRank(row.best)
                        /\ row.best = "confirmed" =>
                             /\ row.reason \in ConfirmReasons
                             /\ Backed(observations'[reading.run][row.guild],
                                       messages'[reading.run][row.guild], row.reason, row.user)
      BY DEF SeenStored, ConfirmReasons, Backed, MatchRank
    <2>1. Kept(reading.run, row.guild) /\ row.guild \in GuildKeys
      BY <1>1, <1>2 DEF SeenInv, SeenStored
    <2>2. /\ scans'[reading.run][row.guild] # NoRow
          /\ MatchRank(scans'[reading.run][row.guild].best)
               >= MatchRank(scans[reading.run][row.guild].best)
          /\ MatchRank(scans[reading.run][row.guild].best) >= MatchRank(row.best)
      BY <2>1 DEF Kept, SeenInv, SeenStored
    <2>3. MatchRank(scans'[reading.run][row.guild].best) >= MatchRank(row.best)
      BY <2>2 DEF MatchRank
    <2>4. row.best = "confirmed" =>
            /\ row.reason \in ConfirmReasons
            /\ Backed(observations'[reading.run][row.guild],
                      messages'[reading.run][row.guild], row.reason, row.user)
      BY <1>2, <2>1, BackingSurvives DEF SeenInv, SeenStored
    <2> QED BY <2>1, <2>2, <2>3, <2>4
  <1>4. SeenEvidence'
    <2>1. Observed(reading.run) \subseteq Observed(reading.run)'
      BY <1>1, <1>2 DEF Observed, Kept
    <2>2. Collected(reading.run) \subseteq Collected(reading.run)'
      BY <1>1, <1>2 DEF Collected, Kept
    <2> QED BY <2>1, <2>2 DEF SeenInv, SeenEvidence
  <1>5. CutLast' /\ EvidenceShown'
    BY DEF SeenInv, CutLast, EvidenceShown, ObservationsShown, MessagesShown
  <1> QED BY <1>3, <1>4, <1>5 DEF SeenInv

\* A reading that has read nothing yet, or has let go of it, shows nothing.
LEMMA SeenNothing ==
  ASSUME reading'.seen = NothingRead, reading'.cut = {}, UNCHANGED storeVars
  PROVE  SeenInv'
  BY DEF SeenInv, CutLast, SeenStored, SeenEvidence, EvidenceShown, ObservationsShown,
         MessagesShown, NothingRead

\* A query moves the reading on with its rows, or with some of them.
Fetched(query, next, rows) ==
  /\ reading.cut = {}
  /\ reading'.at = next
  /\ reading'.kind = reading.kind /\ reading'.run = reading.run
  /\ reading'.file = reading.file /\ reading'.open = reading.open
  /\ reading'.seen \in Rows
  /\ reading'.seen[query] \subseteq rows
  /\ \A other \in Queries \ {query} : reading'.seen[other] = reading.seen[other]
  /\ \/ reading'.cut = {} /\ reading'.seen[query] = rows
     \/ reading'.cut = {query}
  /\ ReadingTypeOK'

LEMMA QueryNames == Queries = {"scans", "observations", "messages"}
  BY DEF Queries, NothingRead

Readings ==
  [ kind : Kinds, run : RunIDs, at : Steps, cut : SUBSET Queries, seen : Rows,
    file : 1 .. Len(ExportFiles) + 1, open : BOOLEAN ]

LEMMA RestTyped ==
  ASSUME ReadingTypeOK, reading' \in Readings, UNCHANGED <<disk, completionVars>>
  PROVE  ReadingTypeOK'
  BY DEF ReadingTypeOK, Readings, completionVars, CompletionTypeOK, attempt

LEMMA ReturnsFetches ==
  ASSUME ReadingTypeOK, NEW query \in Queries, NEW next \in Steps, NEW rows,
         Returns(query, next, rows),
         \A part \in SUBSET rows : [reading.seen EXCEPT ![query] = part] \in Rows
  PROVE  Fetched(query, next, rows)
  <1>1. reading \in Readings /\ reading.seen \in Rows
    BY DEF ReadingTypeOK, Readings
  <1>2. UNCHANGED <<disk, completionVars>> /\ reading.cut = {}
    BY DEF Returns
  <1>3. ASSUME NEW part \in SUBSET rows, NEW cut \in {{}, {query}}, cut = {} => part = rows,
               reading' = [reading EXCEPT !.at = next, !.seen[query] = part, !.cut = cut]
        PROVE  Fetched(query, next, rows)
    <2>1. /\ reading'.seen = [reading.seen EXCEPT ![query] = part]
          /\ reading'.at = next /\ reading'.cut = cut
          /\ reading'.kind = reading.kind /\ reading'.run = reading.run
          /\ reading'.file = reading.file /\ reading'.open = reading.open
      BY <1>1, <1>3 DEF Readings
    <2>2. reading'.seen \in Rows
      BY <2>1
    <2>3. reading'.seen[query] = part
      BY <1>1, <2>1, QueryNames DEF Rows
    <2>4. \A other \in Queries \ {query} : reading'.seen[other] = reading.seen[other]
      BY <1>1, <2>1, QueryNames DEF Rows
    <2>5. reading' \in Readings
      BY <1>1, <1>3, <2>1, <2>2 DEF Readings
    <2>6. ReadingTypeOK'
      BY <1>2, <2>5, RestTyped
    <2> QED BY <1>2, <1>3, <2>1, <2>2, <2>3, <2>4, <2>6 DEF Fetched
  <1>4. CASE reading' = [reading EXCEPT !.at = next, !.seen[query] = rows]
    <2>1. reading' = [reading EXCEPT !.at = next, !.seen[query] = rows, !.cut = {}]
      BY <1>1, <1>2, <1>4 DEF Readings
    <2> QED BY <1>3, <2>1
  <1>5. CASE \E part \in SUBSET rows :
               reading' = [reading EXCEPT !.at = next, !.seen[query] = part, !.cut = {query}]
    BY <1>3, <1>5
  <1> QED BY <1>4, <1>5 DEF Returns

LEMMA ScansFetched ==
  ASSUME StoreInv, ReadingTypeOK, GetRunGuildScans
  PROVE  Fetched("scans", "observations", {FindingOf(g) : g \in Scanned(reading.run)})
  <1> DEFINE rows == {FindingOf(g) : g \in Scanned(reading.run)}
  <1>1. rows \subseteq Findings
    <2> SUFFICES ASSUME NEW g \in Scanned(reading.run) PROVE FindingOf(g) \in Findings
      OBVIOUS
    <2>1. g \in GuildKeys /\ scans[reading.run][g] \in ScanRows
      BY DEF Scanned, ReadingTypeOK, StoreInv, SafetyInv, StoreTypeOK
    <2> QED BY <2>1 DEF FindingOf, Findings, ScanRows
  <1>2. "scans" \in Queries /\ "observations" \in Steps
    BY QueryNames DEF Steps
  <1>3. \A part \in SUBSET rows : [reading.seen EXCEPT !["scans"] = part] \in Rows
    BY <1>1 DEF ReadingTypeOK, Rows
  <1> QED BY <1>2, <1>3, ReturnsFetches DEF GetRunGuildScans

LEMMA ObservationsFetched ==
  ASSUME ReadingTypeOK, GetRunObservations
  PROVE  Fetched("observations", "messages", Observed(reading.run))
  <1>1. Observed(reading.run) \subseteq GuildKeys \X Identities
    BY DEF Observed
  <1>2. "observations" \in Queries /\ "messages" \in Steps
    BY QueryNames DEF Steps
  <1>3. \A part \in SUBSET Observed(reading.run) :
          [reading.seen EXCEPT !["observations"] = part] \in Rows
    BY <1>1 DEF ReadingTypeOK, Rows
  <1> QED BY <1>2, <1>3, ReturnsFetches DEF GetRunObservations

LEMMA MessagesFetched ==
  ASSUME ReadingTypeOK, GetRunMessages
  PROVE  Fetched("messages", "use", Collected(reading.run))
  <1>1. Collected(reading.run) \subseteq GuildKeys \X MessageIDs
    BY DEF Collected
  <1>2. "messages" \in Queries /\ "use" \in Steps
    BY QueryNames DEF Steps
  <1>3. \A part \in SUBSET Collected(reading.run) :
          [reading.seen EXCEPT !["messages"] = part] \in Rows
    BY <1>1 DEF ReadingTypeOK, Rows
  <1> QED BY <1>2, <1>3, ReturnsFetches DEF GetRunMessages

\* The summaries come from the checkpoint, where each is backed.
LEMMA SeenScans ==
  ASSUME StoreInv, ReadingTypeOK, SeenInv, GetRunGuildScans, UNCHANGED storeVars
  PROVE  SeenInv' /\ ReadingTypeOK'
  <1> DEFINE r == reading.run
  <1>1. Fetched("scans", "observations", {FindingOf(g) : g \in Scanned(r)})
    BY ScansFetched
  <1>2. /\ reading'.run = r /\ reading'.at = "observations" /\ reading'.cut \subseteq {"scans"}
        /\ reading'.seen.observations = reading.seen.observations
        /\ reading'.seen.messages = reading.seen.messages
        /\ reading'.seen.scans \subseteq {FindingOf(g) : g \in Scanned(r)}
        /\ ReadingTypeOK'
    BY <1>1, QueryNames DEF Fetched
  <1>3. UNCHANGED <<scans, observations, messages>>
    BY DEF storeVars
  <1>4. ASSUME NEW g \in Scanned(r)
        PROVE  /\ FindingOf(g).guild \in GuildKeys /\ scans[r][FindingOf(g).guild] # NoRow
               /\ MatchRank(scans[r][FindingOf(g).guild].best) >= MatchRank(FindingOf(g).best)
               /\ FindingOf(g).best = "confirmed" =>
                    /\ FindingOf(g).reason \in ConfirmReasons
                    /\ Backed(observations[r][FindingOf(g).guild], messages[r][FindingOf(g).guild],
                              FindingOf(g).reason, FindingOf(g).user)
    <2>1. g \in GuildKeys /\ scans[r][g] # NoRow /\ r \in RunIDs
      BY DEF Scanned, ReadingTypeOK
    <2>2. /\ FindingOf(g).guild = g /\ FindingOf(g).best = scans[r][g].best
          /\ FindingOf(g).reason = scans[r][g].reason /\ FindingOf(g).user = scans[r][g].user
      BY DEF FindingOf
    <2>3. scans[r][g].best = "confirmed" =>
            /\ scans[r][g].reason \in ConfirmReasons
            /\ Backed(observations[r][g], messages[r][g], scans[r][g].reason, scans[r][g].user)
      BY <2>1 DEF StoreInv, SafetyInv, ReasonFitsMatch, ReasonsFor, SummariesBacked
    <2> QED BY <2>1, <2>2, <2>3 DEF MatchRank
  <1>5. SeenStored'
    <2> SUFFICES ASSUME NEW row \in reading'.seen.scans
                 PROVE  /\ row.guild \in GuildKeys /\ scans[r][row.guild] # NoRow
                        /\ MatchRank(scans[r][row.guild].best) >= MatchRank(row.best)
                        /\ row.best = "confirmed" =>
                             /\ row.reason \in ConfirmReasons
                             /\ Backed(observations[r][row.guild], messages[r][row.guild],
                                       row.reason, row.user)
      BY <1>2, <1>3 DEF SeenStored
    <2>1. PICK g \in Scanned(r) : row = FindingOf(g)
      BY <1>2
    <2> QED BY <1>4, <2>1
  <1>6. CutLast' /\ EvidenceShown'
    BY <1>2 DEF CutLast, EvidenceShown
  <1>7. SeenEvidence'
    BY <1>2, <1>3 DEF SeenInv, SeenEvidence, Observed, Collected
  <1> QED BY <1>2, <1>5, <1>6, <1>7 DEF SeenInv

LEMMA SeenObservations ==
  ASSUME StoreInv, ReadingTypeOK, SeenInv, GetRunObservations, UNCHANGED storeVars
  PROVE  SeenInv' /\ ReadingTypeOK'
  <1> DEFINE r == reading.run
  <1>1. Fetched("observations", "messages", Observed(r))
    BY ObservationsFetched
  <1>2. /\ reading'.run = r /\ reading'.at = "messages"
        /\ reading'.cut \subseteq {"observations"}
        /\ reading'.cut = {} => reading'.seen.observations = Observed(r)
        /\ reading'.seen.scans = reading.seen.scans
        /\ reading'.seen.messages = reading.seen.messages
        /\ reading'.seen.observations \subseteq Observed(r)
        /\ ReadingTypeOK'
    BY <1>1, QueryNames DEF Fetched
  <1>3. UNCHANGED <<scans, observations, messages>>
    BY DEF storeVars
  <1>4. SeenStored' /\ SeenEvidence' /\ CutLast'
    BY <1>2, <1>3 DEF SeenInv, SeenStored, SeenEvidence, CutLast, Observed, Collected
  <1>5. reading'.cut = {} => ObservationsShown'
    BY <1>2, <1>3 DEF SeenInv, SeenStored, ObservationsShown, Observed, Backed
  <1>6. EvidenceShown'
    BY <1>2, <1>5 DEF EvidenceShown
  <1> QED BY <1>2, <1>4, <1>6 DEF SeenInv

LEMMA SeenMessages ==
  ASSUME StoreInv, ReadingTypeOK, SeenInv, GetRunMessages, UNCHANGED storeVars
  PROVE  SeenInv' /\ ReadingTypeOK'
  <1> DEFINE r == reading.run
  <1>1. Fetched("messages", "use", Collected(r))
    BY MessagesFetched
  <1>2. /\ reading'.run = r /\ reading'.kind = reading.kind /\ reading'.at = "use"
        /\ reading.cut = {} /\ reading'.cut \subseteq {"messages"}
        /\ reading'.cut = {} => reading'.seen.messages = Collected(r)
        /\ reading'.seen.scans = reading.seen.scans
        /\ reading'.seen.observations = reading.seen.observations
        /\ reading'.seen.messages \subseteq Collected(r)
        /\ ReadingTypeOK'
    BY <1>1, QueryNames DEF Fetched
  <1>3. UNCHANGED <<scans, observations, messages>>
    BY DEF storeVars
  <1>4. SeenStored' /\ SeenEvidence' /\ CutLast'
    BY <1>2, <1>3 DEF SeenInv, SeenStored, SeenEvidence, CutLast, Observed, Collected
  <1>5. reading.at = "messages"
    BY DEF GetRunMessages, Returns
  <1>6. reading.kind # "triage" => ObservationsShown'
    BY <1>2, <1>5 DEF SeenInv, EvidenceShown, ObservationsShown
  <1>7. reading'.cut = {} => MessagesShown'
    BY <1>2, <1>3 DEF SeenInv, SeenStored, MessagesShown, Collected, Backed
  <1>8. EvidenceShown'
    BY <1>2, <1>6, <1>7 DEF EvidenceShown
  <1> QED BY <1>2, <1>4, <1>8 DEF SeenInv

-----------------------------------------------------------------------------
(* The files and the call of Complete *)

Slots == 1 .. 5

LEMMA FileNames ==
  /\ Len(ExportFiles) = 5
  /\ \A n \in Slots : ExportFiles[n] \in Files
  /\ \A m, n \in Slots : ExportFiles[m] = ExportFiles[n] => m = n
  /\ "triage.md" \in Files /\ \A n \in Slots : ExportFiles[n] # "triage.md"
  <1>1. Len(ExportFiles) = 5 /\ DOMAIN ExportFiles = Slots
    BY DEF ExportFiles, Slots
  <1>2. \A n \in Slots : n = 1 \/ n = 2 \/ n = 3 \/ n = 4 \/ n = 5
    BY DEF Slots
  <1>3. /\ ExportFiles[1] = "hits.json" /\ ExportFiles[2] = "observations.json"
        /\ ExportFiles[3] = "messages.csv" /\ ExportFiles[4] = "report.md"
        /\ ExportFiles[5] = "report.html"
    BY DEF ExportFiles
  <1>4. \A n \in Slots : ExportFiles[n] \in Files
    BY <1>1 DEF Files
  <1> QED BY <1>1, <1>2, <1>3, <1>4 DEF Files

\* An export is made in order, from a directory in which nothing is new.
FilesInv ==
  /\ reading.open => reading.at = "write" /\ reading.file \in Slots
  /\ reading.at \in Queries \cup {"run", "use"} =>
       \A n \in Slots : disk[ExportFiles[n]] = "stale"
  /\ reading.at = "write" =>
       \A n \in Slots :
         /\ n < reading.file => disk[ExportFiles[n]] = "new"
         /\ n >= reading.file => disk[ExportFiles[n]] # "new"
  /\ \A m, n \in Slots : m < n /\ disk[ExportFiles[n]] = "new" => disk[ExportFiles[m]] = "new"

\* A request is sent again only while retries are left.
CallInv == call \in {"sending", "pausing"} => attempt <= MaxRetries

RestInv == FilesInv /\ CallInv

\* The records a reading starts from, goes on from and starts over from.
Begun(kind, r) == [NoReading EXCEPT !.kind = kind, !.run = r, !.at = "run"]
Onward(r, step) == [NoReading EXCEPT !.run = r, !.at = step]

\* Nothing has been read or written yet.
Blank(rd, step) ==
  /\ rd \in Readings
  /\ rd.at = step /\ rd.file = 1 /\ rd.open = FALSE
  /\ rd.cut = {} /\ rd.seen = NothingRead

LEMMA NoReadingIsBlank == Blank(NoReading, "idle")
  <1>1. (CHOOSE q \in RunIDs : TRUE) \in RunIDs
    BY ReadingAssumption
  <1>2. NothingRead \in Rows
    BY DEF NothingRead, Rows
  <1>3. "idle" \in Steps /\ "export" \in Kinds /\ 1 \in 1 .. Len(ExportFiles) + 1
    BY FileNames DEF Steps, Kinds, Exports
  <1> HIDE DEF NothingRead
  <1> QED BY <1>1, <1>2, <1>3 DEF Blank, NoReading, Readings

LEMMA OnwardIsBlank ==
  ASSUME NEW r \in RunIDs, NEW step \in Steps
  PROVE  Blank(Onward(r, step), step)
  BY NoReadingIsBlank DEF Blank, Onward, Readings

LEMMA BegunIsBlank ==
  ASSUME NEW r \in RunIDs, NEW kind \in Kinds
  PROVE  Blank(Begun(kind, r), "run")
  <1>1. "run" \in Steps
    BY DEF Steps
  <1> QED BY <1>1, NoReadingIsBlank DEF Blank, Begun, Readings

IInv == StoreInv /\ ReadingTypeOK /\ SeenInv /\ RestInv

LEMMA InitInv == Init => IInv
  <1> SUFFICES ASSUME Init PROVE IInv
    OBVIOUS
  <1>1. StoreInv
    BY SafetyInit DEF Init, StoreInit, StoreInv, SummariesBacked
  <1>2. Blank(reading, "idle")
    BY NoReadingIsBlank DEF Init, ReadingInit
  <1>3. disk = [f \in Files |-> "stale"] /\ call = "outside" /\ heard = <<>>
    BY DEF Init, ReadingInit, CompletionInit
  <1>4. ReadingTypeOK
    BY <1>2, <1>3, CompletionAssumption
    DEF ReadingTypeOK, Blank, Readings, CompletionTypeOK, attempt, FileStates
  <1>5. SeenInv
    BY <1>2 DEF Blank, SeenInv, CutLast, SeenStored, SeenEvidence, EvidenceShown,
       ObservationsShown, MessagesShown, NothingRead
  <1>6. RestInv
    BY <1>2, <1>3, FileNames, QueryNames DEF Blank, RestInv, FilesInv, CallInv
  <1> QED BY <1>1, <1>4, <1>5, <1>6 DEF IInv

\* A reading that begins or is over shows nothing and has no file open.
LEMMA BlankStep ==
  ASSUME IInv, UNCHANGED storeVars,
         NEW step \in Steps \ (Queries \cup {"use"}), Blank(reading', step),
         disk' \in [Files -> FileStates],
         \/ \A n \in Slots : disk'[ExportFiles[n]] = "stale"
         \/ /\ step \notin {"run", "write"}
            /\ \A n \in Slots : disk'[ExportFiles[n]] = disk[ExportFiles[n]],
         CompletionTypeOK', CallInv'
  PROVE  IInv'
  <1>1. SeenInv'
    BY SeenNothing DEF Blank
  <1>2. ReadingTypeOK'
    BY DEF ReadingTypeOK, Blank, Readings
  <1>3. FilesInv'
    BY QueryNames DEF IInv, RestInv, FilesInv, Slots, Blank
  <1>4. StoreInv'
    BY StoreStep DEF IInv
  <1> QED BY <1>1, <1>2, <1>3, <1>4 DEF IInv, RestInv

\* The reading stands still and nothing is written.
LEMMA CallStep ==
  ASSUME IInv, Reply \/ Pause, UNCHANGED <<storeVars, reading, disk>>
  PROVE  IInv'
  <1>1. heard \in Seq(Replies) /\ attempt <= MaxRetries /\ attempt \in Nat
    BY DEF IInv, ReadingTypeOK, CompletionTypeOK, RestInv, CallInv, Reply, Pause, attempt
  <1>2. CompletionTypeOK' /\ CallInv'
    <2>1. CASE Pause
      BY <1>1, <2>1, CompletionAssumption
      DEF Pause, IInv, ReadingTypeOK, CompletionTypeOK, RestInv, CallInv, attempt
    <2>2. CASE Reply
      <3>1. PICK reply \in Replies : /\ heard' = Append(heard, reply)
                                     /\ call' = AfterReply(reply, attempt + 1)
        BY <2>2 DEF Reply
      <3>2. attempt' = attempt + 1 /\ heard' \in Seq(Replies)
        BY <1>1, <3>1 DEF attempt
      <3>3. \/ call' \in {"answered", "failed"}
            \/ call' = "pausing" /\ attempt + 1 <= MaxRetries
        BY <3>1 DEF AfterReply
      <3> QED
        BY <1>1, <3>2, <3>3, CompletionAssumption DEF CompletionTypeOK, CallInv
    <2> QED BY <2>1, <2>2
  <1>3. ReadingTypeOK' /\ FilesInv'
    BY <1>2 DEF IInv, ReadingTypeOK, RestInv, FilesInv
  <1>4. SeenInv'
    BY SeenAfterWrite DEF IInv
  <1>5. StoreInv'
    BY StoreStep DEF IInv
  <1> QED BY <1>2, <1>3, <1>4, <1>5 DEF IInv, RestInv

\* One file is created or finished.
LEMMA FileStep ==
  ASSUME IInv, CreateFile \/ FinishFile, UNCHANGED storeVars
  PROVE  IInv'
  <1> DEFINE n == reading.file
  <1>1. /\ reading \in Readings /\ reading.at = "write" /\ n \in Slots
        /\ disk \in [Files -> FileStates] /\ ExportFiles[n] \in Files
        /\ UNCHANGED completionVars
    BY FileNames
    DEF IInv, ReadingTypeOK, Readings, RestInv, FilesInv, CreateFile, FinishFile, Slots
  <1>2. \/ /\ disk' = [disk EXCEPT ![ExportFiles[n]] = "part"]
           /\ reading' = [reading EXCEPT !.open = TRUE]
        \/ /\ disk' = [disk EXCEPT ![ExportFiles[n]] = "new"]
           /\ reading' = [reading EXCEPT !.open = FALSE, !.file = @ + 1]
    BY DEF CreateFile, FinishFile, CurrentFile
  <1>3. /\ reading' \in Readings /\ reading'.at = "write" /\ reading'.kind = reading.kind
        /\ reading'.run = reading.run /\ reading'.cut = reading.cut
        /\ reading'.seen = reading.seen
    <2>1. n \in 1 .. Len(ExportFiles) + 1 /\ n + 1 \in 1 .. Len(ExportFiles) + 1
      BY <1>1, FileNames DEF Slots
    <2> QED BY <1>1, <1>2, <2>1 DEF Readings
  <1>4. disk' \in [Files -> FileStates]
    BY <1>1, <1>2 DEF FileStates
  <1>5. ReadingTypeOK'
    BY <1>1, <1>3, <1>4
    DEF IInv, ReadingTypeOK, Readings, completionVars, CompletionTypeOK, attempt
  <1>6. \A m \in Slots : m # n => disk'[ExportFiles[m]] = disk[ExportFiles[m]]
    BY <1>1, <1>2, FileNames
  <1>7. FilesInv'
    <2>1. CASE disk' = [disk EXCEPT ![ExportFiles[n]] = "part"] /\
               reading' = [reading EXCEPT !.open = TRUE]
      <3>1. disk'[ExportFiles[n]] = "part" /\ reading'.file = n
        BY <1>1, <2>1 DEF Readings
      <3> QED BY <1>1, <1>3, <1>6, <3>1, QueryNames DEF IInv, RestInv, FilesInv, Slots
    <2>2. CASE disk' = [disk EXCEPT ![ExportFiles[n]] = "new"] /\
               reading' = [reading EXCEPT !.open = FALSE, !.file = @ + 1]
      <3>1. disk'[ExportFiles[n]] = "new" /\ reading'.file = n + 1 /\ reading'.open = FALSE
        BY <1>1, <2>2 DEF Readings
      <3> QED BY <1>1, <1>3, <1>6, <3>1, QueryNames DEF IInv, RestInv, FilesInv, Slots
    <2> QED BY <1>2, <2>1, <2>2
  <1>8. SeenInv'
    BY <1>1, <1>3 DEF IInv, SeenInv, CutLast, SeenStored, SeenEvidence, EvidenceShown,
       ObservationsShown, MessagesShown, Observed, Collected, Backed, MatchRank, storeVars
  <1>9. CallInv'
    BY <1>1 DEF IInv, RestInv, CallInv, completionVars, attempt
  <1>10. StoreInv'
    BY StoreStep DEF IInv
  <1> QED BY <1>5, <1>7, <1>8, <1>9, <1>10 DEF IInv, RestInv

\* The run is found, and the queries begin.
LEMMA GetRunStep ==
  ASSUME IInv, GetRun, UNCHANGED storeVars
  PROVE  IInv'
  <1>1. /\ reading \in Readings /\ reading.at = "run" /\ reading.cut = {}
        /\ UNCHANGED <<disk, completionVars>>
    BY DEF IInv, ReadingTypeOK, Readings, GetRun, SeenInv, CutLast
  <1>2. PICK step \in {"messages", "scans"} :
          /\ reading' = [reading EXCEPT !.at = step]
          /\ step = "messages" => reading.kind = "triage"
    BY DEF GetRun
  <1>3. /\ reading'.at = step /\ reading'.kind = reading.kind /\ reading'.run = reading.run
        /\ reading'.cut = {} /\ reading'.seen = reading.seen /\ reading'.open = reading.open
    BY <1>1, <1>2 DEF Readings
  <1>4. step \in Queries /\ step \in Steps
    BY QueryNames DEF Steps
  <1>5. ReadingTypeOK'
    <2>1. reading' \in Readings
      BY <1>1, <1>2, <1>4 DEF Readings
    <2> QED BY <1>1, <2>1, RestTyped DEF IInv
  <1>6. SeenInv'
    BY <1>1, <1>2, <1>3 DEF IInv, SeenInv, CutLast, SeenStored, SeenEvidence, EvidenceShown,
       ObservationsShown, MessagesShown, Observed, Collected, Backed, MatchRank, storeVars
  <1>7. FilesInv' /\ CallInv'
    BY <1>1, <1>3, <1>4, QueryNames
    DEF IInv, RestInv, FilesInv, CallInv, completionVars, attempt
  <1>8. StoreInv'
    BY StoreStep DEF IInv
  <1> QED BY <1>5, <1>6, <1>7, <1>8 DEF IInv, RestInv

\* A query leaves files and requests alone.
LEMMA QueryStep ==
  ASSUME IInv, GetRunGuildScans \/ GetRunObservations \/ GetRunMessages, UNCHANGED storeVars
  PROVE  IInv'
  <1>1. SeenInv' /\ ReadingTypeOK'
    BY SeenScans, SeenObservations, SeenMessages DEF IInv
  <1>2. /\ reading.at \in Queries /\ reading'.at \in Queries \cup {"use"}
        /\ reading'.open = reading.open
        /\ UNCHANGED <<disk, completionVars>>
    <2>1. CASE GetRunGuildScans
      BY <2>1, ScansFetched, QueryNames DEF IInv, GetRunGuildScans, Returns, Fetched
    <2>2. CASE GetRunObservations
      BY <2>2, ObservationsFetched, QueryNames DEF IInv, GetRunObservations, Returns, Fetched
    <2>3. CASE GetRunMessages
      BY <2>3, MessagesFetched, QueryNames DEF IInv, GetRunMessages, Returns, Fetched
    <2> QED BY <2>1, <2>2, <2>3
  <1>3. FilesInv' /\ CallInv'
    BY <1>2, QueryNames DEF IInv, RestInv, FilesInv, CallInv, completionVars, attempt
  <1>4. StoreInv'
    BY StoreStep DEF IInv
  <1> QED BY <1>1, <1>3, <1>4 DEF IInv, RestInv

\* Calls, files and queries apart, every step of a reading begins or ends it,
\* or passes it on from what it has read.
LEMMA OtherStep ==
  ASSUME IInv, UNCHANGED storeVars,
         \/ Begin \/ QueryFails \/ Respond \/ BeginExport \/ ExportFails \/ Exported
         \/ TriageEvidence \/ TriageAnswered \/ TriageFails \/ SaveTriage \/ ReaderCrash
  PROVE  IInv'
  <1>1. /\ reading \in Readings /\ reading.run \in RunIDs
        /\ disk \in [Files -> FileStates] /\ CompletionTypeOK /\ CallInv
    BY DEF IInv, ReadingTypeOK, Readings, RestInv
  <1>2. UNCHANGED completionVars => CompletionTypeOK' /\ CallInv'
    BY <1>1 DEF completionVars, CompletionTypeOK, CallInv, attempt
  <1>3. heard' = <<>> /\ call' \in {"outside", "sending"} => CompletionTypeOK' /\ CallInv'
    BY CompletionAssumption DEF CompletionTypeOK, CallInv, attempt
  <1>4. {"idle", "run", "write", "ask", "save"} \subseteq Steps \ (Queries \cup {"use"})
    BY QueryNames DEF Steps
  <1>5. CASE Begin
    <2>1. PICK kind \in Kinds, r \in RunIDs : reading' = Begun(kind, r)
      BY <1>5 DEF Begin, Begun
    <2>2. Blank(reading', "run")
      BY <2>1, BegunIsBlank
    <2>3. disk' = [f \in Files |-> "stale"] /\ UNCHANGED completionVars
      BY <1>5 DEF Begin
    <2>4. disk' \in [Files -> FileStates] /\ \A n \in Slots : disk'[ExportFiles[n]] = "stale"
      BY <2>3, FileNames DEF FileStates
    <2> QED BY <1>2, <1>4, <2>2, <2>3, <2>4, BlankStep
  <1>6. CASE QueryFails \/ Respond \/ ExportFails \/ Exported
    <2>1. reading' = NoReading /\ UNCHANGED <<disk, completionVars>>
      BY <1>6 DEF QueryFails, Respond, ExportFails, Exported, End
    <2> QED BY <1>1, <1>2, <1>4, <2>1, NoReadingIsBlank, BlankStep
  <1>7. CASE BeginExport
    <2>1. reading' = Onward(reading.run, "write") /\ UNCHANGED <<disk, completionVars>>
      BY <1>7 DEF BeginExport, Proceed, Onward
    <2>2. \A n \in Slots : disk[ExportFiles[n]] = "stale"
      BY <1>7 DEF BeginExport, IInv, RestInv, FilesInv
    <2>3. Blank(reading', "write")
      BY <1>1, <1>4, <2>1, OnwardIsBlank
    <2> QED BY <1>1, <1>2, <1>4, <2>1, <2>2, <2>3, BlankStep
  <1>8. CASE TriageEvidence
    <2>1. PICK step \in {"save", "ask"} :
            /\ reading' = Onward(reading.run, step) /\ disk' = disk
            /\ UNCHANGED completionVars \/ BeginCall
      BY <1>8 DEF TriageEvidence, Proceed, Onward
    <2>2. Blank(reading', step)
      BY <1>1, <1>4, <2>1, OnwardIsBlank
    <2>3. CompletionTypeOK' /\ CallInv'
      BY <1>2, <1>3, <2>1 DEF BeginCall
    <2> QED BY <1>1, <1>4, <2>1, <2>2, <2>3, BlankStep
  <1>9. CASE TriageAnswered
    <2>1. /\ reading' = Onward(reading.run, "save") /\ disk' = disk
          /\ call' = "outside" /\ heard' = <<>>
      BY <1>9 DEF TriageAnswered, Proceed, Onward
    <2>2. Blank(reading', "save")
      BY <1>1, <1>4, <2>1, OnwardIsBlank
    <2> QED BY <1>1, <1>3, <1>4, <2>1, <2>2, BlankStep
  <1>10. CASE TriageFails \/ ReaderCrash
    <2>1. /\ reading' = NoReading /\ disk' = disk
          /\ call' = "outside" /\ heard' = <<>>
      BY <1>10 DEF TriageFails, ReaderCrash
    <2> QED BY <1>1, <1>3, <1>4, <2>1, NoReadingIsBlank, BlankStep
  <1>11. CASE SaveTriage
    <2>1. PICK result \in FileStates : disk' = [disk EXCEPT !["triage.md"] = result]
      BY <1>11 DEF SaveTriage
    <2>2. reading' = NoReading /\ UNCHANGED completionVars
      BY <1>11 DEF SaveTriage
    <2>3. /\ disk' \in [Files -> FileStates]
          /\ \A n \in Slots : disk'[ExportFiles[n]] = disk[ExportFiles[n]]
      BY <1>1, <2>1, FileNames
    <2> QED BY <1>2, <1>4, <2>2, <2>3, NoReadingIsBlank, BlankStep
  <1> QED BY <1>5, <1>6, <1>7, <1>8, <1>9, <1>10, <1>11

LEMMA NextInv ==
  ASSUME IInv, [Next]_vars
  PROVE  IInv'
  <1>1. CASE UNCHANGED readingVars /\ [StoreNext]_storeVars
    <2>1. ReadingTypeOK' /\ RestInv'
      BY <1>1 DEF IInv, readingVars, ReadingTypeOK, CompletionTypeOK, RestInv, FilesInv, CallInv,
         attempt, completionVars
    <2>2. SeenInv'
      BY <1>1, SeenAfterWrite DEF IInv, readingVars
    <2>3. StoreInv'
      BY <1>1, StoreStep DEF IInv
    <2> QED BY <2>1, <2>2, <2>3 DEF IInv
  <1>2. CASE ReaderNext /\ UNCHANGED storeVars
    <2>1. CASE GetRun
      BY <1>2, <2>1, GetRunStep
    <2>2. CASE GetRunGuildScans \/ GetRunObservations \/ GetRunMessages
      BY <1>2, <2>2, QueryStep
    <2>3. CASE CreateFile \/ FinishFile
      BY <1>2, <2>3, FileStep
    <2>4. CASE (Reply \/ Pause) /\ UNCHANGED <<reading, disk>>
      BY <1>2, <2>4, CallStep
    <2>5. CASE \/ Begin \/ QueryFails \/ Respond \/ BeginExport \/ ExportFails \/ Exported
               \/ TriageEvidence \/ TriageAnswered \/ TriageFails \/ SaveTriage \/ ReaderCrash
      BY <1>2, <2>5, OtherStep
    <2> QED BY <1>2, <2>1, <2>2, <2>3, <2>4, <2>5 DEF ReaderNext, ReaderStep
  <1>3. CASE UNCHANGED vars
    BY <1>1, <1>3 DEF vars
  <1> QED BY <1>1, <1>2, <1>3 DEF Next

THEOREM ReadersInvariant == Spec => []IInv
  <1>1. Init => IInv
    BY InitInv
  <1>2. IInv /\ [Next]_vars => IInv'
    BY NextInv
  <1> QED BY <1>1, <1>2, PTL DEF Spec

\* The types of the store and of its readers hold in every reachable state.
THEOREM ReadersTypeCorrect == Spec => []ReadersTypeOK
  <1>1. IInv => ReadersTypeOK
    BY DEF IInv, StoreInv, SafetyInv, ReadersTypeOK
  <1> QED BY <1>1, ReadersInvariant, PTL

\* Every confirmation that is exported or put on the dashboard comes with its
\* evidence, although no transaction holds the four queries together.
THEOREM ShownMatchesAreEvidenced == Spec => []ShownMatchesHaveEvidence
  <1>1. IInv => ShownMatchesHaveEvidence
    <2> SUFFICES ASSUME IInv, reading.at = "use", reading.kind # "triage"
                 PROVE  /\ reading.cut \subseteq {"messages"}
                        /\ \A row \in reading.seen.scans : row.best = "confirmed" =>
                             \/ \E i \in Identities :
                                  <<row.guild, i>> \in reading.seen.observations /\ IdentUser[i] = row.user
                             \/ \E m \in MessageIDs :
                                  <<row.guild, m>> \in reading.seen.messages /\ MessageAuthor[m] = row.user
                             \/ row.reason = "message_author_id_exact" /\ reading.cut # {}
      BY DEF ShownMatchesHaveEvidence
    <2>1. reading.cut \subseteq {"messages"} /\ ObservationsShown
          /\ (reading.cut = {} => MessagesShown)
      BY DEF IInv, SeenInv, CutLast, EvidenceShown
    <2>2. ASSUME NEW row \in reading.seen.scans, row.best = "confirmed"
          PROVE  row.reason \in {"user_id_exact", "message_author_id_exact"}
      BY <2>2 DEF IInv, SeenInv, SeenStored, ConfirmReasons
    <2> QED BY <2>1, <2>2 DEF ObservationsShown, MessagesShown
  <1> QED BY <1>1, ReadersInvariant, PTL

\* Nothing that has been read is ever taken back by the writer.
THEOREM ShownIsNeverTakenBack == Spec => []ShownIsStillStored
  <1>1. IInv => ShownIsStillStored
    BY DEF IInv, SeenInv, SeenStored, SeenEvidence, ShownIsStillStored, Scanned
  <1> QED BY <1>1, ReadersInvariant, PTL

\* A new report is never found next to old or missing evidence files.
THEOREM ReportsAreComplete == Spec => []ReportHasItsFiles
  <1>1. IInv => ReportHasItsFiles
    <2>1. /\ {1, 2, 3, 4, 5} \subseteq Slots
          /\ ExportFiles[1] = "hits.json" /\ ExportFiles[2] = "observations.json"
          /\ ExportFiles[3] = "messages.csv" /\ ExportFiles[4] = "report.md"
          /\ ExportFiles[5] = "report.html"
      BY DEF Slots, ExportFiles
    <2>2. IInv => \A m, n \in Slots :
            m < n /\ disk[ExportFiles[n]] = "new" => disk[ExportFiles[m]] = "new"
      BY DEF IInv, RestInv, FilesInv
    <2>3. 1 < 4 /\ 2 < 4 /\ 3 < 4 /\ 4 < 5
      OBVIOUS
    <2> QED BY <2>1, <2>2, <2>3 DEF ReportHasItsFiles
  <1> QED BY <1>1, ReadersInvariant, PTL
=============================================================================
