---------------------------- MODULE StoreProofs ----------------------------
(***************************************************************************)
(* Proofs about the store, for any number of runs, guilds, identities and  *)
(* messages: types, the safety invariants, what no step takes back, that   *)
(* it implements the ledger, and what a confirmation rests on.             *)
(***************************************************************************)
EXTENDS StoreProps, TLAPS

-----------------------------------------------------------------------------
(* The operators of the checkpoint *)

\* A table indexed by run and guild, updated at one run and guild.
LEMMA TableUpdate ==
  ASSUME NEW V, NEW f \in [RunIDs -> [GuildKeys -> V]],
         NEW r \in RunIDs, NEW g \in GuildKeys, NEW v \in V
  PROVE  /\ [f EXCEPT ![r][g] = v] \in [RunIDs -> [GuildKeys -> V]]
         /\ \A q \in RunIDs, h \in GuildKeys :
              [f EXCEPT ![r][g] = v][q][h] = IF q = r /\ h = g THEN v ELSE f[q][h]
  OBVIOUS

ScanTable        == ScanRows \cup {NoRow}
ObservationTable == [Identities -> MatchKinds \cup {NoRow}]
MessageTable     == [MessageIDs -> MessageRows \cup {NoRow}]

\* A batch is a partial function to match kinds (resp. channel names).
LEMMA ObservationBatch ==
  ASSUME NEW obs \in ObservationBatches
  PROVE  DOMAIN obs \subseteq Identities /\ \A i \in DOMAIN obs : obs[i] \in MatchKinds
  BY DEF ObservationBatches

LEMMA RecordableParts ==
  ASSUME NEW rec \in Recordable
  PROVE  /\ rec.scan \in UnreadScans \cup ReadScans
         /\ rec.obs \in ObservationBatches /\ rec.msgs \in MessageBatches
  BY DEF Recordable

LEMMA MessageBatch ==
  ASSUME NEW msgs \in MessageBatches
  PROVE  DOMAIN msgs \subseteq MessageIDs /\ \A m \in DOMAIN msgs : msgs[m] \in MessageRows
  BY DEF MessageBatches

\* Inserting a batch keeps every row there is and adds those of the batch.
LEMMA InsertObservations ==
  ASSUME NEW table \in ObservationTable, NEW obs \in ObservationBatches
  PROVE  /\ InsertedObservations(table, obs) \in ObservationTable
         /\ \A i \in Identities :
              /\ table[i] # NoRow => InsertedObservations(table, obs)[i] = table[i]
              /\ i \in DOMAIN obs => InsertedObservations(table, obs)[i] # NoRow
  BY NoRowAssumption, ObservationBatch DEF InsertedObservations, ObservationTable

LEMMA UpsertMessages ==
  ASSUME NEW table \in MessageTable, NEW msgs \in MessageBatches
  PROVE  /\ UpsertedMessages(table, msgs) \in MessageTable
         /\ \A m \in MessageIDs :
              /\ table[m] # NoRow => UpsertedMessages(table, msgs)[m] # NoRow
              /\ table[m] \notin {NoRow, NoName} => UpsertedMessages(table, msgs)[m] # NoName
              /\ m \in DOMAIN msgs => UpsertedMessages(table, msgs)[m] # NoRow
  BY NoRowAssumption, StoreAssumption, MessageBatch DEF UpsertedMessages, EnrichedMessage, MessageTable, MessageRows

\* The rows the engine passes are rows, and so are those an upsert makes of them.
LEMMA EngineScanIsScanRow ==
  ASSUME NEW scan \in UnreadScans \cup ReadScans
  PROVE  scan \in ScanRows
  BY DEF ScanRows, UnreadScans, ReadScans, ScanStatuses, Terminal,
         NonTerminal, Coverages, MatchLevels, Reasons

LEMMA MergeIsScanRow ==
  ASSUME NEW old \in ScanRows, NEW scan \in ScanRows
  PROVE  MergedScan(old, scan) \in ScanRows
  <1>1. PromotedMatch(old, scan) \in MatchLevels
    BY DEF Promotes, PromotedMatch, ScanRows, MatchLevels
  <1>2. PromotedReason(old, scan) \in Reasons
    BY DEF Promotes, PromotedReason, ScanRows
  <1>3. PromotedUser(old, scan) \in Users \cup {NoUser}
    BY DEF PromotedUser, ScanRows
  <1>. QED
    BY <1>1, <1>2, <1>3 DEF MergedScan, ScanRows

LEMMA UpsertIsScanRow ==
  ASSUME NEW old \in ScanTable, NEW scan \in UnreadScans \cup ReadScans
  PROVE  UpsertedScan(old, scan) \in ScanRows
  BY EngineScanIsScanRow, MergeIsScanRow DEF UpsertedScan, ScanTable

\* An update of a run row is a run row.
LEMMA WithStatusIsRunRow ==
  ASSUME NEW row \in RunRows
  PROVE  WithStatus(row, "complete") \in RunRows
  BY DEF WithStatus, RunRows, RunStatuses

LEMMA FilledProfileIsRunRow ==
  ASSUME NEW row \in RunRows, NEW a \in Avatars, NEW n \in Names \cup {NoName}
  PROVE  FilledProfile(row, a, n) \in RunRows
  BY DEF FilledProfile, RunRows

-----------------------------------------------------------------------------
(* Type correctness *)

LEMMA TypeInit == StoreInit => StoreTypeOK
  BY DEF StoreInit, StoreTypeOK

LEMMA TypeRecord ==
  ASSUME StoreTypeOK, NEW r \in RunIDs, NEW g \in GuildKeys,
         NEW scan \in UnreadScans \cup ReadScans,
         NEW obs \in ObservationBatches, NEW msgs \in MessageBatches,
         RecordGuildScanTransaction(r, g, scan, obs, msgs)
  PROVE  StoreTypeOK'
  <1>1. CASE ~AcceptsScan(r, g, scan)
    BY <1>1 DEF RecordGuildScanTransaction, StoreTypeOK, storeVars
  <1>2. CASE AcceptsScan(r, g, scan)
    <2> DEFINE row  == UpsertedScan(scans[r][g], scan)
               obsT == InsertedObservations(observations[r][g], obs)
               msgT == UpsertedMessages(messages[r][g], msgs)
    <2>1. /\ scans' = [scans EXCEPT ![r][g] = row]
          /\ observations' = [observations EXCEPT ![r][g] = obsT]
          /\ messages' = [messages EXCEPT ![r][g] = msgT]
          /\ UNCHANGED <<runs, runOrder, servers>>
      BY <1>2 DEF RecordGuildScanTransaction
    <2>2. /\ scans \in [RunIDs -> [GuildKeys -> ScanTable]]
          /\ observations \in [RunIDs -> [GuildKeys -> ObservationTable]]
          /\ messages \in [RunIDs -> [GuildKeys -> MessageTable]]
      BY DEF StoreTypeOK, ScanTable, ObservationTable, MessageTable
    <2>3. row \in ScanTable /\ obsT \in ObservationTable /\ msgT \in MessageTable
      <3>1. row \in ScanTable
        BY <2>2, UpsertIsScanRow DEF ScanTable
      <3>2. obsT \in ObservationTable
        BY <2>2, InsertObservations
      <3>3. msgT \in MessageTable
        BY <2>2, UpsertMessages
      <3>. QED
        BY <3>1, <3>2, <3>3
    <2> HIDE DEF row, obsT, msgT
    <2>4. scans' \in [RunIDs -> [GuildKeys -> ScanTable]]
      BY <2>1, <2>2, <2>3
    <2>5. observations' \in [RunIDs -> [GuildKeys -> ObservationTable]]
      BY <2>1, <2>2, <2>3
    <2>6. messages' \in [RunIDs -> [GuildKeys -> MessageTable]]
      BY <2>1, <2>2, <2>3
    <2>. QED
      BY <2>1, <2>4, <2>5, <2>6
      DEF StoreTypeOK, ScanTable, ObservationTable, MessageTable
  <1>. QED
    BY <1>1, <1>2

LEMMA TypeStep == StoreTypeOK /\ [StoreNext]_storeVars => StoreTypeOK'
  <1> SUFFICES ASSUME StoreTypeOK, [StoreNext]_storeVars
               PROVE  StoreTypeOK'
    OBVIOUS
  <1>1. ASSUME NEW r \in RunIDs, NEW u \in Users \cup {NoUser}, NEW n \in Names,
               NEW d \in Names \cup {NoName}, NEW a \in Avatars \cup {NoAvatar},
               CreateRunAtomic(r, u, n, d, a)
        PROVE  StoreTypeOK'
    <2>1. [userID |-> u, username |-> n, displayName |-> d, avatar |-> a,
           status |-> "running"] \in RunRows
      BY DEF RunRows, RunStatuses
    <2>. QED
      BY <1>1, <2>1 DEF CreateRunAtomic, StoreTypeOK
  <1>2. ASSUME NEW r \in RunIDs, UpdateRunStatus(r, "complete")
        PROVE  StoreTypeOK'
    BY <1>2, WithStatusIsRunRow DEF UpdateRunStatus, RunExists, StoreTypeOK
  <1>3. ASSUME NEW r \in RunIDs, NEW a \in Avatars, NEW n \in Names \cup {NoName},
               UpdateRunTargetProfile(r, a, n)
        PROVE  StoreTypeOK'
    BY <1>3, FilledProfileIsRunRow DEF UpdateRunTargetProfile, RunExists, StoreTypeOK
  <1>4. ASSUME NEW codes \in SUBSET Invites, SaveDiscoveredServers(codes)
        PROVE  StoreTypeOK'
    BY <1>4 DEF SaveDiscoveredServers, StoreTypeOK
  <1>5. ASSUME NEW r \in RunIDs, NEW g \in GuildKeys,
               NEW ids \in SUBSET MessageIDs, NEW n \in Names,
               UpdateMessageMetadata(r, g, ids, n)
        PROVE  StoreTypeOK'
    <2>1. RenamedMessages(messages[r][g], ids, n) \in MessageTable
      BY DEF RenamedMessages, StoreTypeOK, MessageTable, MessageRows
    <2>. QED
      BY <1>5, <2>1 DEF UpdateMessageMetadata, StoreTypeOK, MessageTable
  <1>6. CASE UNCHANGED storeVars
    BY <1>6 DEF StoreTypeOK, storeVars
  <1>. QED
    BY <1>1, <1>2, <1>3, <1>4, <1>5, <1>6, TypeRecord, RecordableParts DEF StoreNext

\* Every row of every table is well-formed in every reachable state.
THEOREM StoreTypeCorrect == StoreSpec => []StoreTypeOK
  BY TypeInit, TypeStep, PTL DEF StoreSpec

-----------------------------------------------------------------------------
(* The three kinds of step *)

\* No row of the three per-guild tables changes.
Quiet == UNCHANGED <<scans, observations, messages>>

\* Only names of messages change, and no known one is forgotten.
Renaming ==
  /\ UNCHANGED <<scans, observations>>
  /\ \A r \in RunIDs, g \in GuildKeys, m \in MessageIDs :
       /\ messages'[r][g][m] = NoRow <=> messages[r][g][m] = NoRow
       /\ messages[r][g][m] # NoName => messages'[r][g][m] # NoName

\* A transaction commits: the rows of one guild change, no others do.
Recording(r, g, scan, obs, msgs) ==
  /\ scan \in UnreadScans \cup ReadScans
  /\ obs \in ObservationBatches
  /\ msgs \in MessageBatches
  /\ SummaryFits(scan, obs, msgs)
  /\ AcceptsScan(r, g, scan)
  /\ RunExists(r)
  /\ \A i \in DOMAIN obs : obs[i] = "confirmed" <=> IdentUser[i] = runs[r].userID
  /\ runs' = runs
  /\ \A q \in RunIDs, h \in GuildKeys :
       /\ scans'[q][h] =
            IF q = r /\ h = g THEN UpsertedScan(scans[r][g], scan) ELSE scans[q][h]
       /\ observations'[q][h] =
            IF q = r /\ h = g THEN InsertedObservations(observations[r][g], obs)
                              ELSE observations[q][h]
       /\ messages'[q][h] =
            IF q = r /\ h = g THEN UpsertedMessages(messages[r][g], msgs)
                              ELSE messages[q][h]

\* A transaction that a CHECK rolls back is quiet; any other is a recording.
LEMMA RecordKinds ==
  ASSUME StoreTypeOK, NEW r \in RunIDs, NEW g \in GuildKeys,
         NEW scan \in UnreadScans \cup ReadScans,
         NEW obs \in ObservationBatches, NEW msgs \in MessageBatches,
         CallerContract(r, scan, obs, msgs),
         RecordGuildScanTransaction(r, g, scan, obs, msgs)
  PROVE  Quiet \/ Recording(r, g, scan, obs, msgs)
  <1>1. CASE ~AcceptsScan(r, g, scan)
    BY <1>1 DEF RecordGuildScanTransaction, Quiet, storeVars
  <1>2. CASE AcceptsScan(r, g, scan)
    <2> DEFINE row  == UpsertedScan(scans[r][g], scan)
               obsT == InsertedObservations(observations[r][g], obs)
               msgT == UpsertedMessages(messages[r][g], msgs)
    <2>1. /\ scans' = [scans EXCEPT ![r][g] = row]
          /\ observations' = [observations EXCEPT ![r][g] = obsT]
          /\ messages' = [messages EXCEPT ![r][g] = msgT]
          /\ runs' = runs
      BY <1>2 DEF RecordGuildScanTransaction
    <2>2. /\ RunExists(r) /\ SummaryFits(scan, obs, msgs)
          /\ \A i \in DOMAIN obs : obs[i] = "confirmed" <=> IdentUser[i] = runs[r].userID
      BY DEF CallerContract
    <2> HIDE DEF row, obsT, msgT
    <2>3. \A q \in RunIDs, h \in GuildKeys :
            /\ scans'[q][h] = IF q = r /\ h = g THEN row ELSE scans[q][h]
            /\ observations'[q][h] = IF q = r /\ h = g THEN obsT ELSE observations[q][h]
            /\ messages'[q][h] = IF q = r /\ h = g THEN msgT ELSE messages[q][h]
      BY <2>1 DEF StoreTypeOK
    <2>. QED
      BY <1>2, <2>1, <2>2, <2>3 DEF Recording, row, obsT, msgT
  <1>. QED
    BY <1>1, <1>2

LEMMA MetadataRenames ==
  ASSUME StoreTypeOK, NEW r \in RunIDs, NEW g \in GuildKeys,
         NEW ids \in SUBSET MessageIDs, NEW n \in Names,
         UpdateMessageMetadata(r, g, ids, n)
  PROVE  Renaming
  <1> DEFINE renamed == RenamedMessages(messages[r][g], ids, n)
  <1>1. messages' = [messages EXCEPT ![r][g] = renamed] /\ UNCHANGED <<scans, observations>>
    BY DEF UpdateMessageMetadata
  <1>2. \A m \in MessageIDs :
          /\ renamed[m] = NoRow <=> messages[r][g][m] = NoRow
          /\ messages[r][g][m] # NoName => renamed[m] # NoName
    BY NoRowAssumption, StoreAssumption DEF RenamedMessages, MessageRows
  <1> HIDE DEF renamed
  <1>3. \A q \in RunIDs, h \in GuildKeys :
          messages'[q][h] = IF q = r /\ h = g THEN renamed ELSE messages[q][h]
    BY <1>1 DEF StoreTypeOK
  <1>. QED
    BY <1>1, <1>2, <1>3 DEF Renaming

LEMMA StepKinds ==
  ASSUME StoreTypeOK, [StoreNext]_storeVars
  PROVE  \/ Quiet
         \/ Renaming
         \/ \E r \in RunIDs, g \in GuildKeys, scan \in UnreadScans \cup ReadScans,
               obs \in ObservationBatches, msgs \in MessageBatches :
              Recording(r, g, scan, obs, msgs)
  <1>1. ASSUME NEW r \in RunIDs, NEW u \in Users \cup {NoUser}, NEW n \in Names,
               NEW d \in Names \cup {NoName}, NEW a \in Avatars \cup {NoAvatar},
               CreateRunAtomic(r, u, n, d, a)
        PROVE  Quiet
    BY <1>1 DEF CreateRunAtomic, Quiet
  <1>2. ASSUME NEW r \in RunIDs, UpdateRunStatus(r, "complete")
        PROVE  Quiet
    BY <1>2 DEF UpdateRunStatus, Quiet
  <1>3. ASSUME NEW r \in RunIDs, NEW a \in Avatars, NEW n \in Names \cup {NoName},
               UpdateRunTargetProfile(r, a, n)
        PROVE  Quiet
    BY <1>3 DEF UpdateRunTargetProfile, Quiet
  <1>4. ASSUME NEW codes \in SUBSET Invites, SaveDiscoveredServers(codes)
        PROVE  Quiet
    BY <1>4 DEF SaveDiscoveredServers, Quiet
  <1>5. ASSUME NEW r \in RunIDs, NEW g \in GuildKeys,
               NEW ids \in SUBSET MessageIDs, NEW n \in Names,
               UpdateMessageMetadata(r, g, ids, n)
        PROVE  Renaming
    BY <1>5, MetadataRenames
  <1>6. CASE UNCHANGED storeVars
    BY <1>6 DEF Quiet, storeVars
  <1>. QED
    BY <1>1, <1>2, <1>3, <1>4, <1>5, <1>6, RecordKinds, RecordableParts DEF StoreNext

-----------------------------------------------------------------------------
(* The merged row *)

\* A summary the engine passes has a reason for its match.
LEMMA EngineReasonFits ==
  ASSUME NEW scan \in UnreadScans \cup ReadScans, NEW obs, NEW msgs,
         SummaryFits(scan, obs, msgs)
  PROVE  scan.reason \in ReasonsFor(scan.best)
  BY DEF UnreadScans, ReadScans, SummaryFits, ReasonsFor, ConfirmReasons, MatchLevels

LEMMA MergePromotes ==
  ASSUME NEW old \in ScanRows, NEW scan \in ScanRows
  PROVE  /\ MatchRank(MergedScan(old, scan).best) >= MatchRank(old.best)
         /\ MatchRank(MergedScan(old, scan).best) >= MatchRank(scan.best)
         /\ scan.best = "confirmed" => MergedScan(old, scan).best = "confirmed"
         /\ old.best = "confirmed" => MergedScan(old, scan).best = "confirmed"
         /\ MergedScan(old, scan).best = "confirmed" =>
              \/ scan.best = "confirmed" /\ MergedScan(old, scan).user = scan.user
              \/ old.best = "confirmed" /\ MergedScan(old, scan).user = old.user
         /\ MergedScan(old, scan).coverage = scan.coverage
  <1>1. old.best \in MatchLevels /\ scan.best \in MatchLevels
    BY DEF ScanRows
  <1>. QED
    BY <1>1 DEF MergedScan, Promotes, PromotedMatch, PromotedUser, MatchRank, MatchLevels

LEMMA MergeReasonFits ==
  ASSUME NEW old \in ScanRows, NEW scan \in ScanRows,
         old.reason \in ReasonsFor(old.best), scan.reason \in ReasonsFor(scan.best)
  PROVE  MergedScan(old, scan).reason \in ReasonsFor(MergedScan(old, scan).best)
  <1>1. old.best \in MatchLevels /\ scan.best \in MatchLevels
    BY DEF ScanRows
  <1>. QED
    BY <1>1 DEF MergedScan, Promotes, PromotedMatch, PromotedReason, ReasonsFor, MatchLevels

-----------------------------------------------------------------------------
(* The safety invariants: together with the types they are inductive *)

SafetyInv ==
  /\ StoreTypeOK
  /\ ReasonFitsMatch
  /\ ConfirmedHasEvidence
  /\ EvidenceHasScan
  /\ EvidenceIsSummarised

\* Evidence a guild has is still there after a commit for any guild.
LEMMA EvidenceSurvives ==
  ASSUME StoreTypeOK, NEW r \in RunIDs, NEW g \in GuildKeys, NEW scan, NEW obs, NEW msgs,
         Recording(r, g, scan, obs, msgs),
         NEW q \in RunIDs, NEW h \in GuildKeys
  PROVE  /\ \A i \in Identities : observations[q][h][i] # NoRow =>
              observations'[q][h][i] = observations[q][h][i]
         /\ \A m \in MessageIDs : messages[q][h][m] # NoRow =>
              /\ messages'[q][h][m] # NoRow
              /\ messages[q][h][m] # NoName => messages'[q][h][m] # NoName
  <1>1. observations[q][h] \in ObservationTable /\ messages[q][h] \in MessageTable
    BY DEF StoreTypeOK, ObservationTable, MessageTable
  <1>2. CASE q = r /\ h = g
    BY <1>1, <1>2, InsertObservations, UpsertMessages DEF Recording
  <1>3. CASE ~(q = r /\ h = g)
    BY <1>3 DEF Recording
  <1>. QED
    BY <1>2, <1>3

\* The evidence a confirmed summary rests on is stored by the same commit.
LEMMA EvidenceStored ==
  ASSUME StoreTypeOK, NEW r \in RunIDs, NEW g \in GuildKeys, NEW scan, NEW obs, NEW msgs,
         Recording(r, g, scan, obs, msgs), scan.best = "confirmed"
  PROVE  scan.user \in Users /\ Shows(observations'[r][g], messages'[r][g], scan.user)
  <1>1. \/ \E i \in DOMAIN obs : IdentUser[i] = scan.user
        \/ \E m \in DOMAIN msgs : MessageAuthor[m] = scan.user
    BY DEF Recording, SummaryFits
  <1>2. observations[r][g] \in ObservationTable /\ messages[r][g] \in MessageTable
    BY DEF StoreTypeOK, ObservationTable, MessageTable
  <1>3. \A i \in DOMAIN obs : i \in Identities /\ observations'[r][g][i] # NoRow
    BY <1>2, InsertObservations, ObservationBatch DEF Recording
  <1>4. \A m \in DOMAIN msgs : m \in MessageIDs /\ messages'[r][g][m] # NoRow
    BY <1>2, UpsertMessages, MessageBatch DEF Recording
  <1>5. scan.user \in Users
    BY <1>1, <1>3, <1>4, StoreAssumption
  <1>. QED
    BY <1>1, <1>3, <1>4, <1>5 DEF Shows

\* A summary the engine passes is not weaker than its own batch.
LEMMA BatchSummarised ==
  ASSUME NEW scan \in UnreadScans \cup ReadScans, NEW obs \in ObservationBatches, NEW msgs,
         SummaryFits(scan, obs, msgs)
  PROVE  /\ \A i \in DOMAIN obs : MatchRank(scan.best) >= MatchRank(obs[i])
         /\ \A m \in DOMAIN msgs : scan.best = "confirmed"
  <1>1. scan.best \in MatchLevels /\ \A i \in DOMAIN obs : obs[i] \in MatchKinds
    BY ObservationBatch DEF UnreadScans, ReadScans, MatchLevels
  <1>2. CASE scan.best = "confirmed"
    BY <1>1, <1>2 DEF MatchRank, MatchKinds
  <1>3. CASE scan.best = "candidate"
    <2>1. (\A i \in DOMAIN obs : obs[i] = "candidate") /\ DOMAIN msgs = {}
      BY <1>3 DEF SummaryFits
    <2>. QED
      BY <1>3, <2>1 DEF MatchRank
  <1>4. CASE scan.best \notin {"confirmed", "candidate"}
    BY <1>4 DEF SummaryFits
  <1>. QED
    BY <1>2, <1>3, <1>4

\* Nor is the row an upsert makes of it, next to all that is then on record.
LEMMA UpsertSummarised ==
  ASSUME SafetyInv, NEW r \in RunIDs, NEW g \in GuildKeys,
         NEW scan \in UnreadScans \cup ReadScans, NEW obs, NEW msgs,
         Recording(r, g, scan, obs, msgs)
  PROVE  /\ \A i \in Identities : observations'[r][g][i] # NoRow =>
              MatchRank(scans'[r][g].best) >= MatchRank(observations'[r][g][i])
         /\ \A m \in MessageIDs : messages'[r][g][m] # NoRow => scans'[r][g].best = "confirmed"
  <1> DEFINE old == scans[r][g]
             row == UpsertedScan(old, scan)
  <1>1. /\ StoreTypeOK /\ old \in ScanRows \cup {NoRow} /\ scan \in ScanRows
        /\ observations[r][g] \in ObservationTable /\ messages[r][g] \in MessageTable
    BY EngineScanIsScanRow DEF SafetyInv, StoreTypeOK, ObservationTable, MessageTable
  <1>2. /\ scans'[r][g] = row
        /\ obs \in ObservationBatches /\ msgs \in MessageBatches /\ SummaryFits(scan, obs, msgs)
        /\ observations'[r][g] = InsertedObservations(observations[r][g], obs)
        /\ messages'[r][g] = UpsertedMessages(messages[r][g], msgs)
    BY DEF Recording
  <1>3. /\ MatchRank(row.best) >= MatchRank(scan.best)
        /\ scan.best = "confirmed" => row.best = "confirmed"
        /\ row.best \in MatchLevels /\ scan.best \in MatchLevels
    <2>1. CASE old = NoRow
      BY <1>1, <2>1 DEF UpsertedScan, ScanRows, MatchRank
    <2>2. CASE old # NoRow
      <3>1. row = MergedScan(old, scan) /\ row \in ScanRows
        BY <1>1, <2>2, MergeIsScanRow DEF UpsertedScan
      <3>. QED
        BY <1>1, <2>2, <3>1, MergePromotes DEF ScanRows
    <2>. QED
      BY <2>1, <2>2
  <1>4. ASSUME old # NoRow
        PROVE  /\ MatchRank(row.best) >= MatchRank(old.best)
               /\ old.best = "confirmed" => row.best = "confirmed"
               /\ old.best \in MatchLevels
    <2>1. row = MergedScan(old, scan)
      BY <1>4 DEF UpsertedScan
    <2>. QED
      BY <1>1, <1>4, <2>1, MergePromotes DEF ScanRows
  <1>5. /\ \A i \in DOMAIN obs : MatchRank(scan.best) >= MatchRank(obs[i])
        /\ \A m \in DOMAIN msgs : scan.best = "confirmed"
    BY <1>2, BatchSummarised
  <1> HIDE DEF row
  <1>6. ASSUME NEW i \in Identities, observations'[r][g][i] # NoRow
        PROVE  MatchRank(row.best) >= MatchRank(observations'[r][g][i])
    <2>1. CASE observations[r][g][i] # NoRow
      <3>1. observations'[r][g][i] = observations[r][g][i]
        BY <1>1, <1>2, <2>1, InsertObservations
      <3>2. old # NoRow
        BY <2>1, StoreAssumption DEF SafetyInv, EvidenceHasScan, Evidence, Shows
      <3>3. MatchRank(old.best) >= MatchRank(observations[r][g][i])
        BY <2>1, <3>2 DEF SafetyInv, EvidenceIsSummarised
      <3>4. observations[r][g][i] \in MatchKinds
        BY <1>1, <2>1 DEF ObservationTable
      <3>. QED
        BY <1>3, <1>4, <3>1, <3>2, <3>3, <3>4 DEF MatchRank, MatchLevels, MatchKinds
    <2>2. CASE observations[r][g][i] = NoRow
      <3>1. i \in DOMAIN obs /\ observations'[r][g][i] = obs[i]
        BY <1>2, <1>6, <2>2 DEF InsertedObservations
      <3>2. obs[i] \in MatchKinds
        BY <1>2, <3>1, ObservationBatch
      <3>. QED
        BY <1>3, <1>5, <3>1, <3>2 DEF MatchRank, MatchLevels, MatchKinds
    <2>. QED
      BY <2>1, <2>2
  <1>7. ASSUME NEW m \in MessageIDs, messages'[r][g][m] # NoRow
        PROVE  row.best = "confirmed"
    <2>1. CASE messages[r][g][m] # NoRow
      <3>1. old # NoRow
        BY <2>1, StoreAssumption DEF SafetyInv, EvidenceHasScan, Evidence, Shows
      <3>. QED
        BY <1>4, <2>1, <3>1 DEF SafetyInv, EvidenceIsSummarised
    <2>2. CASE messages[r][g][m] = NoRow
      <3>1. m \in DOMAIN msgs
        BY <1>2, <1>7, <2>2 DEF UpsertedMessages
      <3>. QED
        BY <1>3, <1>5, <3>1
    <2>. QED
      BY <2>1, <2>2
  <1>. QED
    BY <1>2, <1>6, <1>7

\* A commit preserves each of the four invariants.
LEMMA RecordingSafe ==
  ASSUME SafetyInv, StoreTypeOK', NEW r \in RunIDs, NEW g \in GuildKeys,
         NEW scan \in UnreadScans \cup ReadScans, NEW obs, NEW msgs,
         Recording(r, g, scan, obs, msgs)
  PROVE  SafetyInv'
  <1> DEFINE old == scans[r][g]
  <1>1. StoreTypeOK /\ old \in ScanRows \cup {NoRow} /\ scan \in ScanRows
    BY EngineScanIsScanRow DEF SafetyInv, StoreTypeOK
  <1>2. \A q \in RunIDs, h \in GuildKeys :
          scans'[q][h] = IF q = r /\ h = g THEN UpsertedScan(old, scan) ELSE scans[q][h]
    BY DEF Recording
  <1>3. UpsertedScan(old, scan) \in ScanRows
    BY <1>1, UpsertIsScanRow DEF ScanTable
  <1>4. UpsertedScan(old, scan) # NoRow
    BY <1>3, NoRowAssumption
  <1>5. old = NoRow => UpsertedScan(old, scan) = scan
    BY DEF UpsertedScan
  <1>6. old # NoRow => old \in ScanRows /\ UpsertedScan(old, scan) = MergedScan(old, scan)
    BY <1>1 DEF UpsertedScan
  <1> HIDE DEF old
  <1>7. EvidenceIsSummarised'
    <2>1. ASSUME NEW q \in RunIDs, NEW h \in GuildKeys, scans'[q][h] # NoRow
          PROVE  /\ \A i \in Identities : observations'[q][h][i] # NoRow =>
                      MatchRank(scans'[q][h].best) >= MatchRank(observations'[q][h][i])
                 /\ \A m \in MessageIDs : messages'[q][h][m] # NoRow =>
                      scans'[q][h].best = "confirmed"
      <3>1. CASE q = r /\ h = g
        BY <3>1, UpsertSummarised
      <3>2. CASE ~(q = r /\ h = g)
        <4>1. /\ scans'[q][h] = scans[q][h]
              /\ observations'[q][h] = observations[q][h]
              /\ messages'[q][h] = messages[q][h]
          BY <3>2 DEF Recording
        <4>. QED
          BY <2>1, <4>1 DEF SafetyInv, EvidenceIsSummarised
      <3>. QED
        BY <3>1, <3>2
    <2>. QED
      BY <2>1 DEF EvidenceIsSummarised, MatchRank
  <1>8. ReasonFitsMatch'
    <2>1. scan.reason \in ReasonsFor(scan.best)
      BY EngineReasonFits DEF Recording
    <2>2. old # NoRow => old.reason \in ReasonsFor(old.best)
      BY DEF SafetyInv, ReasonFitsMatch, old
    <2>3. UpsertedScan(old, scan).reason \in ReasonsFor(UpsertedScan(old, scan).best)
      BY <1>1, <1>5, <1>6, <2>1, <2>2, MergeReasonFits
    <2>4. ASSUME NEW q \in RunIDs, NEW h \in GuildKeys, scans'[q][h] # NoRow
          PROVE  scans'[q][h].reason \in ReasonsFor(scans'[q][h].best)
      BY <1>2, <2>3, <2>4 DEF SafetyInv, ReasonFitsMatch
    <2>. QED
      BY <2>4 DEF ReasonFitsMatch, ReasonsFor
  <1>9. ConfirmedHasEvidence'
    <2>1. ASSUME NEW q \in RunIDs, NEW h \in GuildKeys, NEW u \in Users,
                 Shows(observations[q][h], messages[q][h], u)
          PROVE  Shows(observations'[q][h], messages'[q][h], u)
      BY <1>1, <2>1, EvidenceSurvives DEF Shows
    <2>2. ASSUME UpsertedScan(old, scan).best = "confirmed"
          PROVE  /\ UpsertedScan(old, scan).user \in Users
                 /\ Shows(observations'[r][g], messages'[r][g], UpsertedScan(old, scan).user)
      <3>1. CASE scan.best = "confirmed" /\ UpsertedScan(old, scan).user = scan.user
        BY <1>1, <3>1, EvidenceStored
      <3>2. CASE old # NoRow /\ old.best = "confirmed" /\ UpsertedScan(old, scan).user = old.user
        <4>1. old.user \in Users /\ Shows(observations[r][g], messages[r][g], old.user)
          BY <3>2 DEF SafetyInv, ConfirmedHasEvidence, Evidence, old
        <4>. QED
          BY <2>1, <3>2, <4>1
      <3>. QED
        BY <1>1, <1>5, <1>6, <2>2, <3>1, <3>2, MergePromotes
    <2>3. ASSUME NEW q \in RunIDs, NEW h \in GuildKeys, scans'[q][h].best = "confirmed",
                 scans'[q][h] # NoRow
          PROVE  /\ scans'[q][h].user \in Users
                 /\ Shows(observations'[q][h], messages'[q][h], scans'[q][h].user)
      <3>1. CASE q = r /\ h = g
        BY <1>2, <2>2, <2>3, <3>1
      <3>2. CASE ~(q = r /\ h = g)
        <4>1. scans'[q][h] = scans[q][h]
          BY <1>2, <3>2
        <4>2. /\ scans[q][h].user \in Users
              /\ Shows(observations[q][h], messages[q][h], scans[q][h].user)
          BY <2>3, <4>1 DEF SafetyInv, ConfirmedHasEvidence, Evidence
        <4>. QED
          BY <2>1, <4>1, <4>2
      <3>. QED
        BY <3>1, <3>2
    <2>. QED
      BY <2>3 DEF ConfirmedHasEvidence, Evidence
  <1>10. EvidenceHasScan'
    <2>1. ASSUME NEW q \in RunIDs, NEW h \in GuildKeys, NEW u \in Users,
                 Shows(observations'[q][h], messages'[q][h], u)
          PROVE  scans'[q][h] # NoRow
      <3>1. CASE q = r /\ h = g
        BY <1>2, <1>4, <3>1
      <3>2. CASE ~(q = r /\ h = g)
        <4>1. /\ scans'[q][h] = scans[q][h]
              /\ observations'[q][h] = observations[q][h]
              /\ messages'[q][h] = messages[q][h]
          BY <3>2 DEF Recording
        <4>2. Shows(observations[q][h], messages[q][h], u)
          BY <2>1, <4>1 DEF Shows
        <4>. QED
          BY <4>1, <4>2 DEF SafetyInv, EvidenceHasScan, Evidence
      <3>. QED
        BY <3>1, <3>2
    <2>. QED
      BY <2>1 DEF EvidenceHasScan, Evidence
  <1>. QED
    BY <1>7, <1>8, <1>9, <1>10 DEF SafetyInv

\* Neither a quiet step nor a renaming touches what the invariants are about.
LEMMA OtherSafe ==
  ASSUME SafetyInv, StoreTypeOK', Quiet \/ Renaming
  PROVE  SafetyInv'
  <1>1. scans' = scans /\ observations' = observations
    BY DEF Quiet, Renaming
  <1>2. \A r \in RunIDs, g \in GuildKeys, m \in MessageIDs :
          messages'[r][g][m] = NoRow <=> messages[r][g][m] = NoRow
    BY DEF Quiet, Renaming
  <1>3. ReasonFitsMatch' /\ EvidenceIsSummarised'
    BY <1>1, <1>2 DEF SafetyInv, ReasonFitsMatch, ReasonsFor, EvidenceIsSummarised, MatchRank
  <1>4. \A r \in RunIDs, g \in GuildKeys, u \in Users :
          Shows(observations'[r][g], messages'[r][g], u)
            <=> Shows(observations[r][g], messages[r][g], u)
    BY <1>1, <1>2 DEF Shows
  <1>5. ConfirmedHasEvidence' /\ EvidenceHasScan'
    BY <1>1, <1>4 DEF SafetyInv, ConfirmedHasEvidence, EvidenceHasScan, Evidence
  <1>. QED
    BY <1>3, <1>5 DEF SafetyInv

LEMMA SafetyInit == StoreInit => SafetyInv
  BY TypeInit DEF StoreInit, SafetyInv, EvidenceIsSummarised, ReasonFitsMatch,
                  ConfirmedHasEvidence, EvidenceHasScan, Evidence, Shows

LEMMA SafetyStep == SafetyInv /\ [StoreNext]_storeVars => SafetyInv'
  <1> SUFFICES ASSUME SafetyInv, [StoreNext]_storeVars
               PROVE  SafetyInv'
    OBVIOUS
  <1>1. StoreTypeOK
    BY DEF SafetyInv
  <1>2. StoreTypeOK'
    BY <1>1, TypeStep
  <1>3. CASE Quiet \/ Renaming
    BY <1>2, <1>3, OtherSafe
  <1>4. CASE \E r \in RunIDs, g \in GuildKeys, scan \in UnreadScans \cup ReadScans,
                obs \in ObservationBatches, msgs \in MessageBatches :
               Recording(r, g, scan, obs, msgs)
    BY <1>2, <1>4, RecordingSafe
  <1>. QED
    BY <1>1, <1>3, <1>4, StepKinds

LEMMA StoreSafe == StoreSpec => []SafetyInv
  BY SafetyInit, SafetyStep, PTL DEF StoreSpec

\* No guild is ever on record as less than what its own evidence shows.
THEOREM EvidenceCounts == StoreSpec => []EvidenceIsSummarised
  <1>1. SafetyInv => EvidenceIsSummarised
    BY DEF SafetyInv
  <1>. QED
    BY <1>1, StoreSafe, PTL

\* No order of rescans separates a match from its reason.
THEOREM ReasonsFit == StoreSpec => []ReasonFitsMatch
  <1>1. SafetyInv => ReasonFitsMatch
    BY DEF SafetyInv
  <1>. QED
    BY <1>1, StoreSafe, PTL

\* A confirmed guild has the confirming observation or message on record.
THEOREM ConfirmationsAreEvidenced == StoreSpec => []ConfirmedHasEvidence
  <1>1. SafetyInv => ConfirmedHasEvidence
    BY DEF SafetyInv
  <1>. QED
    BY <1>1, StoreSafe, PTL

\* No observation or message stands without the scan that produced it.
THEOREM EvidenceIsAttached == StoreSpec => []EvidenceHasScan
  <1>1. SafetyInv => EvidenceHasScan
    BY DEF SafetyInv
  <1>. QED
    BY <1>1, StoreSafe, PTL

-----------------------------------------------------------------------------
(* Monotonicity *)

\* What a step leaves in the three tables of any guild.
Kept(r, g) ==
  /\ scans[r][g] # NoRow =>
       /\ scans'[r][g] # NoRow
       /\ MatchRank(scans'[r][g].best) >= MatchRank(scans[r][g].best)
  /\ \A i \in Identities : observations[r][g][i] # NoRow =>
       observations'[r][g][i] = observations[r][g][i]
  /\ \A m \in MessageIDs : messages[r][g][m] # NoRow =>
       /\ messages'[r][g][m] # NoRow
       /\ messages[r][g][m] # NoName => messages'[r][g][m] # NoName

LEMMA RecordingKeeps ==
  ASSUME StoreTypeOK, NEW r \in RunIDs, NEW g \in GuildKeys,
         NEW scan \in UnreadScans \cup ReadScans, NEW obs, NEW msgs,
         Recording(r, g, scan, obs, msgs),
         NEW q \in RunIDs, NEW h \in GuildKeys
  PROVE  Kept(q, h)
  <1>1. ASSUME scans[q][h] # NoRow
        PROVE  /\ scans'[q][h] # NoRow
               /\ MatchRank(scans'[q][h].best) >= MatchRank(scans[q][h].best)
    <2>1. scans[q][h] \in ScanRows /\ scan \in ScanRows
      BY <1>1, EngineScanIsScanRow DEF StoreTypeOK
    <2>2. CASE q = r /\ h = g
      <3>1. scans'[q][h] = MergedScan(scans[q][h], scan)
        BY <1>1, <2>2 DEF Recording, UpsertedScan
      <3>2. MergedScan(scans[q][h], scan) # NoRow
        BY <2>1, MergeIsScanRow, NoRowAssumption
      <3>3. MatchRank(MergedScan(scans[q][h], scan).best) >= MatchRank(scans[q][h].best)
        BY <2>1, MergePromotes
      <3>. QED
        BY <3>1, <3>2, <3>3
    <2>3. CASE ~(q = r /\ h = g)
      <3>1. scans'[q][h] = scans[q][h]
        BY <2>3 DEF Recording
      <3>2. scans[q][h].best \in MatchLevels
        BY <2>1 DEF ScanRows
      <3>. QED
        BY <1>1, <3>1, <3>2 DEF MatchRank, MatchLevels
    <2>. QED
      BY <2>2, <2>3
  <1>. QED
    BY <1>1, EvidenceSurvives DEF Kept

LEMMA StepKeeps ==
  ASSUME StoreTypeOK, [StoreNext]_storeVars, NEW q \in RunIDs, NEW h \in GuildKeys
  PROVE  Kept(q, h)
  <1>1. CASE Quiet \/ Renaming
    BY <1>1 DEF Quiet, Renaming, Kept, MatchRank
  <1>2. CASE \E r \in RunIDs, g \in GuildKeys, scan \in UnreadScans \cup ReadScans,
                obs \in ObservationBatches, msgs \in MessageBatches :
               Recording(r, g, scan, obs, msgs)
    BY <1>2, RecordingKeeps
  <1>. QED
    BY <1>1, <1>2, StepKinds

\* The recorded match of a guild never gets weaker.
THEOREM MatchesOnlyPromote == StoreSpec => NeverDowngraded
  <1> DEFINE Promoted == \A r \in RunIDs, g \in GuildKeys : scans[r][g] # NoRow =>
               /\ scans[r][g]' # NoRow
               /\ MatchRank(scans[r][g].best)' >= MatchRank(scans[r][g].best)
  <1>1. ASSUME StoreTypeOK, [StoreNext]_storeVars
        PROVE  [Promoted]_scans
    BY <1>1, StepKeeps DEF Kept, MatchRank
  <1>. QED
    BY <1>1, StoreTypeCorrect, PTL DEF StoreSpec, NeverDowngraded

\* What a scan has collected is never lost to a later one.
THEOREM EvidenceOnlyGrows == StoreSpec => EvidenceKept
  <1> DEFINE Grown == \A r \in RunIDs, g \in GuildKeys :
               /\ \A i \in Identities : observations[r][g][i] # NoRow =>
                    observations[r][g][i]' = observations[r][g][i]
               /\ \A m \in MessageIDs : messages[r][g][m] # NoRow =>
                    /\ messages[r][g][m]' # NoRow
                    /\ messages[r][g][m] # NoName => messages[r][g][m]' # NoName
  <1>1. ASSUME StoreTypeOK, [StoreNext]_storeVars
        PROVE  [Grown]_<<observations, messages>>
    BY <1>1, StepKeeps DEF Kept
  <1>. QED
    BY <1>1, StoreTypeCorrect, PTL DEF StoreSpec, EvidenceKept

-----------------------------------------------------------------------------
(* The store implements the ledger: each statement or transaction maps to  *)
(* a ledger step or leaves the ledger alone.                               *)

\* The phase, finding and evidence of one run and guild.
PhaseIn(row) ==
  IF row = NoRow THEN "none" ELSE IF row.status = "complete" THEN "closed" ELSE "open"

FindingIn(row) ==
  IF row = NoRow THEN "absent" ELSE IF row.best \in MatchKinds THEN row.best ELSE "nothing"

EvidenceOf(obsTable, msgTable) ==
  {<<"observation", i>> : i \in {j \in Identities : obsTable[j] # NoRow}}
  \cup {<<"message", m>> : m \in {n \in MessageIDs : msgTable[n] # NoRow}}

\* The mapping, pointwise, in the present and in the next state.
LEMMA Mapping ==
  /\ LedgerPhase = [r \in RunIDs |-> PhaseIn(runs[r])]
  /\ LedgerFinding = [r \in RunIDs |-> [g \in GuildKeys |-> FindingIn(scans[r][g])]]
  /\ LedgerEvidence = [r \in RunIDs |-> [g \in GuildKeys |->
                         EvidenceOf(observations[r][g], messages[r][g])]]
  <1>1. LedgerPhase = [r \in RunIDs |-> PhaseIn(runs[r])]
    BY DEF LedgerPhase, PhaseIn, RunExists
  <1>2. LedgerFinding = [r \in RunIDs |-> [g \in GuildKeys |-> FindingIn(scans[r][g])]]
    BY DEF LedgerFinding, FindingIn
  <1>3. LedgerEvidence = [r \in RunIDs |-> [g \in GuildKeys |->
                            EvidenceOf(observations[r][g], messages[r][g])]]
    BY Zenon DEF LedgerEvidence, EvidenceOf
  <1>. QED
    BY <1>1, <1>2, <1>3

LEMMA MappingNext ==
  /\ LedgerPhase' = [r \in RunIDs |-> PhaseIn(runs'[r])]
  /\ LedgerFinding' = [r \in RunIDs |-> [g \in GuildKeys |-> FindingIn(scans'[r][g])]]
  /\ LedgerEvidence' = [r \in RunIDs |-> [g \in GuildKeys |->
                          EvidenceOf(observations'[r][g], messages'[r][g])]]
  <1>1. LedgerPhase' = [r \in RunIDs |-> PhaseIn(runs'[r])]
    BY DEF LedgerPhase, PhaseIn, RunExists
  <1>2. LedgerFinding' = [r \in RunIDs |-> [g \in GuildKeys |-> FindingIn(scans'[r][g])]]
    BY DEF LedgerFinding, FindingIn
  <1>3. LedgerEvidence' = [r \in RunIDs |-> [g \in GuildKeys |->
                             EvidenceOf(observations'[r][g], messages'[r][g])]]
    BY Zenon DEF LedgerEvidence, EvidenceOf
  <1>. QED
    BY <1>1, <1>2, <1>3

\* The ledger starts empty.
LEMMA LedgerInit == StoreInit => Promise!Init
  <1> SUFFICES ASSUME StoreInit PROVE Promise!Init
    OBVIOUS
  <1>1. \A r \in RunIDs : PhaseIn(runs[r]) = "none"
    BY DEF StoreInit, PhaseIn
  <1>2. \A r \in RunIDs, g \in GuildKeys :
          /\ FindingIn(scans[r][g]) = "absent"
          /\ EvidenceOf(observations[r][g], messages[r][g]) = {}
    BY DEF StoreInit, FindingIn, EvidenceOf
  <1>. QED
    BY <1>1, <1>2, Mapping DEF Promise!Init

\* A step that leaves the per-guild tables' rows in place leaves the ledger's
\* findings and evidence in place.
LEMMA Unmoved ==
  ASSUME Quiet \/ Renaming
  PROVE  LedgerFinding' = LedgerFinding /\ LedgerEvidence' = LedgerEvidence
  <1>1. scans' = scans /\ observations' = observations
    BY DEF Quiet, Renaming
  <1>2. ASSUME NEW r \in RunIDs, NEW g \in GuildKeys
        PROVE  EvidenceOf(observations'[r][g], messages'[r][g])
                 = EvidenceOf(observations[r][g], messages[r][g])
    <2>1. \A m \in MessageIDs : messages'[r][g][m] = NoRow <=> messages[r][g][m] = NoRow
      BY DEF Quiet, Renaming
    <2>2. {n \in MessageIDs : messages'[r][g][n] # NoRow}
            = {n \in MessageIDs : messages[r][g][n] # NoRow}
      BY <2>1
    <2>. QED
      BY <1>1, <2>2 DEF EvidenceOf
  <1>. QED
    BY <1>1, <1>2, Mapping, MappingNext

\* A table that differs from another at one run and guild only.
IsTable(f) ==
  /\ f = [q \in RunIDs |-> f[q]]
  /\ \A q \in RunIDs : f[q] = [h \in GuildKeys |-> f[q][h]]

LEMMA TableIsExcept ==
  ASSUME NEW f, NEW f2, IsTable(f), IsTable(f2),
         NEW r \in RunIDs, NEW g \in GuildKeys, NEW v, f2[r][g] = v,
         \A q \in RunIDs, h \in GuildKeys : ~(q = r /\ h = g) => f2[q][h] = f[q][h]
  PROVE  f2 = [f EXCEPT ![r][g] = v]
  <1> DEFINE e == [f EXCEPT ![r][g] = v]
  <1>1. e = [q \in RunIDs |-> e[q]]
    BY DEF IsTable
  <1>2. \A q \in RunIDs : e[q] = IF q = r THEN [f[r] EXCEPT ![g] = v] ELSE f[q]
    BY DEF IsTable
  <1>3. f2[r] = [f[r] EXCEPT ![g] = v]
    BY DEF IsTable
  <1>4. ASSUME NEW q \in RunIDs, q # r
        PROVE  f2[q] = f[q]
    <2>1. \A h \in GuildKeys : f2[q][h] = f[q][h]
      BY <1>4
    <2>. QED
      BY <2>1 DEF IsTable
  <1> HIDE DEF e
  <1>5. \A q \in RunIDs : f2[q] = e[q]
    BY <1>2, <1>3, <1>4
  <1>6. f2 = e
    BY <1>1, <1>5 DEF IsTable
  <1>. QED
    BY <1>6 DEF e

LEMMA MappingIsTable ==
  IsTable(LedgerFinding) /\ IsTable(LedgerFinding') /\
  IsTable(LedgerEvidence) /\ IsTable(LedgerEvidence')
  <1>1. IsTable(LedgerFinding) /\ IsTable(LedgerEvidence)
    BY Mapping DEF IsTable
  <1>2. IsTable(LedgerFinding') /\ IsTable(LedgerEvidence')
    BY MappingNext DEF IsTable
  <1>. QED
    BY <1>1, <1>2

\* A commit is a checkpoint of its guild.
LEMMA RecordingIsCheckpoint ==
  ASSUME SafetyInv, SafetyInv', NEW r \in RunIDs, NEW g \in GuildKeys,
         NEW scan \in UnreadScans \cup ReadScans, NEW obs, NEW msgs,
         Recording(r, g, scan, obs, msgs)
  PROVE  Promise!Checkpoint(r, g)
  <1> DEFINE find == FindingIn(scans'[r][g])
             new  == EvidenceOf(observations'[r][g], messages'[r][g])
  <1>1. LedgerPhase[r] # "none" /\ LedgerPhase' = LedgerPhase
    <2>1. runs[r] # NoRow /\ runs' = runs
      BY DEF Recording, RunExists
    <2>. QED
      BY <2>1, Mapping, MappingNext DEF PhaseIn
  <1>2. scans'[r][g] \in ScanRows /\ scans'[r][g] # NoRow
    <2>1. scans[r][g] \in ScanTable /\ scans'[r][g] = UpsertedScan(scans[r][g], scan)
      BY DEF SafetyInv, StoreTypeOK, ScanTable, Recording
    <2>. QED
      BY <2>1, UpsertIsScanRow, NoRowAssumption
  <1>3. find \in Promise!AtLeast(LedgerFinding[r][g]) \ {"absent"}
    <2>1. find \in {"nothing", "candidate", "confirmed"}
      BY <1>2 DEF FindingIn, MatchKinds
    <2>2. CASE scans[r][g] = NoRow
      <3>1. LedgerFinding[r][g] = "absent"
        BY <2>2, Mapping DEF FindingIn
      <3>. QED
        BY <2>1, <3>1 DEF Promise!AtLeast, Promise!Findings
    <2>3. CASE scans[r][g] # NoRow
      <3>1. scans[r][g] \in ScanRows /\ scan \in ScanRows
        BY <2>3, EngineScanIsScanRow DEF SafetyInv, StoreTypeOK
      <3>2. scans'[r][g] = MergedScan(scans[r][g], scan)
        BY <2>3 DEF Recording, UpsertedScan
      <3>3. scans'[r][g].best = PromotedMatch(scans[r][g], scan)
        BY <3>2 DEF MergedScan
      <3>4. LedgerFinding[r][g] = FindingIn(scans[r][g])
        BY Mapping
      <3>5. scans[r][g].best \in MatchLevels /\ scan.best \in MatchLevels
        BY <3>1 DEF ScanRows
      <3>6. FindingIn(scans[r][g]) =
              IF scans[r][g].best \in MatchKinds THEN scans[r][g].best ELSE "nothing"
        BY <2>3 DEF FindingIn
      <3>7. find = IF PromotedMatch(scans[r][g], scan) \in MatchKinds
                   THEN PromotedMatch(scans[r][g], scan) ELSE "nothing"
        BY <1>2, <3>3 DEF FindingIn
      <3>. QED
        BY <3>4, <3>5, <3>6, <3>7
        DEF Promise!AtLeast, Promise!Findings, PromotedMatch, Promotes, MatchKinds, MatchLevels
    <2>. QED
      BY <2>2, <2>3
  <1>4. new \in SUBSET LedgerItems
    BY DEF EvidenceOf, LedgerItems
  <1>5. LedgerFinding' = [LedgerFinding EXCEPT ![r][g] = find]
    <2>1. \A q \in RunIDs, h \in GuildKeys :
            ~(q = r /\ h = g) => scans'[q][h] = scans[q][h]
      BY DEF Recording
    <2>2. LedgerFinding'[r][g] = find
      BY MappingNext
    <2>3. \A q \in RunIDs, h \in GuildKeys :
            ~(q = r /\ h = g) => LedgerFinding'[q][h] = LedgerFinding[q][h]
      BY <2>1, Mapping, MappingNext
    <2> HIDE DEF find
    <2>. QED
      BY <2>2, <2>3, MappingIsTable, TableIsExcept
  <1>6. EvidenceOf(observations[r][g], messages[r][g]) \cup new = new
    <2>1. /\ \A i \in Identities : observations[r][g][i] # NoRow => observations'[r][g][i] # NoRow
          /\ \A m \in MessageIDs : messages[r][g][m] # NoRow => messages'[r][g][m] # NoRow
      BY EvidenceSurvives DEF SafetyInv
    <2>. QED
      BY <2>1 DEF EvidenceOf
  <1>7. LedgerEvidence' = [LedgerEvidence EXCEPT ![r][g] = @ \cup new]
    <2>1. \A q \in RunIDs, h \in GuildKeys : ~(q = r /\ h = g) =>
            /\ observations'[q][h] = observations[q][h]
            /\ messages'[q][h] = messages[q][h]
      BY DEF Recording
    <2>2. LedgerEvidence'[r][g] = LedgerEvidence[r][g] \cup new
      BY <1>6, Mapping, MappingNext
    <2>3. \A q \in RunIDs, h \in GuildKeys :
            ~(q = r /\ h = g) => LedgerEvidence'[q][h] = LedgerEvidence[q][h]
      BY <2>1, Mapping, MappingNext
    <2> HIDE DEF new
    <2>4. LedgerEvidence' = [LedgerEvidence EXCEPT ![r][g] = LedgerEvidence[r][g] \cup new]
      BY <2>2, <2>3, MappingIsTable, TableIsExcept
    <2>. QED
      BY <2>4, MappingIsTable DEF IsTable
  <1>8. find = "confirmed" => LedgerEvidence'[r][g] # {}
    <2>1. LedgerEvidence'[r][g] = new
      BY MappingNext
    <2>2. ASSUME find = "confirmed"
          PROVE  new # {}
      <3>1. scans'[r][g].best = "confirmed"
        BY <1>2, <2>2 DEF FindingIn
      <3>2. Shows(observations'[r][g], messages'[r][g], scans'[r][g].user)
        BY <1>2, <3>1 DEF SafetyInv, ConfirmedHasEvidence, Evidence
      <3>. QED
        BY <3>2 DEF Shows, EvidenceOf
    <2>. QED
      BY <2>1, <2>2
  <1> HIDE DEF find, new
  <1>. QED
    BY <1>1, <1>3, <1>4, <1>5, <1>7, <1>8 DEF Promise!Checkpoint

\* Every step of the store is a step of the ledger or a stutter.
LEMMA LedgerStep ==
  ASSUME SafetyInv, SafetyInv', [StoreNext]_storeVars
  PROVE  [Promise!Next]_Promise!vars
  <1>1. ASSUME Quiet \/ Renaming, LedgerPhase' = LedgerPhase
        PROVE  UNCHANGED Promise!vars
    BY <1>1, Unmoved DEF Promise!vars
  <1>2. ASSUME NEW r \in RunIDs, NEW u \in Users \cup {NoUser}, NEW n \in Names,
               NEW d \in Names \cup {NoName}, NEW a \in Avatars \cup {NoAvatar},
               CreateRunAtomic(r, u, n, d, a)
        PROVE  Promise!Open(r)
    <2> DEFINE row == [userID |-> u, username |-> n, displayName |-> d, avatar |-> a,
                       status |-> "running"]
    <2>1. runs[r] = NoRow /\ runs' = [runs EXCEPT ![r] = row] /\ Quiet
      BY <1>2 DEF CreateRunAtomic, RunExists, Quiet
    <2>2. row \in RunRows /\ row.status = "running"
      BY DEF RunRows, RunStatuses
    <2>3. PhaseIn(row) = "open" /\ PhaseIn(runs[r]) = "none"
      BY <2>1, <2>2, NoRowAssumption DEF PhaseIn
    <2> HIDE DEF row
    <2>4. \A q \in RunIDs : runs'[q] = IF q = r THEN row ELSE runs[q]
      BY <2>1 DEF SafetyInv, StoreTypeOK
    <2>5. LedgerPhase' = [LedgerPhase EXCEPT ![r] = "open"] /\ LedgerPhase[r] = "none"
      BY <2>3, <2>4, Mapping, MappingNext
    <2>. QED
      BY <2>1, <2>5, Unmoved DEF Promise!Open
  <1>3. ASSUME NEW r \in RunIDs, UpdateRunStatus(r, "complete")
        PROVE  Promise!Close(r) \/ UNCHANGED Promise!vars
    <2>1. Quiet
      BY <1>3 DEF UpdateRunStatus, Quiet
    <2>2. CASE ~RunExists(r)
      <3>1. LedgerPhase' = LedgerPhase
        BY <1>3, <2>2, Mapping, MappingNext DEF UpdateRunStatus
      <3>. QED
        BY <1>1, <2>1, <3>1
    <2>3. CASE RunExists(r)
      <3> DEFINE row == WithStatus(runs[r], "complete")
      <3>1. runs[r] \in RunRows
        BY <2>3 DEF RunExists, SafetyInv, StoreTypeOK
      <3>2. row \in RunRows /\ row.status = "complete"
        BY <3>1 DEF WithStatus, RunRows, RunStatuses
      <3>3. PhaseIn(row) = "closed" /\ PhaseIn(runs[r]) \in {"open", "closed"}
        BY <2>3, <3>2, NoRowAssumption DEF PhaseIn, RunExists
      <3>4. runs' = [runs EXCEPT ![r] = row]
        BY <1>3, <2>3 DEF UpdateRunStatus
      <3> HIDE DEF row
      <3>5. \A q \in RunIDs : runs'[q] = IF q = r THEN row ELSE runs[q]
        BY <3>4 DEF SafetyInv, StoreTypeOK
      <3>6. LedgerPhase' = [LedgerPhase EXCEPT ![r] = "closed"]
        BY <3>3, <3>5, Mapping, MappingNext
      <3>7. CASE PhaseIn(runs[r]) = "open"
        BY <2>1, <3>6, <3>7, Mapping, Unmoved DEF Promise!Close
      <3>8. CASE PhaseIn(runs[r]) = "closed"
        <4>1. LedgerPhase' = LedgerPhase
          BY <3>6, <3>8, Mapping
        <4>. QED
          BY <1>1, <2>1, <4>1
      <3>. QED
        BY <3>3, <3>7, <3>8
    <2>. QED
      BY <2>2, <2>3
  <1>4. ASSUME NEW r \in RunIDs, NEW a \in Avatars, NEW n \in Names \cup {NoName},
               UpdateRunTargetProfile(r, a, n)
        PROVE  UNCHANGED Promise!vars
    <2>1. Quiet
      BY <1>4 DEF UpdateRunTargetProfile, Quiet
    <2>2. ASSUME RunExists(r)
          PROVE  \A q \in RunIDs : PhaseIn(runs'[q]) = PhaseIn(runs[q])
      <3> DEFINE row == FilledProfile(runs[r], a, n)
      <3>1. runs[r] \in RunRows
        BY <2>2 DEF RunExists, SafetyInv, StoreTypeOK
      <3>2. row \in RunRows /\ row.status = runs[r].status
        BY <3>1 DEF FilledProfile, RunRows
      <3>3. PhaseIn(row) = PhaseIn(runs[r])
        BY <2>2, <3>2, NoRowAssumption DEF PhaseIn, RunExists
      <3>4. runs' = [runs EXCEPT ![r] = row]
        BY <1>4, <2>2 DEF UpdateRunTargetProfile
      <3> HIDE DEF row
      <3>5. \A q \in RunIDs : runs'[q] = IF q = r THEN row ELSE runs[q]
        BY <3>4 DEF SafetyInv, StoreTypeOK
      <3>. QED
        BY <3>3, <3>5
    <2>3. ~RunExists(r) => runs' = runs
      BY <1>4 DEF UpdateRunTargetProfile
    <2>4. LedgerPhase' = LedgerPhase
      BY <2>2, <2>3, Mapping, MappingNext
    <2>. QED
      BY <1>1, <2>1, <2>4
  <1>5. ASSUME NEW codes \in SUBSET Invites, SaveDiscoveredServers(codes)
        PROVE  UNCHANGED Promise!vars
    <2>1. Quiet /\ LedgerPhase' = LedgerPhase
      BY <1>5, Mapping, MappingNext DEF SaveDiscoveredServers, Quiet
    <2>. QED
      BY <1>1, <2>1
  <1>6. ASSUME NEW r \in RunIDs, NEW g \in GuildKeys,
               NEW scan \in UnreadScans \cup ReadScans,
               NEW obs \in ObservationBatches, NEW msgs \in MessageBatches,
               CallerContract(r, scan, obs, msgs),
               RecordGuildScanTransaction(r, g, scan, obs, msgs)
        PROVE  Promise!Checkpoint(r, g) \/ UNCHANGED Promise!vars
    <2>1. StoreTypeOK
      BY DEF SafetyInv
    <2>2. Quiet \/ Recording(r, g, scan, obs, msgs)
      BY <1>6, <2>1, RecordKinds
    <2>3. runs' = runs
      BY <1>6 DEF RecordGuildScanTransaction, storeVars
    <2>4. LedgerPhase' = LedgerPhase
      BY <2>3, Mapping, MappingNext
    <2>. QED
      BY <1>1, <2>2, <2>4, RecordingIsCheckpoint
  <1>7. ASSUME NEW r \in RunIDs, NEW g \in GuildKeys,
               NEW ids \in SUBSET MessageIDs, NEW n \in Names,
               UpdateMessageMetadata(r, g, ids, n)
        PROVE  UNCHANGED Promise!vars
    <2>1. StoreTypeOK
      BY DEF SafetyInv
    <2>2. Renaming
      BY <1>7, <2>1, MetadataRenames
    <2>3. LedgerPhase' = LedgerPhase
      BY <1>7, Mapping, MappingNext DEF UpdateMessageMetadata
    <2>. QED
      BY <1>1, <2>2, <2>3
  <1>8. CASE UNCHANGED storeVars
    <2>1. Quiet /\ LedgerPhase' = LedgerPhase
      BY <1>8, Mapping, MappingNext DEF storeVars, Quiet
    <2>. QED
      BY <1>1, <2>1
  <1>. QED
    BY <1>2, <1>3, <1>4, <1>5, <1>6, <1>7, <1>8, RecordableParts DEF StoreNext, Promise!Next

\* The checkpoint database is a ledger: findings only get stronger, evidence
\* only grows, and a confirmed finding is never without evidence.
THEOREM StoreImplementsLedger == StoreSpec => ImplementsLedger
  <1>1. SafetyInv /\ SafetyInv' /\ [StoreNext]_storeVars => [Promise!Next]_Promise!vars
    BY LedgerStep
  <1>. QED
    BY <1>1, LedgerInit, StoreSafe, PTL DEF StoreSpec, ImplementsLedger, Promise!Spec

-----------------------------------------------------------------------------
(* Why a guild is confirmed *)

\* A run that exists stays, and stays for the same target.
LEMMA TargetsStay ==
  ASSUME StoreTypeOK, [StoreNext]_storeVars, NEW q \in RunIDs, RunExists(q)
  PROVE  RunExists(q)' /\ runs'[q].userID = runs[q].userID
  <1>1. runs \in [RunIDs -> RunRows \cup {NoRow}] /\ runs[q] \in RunRows /\ NoRow \notin RunRows
    BY NoRowAssumption DEF StoreTypeOK, RunExists
  <1>2. ASSUME NEW r \in RunIDs, NEW u, NEW n, NEW d, NEW a, CreateRunAtomic(r, u, n, d, a)
        PROVE  runs'[q] = runs[q]
    BY <1>1, <1>2 DEF CreateRunAtomic, RunExists
  <1>3. ASSUME NEW r \in RunIDs, UpdateRunStatus(r, "complete")
        PROVE  runs'[q] \in RunRows /\ runs'[q].userID = runs[q].userID
    <2>1. WithStatus(runs[q], "complete") \in RunRows
      BY <1>1, WithStatusIsRunRow
    <2>2. WithStatus(runs[q], "complete").userID = runs[q].userID
      BY <1>1 DEF WithStatus, RunRows
    <2>3. runs'[q] \in {runs[q], WithStatus(runs[q], "complete")}
      BY <1>1, <1>3 DEF UpdateRunStatus, RunExists
    <2>. QED
      BY <1>1, <2>1, <2>2, <2>3
  <1>4. ASSUME NEW r \in RunIDs, NEW a \in Avatars, NEW n \in Names \cup {NoName},
               UpdateRunTargetProfile(r, a, n)
        PROVE  runs'[q] \in RunRows /\ runs'[q].userID = runs[q].userID
    <2>1. FilledProfile(runs[q], a, n) \in RunRows
      BY <1>1, FilledProfileIsRunRow
    <2>2. FilledProfile(runs[q], a, n).userID = runs[q].userID
      BY <1>1 DEF FilledProfile, RunRows
    <2>3. runs'[q] \in {runs[q], FilledProfile(runs[q], a, n)}
      BY <1>1, <1>4 DEF UpdateRunTargetProfile, RunExists
    <2>. QED
      BY <1>1, <2>1, <2>2, <2>3
  <1>5. ASSUME NEW codes, SaveDiscoveredServers(codes)
        PROVE  runs' = runs
    BY <1>5 DEF SaveDiscoveredServers
  <1>6. ASSUME NEW r, NEW g, NEW scan, NEW obs, NEW msgs,
               RecordGuildScanTransaction(r, g, scan, obs, msgs)
        PROVE  runs' = runs
    BY <1>6 DEF RecordGuildScanTransaction, storeVars
  <1>7. ASSUME NEW r, NEW g, NEW ids, NEW n, UpdateMessageMetadata(r, g, ids, n)
        PROVE  runs' = runs
    BY <1>7 DEF UpdateMessageMetadata
  <1>8. CASE UNCHANGED storeVars
    BY <1>1, <1>8 DEF storeVars, RunExists
  <1>9. runs'[q] \in RunRows /\ runs'[q].userID = runs[q].userID
    BY <1>1, <1>2, <1>3, <1>4, <1>5, <1>6, <1>7, <1>8 DEF StoreNext, storeVars
  <1>. QED
    BY <1>1, <1>9 DEF RunExists

RowsOfRuns ==
  \A r \in RunIDs, g \in GuildKeys : scans[r][g] # NoRow => RunExists(r)

\* What is on record of an identity is that it is the target, or is not, by
\* its id alone, however often and with whatever names it was seen.
ConfirmsTheTarget ==
  \A r \in RunIDs, g \in GuildKeys, i \in Identities :
    observations[r][g][i] # NoRow =>
      /\ RunExists(r)
      /\ observations[r][g][i] = "confirmed" <=> IdentUser[i] = runs[r].userID

ReasonInv == RowsOfRuns /\ ConfirmsTheTarget /\ ConfirmedByItsReason

\* What explains a row goes on doing so when evidence is only added.
LEMMA ExplainsOn ==
  ASSUME NEW row, NEW target, NEW obsT, NEW obsT2, NEW msgT, NEW msgT2,
         Explains(row, target, obsT, msgT),
         \A i \in Identities : obsT[i] # NoRow => obsT2[i] = obsT[i],
         \A m \in MessageIDs : msgT[m] # NoRow => msgT2[m] # NoRow
  PROVE  Explains(row, target, obsT2, msgT2)
  <1>1. "confirmed" # NoRow
    BY NoRowAssumption DEF MatchKinds
  <1>. QED
    BY <1>1 DEF Explains

\* A confirming summary is explained by its own batch once that is inserted.
LEMMA BatchExplains ==
  ASSUME NEW scan, NEW target, NEW table \in ObservationTable, NEW obs \in ObservationBatches,
         NEW msgTable \in MessageTable, NEW msgs \in MessageBatches,
         scan.best = "confirmed", SummaryFits(scan, obs, msgs),
         \A i \in DOMAIN obs : obs[i] = "confirmed" <=> IdentUser[i] = target,
         \A i \in Identities : table[i] # NoRow =>
           (table[i] = "confirmed" <=> IdentUser[i] = target)
  PROVE  Explains(scan, target, InsertedObservations(table, obs), UpsertedMessages(msgTable, msgs))
  <1>1. CASE /\ scan.reason = "user_id_exact"
             /\ \E i \in DOMAIN obs : obs[i] = "confirmed" /\ IdentUser[i] = scan.user
    <2>1. PICK i \in DOMAIN obs : obs[i] = "confirmed" /\ IdentUser[i] = scan.user
      BY <1>1
    <2>2. i \in Identities /\ IdentUser[i] = target
      BY <2>1, ObservationBatch
    <2>3. InsertedObservations(table, obs)[i] = "confirmed"
      BY <2>1, <2>2 DEF InsertedObservations
    <2>. QED
      BY <1>1, <2>1, <2>2, <2>3 DEF Explains
  <1>2. CASE /\ scan.reason = "message_author_id_exact"
             /\ \E m \in DOMAIN msgs : MessageAuthor[m] = scan.user
    BY <1>2, UpsertMessages, MessageBatch DEF Explains
  <1>. QED
    BY <1>1, <1>2 DEF SummaryFits

LEMMA RecordingExplains ==
  ASSUME StoreTypeOK, ReasonInv, NEW r \in RunIDs, NEW g \in GuildKeys,
         NEW scan \in UnreadScans \cup ReadScans,
         NEW obs \in ObservationBatches, NEW msgs \in MessageBatches,
         Recording(r, g, scan, obs, msgs)
  PROVE  ReasonInv'
  <1> DEFINE old == scans[r][g]
             row == UpsertedScan(old, scan)
             obsT == InsertedObservations(observations[r][g], obs)
             msgT == UpsertedMessages(messages[r][g], msgs)
  <1>1. /\ old \in ScanRows \cup {NoRow} /\ scan \in ScanRows
        /\ observations[r][g] \in ObservationTable /\ messages[r][g] \in MessageTable
    BY EngineScanIsScanRow DEF StoreTypeOK, ObservationTable, MessageTable
  <1>2. /\ runs' = runs /\ RunExists(r)
        /\ \A i \in DOMAIN obs : obs[i] = "confirmed" <=> IdentUser[i] = runs[r].userID
        /\ SummaryFits(scan, obs, msgs)
    BY DEF Recording
  <1>3. \A q \in RunIDs, h \in GuildKeys :
          /\ scans'[q][h] = IF q = r /\ h = g THEN row ELSE scans[q][h]
          /\ observations'[q][h] = IF q = r /\ h = g THEN obsT ELSE observations[q][h]
          /\ messages'[q][h] = IF q = r /\ h = g THEN msgT ELSE messages[q][h]
    BY DEF Recording
  <1>4. \A i \in Identities : observations[r][g][i] # NoRow =>
          (observations[r][g][i] = "confirmed" <=> IdentUser[i] = runs[r].userID)
    BY DEF ReasonInv, ConfirmsTheTarget
  <1>5. \A i \in Identities : obsT[i] # NoRow =>
          (obsT[i] = "confirmed" <=> IdentUser[i] = runs[r].userID)
    BY <1>2, <1>4 DEF InsertedObservations
  <1>6. row.best = "confirmed" => Explains(row, runs[r].userID, obsT, msgT)
    <2>1. CASE old = NoRow
      <3>1. row = scan
        BY <2>1 DEF UpsertedScan
      <3>. QED
        BY <1>1, <1>2, <1>4, <3>1, BatchExplains
    <2>2. CASE old # NoRow /\ scan.best = "confirmed"
      <3>1. row.reason = scan.reason /\ row.user = scan.user
        BY <2>2 DEF UpsertedScan, MergedScan, Promotes, PromotedReason, PromotedUser
      <3>2. Explains(scan, runs[r].userID, obsT, msgT)
        BY <1>1, <1>2, <1>4, <2>2, BatchExplains
      <3> HIDE DEF row, obsT, msgT
      <3>. QED
        BY <3>1, <3>2 DEF Explains
    <2>3. CASE old # NoRow /\ scan.best # "confirmed" /\ row.best = "confirmed"
      <3>1. old.best = "confirmed"
        BY <1>1, <2>3, MergePromotes DEF UpsertedScan
      <3>2. row.reason = old.reason /\ row.user = old.user
        BY <2>3, <3>1 DEF UpsertedScan, MergedScan, Promotes, PromotedReason, PromotedUser
      <3>3. Explains(old, runs[r].userID, observations[r][g], messages[r][g])
        BY <2>3, <3>1 DEF ReasonInv, ConfirmedByItsReason
      <3>4. Explains(old, runs[r].userID, obsT, msgT)
        BY <1>1, <3>3, ExplainsOn, InsertObservations, UpsertMessages
      <3> HIDE DEF row, obsT, msgT, old
      <3>. QED
        BY <3>2, <3>4 DEF Explains
    <2>. QED
      BY <2>1, <2>2, <2>3
  <1> HIDE DEF row, obsT, msgT
  <1>7. RowsOfRuns'
    BY <1>2, <1>3 DEF ReasonInv, RowsOfRuns, RunExists
  <1>8. ConfirmsTheTarget'
    BY <1>2, <1>3, <1>5 DEF ReasonInv, ConfirmsTheTarget, RunExists
  <1>9. ConfirmedByItsReason'
    <2>1. ASSUME NEW q \in RunIDs, NEW h \in GuildKeys,
                 scans'[q][h] # NoRow, scans'[q][h].best = "confirmed"
          PROVE  Explains(scans'[q][h], runs'[q].userID, observations'[q][h], messages'[q][h])
      <3>1. CASE q = r /\ h = g
        BY <1>2, <1>3, <1>6, <2>1, <3>1
      <3>2. CASE ~(q = r /\ h = g)
        <4>1. /\ scans'[q][h] = scans[q][h]
              /\ observations'[q][h] = observations[q][h]
              /\ messages'[q][h] = messages[q][h]
          BY <1>3, <3>2
        <4>. QED
          BY <1>2, <2>1, <4>1 DEF ReasonInv, ConfirmedByItsReason
      <3>. QED
        BY <3>1, <3>2
    <2>. QED
      BY <2>1 DEF ConfirmedByItsReason, Explains
  <1>. QED
    BY <1>7, <1>8, <1>9 DEF ReasonInv

\* The other steps add no row of a guild, and leave every run its target.
LEMMA OtherExplains ==
  ASSUME StoreTypeOK, ReasonInv, [StoreNext]_storeVars, Quiet \/ Renaming
  PROVE  ReasonInv'
  <1>1. /\ scans' = scans /\ observations' = observations
        /\ \A r \in RunIDs, g \in GuildKeys, m \in MessageIDs :
             messages[r][g][m] # NoRow => messages'[r][g][m] # NoRow
    BY DEF Quiet, Renaming
  <1>2. \A r \in RunIDs : RunExists(r) => runs'[r] # NoRow /\ runs'[r].userID = runs[r].userID
    BY TargetsStay DEF RunExists
  <1>3. RowsOfRuns' /\ ConfirmsTheTarget'
    BY <1>1, <1>2 DEF ReasonInv, RowsOfRuns, ConfirmsTheTarget, RunExists
  <1>4. ASSUME NEW r \in RunIDs, NEW g \in GuildKeys,
               scans'[r][g] # NoRow, scans'[r][g].best = "confirmed"
        PROVE  Explains(scans'[r][g], runs'[r].userID, observations'[r][g], messages'[r][g])
    <2>1. Explains(scans[r][g], runs[r].userID, observations[r][g], messages[r][g])
      BY <1>1, <1>4 DEF ReasonInv, ConfirmedByItsReason
    <2>2. runs'[r].userID = runs[r].userID
      BY <1>1, <1>2, <1>4 DEF ReasonInv, RowsOfRuns
    <2>3. Explains(scans[r][g], runs[r].userID, observations'[r][g], messages'[r][g])
      BY <1>1, <2>1, ExplainsOn
    <2>. QED
      BY <1>1, <2>2, <2>3
  <1>5. ConfirmedByItsReason'
    BY <1>4 DEF ConfirmedByItsReason, Explains
  <1>. QED
    BY <1>3, <1>5 DEF ReasonInv

LEMMA ReasonStep == StoreTypeOK /\ ReasonInv /\ [StoreNext]_storeVars => ReasonInv'
  BY StepKinds, RecordingExplains, OtherExplains

LEMMA StoreExplains == StoreSpec => [](StoreTypeOK /\ ReasonInv)
  <1>1. StoreInit => ReasonInv
    BY DEF StoreInit, ReasonInv, RowsOfRuns, ConfirmsTheTarget, ConfirmedByItsReason
  <1>. QED
    BY <1>1, TypeInit, TypeStep, ReasonStep, PTL DEF StoreSpec

\* The CASE of the three columns, ON CONFLICT DO NOTHING and the transaction
\* together: a confirmation can be traced to what it says it rests on.
THEOREM ConfirmationsAreExplained == StoreSpec => []ConfirmedByItsReason
  <1>1. ReasonInv => ConfirmedByItsReason
    BY DEF ReasonInv
  <1>. QED
    BY <1>1, StoreExplains, PTL

\* A run that looks for a name has no id to compare: it only ever confirms a
\* guild by a message, and no identity it records is confirmed.
NamesAreConfirmedByMessages ==
  \A r \in RunIDs, g \in GuildKeys :
    scans[r][g] # NoRow /\ runs[r].userID = NoUser =>
      /\ scans[r][g].best = "confirmed" => scans[r][g].reason = "message_author_id_exact"
      /\ \A i \in Identities : observations[r][g][i] # "confirmed"

\* Names alone never confirm a member: what a search for a username confirms,
\* it confirms by the author of a message.
THEOREM NamesConfirmNoMember == StoreSpec => []NamesAreConfirmedByMessages
  <1>1. StoreTypeOK /\ ReasonInv => NamesAreConfirmedByMessages
    <2>1. \A i \in Identities : IdentUser[i] # NoUser
      BY StoreAssumption
    <2>2. "confirmed" # NoRow
      BY NoRowAssumption DEF MatchKinds
    <2>. QED
      BY <2>1, <2>2 DEF ReasonInv, ConfirmsTheTarget, ConfirmedByItsReason, Explains,
                        NamesAreConfirmedByMessages
  <1>. QED
    BY <1>1, StoreExplains, PTL
=============================================================================
