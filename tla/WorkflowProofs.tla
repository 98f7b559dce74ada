--------------------------- MODULE WorkflowProofs ---------------------------
(***************************************************************************)
(* Proofs about the engine, for any servers, members, messages and         *)
(* answers: it is a lawful caller of the store, so that every theorem      *)
(* about the store holds of a search, and what it does to runs, to the     *)
(* account's guilds and to the servers it has completed.                   *)
(***************************************************************************)
EXTENDS WorkflowProps, StoreProofs, FiniteSetTheorems, SequenceTheorems

Entering == {"resolve", "join", "solve", "discovery"}
Examining == {"match", "messages", "probe", "record"}
Inside == Entering \cup Examining \cup {"leave"}

ControlOK ==
  /\ pc \in Places /\ job \in Jobs /\ visit \in Visits /\ cancelled \in BOOLEAN
  /\ {memberships, home, stranded} \subseteq SUBSET GuildKeys
  /\ planned \in [RunIDs -> SUBSET Servers] /\ finished \in [RunIDs -> SUBSET Invites]
  /\ declared \subseteq RunIDs

\* The run of the job is open and for the job's target, and rows are only of
\* runs there are.
RunInv ==
  /\ pc # "idle" =>
       /\ job.run \in RunIDs /\ RunExists(job.run)
       /\ runs[job.run].userID = job.target
       /\ runs[job.run].status # "complete"
  /\ \A r \in RunIDs, g \in GuildKeys : scans[r][g] # NoRow => RunExists(r)

\* Until Ctrl-C, what is walked is saved.
SavedInv ==
  ~cancelled =>
    /\ pc \in Inside \cup {"walk"} => \A i \in DOMAIN job.queue : job.queue[i].invite \in servers
    /\ pc \in Inside => visit.scan.invite \in servers

\* A guild that has not been read is described as such.
Unread ==
  /\ visit.scan.best = "unknown" /\ visit.scan.reason = "none"
  /\ visit.scan.user = NoUser /\ visit.scan.coverage = "partial"
  /\ DOMAIN visit.obs = {} /\ DOMAIN visit.msgs = {}

\* The summary of a guild that is being read is backed by what was found.
Backed ==
  /\ SummaryFits(visit.scan, visit.obs, visit.msgs)
  /\ CheckHolds(visit.scan)
  /\ visit.scan.coverage \in {"bounded", "complete"}
  /\ \A i \in DOMAIN visit.obs : visit.obs[i] = KindOf(i)

VisitInv ==
  /\ pc \notin Inside => visit = NoVisit
  /\ pc = "resolve" => visit.membership = "none" /\ visit.lookedUp = FALSE
  /\ pc \in Entering => Unread
  /\ pc \in Examining => Backed
  /\ pc = "match" => DOMAIN visit.msgs = {}

IInv == StoreTypeOK /\ ControlOK /\ RunInv /\ SavedInv /\ VisitInv

-----------------------------------------------------------------------------
(* What a step does to the store *)

Lawful(scan, obs, msgs) ==
  /\ scan \in UnreadScans \cup ReadScans
  /\ obs \in ObservationBatches /\ msgs \in MessageBatches
  /\ CallerContract(job.run, scan, obs, msgs)
  /\ CheckHolds(scan)

Creates ==
  \E r \in RunIDs, u \in Users \cup {NoUser}, n \in Names,
     d \in Names \cup {NoName}, a \in Avatars \cup {NoAvatar} :
    CreateRunAtomic(r, u, n, d, a) /\ pc = "idle"

Saves == \E codes \in SUBSET Invites : SaveDiscoveredServers(codes)

Closes == job.run \in RunIDs /\ UpdateRunStatus(job.run, "complete")

Fills ==
  \E a \in Avatars, n \in Names \cup {NoName} :
    job.run \in RunIDs /\ UpdateRunTargetProfile(job.run, a, n)

Records ==
  \E g \in GuildKeys, scan \in UnreadScans \cup ReadScans,
     obs \in ObservationBatches, msgs \in MessageBatches :
    /\ job.run \in RunIDs /\ Lawful(scan, obs, msgs)
    /\ RecordGuildScanTransaction(job.run, g, scan, obs, msgs)

\* Every effect but that of a run's end.
OpenEffect == UNCHANGED storeVars \/ Creates \/ Saves \/ Fills \/ Records

StoreEffect == OpenEffect \/ Closes

LEMMA EffectIsLawful ==
  ASSUME StoreEffect
  PROVE  [StoreNext]_storeVars
  <1>1. CASE Creates
    BY <1>1 DEF Creates, StoreNext
  <1>2. CASE Saves
    BY <1>2 DEF Saves, StoreNext
  <1>3. CASE Closes
    BY <1>3 DEF Closes, StoreNext
  <1>4. CASE Fills
    BY <1>4 DEF Fills, StoreNext
  <1>5. CASE Records
    <2>1. PICK g \in GuildKeys, scan \in UnreadScans \cup ReadScans,
               obs \in ObservationBatches, msgs \in MessageBatches :
            /\ job.run \in RunIDs /\ Lawful(scan, obs, msgs)
            /\ RecordGuildScanTransaction(job.run, g, scan, obs, msgs)
      BY <1>5 DEF Records
    <2> DEFINE rec == [scan |-> scan, obs |-> obs, msgs |-> msgs]
    <2>2. CallerContract(job.run, rec.scan, rec.obs, rec.msgs)
      BY <2>1 DEF Lawful
    <2>3. rec \in Recordable
      BY <2>2 DEF Recordable, CallerContract
    <2>. QED
      BY <2>1, <2>2, <2>3 DEF StoreNext
  <1>. QED
    BY <1>1, <1>2, <1>3, <1>4, <1>5 DEF StoreEffect, OpenEffect

\* A commit of a lawful row leaves a row, and only in its own run.
LEMMA RecordingLeavesARow ==
  ASSUME StoreTypeOK, job.run \in RunIDs, NEW g \in GuildKeys, NEW scan, NEW obs, NEW msgs,
         Lawful(scan, obs, msgs),
         RecordGuildScanTransaction(job.run, g, scan, obs, msgs)
  PROVE  /\ scans'[job.run][g] # NoRow
         /\ runs' = runs /\ servers' = servers
         /\ \A q \in RunIDs, h \in GuildKeys : q # job.run \/ h # g =>
              /\ scans'[q][h] = scans[q][h]
              /\ observations'[q][h] = observations[q][h]
              /\ messages'[q][h] = messages[q][h]
         /\ scans'[job.run][g].invite \in {scans[job.run][g].invite, scan.invite}
         /\ scans[job.run][g] = NoRow => scans'[job.run][g].invite = scan.invite
  <1> DEFINE old == scans[job.run][g]
             row == UpsertedScan(old, scan)
             obsT == InsertedObservations(observations[job.run][g], obs)
             msgT == UpsertedMessages(messages[job.run][g], msgs)
  <1>1. old \in ScanTable /\ scan \in UnreadScans \cup ReadScans
    BY DEF StoreTypeOK, ScanTable, Lawful
  <1>2. row \in ScanRows /\ row # NoRow
    BY <1>1, UpsertIsScanRow, NoRowAssumption
  <1>3. row.invite \in {old.invite, scan.invite} /\ (old = NoRow => row.invite = scan.invite)
    BY DEF UpsertedScan, MergedScan
  <1>4. CASE AcceptsScan(job.run, g, scan)
    <2>1. /\ scans' = [scans EXCEPT ![job.run][g] = row]
          /\ observations' = [observations EXCEPT ![job.run][g] = obsT]
          /\ messages' = [messages EXCEPT ![job.run][g] = msgT]
          /\ runs' = runs /\ servers' = servers
      BY <1>4 DEF RecordGuildScanTransaction
    <2> HIDE DEF row, obsT, msgT
    <2>2. scans'[job.run][g] = row
      BY <2>1 DEF StoreTypeOK
    <2>3. \A q \in RunIDs, h \in GuildKeys : q # job.run \/ h # g =>
              /\ scans'[q][h] = scans[q][h]
              /\ observations'[q][h] = observations[q][h]
              /\ messages'[q][h] = messages[q][h]
      BY <2>1 DEF StoreTypeOK
    <2>. QED
      BY <1>2, <1>3, <2>1, <2>2, <2>3
  <1>5. CASE ~AcceptsScan(job.run, g, scan)
    <2>1. UNCHANGED storeVars
      BY <1>5 DEF RecordGuildScanTransaction
    <2>2. old # NoRow
      BY <1>5 DEF AcceptsScan, Lawful, UpsertedScan
    <2>. QED
      BY <2>1, <2>2 DEF storeVars
  <1>. QED
    BY <1>4, <1>5

\* Nothing of a run is ever lost, and nothing of another run is touched.
LEMMA EffectKeeps ==
  ASSUME StoreTypeOK, StoreEffect
  PROVE  /\ servers \subseteq servers'
         /\ \A r \in RunIDs : RunExists(r) =>
              /\ runs'[r] # NoRow /\ runs'[r].userID = runs[r].userID
              /\ r # job.run => runs'[r] = runs[r]
              /\ OpenEffect => runs'[r].status = runs[r].status
         /\ \A r \in RunIDs, g \in GuildKeys :
              /\ scans[r][g] # NoRow => scans'[r][g] # NoRow
              /\ scans'[r][g] # NoRow => scans[r][g] # NoRow \/ (r = job.run /\ RunExists(r))
              /\ r # job.run =>
                   /\ scans'[r][g] = scans[r][g]
                   /\ observations'[r][g] = observations[r][g]
                   /\ messages'[r][g] = messages[r][g]
  <1>1. CASE UNCHANGED storeVars
    BY <1>1 DEF storeVars, RunExists
  <1>2. CASE Creates
    BY <1>2, NoRowAssumption DEF Creates, CreateRunAtomic, RunExists, StoreTypeOK
  <1>3. CASE Saves
    BY <1>3 DEF Saves, SaveDiscoveredServers, RunExists
  <1>4. CASE Closes /\ ~OpenEffect
    <2>1. \A row \in RunRows : /\ WithStatus(row, "complete") \in RunRows
                               /\ WithStatus(row, "complete").userID = row.userID
      BY WithStatusIsRunRow DEF WithStatus, RunRows
    <2>2. \A r \in RunIDs : RunExists(r) =>
            runs[r] \in RunRows /\ runs'[r] \in {runs[r], WithStatus(runs[r], "complete")}
      BY <1>4 DEF Closes, UpdateRunStatus, RunExists, StoreTypeOK
    <2>3. \A r \in RunIDs : RunExists(r) /\ r # job.run => runs'[r] = runs[r]
      BY <1>4 DEF Closes, UpdateRunStatus, RunExists, StoreTypeOK
    <2>. QED
      BY <1>4, <2>1, <2>2, <2>3, NoRowAssumption DEF Closes, UpdateRunStatus
  <1>5. CASE Fills
    <2>1. PICK a \in Avatars, n \in Names \cup {NoName} : UpdateRunTargetProfile(job.run, a, n)
      BY <1>5 DEF Fills
    <2>2. \A row \in RunRows :
            /\ FilledProfile(row, a, n) \in RunRows
            /\ FilledProfile(row, a, n).userID = row.userID
            /\ FilledProfile(row, a, n).status = row.status
      BY FilledProfileIsRunRow DEF FilledProfile, RunRows
    <2>3. \A r \in RunIDs : RunExists(r) =>
            runs[r] \in RunRows /\ runs'[r] \in {runs[r], FilledProfile(runs[r], a, n)}
      BY <2>1 DEF UpdateRunTargetProfile, RunExists, StoreTypeOK
    <2>4. \A r \in RunIDs : RunExists(r) /\ r # job.run => runs'[r] = runs[r]
      BY <2>1 DEF UpdateRunTargetProfile, RunExists, StoreTypeOK
    <2>. QED
      BY <2>1, <2>2, <2>3, <2>4, NoRowAssumption DEF UpdateRunTargetProfile
  <1>6. CASE Records
    <2>1. PICK g \in GuildKeys, scan \in UnreadScans \cup ReadScans,
               obs \in ObservationBatches, msgs \in MessageBatches :
            /\ job.run \in RunIDs /\ Lawful(scan, obs, msgs)
            /\ RecordGuildScanTransaction(job.run, g, scan, obs, msgs)
      BY <1>6 DEF Records
    <2>2. RunExists(job.run)
      BY <2>1 DEF Lawful, CallerContract
    <2>. QED
      BY <2>1, <2>2, RecordingLeavesARow DEF RunExists
  <1>. QED
    BY <1>1, <1>2, <1>3, <1>4, <1>5, <1>6 DEF StoreEffect, OpenEffect

-----------------------------------------------------------------------------
(* The values the engine holds *)

LEMMA NoVisitIsAVisit ==
  /\ NoVisit \in Visits
  /\ NoVisit.membership = "none" /\ NoVisit.lookedUp = FALSE
  /\ \A server \in Servers :
       /\ Visiting(server) \in Visits
       /\ Visiting(server).key = server.key /\ Visiting(server).scan.invite = server.invite
       /\ Visiting(server).membership = "none" /\ Visiting(server).lookedUp = FALSE
  <1>1. \A invite \in Invites : FreshScan(invite) \in ScanRows /\ FreshScan(invite).invite = invite
    BY DEF FreshScan, ScanRows, ScanStatuses, NonTerminal, MatchLevels, Reasons, Coverages
  <1>2. (CHOOSE c \in Invites : TRUE) \in Invites /\ (CHOOSE g \in GuildKeys : TRUE) \in GuildKeys
    BY WorkflowAssumption
  <1>3. <<>> \in ObservationBatches /\ <<>> \in MessageBatches
    <2>1. <<>> \in [{} -> MatchKinds] /\ <<>> \in [{} -> MessageRows]
      OBVIOUS
    <2>. QED
      BY <2>1 DEF ObservationBatches, MessageBatches
  <1>4. NoVisit \in Visits
    BY <1>1, <1>2, <1>3 DEF NoVisit, Visits, MaxJoinAttempts
  <1>5. \A server \in Servers : server.invite \in Invites /\ server.key \in GuildKeys
    BY DEF Servers
  <1>6. ASSUME NEW server \in Servers
        PROVE  /\ Visiting(server) \in Visits
               /\ Visiting(server).key = server.key
               /\ Visiting(server).scan = FreshScan(server.invite)
               /\ Visiting(server).membership = "none" /\ Visiting(server).lookedUp = FALSE
    <2>1. FreshScan(server.invite) \in ScanRows
      BY <1>1, <1>5
    <2>2. /\ NoVisit.membership = "none" /\ NoVisit.lookedUp = FALSE
      BY DEF NoVisit
    <2>. QED
      BY <1>4, <1>5, <2>1, <2>2 DEF Visiting, Visits
  <1>7. NoVisit.membership = "none" /\ NoVisit.lookedUp = FALSE
    BY DEF NoVisit
  <1>. QED
    BY <1>1, <1>4, <1>5, <1>6, <1>7

LEMMA VisitingIsUnread ==
  ASSUME NEW server \in Servers, visit' = Visiting(server)
  PROVE  Unread'
  BY DEF Visiting, NoVisit, FreshScan, Unread

LEMMA NoJobIsAJob == NoJob \in Jobs
  BY DEF NoJob, Jobs

LEMMA AvatarsAndNames ==
  ASSUME NEW u \in Users
  PROVE  AvatarOf[u] \in Avatars \cup {NoAvatar} /\ NameOf[u] \in Names \cup {NoName}
  BY WorkflowAssumption

\* Filling the profile is a lawful call, or none.
LEMMA FillingIsLawful ==
  ASSUME job.run \in RunIDs, NEW u \in Users, FillProfile(u)
  PROVE  OpenEffect
  BY AvatarsAndNames DEF FillProfile, OpenEffect, Fills

\* A guild that was not read is recorded lawfully.
LEMMA GivingUpIsLawful ==
  ASSUME IInv, pc \in Entering, NEW status \in {"error", "blocked"}, GiveUp(status)
  PROVE  /\ OpenEffect
         /\ pc' = "walk" /\ visit' = NoVisit /\ UNCHANGED <<job, cancelled>>
         /\ ~cancelled => scans'[job.run][visit.key] # NoRow
  <1> DEFINE scan == [visit.scan EXCEPT !.status = status]
  <1>1. pc' = "walk" /\ visit' = NoVisit /\ UNCHANGED <<job, cancelled>>
    BY DEF GiveUp, BackToWalk, Continue
  <1>2. visit.scan \in ScanRows /\ visit.key \in GuildKeys
    BY DEF IInv, ControlOK, Visits
  <1>3. Unread /\ job.run \in RunIDs /\ RunExists(job.run)
    BY DEF IInv, VisitInv, RunInv, Entering
  <1>4. CASE cancelled
    BY <1>1, <1>4 DEF GiveUp, Checkpoint, OpenEffect
  <1>5. CASE ~cancelled
    <2>1. RecordGuildScanTransaction(job.run, visit.key, scan, <<>>, <<>>)
      BY <1>5 DEF GiveUp, Checkpoint
    <2>2. /\ scan.best = "unknown" /\ scan.reason = "none" /\ scan.user = NoUser
          /\ scan.coverage = "partial" /\ scan.status = status /\ scan.invite = visit.scan.invite
      BY <1>2, <1>3 DEF Unread, ScanRows
    <2>3. scan \in UnreadScans
      <3>1. scan \in ScanRows
        BY <1>2 DEF ScanRows, ScanStatuses, Terminal, NonTerminal
      <3>. QED
        BY <2>2, <3>1 DEF UnreadScans, ScanRows
    <2>4. visit.scan.invite \in servers
      BY <1>5 DEF IInv, SavedInv, Inside
    <2>5. <<>> \in ObservationBatches /\ <<>> \in MessageBatches
      <3>1. <<>> \in [{} -> MatchKinds] /\ <<>> \in [{} -> MessageRows]
        OBVIOUS
      <3>. QED
        BY <3>1 DEF ObservationBatches, MessageBatches
    <2> HIDE DEF scan
    <2>6. Lawful(scan, <<>>, <<>>)
      BY <1>3, <2>2, <2>3, <2>4, <2>5 DEF Lawful, CallerContract, SummaryFits, CheckHolds
    <2>7. Records
      BY <1>2, <1>3, <2>1, <2>3, <2>5, <2>6 DEF Records
    <2>. QED
      BY <1>1, <1>2, <1>3, <2>1, <2>6, <2>7, RecordingLeavesARow DEF OpenEffect, IInv
  <1>. QED
    BY <1>4, <1>5

-----------------------------------------------------------------------------
(* The steps of a visit *)

HistoryOK ==
  /\ {memberships, home, stranded} \subseteq SUBSET GuildKeys
  /\ planned \in [RunIDs -> SUBSET Servers] /\ finished \in [RunIDs -> SUBSET Invites]
  /\ declared \subseteq RunIDs

\* A step of a visit keeps the job and the invite, or ends the visit.
Advances ==
  /\ OpenEffect
  /\ UNCHANGED <<job, cancelled>>
  /\ pc \in Inside /\ pc' \in Inside \cup {"walk"}
  /\ pc' \in Inside => visit'.scan.invite = visit.scan.invite
  /\ visit' \in Visits
  /\ VisitInv'
  /\ HistoryOK'

LEMMA InvHolds ==
  ASSUME IInv
  PROVE  /\ StoreTypeOK /\ HistoryOK
         /\ visit \in Visits /\ visit.scan \in ScanRows /\ visit.key \in GuildKeys
         /\ visit.scan.invite \in Invites
         /\ visit.obs \in ObservationBatches /\ visit.msgs \in MessageBatches
         /\ visit.scan.user \in Users \cup {NoUser}
         /\ pc \in Inside => job.run \in RunIDs /\ RunExists(job.run)
         /\ pc \in Entering => Unread
         /\ pc \in Examining => Backed
  <1>1. visit \in Visits /\ visit.scan \in ScanRows
    BY DEF IInv, ControlOK, Visits
  <1>. QED
    BY <1>1 DEF IInv, ControlOK, HistoryOK, Visits, ScanRows, RunInv, VisitInv, Inside, Entering, Examining

\* The visit ends without the guild having been read.
LEMMA EndedVisit ==
  ASSUME IInv, HistoryOK', pc \in Entering, NEW status \in {"error", "blocked"}, GiveUp(status)
  PROVE  Advances
  <1>1. /\ OpenEffect /\ pc' = "walk" /\ visit' = NoVisit /\ UNCHANGED <<job, cancelled>>
    BY GivingUpIsLawful
  <1>. QED
    BY <1>1, NoVisitIsAVisit DEF Advances, VisitInv, Inside, Entering, Examining

LEMMA ResolveFailsStep ==
  ASSUME IInv, ResolveFails
  PROVE  Advances
  <1>1. HistoryOK'
    BY InvHolds DEF ResolveFails, HistoryOK, historyVars
  <1>. QED
    BY <1>1, EndedVisit DEF ResolveFails, Entering

LEMMA ResolveStep ==
  ASSUME IInv, Resolve
  PROVE  Advances
  <1>1. HistoryOK'
    BY InvHolds DEF Resolve, HistoryOK, historyVars
  <1>2. PICK lookedUp \in BOOLEAN, already \in BOOLEAN :
          /\ visit' = [visit EXCEPT !.key = InviteGuild[visit.scan.invite], !.lookedUp = lookedUp,
                              !.membership = IF already THEN "already" ELSE "none"]
          /\ pc' = IF already THEN "discovery" ELSE "join"
          /\ UNCHANGED <<job, cancelled, storeVars>>
          /\ pc = "resolve"
    BY DEF Resolve, Continue
  <1>3. InviteGuild[visit.scan.invite] \in GuildKeys
    BY InvHolds, WorkflowAssumption
  <1>4. /\ visit' \in Visits
        /\ visit'.scan = visit.scan /\ visit'.obs = visit.obs /\ visit'.msgs = visit.msgs
    BY <1>2, <1>3, InvHolds DEF Visits
  <1>5. Unread'
    BY <1>2, <1>4, InvHolds DEF Unread, Entering
  <1>6. pc' \in {"join", "discovery"}
    BY <1>2
  <1>7. VisitInv'
    BY <1>5, <1>6 DEF VisitInv, Inside, Entering, Examining
  <1>. QED
    BY <1>1, <1>2, <1>4, <1>6, <1>7 DEF Advances, OpenEffect, Inside, Entering

LEMMA JoinStep ==
  ASSUME IInv, Join
  PROVE  Advances
  <1>1. /\ pc = "join" /\ pc' = "discovery" /\ UNCHANGED <<job, cancelled, storeVars, historyVars>>
        /\ visit' = [visit EXCEPT !.membership = "joined"]
        /\ memberships' = memberships \cup {visit.key}
    BY DEF Join, Continue
  <1>2. HistoryOK'
    BY <1>1, InvHolds DEF HistoryOK, historyVars
  <1>3. /\ visit' \in Visits
        /\ visit'.scan = visit.scan /\ visit'.obs = visit.obs /\ visit'.msgs = visit.msgs
    BY <1>1, InvHolds DEF Visits
  <1>4. Unread'
    BY <1>1, <1>3, InvHolds DEF Unread, Entering
  <1>5. VisitInv'
    BY <1>1, <1>4 DEF VisitInv, Inside, Entering, Examining
  <1>. QED
    BY <1>1, <1>2, <1>3, <1>5 DEF Advances, OpenEffect, Inside, Entering

LEMMA JoinFailsStep ==
  ASSUME IInv, JoinFails
  PROVE  Advances
  <1>1. PICK joined \in SUBSET {visit.key} :
          /\ memberships' = memberships \cup joined
          /\ stranded' = stranded \cup (joined \ memberships)
          /\ UNCHANGED <<planned, finished, home, declared>>
          /\ pc = "join" /\ GiveUp("blocked")
    BY DEF JoinFails, Strand
  <1>2. HistoryOK'
    BY <1>1, InvHolds DEF HistoryOK
  <1>. QED
    BY <1>1, <1>2, EndedVisit DEF Entering

LEMMA JoinChallengedStep ==
  ASSUME IInv, JoinChallenged
  PROVE  Advances
  <1>1. HistoryOK' /\ pc = "join"
    BY InvHolds DEF JoinChallenged, HistoryOK, historyVars
  <1>2. CASE ~job.solver
    BY <1>1, <1>2, EndedVisit DEF JoinChallenged, Entering
  <1>3. CASE job.solver
    <2>1. pc' = "solve" /\ UNCHANGED <<job, cancelled, storeVars, visit>>
      BY <1>3 DEF JoinChallenged, Continue
    <2>2. Unread'
      BY <1>1, <2>1, InvHolds DEF Unread, Entering
    <2>3. VisitInv'
      BY <2>1, <2>2 DEF VisitInv, Inside, Entering, Examining
    <2>. QED
      BY <1>1, <2>1, <2>3, InvHolds DEF Advances, OpenEffect, Inside, Entering
  <1>. QED
    BY <1>2, <1>3

LEMMA SolveFailsStep ==
  ASSUME IInv, SolveFails
  PROVE  Advances
  <1>1. HistoryOK'
    BY InvHolds DEF SolveFails, HistoryOK, historyVars
  <1>. QED
    BY <1>1, EndedVisit DEF SolveFails, Entering

LEMMA SolveStep ==
  ASSUME IInv, Solve
  PROVE  Advances
  <1>1. HistoryOK' /\ pc = "solve"
    BY InvHolds DEF Solve, HistoryOK, historyVars
  <1>2. CASE ~(visit.attempt + 1 < MaxJoinAttempts)
    BY <1>1, <1>2, EndedVisit DEF Solve, Entering
  <1>3. CASE visit.attempt + 1 < MaxJoinAttempts
    <2>1. /\ pc' = "join" /\ UNCHANGED <<job, cancelled, storeVars>>
          /\ visit' = [visit EXCEPT !.attempt = visit.attempt + 1]
      BY <1>3 DEF Solve, Continue
    <2>2. visit.attempt + 1 \in 0 .. MaxJoinAttempts - 1
      BY <1>3, InvHolds DEF Visits, MaxJoinAttempts
    <2>3. /\ visit' \in Visits
          /\ visit'.scan = visit.scan /\ visit'.obs = visit.obs /\ visit'.msgs = visit.msgs
      BY <2>1, <2>2, InvHolds DEF Visits
    <2>4. Unread'
      BY <1>1, <2>3, InvHolds DEF Unread, Entering
    <2>5. VisitInv'
      BY <2>1, <2>4 DEF VisitInv, Inside, Entering, Examining
    <2>. QED
      BY <1>1, <2>1, <2>3, <2>5 DEF Advances, OpenEffect, Inside, Entering
  <1>. QED
    BY <1>2, <1>3

LEMMA DiscoverMembersStep ==
  ASSUME IInv, DiscoverMembers
  PROVE  Advances
  <1>1. PICK matching \in SUBSET Identities :
          visit' = [visit EXCEPT !.scan.coverage = "bounded", !.pending = matching]
    BY DEF DiscoverMembers
  <1>2. pc = "discovery" /\ pc' = "match" /\ UNCHANGED <<job, cancelled, storeVars>> /\ HistoryOK'
    BY InvHolds DEF DiscoverMembers, Continue, HistoryOK, historyVars
  <1>3. /\ visit'.scan = [visit.scan EXCEPT !.coverage = "bounded"]
        /\ visit'.obs = visit.obs /\ visit'.msgs = visit.msgs
    BY <1>1, InvHolds DEF Visits, ScanRows
  <1>4. visit'.scan \in ScanRows
    BY <1>3, InvHolds DEF ScanRows, Coverages
  <1>5. visit' \in Visits
    BY <1>1, <1>4, InvHolds DEF Visits
  <1>6. Backed' /\ DOMAIN visit'.msgs = {}
    <2>1. /\ visit'.scan.best = "unknown" /\ visit'.scan.reason = "none"
          /\ visit'.scan.user = NoUser /\ visit'.scan.coverage = "bounded"
          /\ DOMAIN visit'.obs = {} /\ DOMAIN visit'.msgs = {}
      BY <1>2, <1>3, InvHolds DEF Unread, Entering, ScanRows
    <2>. QED
      BY <2>1 DEF Backed, SummaryFits, CheckHolds
  <1>7. visit'.scan.invite = visit.scan.invite
    BY <1>3, InvHolds DEF ScanRows
  <1>8. VisitInv'
    BY <1>2, <1>6 DEF VisitInv, Inside, Entering, Examining
  <1>. QED
    BY <1>2, <1>5, <1>7, <1>8 DEF Advances, OpenEffect, Inside, Entering, Examining

LEMMA MatchMemberStep ==
  ASSUME IInv, NEW i \in Identities, MatchMember(i)
  PROVE  Advances
  <1> DEFINE leads == KindOf(i) = "confirmed" \/ visit.scan.best # "confirmed"
  <1>1. PICK reason : 
          /\ reason \in IF KindOf(i) = "confirmed" THEN {"user_id_exact"} ELSE CandidateReasons
          /\ visit' = [visit EXCEPT
                          !.pending = @ \ {i},
                          !.obs = [j \in DOMAIN @ \cup {i} |-> KindOf(j)],
                          !.scan = IF leads THEN Summarised(@, i, reason) ELSE @]
    BY DEF MatchMember
  <1>2. /\ pc = "match" /\ pc' = "match" /\ UNCHANGED <<job, cancelled>> /\ HistoryOK'
        /\ IF leads THEN FillProfile(IdentUser[i]) ELSE UNCHANGED storeVars
    BY InvHolds DEF MatchMember, Continue, HistoryOK, historyVars
  <1>3. Backed /\ DOMAIN visit.msgs = {} /\ DOMAIN visit.obs \subseteq Identities
    BY <1>2, InvHolds, ObservationBatch DEF IInv, VisitInv, Examining
  <1>4. KindOf(i) \in MatchKinds /\ IdentUser[i] \in Users
    BY StoreAssumption DEF KindOf, MatchKinds
  <1>5. reason \in Reasons
    BY <1>1 DEF Reasons, ConfirmReasons
  <1>6. OpenEffect
    <2>1. job.run \in RunIDs
      BY <1>2, InvHolds DEF Inside, Examining
    <2>. QED
      BY <1>2, <1>4, <2>1, FillingIsLawful DEF OpenEffect
  <1>7. /\ visit'.obs = [j \in DOMAIN visit.obs \cup {i} |-> KindOf(j)]
        /\ visit'.scan = IF leads THEN Summarised(visit.scan, i, reason) ELSE visit.scan
        /\ visit'.msgs = visit.msgs
        /\ visit'.pending \in SUBSET Identities
    BY <1>1, InvHolds DEF Visits
  <1> HIDE DEF leads
  <1>8. visit'.obs \in ObservationBatches
    <2>1. visit'.obs \in [DOMAIN visit.obs \cup {i} -> MatchKinds]
      BY <1>7 DEF KindOf, MatchKinds
    <2>. QED
      BY <1>3, <2>1 DEF ObservationBatches
  <1>9. /\ Summarised(visit.scan, i, reason) \in ScanRows
        /\ Summarised(visit.scan, i, reason).best = KindOf(i)
        /\ Summarised(visit.scan, i, reason).reason = reason
        /\ Summarised(visit.scan, i, reason).user = IdentUser[i]
        /\ Summarised(visit.scan, i, reason).invite = visit.scan.invite
        /\ Summarised(visit.scan, i, reason).coverage = visit.scan.coverage
    BY <1>4, <1>5, InvHolds DEF Summarised, ScanRows, MatchKinds, MatchLevels
  <1>10. visit' \in Visits
    BY <1>1, <1>7, <1>8, <1>9, InvHolds DEF Visits
  <1>11. visit'.scan.invite = visit.scan.invite /\ visit'.scan.coverage = visit.scan.coverage
    BY <1>7, <1>9
  <1>12. \A j \in DOMAIN visit'.obs : visit'.obs[j] = KindOf(j)
    BY <1>7
  <1>13. i \in DOMAIN visit'.obs /\ visit'.obs[i] = KindOf(i)
    BY <1>7
  <1>14. SummaryFits(visit'.scan, visit'.obs, visit'.msgs) /\ CheckHolds(visit'.scan)
    <2>1. CASE leads
      <3>1. /\ visit'.scan.best = KindOf(i) /\ visit'.scan.reason = reason
            /\ visit'.scan.user = IdentUser[i]
        BY <1>7, <1>9, <2>1
      <3>2. CASE KindOf(i) = "confirmed"
        BY <1>1, <1>13, <3>1, <3>2 DEF SummaryFits, CheckHolds
      <3>3. CASE KindOf(i) = "candidate"
        <4>1. visit.scan.best # "confirmed"
          BY <2>1, <3>3 DEF leads
        <4>2. \A j \in DOMAIN visit.obs : visit.obs[j] = "candidate"
          BY <1>3, <4>1 DEF Backed, SummaryFits
        <4>3. \A j \in DOMAIN visit'.obs : visit'.obs[j] = "candidate"
          BY <1>3, <1>7, <3>3, <4>2 DEF Backed
        <4>4. reason \in CandidateReasons /\ DOMAIN visit'.msgs = {}
          BY <1>1, <1>3, <1>7, <3>3
        <4>. QED
          BY <1>13, <3>1, <3>3, <4>3, <4>4 DEF SummaryFits, CheckHolds
      <3>. QED
        BY <1>4, <3>2, <3>3 DEF MatchKinds
    <2>2. CASE ~leads
      <3>1. visit'.scan = visit.scan /\ visit.scan.best = "confirmed"
        BY <1>7, <2>2 DEF leads
      <3>2. PICK j \in DOMAIN visit.obs :
              /\ visit.scan.reason = "user_id_exact"
              /\ visit.obs[j] = "confirmed" /\ IdentUser[j] = visit.scan.user
        BY <1>3, <3>1 DEF Backed, SummaryFits
      <3>3. j \in DOMAIN visit'.obs /\ visit'.obs[j] = "confirmed"
        BY <1>3, <1>7, <3>2 DEF Backed
      <3>. QED
        BY <3>1, <3>2, <3>3 DEF SummaryFits, CheckHolds
    <2>. QED
      BY <2>1, <2>2
  <1>15. Backed'
    <2>1. \A j \in DOMAIN visit'.obs : visit'.obs[j] = KindOf(j)'
      BY <1>2, <1>12 DEF KindOf
    <2>. QED
      BY <1>3, <1>11, <1>14, <2>1 DEF Backed
  <1>16. VisitInv'
    BY <1>2, <1>3, <1>7, <1>15 DEF VisitInv, Inside, Entering, Examining
  <1>. QED
    BY <1>2, <1>6, <1>10, <1>11, <1>16 DEF Advances, Inside, Entering, Examining

LEMMA MatchDoneStep ==
  ASSUME IInv, MatchDone
  PROVE  Advances
  <1> DEFINE best == IF visit.obs = <<>> /\ visit.scan.coverage = "complete"
                     THEN "not_found" ELSE visit.scan.best
  <1>1. /\ pc = "match" /\ pc' = "messages" /\ UNCHANGED <<job, cancelled, storeVars>> /\ HistoryOK'
        /\ visit' = [visit EXCEPT !.scan.best = best]
    BY InvHolds DEF MatchDone, Continue, HistoryOK, historyVars
  <1>2. Backed /\ DOMAIN visit.msgs = {}
    BY <1>1, InvHolds DEF IInv, VisitInv, Examining
  <1>3. best \in MatchLevels
    BY InvHolds DEF ScanRows, MatchLevels
  <1>4. best # visit.scan.best =>
          DOMAIN visit.obs = {} /\ visit.scan.coverage = "complete" /\ best = "not_found"
    OBVIOUS
  <1> HIDE DEF best
  <1>5. /\ visit'.scan = [visit.scan EXCEPT !.best = best]
        /\ visit'.obs = visit.obs /\ visit'.msgs = visit.msgs
    BY <1>1, InvHolds DEF Visits, ScanRows
  <1>6. visit'.scan \in ScanRows
    BY <1>3, <1>5, InvHolds DEF ScanRows
  <1>7. visit' \in Visits
    BY <1>1, <1>6, InvHolds DEF Visits
  <1>8. /\ visit'.scan.best = best /\ visit'.scan.invite = visit.scan.invite
        /\ visit'.scan.reason = visit.scan.reason /\ visit'.scan.user = visit.scan.user
        /\ visit'.scan.coverage = visit.scan.coverage
    BY <1>5, InvHolds DEF ScanRows
  <1>9. SummaryFits(visit'.scan, visit'.obs, visit'.msgs) /\ CheckHolds(visit'.scan)
    <2>1. CASE best = visit.scan.best
      <3>1. visit'.scan = visit.scan
        BY <1>5, <2>1, InvHolds DEF ScanRows
      <3>. QED
        BY <1>2, <1>5, <3>1 DEF Backed
    <2>2. CASE best # visit.scan.best
      <3>1. visit.scan.reason = "none" /\ visit.scan.user = NoUser
        BY <1>2, <1>4, <2>2 DEF Backed, SummaryFits
      <3>. QED
        BY <1>2, <1>4, <1>5, <1>8, <2>2, <3>1 DEF SummaryFits, CheckHolds
    <2>. QED
      BY <2>1, <2>2
  <1>10. Backed'
    BY <1>1, <1>2, <1>5, <1>8, <1>9 DEF Backed, KindOf
  <1>11. VisitInv'
    BY <1>1, <1>10 DEF VisitInv, Inside, Entering, Examining
  <1>. QED
    BY <1>1, <1>7, <1>8, <1>11 DEF Advances, OpenEffect, Inside, Entering, Examining

LEMMA SearchMessagesStep ==
  ASSUME IInv, SearchMessages
  PROVE  Advances
  <1>1. PICK hits \in SUBSET MessageIDs, channel \in Names \cup {NoName} :
          /\ \E m \in hits : MessageAuthor[m] = SearchedUser
          /\ visit' = [visit EXCEPT
               !.msgs = [m \in hits |-> channel],
               !.scan = IF @.best = "confirmed" THEN @
                        ELSE [@ EXCEPT !.best = "confirmed", !.reason = "message_author_id_exact",
                                       !.user = SearchedUser]]
    BY DEF SearchMessages
  <1>2. /\ pc = "messages" /\ pc' = "probe" /\ UNCHANGED <<job, cancelled>> /\ HistoryOK'
        /\ FillProfile(SearchedUser) /\ SearchedUser # NoUser
    BY InvHolds DEF SearchMessages, Continue, HistoryOK, historyVars
  <1>3. Backed
    BY <1>2, InvHolds DEF Examining
  <1>4. SearchedUser \in Users
    BY <1>2, InvHolds DEF SearchedUser, IInv, ControlOK, Jobs
  <1>5. OpenEffect
    <2>1. job.run \in RunIDs
      BY <1>2, InvHolds DEF Inside, Examining
    <2>. QED
      BY <1>2, <1>4, <2>1, FillingIsLawful
  <1>6. /\ visit'.msgs = [m \in hits |-> channel] /\ visit'.obs = visit.obs
        /\ visit'.scan = IF visit.scan.best = "confirmed" THEN visit.scan
             ELSE [visit.scan EXCEPT !.best = "confirmed", !.reason = "message_author_id_exact",
                                     !.user = SearchedUser]
    BY <1>1, InvHolds DEF Visits
  <1>7. visit'.msgs \in MessageBatches
    <2>1. visit'.msgs \in [hits -> MessageRows]
      BY <1>6 DEF MessageRows
    <2>. QED
      BY <2>1 DEF MessageBatches
  <1>8. /\ visit'.scan \in ScanRows
        /\ visit'.scan.invite = visit.scan.invite /\ visit'.scan.coverage = visit.scan.coverage
        /\ visit'.scan.best = "confirmed"
        /\ \/ visit.scan.best = "confirmed" /\ visit'.scan = visit.scan
           \/ visit'.scan.reason = "message_author_id_exact" /\ visit'.scan.user = SearchedUser
    BY <1>4, <1>6, InvHolds DEF ScanRows, MatchLevels, Reasons, ConfirmReasons
  <1>9. visit' \in Visits
    BY <1>1, <1>7, <1>8, InvHolds DEF Visits
  <1>10. SummaryFits(visit'.scan, visit'.obs, visit'.msgs) /\ CheckHolds(visit'.scan)
    <2>1. \E m \in DOMAIN visit'.msgs : MessageAuthor[m] = SearchedUser
      BY <1>1, <1>6
    <2>2. CASE visit'.scan.reason = "message_author_id_exact" /\ visit'.scan.user = SearchedUser
      BY <1>8, <2>1, <2>2 DEF SummaryFits, CheckHolds
    <2>3. CASE visit.scan.best = "confirmed" /\ visit'.scan = visit.scan
      <3>1. CASE visit.scan.reason = "user_id_exact"
        BY <1>3, <1>6, <1>8, <2>3, <3>1 DEF Backed, SummaryFits, CheckHolds
      <3>2. CASE visit.scan.reason = "message_author_id_exact"
        <4>1. SearchedUser = visit.scan.user
          <5>1. \E m \in DOMAIN visit.msgs : MessageAuthor[m] = visit.scan.user
            BY <1>3, <2>3, <3>2 DEF Backed, SummaryFits
          <5>2. visit.scan.user \in Users
            BY <5>1, InvHolds, MessageBatch, StoreAssumption
          <5>. QED
            BY <5>2, StoreAssumption DEF SearchedUser
        <4>. QED
          BY <1>8, <2>1, <2>3, <3>2, <4>1 DEF SummaryFits, CheckHolds
      <3>. QED
        BY <1>3, <2>3, <3>1, <3>2 DEF Backed, SummaryFits
    <2>. QED
      BY <1>8, <2>2, <2>3
  <1>11. Backed'
    BY <1>2, <1>3, <1>6, <1>8, <1>10 DEF Backed, KindOf
  <1>12. VisitInv'
    BY <1>2, <1>11 DEF VisitInv, Inside, Entering, Examining
  <1>. QED
    BY <1>2, <1>5, <1>8, <1>9, <1>12 DEF Advances, Inside, Entering, Examining

LEMMA NoMessagesStep ==
  ASSUME IInv, NoMessages
  PROVE  Advances
  <1>1. /\ pc = "messages" /\ pc' = "probe" /\ HistoryOK'
        /\ UNCHANGED <<job, cancelled, storeVars, visit>>
    BY InvHolds DEF NoMessages, Continue, HistoryOK, historyVars
  <1>2. Backed'
    BY <1>1, InvHolds DEF Examining, Backed, KindOf
  <1>3. VisitInv'
    BY <1>1, <1>2 DEF VisitInv, Inside, Entering, Examining
  <1>. QED
    BY <1>1, <1>3, InvHolds DEF Advances, OpenEffect, Inside, Entering, Examining

LEMMA ConfirmedUserIsAUser ==
  ASSUME IInv, pc \in Examining, visit.scan.best = "confirmed"
  PROVE  visit.scan.user \in Users
  <1>1. \/ \E i \in DOMAIN visit.obs : IdentUser[i] = visit.scan.user
        \/ \E m \in DOMAIN visit.msgs : MessageAuthor[m] = visit.scan.user
    BY InvHolds DEF Backed, SummaryFits
  <1>. QED
    BY <1>1, InvHolds, ObservationBatch, MessageBatch, StoreAssumption

LEMMA ProbeStep ==
  ASSUME IInv, Probe
  PROVE  Advances
  <1>1. /\ pc = "probe" /\ pc' = "record" /\ HistoryOK' /\ UNCHANGED <<job, cancelled, visit>>
        /\ \/ visit.scan.best = "confirmed" /\ FillProfile(visit.scan.user)
           \/ UNCHANGED storeVars
    BY InvHolds DEF Probe, Continue, HistoryOK, historyVars
  <1>2. OpenEffect
    <2>1. job.run \in RunIDs
      BY <1>1, InvHolds DEF Inside, Examining
    <2>. QED
      BY <1>1, <2>1, ConfirmedUserIsAUser, FillingIsLawful DEF OpenEffect, Examining
  <1>3. Backed'
    BY <1>1, InvHolds DEF Examining, Backed, KindOf
  <1>4. VisitInv'
    BY <1>1, <1>3 DEF VisitInv, Inside, Entering, Examining
  <1>. QED
    BY <1>1, <1>2, <1>4, InvHolds DEF Advances, Inside, Entering, Examining

\* What the engine records of a guild it has read fits the evidence it records
\* with it.
LEMMA RecordScanIsLawful ==
  ASSUME IInv, RecordScan
  PROVE  /\ OpenEffect
         /\ ~cancelled => scans'[job.run][visit.key] # NoRow
  <1> DEFINE scan == [visit.scan EXCEPT !.status = "complete"]
  <1>1. CASE cancelled
    BY <1>1 DEF RecordScan, Checkpoint, OpenEffect
  <1>2. CASE ~cancelled
    <2>1. /\ pc = "record"
          /\ RecordGuildScanTransaction(job.run, visit.key, scan, visit.obs, visit.msgs)
      BY <1>2 DEF RecordScan, Checkpoint
    <2>2. /\ Backed /\ job.run \in RunIDs /\ RunExists(job.run)
          /\ visit.key \in GuildKeys
          /\ visit.obs \in ObservationBatches /\ visit.msgs \in MessageBatches
      BY <2>1, InvHolds DEF Examining, Inside
    <2>3. /\ scan.best = visit.scan.best /\ scan.reason = visit.scan.reason
          /\ scan.user = visit.scan.user /\ scan.coverage = visit.scan.coverage
          /\ scan.invite = visit.scan.invite
      BY InvHolds DEF ScanRows
    <2>4. scan \in ReadScans
      BY <2>2, InvHolds DEF ScanRows, ReadScans, Backed
    <2> HIDE DEF scan
    <2>5. SummaryFits(scan, visit.obs, visit.msgs) /\ CheckHolds(scan)
      BY <2>2, <2>3 DEF Backed, SummaryFits, CheckHolds
    <2>6. \A i \in DOMAIN visit.obs : visit.obs[i] = "confirmed" <=> IdentUser[i] = runs[job.run].userID
      BY <2>1, <2>2 DEF Backed, KindOf, IInv, RunInv
    <2>7. visit.scan.invite \in servers
      BY <1>2, <2>1 DEF IInv, SavedInv, Inside, Examining
    <2>8. Lawful(scan, visit.obs, visit.msgs)
      BY <2>2, <2>3, <2>4, <2>5, <2>6, <2>7 DEF Lawful, CallerContract
    <2>. QED
      BY <2>1, <2>2, <2>4, <2>8, InvHolds, RecordingLeavesARow DEF OpenEffect, Records
  <1>. QED
    BY <1>1, <1>2

LEMMA RecordScanStep ==
  ASSUME IInv, RecordScan
  PROVE  Advances
  <1>1. /\ pc = "record" /\ pc' = "leave" /\ UNCHANGED <<job, cancelled, visit>>
    BY DEF RecordScan, Continue
  <1>2. HistoryOK'
    <2>1. visit.scan.invite \in Invites /\ HistoryOK
      BY InvHolds
    <2>2. /\ UNCHANGED <<planned, home, stranded, declared, memberships>>
          /\ finished' \in {finished, [finished EXCEPT ![job.run] = @ \cup {visit.scan.invite}]}
      BY DEF RecordScan, NoteFinished
    <2>. QED
      BY <2>1, <2>2 DEF HistoryOK
  <1>3. VisitInv'
    BY <1>1 DEF VisitInv, Inside, Entering, Examining
  <1>. QED
    BY <1>1, <1>2, <1>3, InvHolds, RecordScanIsLawful DEF Advances, Inside, Examining

LEMMA LeaveStep ==
  ASSUME IInv, Leave
  PROVE  Advances
  <1>1. /\ pc = "leave" /\ pc' = "walk" /\ visit' = NoVisit /\ UNCHANGED <<job, cancelled, storeVars>>
        /\ UNCHANGED <<planned, finished, declared>>
    BY DEF Leave, BackToWalk, Continue
  <1>2. \/ UNCHANGED <<memberships, home, stranded>>
        \/ \E left \in SUBSET {visit.key} :
             /\ memberships' = memberships \ left
             /\ home' = home \ left
             /\ stranded' = stranded \cup ({visit.key} \ left)
    BY DEF Leave, Strand
  <1>3. HistoryOK'
    BY <1>1, <1>2, InvHolds DEF HistoryOK
  <1>. QED
    BY <1>1, <1>3, NoVisitIsAVisit DEF Advances, OpenEffect, VisitInv, Inside, Entering, Examining

-----------------------------------------------------------------------------
(* The steps between visits *)

LEMMA AdvancesKeeps ==
  ASSUME IInv, Advances
  PROVE  IInv'
  <1>1. StoreEffect /\ StoreTypeOK
    BY InvHolds DEF Advances, StoreEffect
  <1>2. StoreTypeOK'
    BY <1>1, EffectIsLawful, TypeStep
  <1>3. ControlOK'
    BY DEF Advances, ControlOK, IInv, HistoryOK, Places, Inside, Entering, Examining
  <1>4. RunInv'
    BY <1>1, EffectKeeps DEF Advances, RunInv, IInv, RunExists, Inside, Entering, Examining
  <1>5. SavedInv'
    <2>1. servers \subseteq servers'
      BY <1>1, EffectKeeps
    <2>. QED
      BY <2>1 DEF Advances, SavedInv, IInv
  <1>. QED
    BY <1>2, <1>3, <1>4, <1>5 DEF Advances, IInv

\* A command that ends forgets its job.
LEMMA IdleKeeps ==
  ASSUME IInv, StoreEffect, Idle, HistoryOK'
  PROVE  IInv'
  <1>1. pc' = "idle" /\ job' = NoJob /\ visit' = NoVisit /\ cancelled' = FALSE
    BY DEF Idle
  <1>2. StoreTypeOK'
    BY InvHolds, EffectIsLawful, TypeStep
  <1>3. ControlOK'
    BY <1>1, NoJobIsAJob, NoVisitIsAVisit DEF ControlOK, HistoryOK, Places
  <1>4. RunInv'
    BY <1>1, InvHolds, EffectKeeps DEF RunInv, IInv, RunExists
  <1>5. SavedInv' /\ VisitInv'
    BY <1>1 DEF SavedInv, VisitInv, Inside, Entering, Examining
  <1>. QED
    BY <1>2, <1>3, <1>4, <1>5 DEF IInv

LEMMA StartRunStep ==
  ASSUME IInv, NEW r \in RunIDs, NEW target \in Users \cup {NoUser}, NEW live \in BOOLEAN,
         NEW solver \in BOOLEAN, NEW from \in RunIDs \cup {NoRun}, NEW queue \in Seq(Servers),
         StartRun(r, target, live, solver, from, queue)
  PROVE  OpenEffect /\ IInv'
  <1>1. PICK n \in Names, d \in Names, a \in Avatars \cup {NoAvatar} :
          CreateRunAtomic(r, target, n, d, a)
    BY AvatarsAndNames DEF StartRun
  <1>2. /\ pc = "idle" /\ pc' = "discover" /\ cancelled' = FALSE
        /\ UNCHANGED <<visit, memberships, historyVars>>
        /\ job' = [run |-> r, target |-> target, queue |-> queue, live |-> live,
                   solver |-> solver, from |-> from]
    BY DEF StartRun
  <1>3. Creates
    BY <1>1, <1>2 DEF Creates
  <1>4. StoreEffect
    BY <1>3 DEF StoreEffect, OpenEffect
  <1>5. StoreTypeOK'
    BY <1>4, InvHolds, EffectIsLawful, TypeStep
  <1>6. ControlOK'
    BY <1>2 DEF ControlOK, IInv, Jobs, historyVars, Places
  <1>7. RunInv'
    <2>1. runs'[r] = [userID |-> target, username |-> n, displayName |-> d, avatar |-> a,
                      status |-> "running"]
      BY <1>1, InvHolds DEF CreateRunAtomic, StoreTypeOK
    <2>2. runs'[r] # NoRow
      BY <2>1, NoRowAssumption DEF RunRows, RunStatuses
    <2>3. \A q \in RunIDs : RunExists(q) => runs'[q] # NoRow
      BY <1>4, InvHolds, EffectKeeps
    <2>4. scans' = scans
      BY <1>1 DEF CreateRunAtomic
    <2>. QED
      BY <1>2, <2>1, <2>2, <2>3, <2>4 DEF RunInv, IInv, RunExists
  <1>8. SavedInv' /\ VisitInv'
    BY <1>2 DEF SavedInv, VisitInv, IInv, Inside, Entering, Examining
  <1>. QED
    BY <1>3, <1>5, <1>6, <1>7, <1>8 DEF IInv, OpenEffect

LEMMA SearchStep ==
  ASSUME IInv, Search
  PROVE  OpenEffect /\ IInv'
  <1>1. PICK r \in SearchRuns, target \in Targets, live \in BOOLEAN, solver \in Solvers :
          StartRun(r, target, live, solver, NoRun, <<>>)
    BY DEF Search
  <1>2. r \in RunIDs /\ target \in Users \cup {NoUser} /\ solver \in BOOLEAN /\ <<>> \in Seq(Servers)
    BY WorkflowAssumption
  <1>. QED
    BY <1>1, <1>2, StartRunStep

\* The servers to resume, in any order, are a sequence of servers.
LEMMA ResumeStep ==
  ASSUME IInv, Resume
  PROVE  OpenEffect /\ IInv'
  <1>1. PICK old \in ResumableRuns, r \in RunIDs, live \in BOOLEAN :
          LET invites == {scans[old][g].invite : g \in ResumableScans(old)}
          IN  /\ invites # {}
              /\ \E order \in SetToSeqs(invites) :
                   StartRun(r, runs[old].userID, live, FALSE, old,
                            [n \in DOMAIN order |->
                               [invite |-> order[n], key |-> InviteKey[order[n]]]])
    BY DEF Resume
  <1> DEFINE invites == {scans[old][g].invite : g \in ResumableScans(old)}
  <1>2. PICK order \in SetToSeqs(invites) :
          StartRun(r, runs[old].userID, live, FALSE, old,
                   [n \in DOMAIN order |-> [invite |-> order[n], key |-> InviteKey[order[n]]]])
    BY <1>1
  <1>3. old \in RunIDs
    BY DEF ResumableRuns, LatestIncompleteRuns
  <1>4. invites \subseteq Invites
    BY <1>3, InvHolds DEF ResumableScans, StoreTypeOK, ScanRows
  <1>5. runs[old].userID \in Users \cup {NoUser}
    <2>1. RunExists(old)
      BY <1>1, <1>3 DEF ResumableScans, IInv, RunInv
    <2>. QED
      BY <1>3, <2>1, InvHolds DEF RunExists, StoreTypeOK, RunRows
  <1> DEFINE queue == [n \in DOMAIN order |-> [invite |-> order[n], key |-> InviteKey[order[n]]]]
  <1>6. queue \in Seq(Servers)
    <2>1. Cardinality(invites) \in Nat
      BY <1>4, WorkflowAssumption, FS_Subset, FS_CardinalityType
    <2>2. order \in [1 .. Cardinality(invites) -> invites]
      BY DEF SetToSeqs
    <2> HIDE DEF invites
    <2>3. queue \in [1 .. Cardinality(invites) -> Servers]
      BY <1>4, <2>2, WorkflowAssumption DEF Servers
    <2>. QED
      BY <2>1, <2>3
  <1>. QED
    BY <1>2, <1>3, <1>5, <1>6, StartRunStep

\* What is walked is a part of what was discovered.
LEMMA WalkedServers ==
  ASSUME NEW queue \in Seq(Servers)
  PROVE  /\ Walked(queue) \in Seq(Servers)
         /\ \A i \in DOMAIN Walked(queue) : \E j \in DOMAIN queue : Walked(queue)[i] = queue[j]
  <1> DEFINE n == IF Len(queue) < Limit THEN Len(queue) ELSE Limit
  <1>1. n \in Nat /\ n <= Len(queue)
    BY WorkflowAssumption
  <1>2. \A i \in 1 .. n : i \in DOMAIN queue /\ queue[i] \in Servers
    BY <1>1
  <1> HIDE DEF n
  <1>3. /\ SubSeq(queue, 1, n) \in Seq(Servers)
        /\ Len(SubSeq(queue, 1, n)) = n
        /\ \A i \in 1 .. n : SubSeq(queue, 1, n)[i] = queue[i]
    BY <1>1, <1>2, SubSeqProperties
  <1>4. Walked(queue) = SubSeq(queue, 1, n)
    BY DEF Walked, n
  <1>. QED
    BY <1>2, <1>3, <1>4

LEMMA DiscoverStep ==
  ASSUME IInv, Discover
  PROVE  OpenEffect /\ IInv'
  <1>1. PICK queue \in DiscoveredQueues :
          /\ IF cancelled THEN UNCHANGED storeVars
             ELSE SaveDiscoveredServers({queue[i].invite : i \in DOMAIN queue})
          /\ job' = [job EXCEPT !.queue = Walked(queue)]
          /\ planned' = [planned EXCEPT ![job.run] = ToSet(Walked(queue))]
    BY DEF Discover
  <1>2. /\ pc = "discover" /\ pc' = "walk"
        /\ UNCHANGED <<visit, cancelled, memberships, finished, home, stranded, declared>>
    BY DEF Discover
  <1>3. queue \in Seq(Servers)
    <2>1. CASE job.from # NoRun
      BY <2>1 DEF DiscoveredQueues, IInv, ControlOK, Jobs
    <2>2. CASE job.from = NoRun
      <3>1. Cardinality(Invites) \in Nat
        BY WorkflowAssumption, FS_CardinalityType
      <3>2. PICK m \in 0 .. Cardinality(Invites) : queue \in [1 .. m -> Servers]
        BY <2>2 DEF DiscoveredQueues, SeqOf
      <3>. QED
        BY <3>1, <3>2
    <2>. QED
      BY <2>1, <2>2
  <1>4. Walked(queue) \in Seq(Servers) /\ ToSet(Walked(queue)) \subseteq Servers
    BY <1>3, WalkedServers DEF ToSet
  <1>5. /\ job' \in Jobs /\ job'.run = job.run /\ job'.target = job.target
        /\ job'.queue = Walked(queue)
    BY <1>1, <1>4 DEF IInv, ControlOK, Jobs
  <1>6. {queue[i].invite : i \in DOMAIN queue} \subseteq Invites
    <2>1. \A i \in DOMAIN queue : queue[i] \in Servers
      BY <1>3
    <2>2. \A i \in DOMAIN queue : queue[i].invite \in Invites
      BY <2>1 DEF Servers
    <2>. QED
      BY <2>2
  <1>7. OpenEffect
    BY <1>1, <1>6 DEF OpenEffect, Saves
  <1>8. StoreTypeOK'
    BY <1>7, InvHolds, EffectIsLawful, TypeStep DEF StoreEffect
  <1>9. ControlOK'
    BY <1>1, <1>2, <1>4, <1>5 DEF ControlOK, IInv, Places
  <1>10. RunInv'
    BY <1>2, <1>5, <1>7, InvHolds, EffectKeeps DEF RunInv, IInv, RunExists, StoreEffect
  <1>11. SavedInv'
    <2>1. ASSUME ~cancelled, NEW i \in DOMAIN job'.queue
          PROVE  job'.queue[i].invite \in servers'
      <3>1. PICK j \in DOMAIN queue : job'.queue[i] = queue[j]
        BY <1>3, <1>5, WalkedServers
      <3>. QED
        BY <1>1, <2>1, <3>1 DEF SaveDiscoveredServers
    <2>. QED
      BY <1>2, <2>1 DEF SavedInv, Inside, Entering, Examining
  <1>12. VisitInv'
    BY <1>2 DEF VisitInv, IInv, Inside, Entering, Examining
  <1>. QED
    BY <1>7, <1>8, <1>9, <1>10, <1>11, <1>12 DEF IInv

\* The first server of the queue, and the rest of it.
LEMMA QueueOK ==
  ASSUME IInv, pc = "walk", job.queue # <<>>
  PROVE  /\ Head(job.queue) \in Servers /\ Tail(job.queue) \in Seq(Servers)
         /\ \A i \in DOMAIN Tail(job.queue) : \E j \in DOMAIN job.queue :
              Tail(job.queue)[i] = job.queue[j]
         /\ \E j \in DOMAIN job.queue : Head(job.queue) = job.queue[j]
         /\ \A j \in DOMAIN job.queue :
              \/ job.queue[j] = Head(job.queue)
              \/ \E i \in DOMAIN Tail(job.queue) : job.queue[j] = Tail(job.queue)[i]
         /\ ~cancelled => Head(job.queue).invite \in servers
  <1>1. job.queue \in Seq(Servers)
    BY DEF IInv, ControlOK, Jobs
  <1>2. /\ Head(job.queue) \in Servers /\ Tail(job.queue) \in Seq(Servers)
        /\ Len(Tail(job.queue)) = Len(job.queue) - 1
        /\ \A i \in 1 .. Len(Tail(job.queue)) : Tail(job.queue)[i] = job.queue[i + 1]
    BY <1>1, HeadTailProperties
  <1>3. Head(job.queue) = job.queue[1] /\ 1 \in DOMAIN job.queue
    BY <1>1
  <1>4. \A j \in DOMAIN job.queue : j = 1 \/ j - 1 \in 1 .. Len(Tail(job.queue))
    BY <1>1, <1>2
  <1>5. \A j \in DOMAIN job.queue : j # 1 => job.queue[j] = Tail(job.queue)[j - 1]
    BY <1>1, <1>2, <1>4
  <1>. QED
    BY <1>1, <1>2, <1>3, <1>4, <1>5 DEF IInv, SavedInv

LEMMA NextServerStep ==
  ASSUME IInv, NextServer
  PROVE  OpenEffect /\ IInv'
  <1>1. /\ pc = "walk" /\ pc' = "resolve" /\ job.queue # <<>> /\ ~cancelled
        /\ visit' = Visiting(Head(job.queue))
        /\ job' = [job EXCEPT !.queue = Tail(job.queue)]
        /\ UNCHANGED <<storeVars, cancelled, memberships, historyVars>>
    BY DEF NextServer
  <1>2. /\ job' \in Jobs /\ job'.run = job.run /\ job'.target = job.target
        /\ job'.queue = Tail(job.queue)
    BY <1>1, QueueOK DEF IInv, ControlOK, Jobs
  <1>3. /\ visit' \in Visits /\ visit'.scan.invite = Head(job.queue).invite
        /\ visit'.membership = "none" /\ visit'.lookedUp = FALSE
        /\ Unread'
    BY <1>1, QueueOK, NoVisitIsAVisit, VisitingIsUnread
  <1>4. StoreTypeOK'
    BY <1>1, InvHolds DEF StoreTypeOK, storeVars
  <1>5. ControlOK'
    BY <1>1, <1>2, <1>3 DEF ControlOK, IInv, Places, historyVars
  <1>6. RunInv'
    BY <1>1, <1>2 DEF RunInv, IInv, RunExists, storeVars
  <1>7. SavedInv'
    BY <1>1, <1>2, <1>3, QueueOK DEF SavedInv, IInv, storeVars
  <1>8. VisitInv'
    BY <1>1, <1>3 DEF VisitInv, Inside, Entering, Examining
  <1>. QED
    BY <1>1, <1>4, <1>5, <1>6, <1>7, <1>8 DEF IInv, OpenEffect

LEMMA MockServerStep ==
  ASSUME IInv, MockServer
  PROVE  /\ OpenEffect /\ IInv'
         /\ scans'[job.run][Head(job.queue).key] # NoRow
  <1> DEFINE server == Head(job.queue)
             scan == [FreshScan(server.invite) EXCEPT
                        !.status = "complete", !.coverage = "complete", !.best = "not_found"]
  <1>1. /\ pc = "walk" /\ job.queue # <<>> /\ ~cancelled /\ UNCHANGED <<pc, visit, cancelled, memberships>>
        /\ RecordGuildScanTransaction(job.run, server.key, scan, <<>>, <<>>)
        /\ job' = [job EXCEPT !.queue = Tail(job.queue)]
    BY DEF MockServer, Checkpoint
  <1>2. HistoryOK'
    <2>1. server.invite \in Invites
      BY <1>1, QueueOK DEF Servers
    <2>2. /\ UNCHANGED <<planned, home, stranded, declared, memberships>>
          /\ finished' \in {finished, [finished EXCEPT ![job.run] = @ \cup {server.invite}]}
      BY DEF MockServer, NoteFinished
    <2>. QED
      BY <2>1, <2>2, InvHolds DEF HistoryOK
  <1>3. /\ server.invite \in Invites /\ server.key \in GuildKeys /\ server.invite \in servers
        /\ job.run \in RunIDs /\ RunExists(job.run)
    BY <1>1, QueueOK DEF Servers, IInv, RunInv
  <1> HIDE DEF server
  <1>4. /\ scan \in ReadScans /\ scan.best = "not_found" /\ scan.coverage = "complete"
        /\ scan.reason = "none" /\ scan.user = NoUser /\ scan.invite = server.invite
    BY <1>3 DEF FreshScan, ReadScans, MatchLevels, Reasons
  <1>5. <<>> \in ObservationBatches /\ <<>> \in MessageBatches
    <2>1. <<>> \in [{} -> MatchKinds] /\ <<>> \in [{} -> MessageRows]
      OBVIOUS
    <2>. QED
      BY <2>1 DEF ObservationBatches, MessageBatches
  <1> HIDE DEF scan
  <1>6. Lawful(scan, <<>>, <<>>)
    BY <1>3, <1>4, <1>5 DEF Lawful, CallerContract, SummaryFits, CheckHolds
  <1>7. Records
    BY <1>1, <1>3, <1>4, <1>5, <1>6 DEF Records
  <1>8. OpenEffect /\ scans'[job.run][server.key] # NoRow /\ runs' = runs
    BY <1>1, <1>3, <1>6, <1>7, InvHolds, RecordingLeavesARow DEF OpenEffect
  <1>9. StoreTypeOK'
    BY <1>8, InvHolds, EffectIsLawful, TypeStep DEF StoreEffect
  <1>10. /\ job' \in Jobs /\ job'.run = job.run /\ job'.target = job.target
         /\ job'.queue = Tail(job.queue)
    BY <1>1, QueueOK DEF IInv, ControlOK, Jobs
  <1>11. ControlOK'
    BY <1>1, <1>2, <1>10 DEF ControlOK, IInv, HistoryOK
  <1>12. RunInv'
    BY <1>1, <1>8, <1>10, InvHolds, EffectKeeps DEF RunInv, IInv, RunExists, StoreEffect
  <1>13. SavedInv'
    <2>1. servers \subseteq servers'
      BY <1>8, InvHolds, EffectKeeps DEF StoreEffect
    <2>2. \A i \in DOMAIN Tail(job.queue) : Tail(job.queue)[i].invite \in servers
      <3>1. \A j \in DOMAIN job.queue : job.queue[j].invite \in servers
        BY <1>1 DEF IInv, SavedInv
      <3>. QED
        BY <1>1, <3>1, QueueOK
    <2>. QED
      BY <1>1, <1>10, <2>1, <2>2 DEF SavedInv, Inside, Entering, Examining
  <1>14. VisitInv'
    BY <1>1 DEF VisitInv, IInv, Inside, Entering, Examining
  <1>. QED
    BY <1>8, <1>9, <1>11, <1>12, <1>13, <1>14 DEF IInv, server

LEMMA IdleSteps ==
  ASSUME IInv, DiscoverNothing \/ WalkCancelled \/ Crash
  PROVE  OpenEffect /\ IInv'
  <1>1. UNCHANGED storeVars /\ Idle
    BY DEF DiscoverNothing, WalkCancelled, Crash
  <1>2. HistoryOK'
    BY InvHolds DEF DiscoverNothing, WalkCancelled, Crash, Strand, HistoryOK, historyVars
  <1>. QED
    BY <1>1, <1>2, IdleKeeps DEF StoreEffect, OpenEffect

LEMMA FinishStep ==
  ASSUME IInv, Finish
  PROVE  StoreEffect /\ IInv'
  <1>1. StoreEffect
    BY DEF Finish, StoreEffect, OpenEffect, Closes, IInv, RunInv
  <1>2. HistoryOK' /\ Idle
    BY InvHolds DEF Finish, HistoryOK, historyVars
  <1>. QED
    BY <1>1, <1>2, IdleKeeps

LEMMA QuietSteps ==
  ASSUME IInv, ResumeNothing \/ Cancel \/ UNCHANGED vars
  PROVE  OpenEffect /\ IInv'
  <1>1. /\ UNCHANGED <<storeVars, pc, job, visit>>
        /\ cancelled' = cancelled \/ (cancelled' = TRUE /\ pc # "idle")
    BY DEF ResumeNothing, Cancel, vars, engineVars
  <1>2. HistoryOK'
    BY InvHolds DEF ResumeNothing, Cancel, vars, historyVars, HistoryOK, ResumableRuns,
                    LatestIncompleteRuns
  <1>3. StoreTypeOK'
    BY <1>1, InvHolds DEF StoreTypeOK, storeVars
  <1>4. ControlOK'
    BY <1>1, <1>2 DEF ControlOK, IInv, HistoryOK
  <1>5. RunInv' /\ SavedInv'
    BY <1>1 DEF RunInv, SavedInv, IInv, RunExists, storeVars
  <1>6. VisitInv'
    BY <1>1 DEF VisitInv, IInv, Unread, Backed, KindOf
  <1>. QED
    BY <1>1, <1>3, <1>4, <1>5, <1>6 DEF IInv, OpenEffect

-----------------------------------------------------------------------------
(* The invariant *)

\* The steps of a visit.
VisitStep ==
  \/ ResolveFails \/ Resolve
  \/ Join \/ JoinFails \/ JoinChallenged \/ SolveFails \/ Solve
  \/ DiscoverMembers \/ (\E i \in Identities : MatchMember(i)) \/ MatchDone
  \/ SearchMessages \/ NoMessages \/ Probe \/ RecordScan \/ Leave

LEMMA VisitStepAdvances ==
  ASSUME IInv, VisitStep
  PROVE  Advances
  BY ResolveFailsStep, ResolveStep, JoinStep, JoinFailsStep, JoinChallengedStep, SolveFailsStep,
     SolveStep, DiscoverMembersStep, MatchMemberStep, MatchDoneStep, SearchMessagesStep,
     NoMessagesStep, ProbeStep, RecordScanStep, LeaveStep DEF VisitStep

LEMMA NextCases ==
  ASSUME [Next]_vars
  PROVE  \/ VisitStep
         \/ Search \/ Resume \/ Discover \/ NextServer \/ MockServer \/ Finish
         \/ DiscoverNothing \/ WalkCancelled \/ Crash
         \/ ResumeNothing \/ Cancel \/ UNCHANGED vars
  BY DEF Next, EngineStep, VisitStep

LEMMA InvInit == Init => IInv
  <1> SUFFICES ASSUME Init
               PROVE  IInv
    OBVIOUS
  <1>1. /\ StoreInit /\ pc = "idle" /\ job = NoJob /\ visit = NoVisit /\ cancelled = FALSE
        /\ memberships \in SUBSET {InviteGuild[c] : c \in Invites} /\ home = memberships
        /\ planned = [r \in RunIDs |-> {}] /\ finished = [r \in RunIDs |-> {}]
        /\ stranded = {} /\ declared = {}
    BY DEF Init
  <1>2. {InviteGuild[c] : c \in Invites} \subseteq GuildKeys
    BY WorkflowAssumption
  <1>3. ControlOK
    BY <1>1, <1>2, NoJobIsAJob, NoVisitIsAVisit DEF ControlOK, Places
  <1>4. RunInv
    BY <1>1 DEF RunInv, StoreInit
  <1>5. SavedInv /\ VisitInv
    BY <1>1 DEF SavedInv, VisitInv, Inside, Entering, Examining
  <1>. QED
    BY <1>1, <1>3, <1>4, <1>5, TypeInit DEF IInv

\* The invariant is inductive, and every step is a lawful call of the store.
LEMMA InvStep ==
  ASSUME IInv, [Next]_vars
  PROVE  IInv' /\ StoreEffect
  <1>1. CASE VisitStep
    BY <1>1, VisitStepAdvances, AdvancesKeeps DEF Advances, StoreEffect
  <1>2. CASE Search \/ Resume
    BY <1>2, SearchStep, ResumeStep DEF StoreEffect
  <1>3. CASE Discover \/ NextServer \/ MockServer
    BY <1>3, DiscoverStep, NextServerStep, MockServerStep DEF StoreEffect
  <1>4. CASE Finish
    BY <1>4, FinishStep
  <1>5. CASE DiscoverNothing \/ WalkCancelled \/ Crash
    BY <1>5, IdleSteps DEF StoreEffect
  <1>6. CASE ResumeNothing \/ Cancel \/ UNCHANGED vars
    BY <1>6, QuietSteps DEF StoreEffect
  <1>. QED
    BY <1>1, <1>2, <1>3, <1>4, <1>5, <1>6, NextCases

LEMMA Invariant == Spec => []IInv
  BY InvInit, InvStep, PTL DEF Spec

-----------------------------------------------------------------------------
(* The theorems *)

\* What the engine, the commands and the account hold is well-formed.
THEOREM WorkflowTypeCorrect == Spec => []WorkflowTypeOK
  <1>1. IInv => WorkflowTypeOK
    BY DEF IInv, ControlOK, WorkflowTypeOK
  <1>. QED
    BY <1>1, Invariant, PTL

\* The engine only ever calls the store as the store expects to be called: the
\* composition of the two is sound.
THEOREM EngineIsALawfulCaller == Spec => UsesStoreLawfully
  <1>1. Init => StoreInit
    BY DEF Init
  <1>2. IInv /\ [Next]_vars => [StoreNext]_storeVars
    BY InvStep, EffectIsLawful
  <1>. QED
    BY <1>1, <1>2, Invariant, PTL DEF Spec, UsesStoreLawfully, StoreSpec

\* So what is proved of the store holds of every search: whatever fails or is
\* interrupted, what it leaves for its readers is consistent.
THEOREM SearchesLeaveSoundRecords ==
  Spec => [](ReasonFitsMatch /\ ConfirmedHasEvidence /\ EvidenceHasScan /\ EvidenceIsSummarised)
  <1>1. SafetyInv => /\ ReasonFitsMatch /\ ConfirmedHasEvidence
                     /\ EvidenceHasScan /\ EvidenceIsSummarised
    BY DEF SafetyInv
  <1>. QED
    BY <1>1, EngineIsALawfulCaller, StoreSafe, PTL DEF UsesStoreLawfully

\* The tables a search writes behave as the ledger, step by step, however it
\* fails, is cancelled, dies and is resumed: the two refinements compose.
THEOREM SearchesImplementTheLedger == Spec => ImplementsLedger
  BY EngineIsALawfulCaller, StoreImplementsLedger, PTL DEF UsesStoreLawfully

\* What a search confirms can be traced to the reason it gives, and a search
\* for a username confirms no member by the name alone.
THEOREM SearchesExplainConfirmations ==
  Spec => [](ConfirmedByItsReason /\ NamesAreConfirmedByMessages)
  BY EngineIsALawfulCaller, ConfirmationsAreExplained, NamesConfirmNoMember, PTL
     DEF UsesStoreLawfully

\* Resuming, failing or dying, a command leaves every run but its own alone.
THEOREM OtherRunsStay == Spec => OtherRunsUntouched
  <1>1. ASSUME IInv, StoreEffect, StoreTypeOK', NEW r \in RunIDs \ {job.run}, RunExists(r)
        PROVE  /\ runs'[r] = runs[r] /\ scans'[r] = scans[r]
               /\ observations'[r] = observations[r] /\ messages'[r] = messages[r]
    <2>1. runs'[r] = runs[r]
      BY <1>1, InvHolds, EffectKeeps
    <2>2. \A g \in GuildKeys : /\ scans'[r][g] = scans[r][g]
                               /\ observations'[r][g] = observations[r][g]
                               /\ messages'[r][g] = messages[r][g]
      BY <1>1, InvHolds, EffectKeeps
    <2>3. scans'[r] = scans[r]
      BY <1>1, <2>2, InvHolds DEF StoreTypeOK
    <2>4. observations'[r] = observations[r]
      BY <1>1, <2>2, InvHolds DEF StoreTypeOK
    <2>5. messages'[r] = messages[r]
      BY <1>1, <2>2, InvHolds DEF StoreTypeOK
    <2>. QED
      BY <2>1, <2>3, <2>4, <2>5
  <1> DEFINE Untouched ==
        \A r \in RunIDs \ {job.run} : RunExists(r) =>
          /\ runs'[r] = runs[r]
          /\ scans'[r] = scans[r]
          /\ observations'[r] = observations[r]
          /\ messages'[r] = messages[r]
  <1>2. IInv /\ [Next]_vars => Untouched
    BY <1>1, InvStep DEF IInv
  <1>3. IInv /\ [Next]_vars => [Untouched]_storeVars
    BY <1>2
  <1> HIDE DEF Untouched
  <1>4. Spec => [][Untouched]_storeVars
    BY <1>3, Invariant, PTL DEF Spec
  <1>. QED
    BY <1>4 DEF Untouched, OtherRunsUntouched

-----------------------------------------------------------------------------
(* Recorded servers have been saved *)

LEMMA SavedStep ==
  ASSUME IInv, ScansAreOfSavedServers, StoreEffect
  PROVE  ScansAreOfSavedServers'
  <1>1. servers \subseteq servers'
    BY InvHolds, EffectKeeps
  <1>2. CASE scans' = scans
    BY <1>1, <1>2 DEF ScansAreOfSavedServers
  <1>3. CASE Records
    <2>1. PICK g \in GuildKeys, scan \in UnreadScans \cup ReadScans,
               obs \in ObservationBatches, msgs \in MessageBatches :
            /\ job.run \in RunIDs /\ Lawful(scan, obs, msgs)
            /\ RecordGuildScanTransaction(job.run, g, scan, obs, msgs)
      BY <1>3 DEF Records
    <2>2. scan.invite \in servers
      BY <2>1 DEF Lawful, CallerContract
    <2>3. scans'[job.run][g].invite \in servers
      <3>1. CASE scans[job.run][g] = NoRow
        BY <2>1, <2>2, <3>1, InvHolds, RecordingLeavesARow
      <3>2. CASE scans[job.run][g] # NoRow
        <4>1. scans[job.run][g].invite \in servers
          BY <2>1, <3>2 DEF ScansAreOfSavedServers
        <4>. QED
          BY <2>1, <2>2, <4>1, InvHolds, RecordingLeavesARow
      <3>. QED
        BY <3>1, <3>2
    <2>4. \A q \in RunIDs, h \in GuildKeys : q # job.run \/ h # g => scans'[q][h] = scans[q][h]
      BY <2>1, InvHolds, RecordingLeavesARow
    <2>. QED
      BY <1>1, <2>3, <2>4 DEF ScansAreOfSavedServers
  <1>4. CASE Creates \/ Saves \/ Closes \/ Fills \/ UNCHANGED storeVars
    BY <1>2, <1>4 DEF Creates, CreateRunAtomic, Saves, SaveDiscoveredServers, Closes,
       UpdateRunStatus, Fills, UpdateRunTargetProfile, storeVars
  <1>. QED
    BY <1>3, <1>4 DEF StoreEffect, OpenEffect

\* Every recorded scan is of a server in the servers table, also when saving
\* the servers failed.
THEOREM RecordedServersAreSaved == Spec => []ScansAreOfSavedServers
  <1>1. Init => ScansAreOfSavedServers
    BY DEF Init, StoreInit, ScansAreOfSavedServers
  <1>2. IInv /\ ScansAreOfSavedServers /\ [Next]_vars => ScansAreOfSavedServers'
    BY SavedStep, InvStep
  <1>. QED
    BY <1>1, <1>2, Invariant, PTL DEF Spec

-----------------------------------------------------------------------------
(* The account's guilds *)

\* What the account is a member of is the operator's, known to be stranded, or
\* the guild of the visit; and a guild found not to be the operator's is not.
MemberInv ==
  /\ home \subseteq memberships
  /\ ~StayAfterHit =>
       memberships \subseteq home \cup stranded
                             \cup (IF visit.membership = "joined" THEN {visit.key} ELSE {})
  /\ visit.lookedUp /\ visit.membership # "already" => visit.key \notin home
  /\ pc \in {"join", "solve"} => visit.membership = "none"

SameMembership ==
  /\ UNCHANGED <<memberships, home, stranded>>
  /\ visit'.membership = visit.membership /\ visit'.key = visit.key
  /\ visit'.lookedUp = visit.lookedUp
  /\ pc' \in {"join", "solve"} => pc \in {"join", "solve"}

LEMMA SameMembershipKeeps ==
  ASSUME MemberInv, SameMembership
  PROVE  MemberInv'
  BY DEF MemberInv, SameMembership

\* A visit that ends, with the account in its guild only if that is recorded.
LEMMA VisitOver ==
  ASSUME MemberInv, visit' = NoVisit, pc' \notin {"join", "solve"},
         home' \subseteq memberships',
         ~StayAfterHit => memberships' \subseteq home' \cup stranded'
  PROVE  MemberInv'
  BY NoVisitIsAVisit DEF MemberInv

LEMMA EnteringKeeps ==
  ASSUME IInv, MemberInv,
         ResolveFails \/ Resolve \/ Join \/ JoinFails \/ JoinChallenged \/ SolveFails \/ Solve
  PROVE  MemberInv'
  <1>1. pc \in {"resolve", "join", "solve"}
    BY DEF ResolveFails, Resolve, Join, JoinFails, JoinChallenged, SolveFails, Solve
  <1>2. visit.membership = "none"
    BY <1>1 DEF IInv, VisitInv, MemberInv
  <1>3. ASSUME NEW status \in {"error", "blocked"}, GiveUp(status),
               UNCHANGED <<memberships, home, stranded>>
        PROVE  MemberInv'
    BY <1>2, <1>3, VisitOver DEF GiveUp, BackToWalk, Continue, MemberInv
  <1>4. CASE ResolveFails \/ SolveFails
    BY <1>3, <1>4 DEF ResolveFails, SolveFails, historyVars
  <1>5. CASE Resolve
    <2>1. PICK lookedUp \in BOOLEAN, already \in BOOLEAN :
            /\ already <=> lookedUp /\ InviteGuild[visit.scan.invite] \in memberships
            /\ visit' = [visit EXCEPT !.key = InviteGuild[visit.scan.invite], !.lookedUp = lookedUp,
                                !.membership = IF already THEN "already" ELSE "none"]
            /\ pc' = IF already THEN "discovery" ELSE "join"
            /\ UNCHANGED <<memberships, home, stranded>>
      BY <1>5 DEF Resolve, Continue, historyVars
    <2>2. /\ visit'.key = InviteGuild[visit.scan.invite] /\ visit'.lookedUp = lookedUp
          /\ visit'.membership = IF already THEN "already" ELSE "none"
      BY <2>1, InvHolds DEF Visits
    <2>. QED
      BY <1>2, <2>1, <2>2 DEF MemberInv
  <1>6. CASE Join
    <2>1. /\ pc' = "discovery" /\ UNCHANGED <<home, stranded>>
          /\ visit' = [visit EXCEPT !.membership = "joined"]
          /\ memberships' = memberships \cup {visit.key}
      BY <1>6 DEF Join, Continue, historyVars
    <2>2. /\ visit'.membership = "joined" /\ visit'.key = visit.key
          /\ visit'.lookedUp = visit.lookedUp
      BY <2>1, InvHolds DEF Visits
    <2>. QED
      BY <1>2, <2>1, <2>2 DEF MemberInv
  <1>7. CASE JoinFails
    <2>1. PICK joined \in SUBSET {visit.key} :
            /\ memberships' = memberships \cup joined
            /\ stranded' = stranded \cup (joined \ memberships)
            /\ home' = home /\ visit' = NoVisit /\ pc' = "walk"
      BY <1>7 DEF JoinFails, Strand, GiveUp, BackToWalk, Continue
    <2>. QED
      BY <1>2, <2>1, VisitOver DEF MemberInv
  <1>8. CASE JoinChallenged
    <2>1. CASE job.solver
      BY <1>8, <2>1, SameMembershipKeeps DEF JoinChallenged, Continue, SameMembership, historyVars
    <2>2. CASE ~job.solver
      BY <1>3, <1>8, <2>2 DEF JoinChallenged, historyVars
    <2>. QED
      BY <2>1, <2>2
  <1>9. CASE Solve
    <2>1. CASE visit.attempt + 1 < MaxJoinAttempts
      <3>1. /\ visit' = [visit EXCEPT !.attempt = visit.attempt + 1]
            /\ pc = "solve" /\ UNCHANGED <<memberships, home, stranded>>
        BY <1>9, <2>1 DEF Solve, historyVars
      <3>2. /\ visit'.membership = visit.membership /\ visit'.key = visit.key
            /\ visit'.lookedUp = visit.lookedUp
        BY <3>1, InvHolds DEF Visits
      <3>. QED
        BY <3>1, <3>2, SameMembershipKeeps DEF SameMembership
    <2>2. CASE ~(visit.attempt + 1 < MaxJoinAttempts)
      BY <1>3, <1>9, <2>2 DEF Solve, historyVars
    <2>. QED
      BY <2>1, <2>2
  <1>. QED
    BY <1>4, <1>5, <1>6, <1>7, <1>8, <1>9

LEMMA ExaminingKeeps ==
  ASSUME IInv, MemberInv,
         \/ DiscoverMembers \/ (\E i \in Identities : MatchMember(i)) \/ MatchDone
         \/ SearchMessages \/ NoMessages \/ Probe \/ RecordScan
  PROVE  MemberInv'
  <1>1. /\ UNCHANGED <<memberships, home, stranded>>
        /\ pc' \in {"match", "messages", "probe", "record", "leave"}
    BY DEF DiscoverMembers, MatchMember, MatchDone, SearchMessages, NoMessages, Probe, RecordScan,
           NoteFinished, Continue, historyVars
  <1>2. /\ visit'.membership = visit.membership /\ visit'.key = visit.key
        /\ visit'.lookedUp = visit.lookedUp
    <2>1. CASE DiscoverMembers
      BY <2>1, InvHolds DEF DiscoverMembers, Visits
    <2>2. CASE \E i \in Identities : MatchMember(i)
      BY <2>2, InvHolds DEF MatchMember, Visits
    <2>3. CASE MatchDone
      BY <2>3, InvHolds DEF MatchDone, Visits
    <2>4. CASE SearchMessages
      BY <2>4, InvHolds DEF SearchMessages, Visits
    <2>5. CASE NoMessages \/ Probe \/ RecordScan
      BY <2>5 DEF NoMessages, Probe, RecordScan
    <2>. QED
      BY <2>1, <2>2, <2>3, <2>4, <2>5
  <1>. QED
    BY <1>1, <1>2, SameMembershipKeeps DEF SameMembership

LEMMA LeaveKeeps ==
  ASSUME IInv, MemberInv, Leave
  PROVE  /\ MemberInv'
         /\ \A g \in home : g \notin home' => visit.key = g /\ ~visit.lookedUp
  <1>1. visit' = NoVisit /\ pc' = "walk"
    BY DEF Leave, BackToWalk, Continue
  <1>2. CASE StayAfterHit \/ visit.membership = "already"
    <2>1. UNCHANGED <<memberships, home, stranded>>
      BY <1>2 DEF Leave
    <2>. QED
      BY <1>1, <1>2, <2>1, VisitOver DEF MemberInv
  <1>3. CASE ~(StayAfterHit \/ visit.membership = "already")
    <2>1. PICK left \in SUBSET {visit.key} :
            /\ memberships' = memberships \ left
            /\ home' = home \ left
            /\ stranded' = stranded \cup ({visit.key} \ left)
      BY <1>3 DEF Leave, Strand
    <2>2. visit.lookedUp \in BOOLEAN
      BY InvHolds DEF Visits
    <2>. QED
      BY <1>1, <1>3, <2>1, <2>2, VisitOver DEF MemberInv
  <1>. QED
    BY <1>2, <1>3

LEMMA MemberStep ==
  ASSUME IInv, MemberInv, [Next]_vars
  PROVE  /\ MemberInv'
         /\ \A g \in home : g \notin home' => visit.key = g /\ ~visit.lookedUp
  <1>1. CASE Leave
    BY <1>1, LeaveKeeps
  <1>2. CASE ~Leave
    <2>1. CASE VisitStep
      <3>1. MemberInv'
        BY <1>2, <2>1, EnteringKeeps, ExaminingKeeps DEF VisitStep
      <3>2. home' = home
        BY <1>2, <2>1 DEF VisitStep, ResolveFails, Resolve, Join, JoinFails, JoinChallenged,
           SolveFails, Solve, DiscoverMembers, MatchMember, MatchDone, SearchMessages, NoMessages,
           Probe, RecordScan, NoteFinished, historyVars
      <3>. QED
        BY <3>1, <3>2
    <2>2. CASE Search \/ Resume
      BY <2>2, SameMembershipKeeps DEF Search, Resume, StartRun, SameMembership, historyVars
    <2>3. CASE Discover \/ MockServer \/ ResumeNothing \/ Cancel \/ UNCHANGED vars
      <3>1. UNCHANGED <<memberships, home, stranded, visit>>
        BY <2>3 DEF Discover, MockServer, NoteFinished, ResumeNothing, Cancel, vars, engineVars,
                    historyVars
      <3>2. pc' \in {pc, "walk"}
        BY <2>3 DEF Discover, MockServer, ResumeNothing, Cancel, vars, engineVars
      <3>. QED
        BY <3>1, <3>2, SameMembershipKeeps DEF SameMembership
    <2>4. CASE NextServer
      <3>1. UNCHANGED <<memberships, home, stranded>> /\ pc = "walk" /\ pc' = "resolve"
        BY <2>4 DEF NextServer, historyVars
      <3>2. visit.membership = "none"
        BY <3>1, NoVisitIsAVisit DEF IInv, VisitInv, Inside, Entering, Examining
      <3>3. visit'.membership = "none" /\ visit'.lookedUp = FALSE
        BY <2>4, QueueOK, NoVisitIsAVisit DEF NextServer
      <3>. QED
        BY <3>1, <3>2, <3>3 DEF MemberInv
    <2>5. CASE Finish \/ DiscoverNothing \/ WalkCancelled
      <3>1. /\ UNCHANGED <<memberships, home, stranded>> /\ pc \in {"walk", "discover"}
            /\ visit' = NoVisit /\ pc' = "idle"
        BY <2>5 DEF Finish, DiscoverNothing, WalkCancelled, Idle, historyVars
      <3>2. visit.membership = "none"
        BY <3>1, NoVisitIsAVisit DEF IInv, VisitInv, Inside, Entering, Examining
      <3>. QED
        BY <3>1, <3>2, VisitOver DEF MemberInv
    <2>6. CASE Crash
      <3>1. /\ UNCHANGED <<memberships, home>> /\ visit' = NoVisit /\ pc' = "idle"
            /\ stranded' = stranded \cup (IF visit.membership = "joined" THEN {visit.key} ELSE {})
        BY <2>6 DEF Crash, Idle, Strand
      <3>. QED
        BY <3>1, VisitOver DEF MemberInv
    <2>. QED
      BY <2>1, <2>2, <2>3, <2>4, <2>5, <2>6, NextCases
  <1>. QED
    BY <1>1, <1>2

LEMMA MemberInvariant == Spec => []MemberInv
  <1>1. Init => MemberInv
    BY NoVisitIsAVisit DEF Init, MemberInv
  <1>2. IInv /\ MemberInv /\ [Next]_vars => MemberInv'
    BY MemberStep
  <1>. QED
    BY <1>1, <1>2, Invariant, PTL DEF Spec

\* Between visits the account is where it was before, but for failures that
\* nothing could have undone.
THEOREM NoGuildIsLeftBehind == Spec => []NoGuildLeftBehind
  <1>1. IInv /\ MemberInv => NoGuildLeftBehind
    <2> SUFFICES ASSUME IInv, MemberInv, pc \in {"idle", "discover", "walk", "resolve"}, ~StayAfterHit
                 PROVE  memberships \subseteq home \cup stranded
      BY DEF NoGuildLeftBehind
    <2>1. visit.membership = "none"
      BY NoVisitIsAVisit DEF IInv, VisitInv, Inside, Entering, Examining
    <2>. QED
      BY <2>1 DEF MemberInv
  <1>. QED
    BY <1>1, Invariant, MemberInvariant, PTL

\* A guild of the operator's is left only where the lookup of the account's
\* guilds had failed.
THEOREM OwnGuildsAreKept == Spec => OwnGuildsKept
  <1> DEFINE NoneLost == \A g \in home : g \notin home' => visit.key = g /\ ~visit.lookedUp
  <1>1. IInv /\ MemberInv /\ [Next]_vars => [NoneLost]_home
    BY MemberStep
  <1> HIDE DEF NoneLost
  <1>2. Spec => [][NoneLost]_home
    BY <1>1, Invariant, MemberInvariant, PTL DEF Spec
  <1>. QED
    BY <1>2 DEF NoneLost, OwnGuildsKept

-----------------------------------------------------------------------------
(* Complete runs *)

\* The server whose guild is being visited.
AtHand(server) ==
  /\ pc \in Entering \cup Examining
  /\ server.invite = visit.scan.invite
  /\ visit.key \in {server.key, InviteGuild[server.invite]}

\* Until Ctrl-C, a planned server is in the queue, at hand, or recorded.
CoverInv ==
  ~cancelled /\ pc \in Inside \cup {"walk"} =>
    \A server \in planned[job.run] :
      \/ \E i \in DOMAIN job.queue : server = job.queue[i]
      \/ AtHand(server)
      \/ HasScanOf(job.run, server)

LEMMA ScansStay ==
  ASSUME IInv, StoreEffect, NEW r \in RunIDs, NEW server \in Servers, HasScanOf(r, server)
  PROVE  HasScanOf(r, server)'
  <1>1. {server.key, InviteGuild[server.invite]} \subseteq GuildKeys
    BY WorkflowAssumption DEF Servers
  <1>. QED
    BY <1>1, InvHolds, EffectKeeps DEF HasScanOf

\* Only Finish completes a run.
LEMMA NothingElseCloses ==
  ASSUME IInv, OpenEffect, NEW r \in RunIDs, RunExists(r)', runs'[r].status = "complete"
  PROVE  RunExists(r) /\ runs[r].status = "complete"
  <1>1. CASE RunExists(r)
    BY <1>1, InvHolds, EffectKeeps DEF StoreEffect
  <1>2. CASE ~RunExists(r)
    <2>1. CASE Creates
      BY <1>2, <2>1, InvHolds DEF Creates, CreateRunAtomic, RunExists, StoreTypeOK
    <2>2. CASE Records
      BY <1>2, <2>2, InvHolds, RecordingLeavesARow DEF Records, RunExists
    <2>3. CASE Saves \/ Fills \/ UNCHANGED storeVars
      BY <1>2, <2>3, InvHolds DEF Saves, SaveDiscoveredServers, Fills, UpdateRunTargetProfile,
         RunExists, StoreTypeOK, storeVars
    <2>. QED
      BY <1>2, <2>1, <2>2, <2>3 DEF OpenEffect
  <1>. QED
    BY <1>1, <1>2

\* A visit goes on with the same server, or has recorded it, or is cancelled.
LEMMA VisitMoves ==
  ASSUME IInv, VisitStep
  PROVE  /\ planned' = planned
         /\ pc' \in Entering \cup Examining =>
              /\ pc \in Entering \cup Examining
              /\ visit'.key \in {visit.key, InviteGuild[visit.scan.invite]}
         /\ \/ cancelled \/ pc = "leave" \/ pc' \in Entering \cup Examining
            \/ scans'[job.run][visit.key] # NoRow
  <1>1. ASSUME NEW status \in {"error", "blocked"}, GiveUp(status), pc \in Entering
        PROVE  pc' = "walk" /\ (cancelled \/ scans'[job.run][visit.key] # NoRow)
    BY <1>1, GivingUpIsLawful
  <1>2. CASE ResolveFails \/ JoinFails \/ SolveFails
    BY <1>1, <1>2 DEF ResolveFails, JoinFails, SolveFails, historyVars, Entering, Examining
  <1>3. CASE Resolve
    <2>1. /\ pc = "resolve" /\ pc' \in {"join", "discovery"} /\ planned' = planned
          /\ visit'.key = InviteGuild[visit.scan.invite]
      BY <1>3, InvHolds DEF Resolve, Continue, historyVars, Visits
    <2>. QED
      BY <2>1 DEF Entering
  <1>4. CASE Join
    <2>1. pc = "join" /\ pc' = "discovery" /\ planned' = planned /\ visit'.key = visit.key
      BY <1>4, InvHolds DEF Join, Continue, historyVars, Visits
    <2>. QED
      BY <2>1 DEF Entering
  <1>5. CASE JoinChallenged
    <2>1. pc = "join" /\ planned' = planned
      BY <1>5 DEF JoinChallenged, historyVars
    <2>2. CASE job.solver
      BY <1>5, <2>1, <2>2 DEF JoinChallenged, Continue, Entering
    <2>3. CASE ~job.solver
      BY <1>1, <1>5, <2>1, <2>3 DEF JoinChallenged, Entering, Examining
    <2>. QED
      BY <2>2, <2>3
  <1>6. CASE Solve
    <2>1. pc = "solve" /\ planned' = planned
      BY <1>6 DEF Solve, historyVars
    <2>2. CASE visit.attempt + 1 < MaxJoinAttempts
      <3>1. pc' = "join" /\ visit' = [visit EXCEPT !.attempt = visit.attempt + 1]
        BY <1>6, <2>2 DEF Solve, Continue
      <3>2. visit'.key = visit.key
        BY <3>1, InvHolds DEF Visits
      <3>. QED
        BY <2>1, <3>1, <3>2 DEF Entering
    <2>3. CASE ~(visit.attempt + 1 < MaxJoinAttempts)
      BY <1>1, <1>6, <2>1, <2>3 DEF Solve, Entering, Examining
    <2>. QED
      BY <2>2, <2>3
  <1>7. CASE DiscoverMembers
    <2>1. pc = "discovery" /\ pc' = "match" /\ planned' = planned /\ visit'.key = visit.key
      BY <1>7, InvHolds DEF DiscoverMembers, Continue, historyVars, Visits
    <2>. QED
      BY <2>1 DEF Entering, Examining
  <1>8. CASE \E i \in Identities : MatchMember(i)
    <2>1. pc = "match" /\ pc' = "match" /\ planned' = planned /\ visit'.key = visit.key
      BY <1>8, InvHolds DEF MatchMember, Continue, historyVars, Visits
    <2>. QED
      BY <2>1 DEF Examining
  <1>9. CASE MatchDone \/ SearchMessages
    <2>1. CASE MatchDone
      BY <2>1, InvHolds DEF MatchDone, Continue, historyVars, Visits, Examining
    <2>2. CASE SearchMessages
      BY <2>2, InvHolds DEF SearchMessages, Continue, historyVars, Visits, Examining
    <2>. QED
      BY <1>9, <2>1, <2>2
  <1>10. CASE NoMessages \/ Probe
    BY <1>10 DEF NoMessages, Probe, Continue, historyVars, Examining
  <1>11. CASE RecordScan
    BY <1>11, RecordScanIsLawful DEF RecordScan, NoteFinished, Continue, Entering, Examining
  <1>12. CASE Leave
    BY <1>12 DEF Leave, BackToWalk, Continue, Entering, Examining
  <1>. QED
    BY <1>2, <1>3, <1>4, <1>5, <1>6, <1>7, <1>8, <1>9, <1>10, <1>11, <1>12 DEF VisitStep

LEMMA VisitCovers ==
  ASSUME IInv, CoverInv, VisitStep
  PROVE  CoverInv'
  <1>1. Advances
    BY VisitStepAdvances
  <1>2. StoreEffect /\ UNCHANGED <<job, cancelled>>
    BY <1>1 DEF Advances, StoreEffect
  <1>3. SUFFICES ASSUME ~cancelled, NEW server \in planned[job.run],
                        ~ \E i \in DOMAIN job.queue : server = job.queue[i]
                 PROVE  AtHand(server)' \/ HasScanOf(job.run, server)'
    BY <1>2, VisitMoves DEF CoverInv
  <1>4. job.run \in RunIDs /\ server \in Servers
    BY <1>1, InvHolds DEF HistoryOK, Advances
  <1>5. CASE HasScanOf(job.run, server)
    <2>1. HasScanOf(job.run, server) => HasScanOf(job.run, server)'
      BY <1>2, <1>4, ScansStay DEF HasScanOf
    <2>. QED
      BY <1>5, <2>1
  <1>6. CASE AtHand(server)
    <2>1. CASE pc' \in Entering \cup Examining
      BY <1>1, <1>6, <2>1, VisitMoves DEF Advances, AtHand, Inside
    <2>2. CASE pc' \notin Entering \cup Examining
      <3>1. scans'[job.run][visit.key] # NoRow
        BY <1>3, <1>6, <2>2, VisitMoves DEF AtHand, Entering, Examining
      <3>. QED
        BY <1>2, <1>6, <3>1 DEF AtHand, HasScanOf
    <2>. QED
      BY <2>1, <2>2
  <1>. QED
    BY <1>1, <1>3, <1>5, <1>6 DEF CoverInv, Advances

LEMMA CoverStep ==
  ASSUME IInv, CoverInv, [Next]_vars
  PROVE  CoverInv'
  <1>1. CASE VisitStep
    BY <1>1, VisitCovers
  <1>2. CASE Search \/ Resume \/ Finish \/ DiscoverNothing \/ WalkCancelled \/ Crash
    BY <1>2 DEF Search, Resume, StartRun, Finish, DiscoverNothing, WalkCancelled, Crash, Idle,
                CoverInv, Inside, Entering, Examining
  <1>3. CASE Discover
    <2>1. PICK queue \in DiscoveredQueues :
            /\ job' = [job EXCEPT !.queue = Walked(queue)]
            /\ planned' = [planned EXCEPT ![job.run] = ToSet(Walked(queue))]
      BY <1>3 DEF Discover
    <2>2. /\ job'.run = job.run /\ job'.queue = Walked(queue)
          /\ planned'[job.run] = ToSet(Walked(queue))
      <3>1. job.run \in RunIDs
        BY <1>3 DEF Discover, IInv, RunInv
      <3>. QED
        BY <2>1, <3>1 DEF IInv, ControlOK, Jobs
    <2>. QED
      BY <2>2 DEF CoverInv, ToSet
  <1>4. CASE NextServer
    <2>1. /\ pc = "walk" /\ pc' = "resolve" /\ job.queue # <<>> /\ ~cancelled
          /\ visit' = Visiting(Head(job.queue))
          /\ job' = [job EXCEPT !.queue = Tail(job.queue)]
          /\ planned' = planned /\ scans' = scans
      BY <1>4 DEF NextServer, historyVars, storeVars
    <2>2. job'.run = job.run /\ job'.queue = Tail(job.queue)
      BY <2>1 DEF IInv, ControlOK, Jobs
    <2>3. visit'.key = Head(job.queue).key /\ visit'.scan.invite = Head(job.queue).invite
      BY <2>1, QueueOK, NoVisitIsAVisit
    <2>4. ASSUME NEW server \in planned[job.run]
          PROVE  \/ \E i \in DOMAIN job'.queue : server = job'.queue[i]
                 \/ AtHand(server)'
                 \/ HasScanOf(job.run, server)'
      <3>1. CASE \E i \in DOMAIN job.queue : server = job.queue[i]
        <4>1. server = Head(job.queue) \/ \E i \in DOMAIN job'.queue : server = job'.queue[i]
          BY <2>1, <2>2, <3>1, QueueOK
        <4>2. CASE server = Head(job.queue)
          BY <2>1, <2>3, <4>2 DEF AtHand, Entering
        <4>. QED
          BY <4>1, <4>2
      <3>2. CASE HasScanOf(job.run, server)
        BY <2>1, <2>2, <3>2 DEF HasScanOf
      <3>3. ~AtHand(server)
        BY <2>1 DEF AtHand, Entering, Examining
      <3>. QED
        BY <2>1, <2>4, <3>1, <3>2, <3>3 DEF CoverInv
    <2>. QED
      BY <2>1, <2>2, <2>4 DEF CoverInv, HasScanOf
  <1>5. CASE MockServer
    <2>1. /\ pc = "walk" /\ pc' = "walk" /\ job.queue # <<>> /\ ~cancelled
          /\ job' = [job EXCEPT !.queue = Tail(job.queue)] /\ planned' = planned
          /\ scans'[job.run][Head(job.queue).key] # NoRow
      BY <1>5, MockServerStep DEF MockServer, NoteFinished
    <2>2. /\ job'.run = job.run /\ job'.queue = Tail(job.queue) /\ job.run \in RunIDs
          /\ planned[job.run] \subseteq Servers
      BY <2>1 DEF IInv, ControlOK, RunInv, Jobs
    <2>3. StoreEffect
      BY <1>5, MockServerStep DEF StoreEffect
    <2>4. ASSUME NEW server \in planned[job.run]
          PROVE  \/ \E i \in DOMAIN job'.queue : server = job'.queue[i]
                 \/ HasScanOf(job.run, server)'
      <3>1. CASE \E i \in DOMAIN job.queue : server = job.queue[i]
        <4>1. server = Head(job.queue) \/ \E i \in DOMAIN job'.queue : server = job'.queue[i]
          BY <2>1, <2>2, <3>1, QueueOK
        <4>2. CASE server = Head(job.queue)
          BY <2>1, <2>2, <4>2 DEF HasScanOf
        <4>. QED
          BY <4>1, <4>2
      <3>2. CASE HasScanOf(job.run, server)
        <4>1. HasScanOf(job.run, server) => \E g \in {server.key, InviteGuild[server.invite]} :
                                              scans'[job.run][g] # NoRow
          BY <2>2, <2>3, <2>4, ScansStay DEF HasScanOf
        <4>. QED
          BY <2>2, <3>2, <4>1 DEF HasScanOf
      <3>3. ~AtHand(server)
        BY <2>1 DEF AtHand, Entering, Examining
      <3>. QED
        BY <2>1, <2>4, <3>1, <3>2, <3>3 DEF CoverInv
    <2>. QED
      BY <2>1, <2>2, <2>4 DEF CoverInv, HasScanOf
  <1>6. CASE ResumeNothing \/ UNCHANGED vars
    BY <1>6 DEF ResumeNothing, vars, engineVars, historyVars, storeVars, CoverInv, AtHand, HasScanOf
  <1>7. CASE Cancel
    BY <1>7 DEF Cancel, CoverInv
  <1>. QED
    BY <1>1, <1>2, <1>3, <1>4, <1>5, <1>6, <1>7, NextCases

LEMMA CompleteStep ==
  ASSUME IInv, CoverInv, CompleteRunCoversItsServers, [Next]_vars
  PROVE  CompleteRunCoversItsServers'
  <1> SUFFICES ASSUME NEW r \in RunIDs, RunExists(r)', runs'[r].status = "complete",
                      NEW server \in planned'[r]
               PROVE  HasScanOf(r, server)'
    BY DEF CompleteRunCoversItsServers
  <1>1. StoreEffect
    BY InvStep
  <1>2. CASE RunExists(r) /\ runs[r].status = "complete"
    <2>1. pc # "idle" => r # job.run
      BY <1>2 DEF IInv, RunInv
    <2>2. planned'[r] = planned[r] /\ planned[r] \subseteq Servers
      <3>1. CASE Discover
        BY <2>1, <3>1 DEF Discover, IInv, ControlOK
      <3>2. CASE VisitStep
        BY <3>2, VisitMoves DEF IInv, ControlOK
      <3>3. CASE ~Discover /\ ~VisitStep
        BY <3>3, NextCases DEF Search, Resume, StartRun, NextServer, MockServer, NoteFinished,
           Finish, DiscoverNothing, WalkCancelled, Crash, ResumeNothing, Cancel, vars,
           historyVars, IInv, ControlOK
      <3>. QED
        BY <3>1, <3>2, <3>3
    <2>3. HasScanOf(r, server)
      BY <1>2, <2>2 DEF CompleteRunCoversItsServers
    <2>. QED
      BY <1>1, <2>2, <2>3, ScansStay
  <1>3. CASE ~(RunExists(r) /\ runs[r].status = "complete")
    <2>1. ~OpenEffect
      BY <1>3, NothingElseCloses
    <2>2. Finish
      <3>1. \/ VisitStep \/ Search \/ Resume \/ Discover \/ NextServer \/ MockServer
            \/ DiscoverNothing \/ WalkCancelled \/ Crash
            \/ ResumeNothing \/ Cancel \/ UNCHANGED vars
            => OpenEffect
        BY VisitStepAdvances, SearchStep, ResumeStep, DiscoverStep, NextServerStep, MockServerStep,
           IdleSteps, QuietSteps DEF Advances
      <3>. QED
        BY <2>1, <3>1, NextCases
    <2>3. ~cancelled
      BY <2>1, <2>2 DEF Finish, OpenEffect
    <2>4. /\ pc = "walk" /\ job.queue = <<>> /\ UpdateRunStatus(job.run, "complete")
          /\ planned' = planned
      BY <2>2, <2>3 DEF Finish, historyVars
    <2>5. r = job.run
      BY <1>1, <1>3, <2>4, InvHolds DEF UpdateRunStatus, RunExists, StoreTypeOK
    <2>6. HasScanOf(job.run, server)
      BY <2>3, <2>4, <2>5 DEF CoverInv, AtHand, Entering, Examining
    <2>. QED
      BY <2>4, <2>5, <2>6 DEF UpdateRunStatus, HasScanOf
  <1>. QED
    BY <1>2, <1>3

\* A run marked complete has looked at every server it set out for, although
\* no write of a checkpoint is ever checked.
THEOREM CompleteRunsAreCovered == Spec => []CompleteRunCoversItsServers
  <1>1. Init => CoverInv /\ CompleteRunCoversItsServers
    BY DEF Init, StoreInit, CoverInv, CompleteRunCoversItsServers, RunExists, Inside, Entering, Examining
  <1>2. IInv /\ CoverInv /\ CompleteRunCoversItsServers /\ [Next]_vars
          => CoverInv' /\ CompleteRunCoversItsServers'
    BY CoverStep, CompleteStep
  <1>. QED
    BY <1>1, <1>2, Invariant, PTL DEF Spec
-----------------------------------------------------------------------------
(* Invites that are walked again *)

\* The invites a run has a row of or has recorded as complete.
Touched(r) ==
  {scans[r][g].invite : g \in {h \in GuildKeys : scans[r][h] # NoRow}} \cup finished[r]

\* Another server of the run was listed under the guild the invite leads to.
SharesRow(r, invite) ==
  \E server \in planned[r] : server.invite # invite /\ server.key = InviteGuild[invite]

\* No invite is in the queue twice, and none the run has dealt with.
QueueInv ==
  /\ \A i, j \in DOMAIN job.queue : job.queue[i].invite = job.queue[j].invite => i = j
  /\ pc = "discover" => Touched(job.run) = {}
  /\ pc \in Inside \cup {"walk"} =>
       /\ \A i \in DOMAIN job.queue :
            job.queue[i] \in planned[job.run] /\ job.queue[i].invite \notin Touched(job.run)

\* Nor is the one at hand, which is known under the guild it leads to as soon
\* as that is resolved.
AtHandInv ==
  /\ pc \in Entering \cup Examining =>
       /\ visit.scan.invite \notin Touched(job.run)
       /\ \A i \in DOMAIN job.queue : job.queue[i].invite # visit.scan.invite
  /\ pc \in Inside => job.live
  /\ pc = "resolve" => [invite |-> visit.scan.invite, key |-> visit.key] \in planned[job.run]
  /\ pc \in (Entering \cup Examining) \ {"resolve"} => visit.key = InviteGuild[visit.scan.invite]

\* A row that resume would take up again is of an invite not recorded as
\* complete, or is shared; in a live run a complete invite has its own row, that
\* of the guild it leads to.
RowsInv ==
  /\ \A r \in RunIDs : ~RunExists(r) => finished[r] = {}
  /\ \A r \in RunIDs : \A g \in ResumableScans(r) :
       scans[r][g].invite \in finished[r] => SharesRow(r, scans[r][g].invite)
  /\ pc # "idle" /\ job.live =>
       \A g \in GuildKeys :
         scans[job.run][g] # NoRow /\ scans[job.run][g].invite \in finished[job.run]
           => g = InviteGuild[scans[job.run][g].invite]

\* A resumed run is another one than the run that resumes it.
FromInv == job.from # NoRun => job.from # job.run /\ RunExists(job.from)

RevisitInv == QueueInv /\ AtHandInv /\ RowsInv /\ FromInv /\ RevisitsAreShared

\* A write of the row of a guild: it is new, or takes over the status, or is
\* rejected; the invite of a row stays.
RowWritten(g, invite, status) ==
  /\ \A r \in RunIDs, h \in GuildKeys : r # job.run \/ h # g => scans'[r][h] = scans[r][h]
  /\ \/ scans'[job.run][g] = scans[job.run][g]
     \/ /\ scans'[job.run][g] # NoRow /\ scans'[job.run][g].status = status
        /\ scans'[job.run][g].invite =
             IF scans[job.run][g] = NoRow THEN invite ELSE scans[job.run][g].invite

LEMMA CheckpointWritesARow ==
  ASSUME StoreTypeOK, job.run \in RunIDs, NEW g \in GuildKeys, NEW scan \in ScanRows,
         NEW obs, NEW msgs, Checkpoint(g, scan, obs, msgs)
  PROVE  RowWritten(g, scan.invite, scan.status)
  <1> DEFINE old == scans[job.run][g]
             row == UpsertedScan(old, scan)
  <1>1. CASE UNCHANGED storeVars
    BY <1>1 DEF storeVars, RowWritten
  <1>2. CASE scans' = [scans EXCEPT ![job.run][g] = row]
    <2>1. old \in ScanTable
      BY DEF StoreTypeOK, ScanTable
    <2>2. row # NoRow /\ row.status = scan.status
          /\ row.invite = IF old = NoRow THEN scan.invite ELSE old.invite
      <3>1. CASE old = NoRow
        BY <3>1, NoRowAssumption DEF UpsertedScan
      <3>2. CASE old # NoRow
        <4>1. row = MergedScan(old, scan)
          BY <3>2 DEF UpsertedScan
        <4>2. MergedScan(old, scan).status = scan.status /\ MergedScan(old, scan).invite = old.invite
          BY DEF MergedScan
        <4>3. MergedScan(old, scan) \in ScanRows
          BY <2>1, <3>2, MergeIsScanRow DEF ScanTable
        <4>. QED
          BY <3>2, <4>1, <4>2, <4>3, NoRowAssumption
      <3>. QED
        BY <3>1, <3>2
    <2> HIDE DEF row
    <2>3. scans'[job.run][g] = row
      BY <1>2 DEF StoreTypeOK
    <2>4. \A r \in RunIDs, h \in GuildKeys : r # job.run \/ h # g => scans'[r][h] = scans[r][h]
      BY <1>2 DEF StoreTypeOK
    <2>. QED
      BY <2>2, <2>3, <2>4 DEF RowWritten
  <1>. QED
    BY <1>1, <1>2 DEF Checkpoint, RecordGuildScanTransaction

Noted(invite) == finished' \in {finished, [finished EXCEPT ![job.run] = @ \cup {invite}]}

\* What a step of a visit does to the rows and the history of its run.
LEMMA VisitWrites ==
  ASSUME IInv, VisitStep
  PROVE  /\ \/ scans' = scans /\ finished' = finished
            \/ \E status \in {"error", "blocked"} :
                 /\ RowWritten(visit.key, visit.scan.invite, status) /\ finished' = finished
                 /\ pc \in Entering /\ (status = "error" => pc = "resolve") /\ pc' = "walk"
            \/ /\ RowWritten(visit.key, visit.scan.invite, "complete")
               /\ Noted(visit.scan.invite) /\ pc = "record" /\ pc' = "leave"
         /\ pc' # "resolve"
         /\ pc = "resolve" /\ pc' \in Entering \cup Examining
              => visit'.key = InviteGuild[visit.scan.invite]
  <1>1. ASSUME NEW u, FillProfile(u)
        PROVE  scans' = scans
    BY <1>1 DEF FillProfile, UpdateRunTargetProfile, storeVars
  <1>2. ASSUME NEW status \in {"error", "blocked"}, GiveUp(status), pc \in Entering
        PROVE  RowWritten(visit.key, visit.scan.invite, status) /\ pc' = "walk"
    <2> DEFINE scan == [visit.scan EXCEPT !.status = status]
    <2>1. visit.scan \in ScanRows /\ visit.key \in GuildKeys /\ job.run \in RunIDs
      BY <1>2, InvHolds DEF Visits, Inside
    <2>2. scan \in ScanRows /\ scan.status = status /\ scan.invite = visit.scan.invite
      BY <2>1 DEF ScanRows, ScanStatuses, Terminal, NonTerminal
    <2>3. Checkpoint(visit.key, scan, <<>>, <<>>) /\ pc' = "walk"
      BY <1>2 DEF GiveUp, BackToWalk, Continue
    <2> HIDE DEF scan
    <2>. QED
      BY <2>1, <2>2, <2>3, CheckpointWritesARow, InvHolds
  <1>3. CASE ResolveFails \/ JoinFails \/ SolveFails
    BY <1>2, <1>3 DEF ResolveFails, JoinFails, SolveFails, historyVars, Entering, Examining
  <1>4. CASE Resolve
    <2>1. /\ pc = "resolve" /\ pc' \in {"join", "discovery"} /\ scans' = scans /\ finished' = finished
          /\ visit'.key = InviteGuild[visit.scan.invite]
      BY <1>4, InvHolds DEF Resolve, Continue, historyVars, storeVars, Visits
    <2>. QED
      BY <2>1
  <1>5. CASE Join \/ DiscoverMembers \/ (\E i \in Identities : MatchMember(i)) \/ MatchDone
             \/ SearchMessages \/ NoMessages \/ Probe \/ Leave
    <2>1. scans' = scans
      BY <1>1, <1>5 DEF Join, DiscoverMembers, MatchMember, MatchDone, SearchMessages, NoMessages,
                        Probe, Leave, storeVars
    <2>2. finished' = finished /\ pc # "resolve" /\ pc' # "resolve"
      BY <1>5 DEF Join, DiscoverMembers, MatchMember, MatchDone, SearchMessages, NoMessages,
                  Probe, Leave, historyVars, Continue, BackToWalk
    <2>. QED
      BY <2>1, <2>2
  <1>6. CASE JoinChallenged
    <2>1. pc = "join" /\ finished' = finished
      BY <1>6 DEF JoinChallenged, historyVars
    <2>2. CASE job.solver
      BY <1>6, <2>1, <2>2 DEF JoinChallenged, Continue, storeVars
    <2>3. CASE ~job.solver
      BY <1>2, <1>6, <2>1, <2>3 DEF JoinChallenged, Entering, Examining
    <2>. QED
      BY <2>2, <2>3
  <1>7. CASE Solve
    <2>1. pc = "solve" /\ finished' = finished
      BY <1>7 DEF Solve, historyVars
    <2>2. CASE visit.attempt + 1 < MaxJoinAttempts
      BY <1>7, <2>1, <2>2 DEF Solve, Continue, storeVars
    <2>3. CASE ~(visit.attempt + 1 < MaxJoinAttempts)
      BY <1>2, <1>7, <2>1, <2>3 DEF Solve, Entering, Examining
    <2>. QED
      BY <2>2, <2>3
  <1>8. CASE RecordScan
    <2> DEFINE scan == [visit.scan EXCEPT !.status = "complete"]
    <2>1. /\ pc = "record" /\ pc' = "leave" /\ Noted(visit.scan.invite)
          /\ Checkpoint(visit.key, scan, visit.obs, visit.msgs)
      BY <1>8 DEF RecordScan, Continue, NoteFinished, Noted
    <2>2. visit.scan \in ScanRows /\ visit.key \in GuildKeys /\ job.run \in RunIDs
      BY <2>1, InvHolds DEF Visits, Inside, Examining
    <2>3. scan \in ScanRows /\ scan.status = "complete" /\ scan.invite = visit.scan.invite
      BY <2>2 DEF ScanRows, ScanStatuses, Terminal
    <2> HIDE DEF scan
    <2>4. RowWritten(visit.key, visit.scan.invite, "complete")
      BY <2>1, <2>2, <2>3, CheckpointWritesARow, InvHolds
    <2>. QED
      BY <2>1, <2>4
  <1>. QED
    BY <1>3, <1>4, <1>5, <1>6, <1>7, <1>8 DEF VisitStep

\* A write touches nothing but the invite it is of.
LEMMA WritingTouchesOneInvite ==
  ASSUME IInv, NEW r \in RunIDs, r = job.run, NEW g \in GuildKeys, NEW invite, NEW status,
         RowWritten(g, invite, status), Noted(invite)
  PROVE  /\ Touched(r)' \subseteq Touched(r) \cup {invite}
         /\ finished'[r] \in {finished[r], finished[r] \cup {invite}}
         /\ \A q \in RunIDs \ {r} : finished'[q] = finished[q]
         /\ \A h \in GuildKeys : scans'[r][h] # NoRow =>
              \/ scans[r][h] # NoRow /\ scans'[r][h].invite = scans[r][h].invite
              \/ scans[r][h] = NoRow /\ h = g /\ scans'[r][h].invite = invite
  <1>1. /\ finished'[r] \in {finished[r], finished[r] \cup {invite}}
        /\ \A q \in RunIDs \ {r} : finished'[q] = finished[q]
    BY InvHolds DEF Noted, HistoryOK
  <1>2. ASSUME NEW h \in GuildKeys, scans'[r][h] # NoRow
        PROVE  \/ scans[r][h] # NoRow /\ scans'[r][h].invite = scans[r][h].invite
               \/ scans[r][h] = NoRow /\ h = g /\ scans'[r][h].invite = invite
    BY <1>2 DEF RowWritten
  <1>3. Touched(r)' \subseteq Touched(r) \cup {invite}
    BY <1>1, <1>2 DEF Touched
  <1>. QED
    BY <1>1, <1>2, <1>3

\* A run that has not been created has no past.
LEMMA RunsStay ==
  ASSUME IInv, StoreEffect
  PROVE  \A r \in RunIDs : ~RunExists(r)' => ~RunExists(r)
  BY InvHolds, EffectKeeps DEF RunExists

\* The rows of a run stay as good when it writes one of an untouched invite: a
\* terminal one, or one of a server listed under another guild than its own.
LEMMA WritingKeepsRows ==
  ASSUME IInv, StoreEffect, RowsInv, pc # "idle", planned' = planned,
         job'.run = job.run, job'.live = job.live,
         NEW g \in GuildKeys, NEW invite, NEW status \in Terminal \cup {"error"},
         RowWritten(g, invite, status), Noted(invite), invite \notin Touched(job.run),
         status = "error" =>
           /\ finished' = finished /\ job.live
           /\ [invite |-> invite, key |-> g] \in planned[job.run],
         job.live /\ finished' # finished => g = InviteGuild[invite]
  PROVE  RowsInv'
  <1> DEFINE r == job.run
  <1>1. r \in RunIDs /\ RunExists(r)
    BY DEF IInv, RunInv
  <1> HIDE DEF r
  <1>2. r = job.run
    BY DEF r
  <1>3. /\ finished'[r] \in {finished[r], finished[r] \cup {invite}}
        /\ \A q \in RunIDs \ {r} : finished'[q] = finished[q]
        /\ \A h \in GuildKeys : scans'[r][h] # NoRow =>
             \/ scans[r][h] # NoRow /\ scans'[r][h].invite = scans[r][h].invite
             \/ scans[r][h] = NoRow /\ h = g /\ scans'[r][h].invite = invite
    BY <1>1, <1>2, WritingTouchesOneInvite
  \* A row there was is of another invite, so it is complete only if it was.
  <1>4. ASSUME NEW h \in GuildKeys, scans[r][h] # NoRow
        PROVE  /\ scans[r][h].invite # invite
               /\ scans[r][h].invite \in finished'[r] => scans[r][h].invite \in finished[r]
    <2>1. scans[r][h].invite \in Touched(r) /\ invite \notin Touched(r)
      BY <1>2, <1>4 DEF Touched
    <2>. QED
      BY <1>3, <2>1
  <1>5. \A q \in RunIDs : ~RunExists(q)' => finished'[q] = {}
    <2>1. \A q \in RunIDs : ~RunExists(q)' => ~RunExists(q)
      BY RunsStay
    <2>. QED
      BY <1>1, <1>3, <2>1 DEF RowsInv
  <1>6. ASSUME NEW q \in RunIDs, NEW h \in GuildKeys,
               scans'[q][h] # NoRow, scans'[q][h].status \in NonTerminal,
               scans'[q][h].invite \in finished'[q]
        PROVE  SharesRow(q, scans[q][h].invite)'
    <2>1. CASE scans'[q][h] = scans[q][h]
      <3>1. scans[q][h].invite \in finished[q]
        BY <1>3, <1>4, <1>6, <2>1
      <3>2. h \in ResumableScans(q)
        BY <1>6, <2>1 DEF ResumableScans
      <3>3. SharesRow(q, scans[q][h].invite)
        BY <3>1, <3>2 DEF RowsInv
      <3>. QED
        BY <2>1, <3>3 DEF SharesRow
    <2>2. CASE scans'[q][h] # scans[q][h]
      <3>1. q = r /\ h = g /\ scans'[r][g].status = status
        BY <1>2, <2>2 DEF RowWritten
      <3>2. status = "error"
        BY <1>6, <3>1 DEF Terminal, NonTerminal
      <3>3. scans[r][g] # NoRow
        <4>1. finished'[r] = finished[r] /\ invite \notin finished[r]
          BY <1>2, <3>2 DEF Touched
        <4>. QED
          BY <1>3, <1>6, <3>1, <4>1
      <3>4. /\ scans'[r][g].invite = scans[r][g].invite /\ scans[r][g].invite # invite
            /\ scans[r][g].invite \in finished[r]
        BY <1>3, <1>4, <1>6, <3>1, <3>3
      <3>5. g = InviteGuild[scans[r][g].invite]
        BY <1>2, <3>2, <3>3, <3>4 DEF RowsInv
      <3> DEFINE server == [invite |-> invite, key |-> g]
      <3>6. server \in planned[r] /\ server.invite = invite /\ server.key = g
        BY <1>2, <3>2
      <3> HIDE DEF server
      <3>7. SharesRow(r, scans[r][g].invite)
        BY <3>4, <3>5, <3>6 DEF SharesRow
      <3>. QED
        BY <3>1, <3>4, <3>7 DEF SharesRow
    <2>. QED
      BY <2>1, <2>2
  <1>7. ASSUME job.live, NEW h \in GuildKeys, scans'[r][h] # NoRow,
               scans'[r][h].invite \in finished'[r]
        PROVE  h = InviteGuild[scans'[r][h].invite]
    <2>1. CASE scans[r][h] # NoRow
      <3>1. scans'[r][h].invite = scans[r][h].invite /\ scans[r][h].invite \in finished[r]
        BY <1>3, <1>4, <1>7, <2>1
      <3>. QED
        BY <1>2, <1>7, <2>1, <3>1 DEF RowsInv
    <2>2. CASE scans[r][h] = NoRow
      <3>1. h = g /\ scans'[r][h].invite = invite
        BY <1>3, <1>7, <2>2
      <3>2. invite \notin finished[r]
        BY <1>2 DEF Touched
      <3>. QED
        BY <1>7, <3>1, <3>2
    <2>. QED
      BY <2>1, <2>2
  <1>. QED
    BY <1>2, <1>5, <1>6, <1>7 DEF RowsInv, ResumableScans

\* And when it writes none.
LEMMA QuietKeepsRows ==
  ASSUME IInv, StoreEffect, RowsInv, scans' = scans, finished' = finished, planned' = planned,
         pc' = "idle" \/ (pc # "idle" /\ job'.run = job.run /\ job'.live = job.live)
  PROVE  RowsInv'
  <1>1. \A r \in RunIDs : ~RunExists(r)' => ~RunExists(r)
    BY RunsStay
  <1>. QED
    BY <1>1 DEF RowsInv, ResumableScans, SharesRow

\* The run that is resumed stays as it was found, and the queue only shrinks.
LEMMA ShrinkingKeepsRevisits ==
  ASSUME IInv, StoreEffect, FromInv, RevisitsAreShared, job'.run = job.run, job'.from = job.from,
         \A i \in DOMAIN job'.queue : \E j \in DOMAIN job.queue : job'.queue[i] = job.queue[j],
         \A r \in RunIDs \ {job.run} : finished'[r] = finished[r] /\ planned'[r] = planned[r]
  PROVE  FromInv' /\ RevisitsAreShared'
  <1>1. CASE job.from = NoRun
    BY <1>1 DEF FromInv, RevisitsAreShared
  <1>2. CASE job.from # NoRun
    <2>1. job.from \in RunIDs \ {job.run} /\ RunExists(job.from)
      BY <1>2 DEF FromInv, IInv, ControlOK, Jobs
    <2>2. RunExists(job.from)'
      <3>1. runs'[job.from] # NoRow
        BY <2>1, InvHolds, EffectKeeps
      <3>. QED
        BY <3>1 DEF RunExists
    <2>3. finished'[job.from] = finished[job.from] /\ planned'[job.from] = planned[job.from]
      BY <2>1
    <2>. QED
      BY <2>1, <2>2, <2>3 DEF FromInv, RevisitsAreShared
  <1>. QED
    BY <1>1, <1>2

\* A fresh run has touched nothing; the queue of a resumed run is of invites
\* it has rows of to resume, each once.
LEMMA StartingKeeps ==
  ASSUME IInv, RevisitInv, NEW r \in RunIDs, NEW target, NEW live, NEW solver,
         NEW from \in RunIDs \cup {NoRun}, NEW queue,
         StartRun(r, target, live, solver, from, queue), StoreEffect,
         \A i, j \in DOMAIN queue : queue[i].invite = queue[j].invite => i = j,
         from # NoRun =>
           /\ RunExists(from)
           /\ \A i \in DOMAIN queue : \E g \in ResumableScans(from) :
                queue[i].invite = scans[from][g].invite
  PROVE  RevisitInv'
  <1>1. /\ pc = "idle" /\ pc' = "discover" /\ job'.run = r /\ job'.queue = queue /\ job'.from = from
        /\ job'.live = live /\ scans' = scans /\ finished' = finished /\ planned' = planned
        /\ ~RunExists(r)
    BY DEF StartRun, CreateRunAtomic, historyVars
  <1>2. /\ finished[r] = {} /\ \A g \in GuildKeys : scans[r][g] = NoRow
    BY <1>1 DEF RevisitInv, RowsInv, IInv, RunInv
  <1>3. QueueInv'
    BY <1>1, <1>2 DEF QueueInv, Touched, Inside, Entering, Examining
  <1>4. AtHandInv'
    BY <1>1 DEF AtHandInv, Inside, Entering, Examining
  <1>5. RowsInv'
    <2>1. \A q \in RunIDs : ~RunExists(q)' => ~RunExists(q)
      BY RunsStay
    <2>. QED
      BY <1>1, <1>2, <2>1 DEF RevisitInv, RowsInv, ResumableScans, SharesRow
  <1>6. FromInv'
    <2>1. CASE from # NoRun
      <3>1. from \in RunIDs /\ RunExists(from)
        BY <2>1
      <3>2. runs'[from] # NoRow
        BY <3>1, InvHolds, EffectKeeps
      <3>. QED
        BY <1>1, <3>1, <3>2 DEF FromInv, RunExists
    <2>. QED
      BY <1>1, <2>1 DEF FromInv
  <1>7. RevisitsAreShared'
    <2>1. ASSUME from # NoRun, NEW i \in DOMAIN queue, queue[i].invite \in finished[from]
          PROVE  SharesRow(from, queue[i].invite)
      <3>1. PICK g \in ResumableScans(from) : queue[i].invite = scans[from][g].invite
        BY <2>1
      <3>. QED
        BY <2>1, <3>1 DEF RevisitInv, RowsInv
    <2>. QED
      BY <1>1, <2>1 DEF RevisitsAreShared, SharesRow
  <1>. QED
    BY <1>3, <1>4, <1>5, <1>6, <1>7 DEF RevisitInv

LEMMA CommandsKeepRevisits ==
  ASSUME IInv, RevisitInv, Search \/ Resume
  PROVE  RevisitInv'
  <1>1. StoreEffect
    BY SearchStep, ResumeStep DEF StoreEffect
  <1>2. CASE Search
    <2>1. PICK r \in SearchRuns, target \in Targets, live \in BOOLEAN, solver \in Solvers :
            StartRun(r, target, live, solver, NoRun, <<>>)
      BY <1>2 DEF Search
    <2>2. r \in RunIDs /\ NoRun \in RunIDs \cup {NoRun} /\ DOMAIN <<>> = {}
      BY WorkflowAssumption
    <2> DEFINE queue == <<>>
    <2>3. \A i, j \in DOMAIN queue : queue[i].invite = queue[j].invite => i = j
      BY <2>2
    <2>4. StartRun(r, target, live, solver, NoRun, queue)
      BY <2>1
    <2> HIDE DEF queue
    <2>. QED
      BY <1>1, <2>2, <2>3, <2>4, StartingKeeps
  <1>3. CASE Resume
    <2>1. PICK old \in ResumableRuns, r \in RunIDs, live \in BOOLEAN :
            LET invites == {scans[old][g].invite : g \in ResumableScans(old)}
            IN  /\ invites # {}
                /\ \E order \in SetToSeqs(invites) :
                     StartRun(r, runs[old].userID, live, FALSE, old,
                              [n \in DOMAIN order |->
                                 [invite |-> order[n], key |-> InviteKey[order[n]]]])
      BY <1>3 DEF Resume
    <2> DEFINE invites == {scans[old][g].invite : g \in ResumableScans(old)}
    <2>2. PICK order \in SetToSeqs(invites) :
            StartRun(r, runs[old].userID, live, FALSE, old,
                     [n \in DOMAIN order |-> [invite |-> order[n], key |-> InviteKey[order[n]]]])
      BY <2>1
    <2> DEFINE queue == [n \in DOMAIN order |-> [invite |-> order[n], key |-> InviteKey[order[n]]]]
    <2>3. old \in RunIDs /\ RunExists(old)
      <3>1. old \in RunIDs
        BY DEF ResumableRuns, LatestIncompleteRuns
      <3>. QED
        BY <2>1, <3>1 DEF ResumableScans, IInv, RunInv
    <2>4. /\ order \in [1 .. Cardinality(invites) -> invites]
          /\ \A i, j \in DOMAIN order : order[i] = order[j] => i = j
      BY DEF SetToSeqs, IsInjective
    <2>5. /\ DOMAIN queue = DOMAIN order
          /\ \A i \in DOMAIN order : queue[i].invite = order[i]
      OBVIOUS
    <2>6. \A i \in DOMAIN order : \E g \in ResumableScans(old) : order[i] = scans[old][g].invite
      BY <2>4
    <2>7. StartRun(r, runs[old].userID, live, FALSE, old, queue)
      BY <2>2
    <2> HIDE DEF queue, invites
    <2>8. \A i, j \in DOMAIN queue : queue[i].invite = queue[j].invite => i = j
      BY <2>4, <2>5
    <2>9. \A i \in DOMAIN queue : \E g \in ResumableScans(old) :
            queue[i].invite = scans[old][g].invite
      BY <2>5, <2>6
    <2>10. PICK target, solver, waiting :
             target = runs[old].userID /\ solver = FALSE /\ waiting = queue
      OBVIOUS
    <2>11. StartRun(r, target, live, solver, old, waiting) /\ old \in RunIDs \cup {NoRun}
      BY <2>3, <2>7, <2>10
    <2>. QED
      BY <1>1, <2>3, <2>8, <2>9, <2>10, <2>11, StartingKeeps
  <1>. QED
    BY <1>2, <1>3

\* What is walked keeps its places.
LEMMA WalkedAgrees ==
  ASSUME NEW queue \in Seq(Servers)
  PROVE  \A i \in DOMAIN Walked(queue) : i \in DOMAIN queue /\ Walked(queue)[i] = queue[i]
  <1> DEFINE n == IF Len(queue) < Limit THEN Len(queue) ELSE Limit
  <1>1. n \in Nat /\ n <= Len(queue)
    BY WorkflowAssumption
  <1>2. \A i \in 1 .. n : i \in DOMAIN queue /\ queue[i] \in Servers
    BY <1>1
  <1> HIDE DEF n
  <1>3. /\ SubSeq(queue, 1, n) \in Seq(Servers)
        /\ Len(SubSeq(queue, 1, n)) = n
        /\ \A i \in 1 .. n : SubSeq(queue, 1, n)[i] = queue[i]
    BY <1>1, <1>2, SubSeqProperties
  <1>4. Walked(queue) = SubSeq(queue, 1, n)
    BY DEF Walked, n
  <1>. QED
    BY <1>2, <1>3, <1>4

LEMMA DiscoverKeepsRevisits ==
  ASSUME IInv, RevisitInv, Discover
  PROVE  RevisitInv'
  <1>1. PICK queue \in DiscoveredQueues :
          /\ job' = [job EXCEPT !.queue = Walked(queue)]
          /\ planned' = [planned EXCEPT ![job.run] = ToSet(Walked(queue))]
    BY DEF Discover
  <1>2. pc = "discover" /\ pc' = "walk" /\ finished' = finished /\ scans' = scans
    BY DEF Discover, SaveDiscoveredServers, storeVars
  <1>3. StoreEffect
    BY DiscoverStep DEF StoreEffect
  <1>4. /\ queue \in Seq(Servers)
        /\ \A i, j \in DOMAIN queue : queue[i].invite = queue[j].invite => i = j
        /\ job.from # NoRun => queue = job.queue
    <2>1. CASE job.from # NoRun
      BY <2>1 DEF DiscoveredQueues, IInv, ControlOK, Jobs, RevisitInv, QueueInv
    <2>2. CASE job.from = NoRun
      <3>1. Cardinality(Invites) \in Nat
        BY WorkflowAssumption, FS_CardinalityType
      <3>2. PICK m \in 0 .. Cardinality(Invites) : queue \in [1 .. m -> Servers]
        BY <2>2 DEF DiscoveredQueues, SeqOf
      <3>3. queue \in Seq(Servers)
        BY <3>1, <3>2
      <3>. QED
        BY <2>2, <3>3 DEF DiscoveredQueues
    <2>. QED
      BY <2>1, <2>2
  <1>5. /\ job'.run = job.run /\ job'.from = job.from /\ job'.live = job.live
        /\ job'.queue = Walked(queue) /\ job.run \in RunIDs /\ job \in Jobs
    BY <1>1, <1>2 DEF IInv, ControlOK, RunInv, Jobs
  <1>6. /\ planned'[job.run] = ToSet(Walked(queue))
        /\ \A r \in RunIDs \ {job.run} : planned'[r] = planned[r]
    BY <1>1, <1>5, InvHolds DEF HistoryOK
  <1>7. \A i \in DOMAIN job'.queue : i \in DOMAIN queue /\ job'.queue[i] = queue[i]
    BY <1>4, <1>5, WalkedAgrees
  <1>8. Touched(job.run) = {}
    BY <1>2 DEF RevisitInv, QueueInv
  <1>9. QueueInv'
    <2>1. Touched(job.run)' = {}
      BY <1>2, <1>5, <1>8 DEF Touched
    <2>2. \A i \in DOMAIN job'.queue : job'.queue[i] \in planned'[job'.run]
      BY <1>5, <1>6 DEF ToSet
    <2>3. \A i, j \in DOMAIN job'.queue : job'.queue[i].invite = job'.queue[j].invite => i = j
      BY <1>4, <1>7
    <2>. QED
      BY <1>2, <2>1, <2>2, <2>3 DEF QueueInv
  <1>10. AtHandInv'
    BY <1>2 DEF AtHandInv, Inside, Entering, Examining
  <1>11. RowsInv'
    <2>1. \A r \in RunIDs : ~RunExists(r)' => ~RunExists(r)
      BY <1>3, RunsStay
    <2>2. finished[job.run] = {}
      BY <1>8 DEF Touched
    <2>3. ASSUME NEW r \in RunIDs, NEW g \in ResumableScans(r)', scans[r][g].invite \in finished[r]
          PROVE  SharesRow(r, scans[r][g].invite)'
      <3>1. r # job.run /\ g \in ResumableScans(r)
        BY <1>2, <2>2, <2>3 DEF ResumableScans
      <3>2. SharesRow(r, scans[r][g].invite)
        BY <2>3, <3>1 DEF RevisitInv, RowsInv
      <3>. QED
        BY <1>2, <1>6, <3>1, <3>2 DEF SharesRow
    <2>. QED
      BY <1>2, <1>5, <2>1, <2>2, <2>3 DEF RevisitInv, RowsInv
  <1>12. FromInv' /\ RevisitsAreShared'
    <2>1. CASE job.from = NoRun
      BY <1>5, <2>1 DEF FromInv, RevisitsAreShared
    <2>2. CASE job.from # NoRun
      BY <1>2, <1>3, <1>4, <1>5, <1>6, <1>7, <2>2, ShrinkingKeepsRevisits DEF RevisitInv
    <2>. QED
      BY <2>1, <2>2
  <1>. QED
    BY <1>9, <1>10, <1>11, <1>12 DEF RevisitInv

\* The rest of the queue keeps its order, and has not the server taken from it.
LEMMA RestOfTheQueue ==
  ASSUME IInv, QueueInv, pc = "walk", job.queue # <<>>
  PROVE  /\ \A i \in DOMAIN Tail(job.queue) : \E j \in DOMAIN job.queue :
              Tail(job.queue)[i] = job.queue[j]
         /\ \A i, j \in DOMAIN Tail(job.queue) :
              Tail(job.queue)[i].invite = Tail(job.queue)[j].invite => i = j
         /\ \A i \in DOMAIN Tail(job.queue) : Tail(job.queue)[i].invite # Head(job.queue).invite
         /\ Head(job.queue) \in planned[job.run] /\ Head(job.queue).invite \notin Touched(job.run)
  <1> DEFINE q == job.queue
             rest == Tail(job.queue)
  <1>1. q \in Seq(Servers)
    BY DEF IInv, ControlOK, Jobs
  <1>2. /\ Len(rest) = Len(q) - 1 /\ rest \in Seq(Servers)
        /\ \A i \in 1 .. Len(rest) : rest[i] = q[i + 1]
    BY <1>1, HeadTailProperties
  <1>3. Head(q) = q[1] /\ 1 \in DOMAIN q
    BY <1>1
  <1>4. \A i \in DOMAIN rest : i \in Nat /\ i + 1 \in DOMAIN q /\ i + 1 # 1 /\ rest[i] = q[i + 1]
    BY <1>1, <1>2
  <1>5. \A i, j \in DOMAIN q : q[i].invite = q[j].invite => i = j
    BY DEF QueueInv
  <1> HIDE DEF rest, q
  <1>6. ASSUME NEW i \in DOMAIN rest, NEW j \in DOMAIN rest, rest[i].invite = rest[j].invite
        PROVE  i = j
    <2>1. i + 1 = j + 1
      BY <1>4, <1>5, <1>6
    <2>. QED
      BY <1>4, <2>1
  <1>7. \A i \in DOMAIN rest : rest[i].invite # Head(q).invite
    BY <1>3, <1>4, <1>5
  <1>8. Head(q) \in planned[job.run] /\ Head(q).invite \notin Touched(job.run)
    BY <1>3 DEF QueueInv, q
  <1>. QED
    BY <1>4, <1>6, <1>7, <1>8 DEF q, rest

LEMMA NextServerKeepsRevisits ==
  ASSUME IInv, RevisitInv, NextServer
  PROVE  RevisitInv'
  <1>1. /\ pc = "walk" /\ pc' = "resolve" /\ job.queue # <<>> /\ job.live
        /\ visit' = Visiting(Head(job.queue))
        /\ job' = [job EXCEPT !.queue = Tail(job.queue)]
        /\ finished' = finished /\ planned' = planned /\ scans' = scans
    BY DEF NextServer, storeVars, historyVars
  <1>2. /\ job'.run = job.run /\ job'.live = job.live /\ job'.from = job.from
        /\ job'.queue = Tail(job.queue)
    BY <1>1 DEF IInv, ControlOK, Jobs
  <1>3. StoreEffect /\ QueueInv
    BY NextServerStep DEF StoreEffect, RevisitInv
  <1>4. /\ visit'.scan.invite = Head(job.queue).invite /\ visit'.key = Head(job.queue).key
        /\ Head(job.queue) \in Servers
    BY <1>1, QueueOK, NoVisitIsAVisit
  <1>5. [invite |-> visit'.scan.invite, key |-> visit'.key] = Head(job.queue)
    BY <1>4 DEF Servers
  <1>6. Touched(job.run)' = Touched(job.run)
    BY <1>1, <1>2 DEF Touched
  <1>7. QueueInv'
    <2>1. \A i \in DOMAIN job'.queue :
            job'.queue[i] \in planned[job.run] /\ job'.queue[i].invite \notin Touched(job.run)
      BY <1>1, <1>2, <1>3, RestOfTheQueue DEF QueueInv
    <2>. QED
      BY <1>1, <1>2, <1>3, <1>6, <2>1, RestOfTheQueue DEF QueueInv
  <1>8. AtHandInv'
    BY <1>1, <1>2, <1>3, <1>4, <1>5, <1>6, RestOfTheQueue DEF AtHandInv, Entering, Examining
  <1>9. RowsInv'
    BY <1>1, <1>2, <1>3, QuietKeepsRows DEF RevisitInv
  <1>10. FromInv' /\ RevisitsAreShared'
    BY <1>1, <1>2, <1>3, QueueOK, ShrinkingKeepsRevisits DEF RevisitInv
  <1>. QED
    BY <1>7, <1>8, <1>9, <1>10 DEF RevisitInv

LEMMA MockServerKeepsRevisits ==
  ASSUME IInv, RevisitInv, MockServer
  PROVE  RevisitInv'
  <1> DEFINE server == Head(job.queue)
             scan == [FreshScan(server.invite) EXCEPT
                        !.status = "complete", !.coverage = "complete", !.best = "not_found"]
  <1>1. /\ pc = "walk" /\ pc' = "walk" /\ job.queue # <<>> /\ ~job.live
        /\ Checkpoint(server.key, scan, <<>>, <<>>) /\ Noted(server.invite)
        /\ job' = [job EXCEPT !.queue = Tail(job.queue)]
        /\ planned' = planned
    BY DEF MockServer, NoteFinished, Noted
  <1>2. /\ job'.run = job.run /\ job'.live = job.live /\ job'.from = job.from
        /\ job'.queue = Tail(job.queue)
    BY <1>1 DEF IInv, ControlOK, Jobs
  <1>3. /\ StoreEffect /\ QueueInv /\ StoreTypeOK /\ job.run \in RunIDs
        /\ server.invite \in Invites /\ server.key \in GuildKeys
    BY <1>1, MockServerStep, QueueOK DEF StoreEffect, RevisitInv, IInv, RunInv, Servers
  <1>4. /\ \A i \in DOMAIN job'.queue : \E j \in DOMAIN job.queue : job'.queue[i] = job.queue[j]
        /\ \A i, j \in DOMAIN job'.queue : job'.queue[i].invite = job'.queue[j].invite => i = j
        /\ \A i \in DOMAIN job'.queue : job'.queue[i].invite # server.invite
        /\ server.invite \notin Touched(job.run)
    BY <1>1, <1>2, <1>3, RestOfTheQueue
  <1> HIDE DEF server
  <1>5. scan \in ScanRows /\ scan.invite = server.invite /\ scan.status = "complete"
    BY <1>3 DEF FreshScan, ScanRows, MatchLevels, Reasons, Coverages, ScanStatuses, Terminal
  <1> HIDE DEF scan
  <1>6. RowWritten(server.key, server.invite, "complete")
    BY <1>1, <1>3, <1>5, CheckpointWritesARow
  <1>7. /\ \A r \in RunIDs : r = job.run => Touched(r)' \subseteq Touched(r) \cup {server.invite}
        /\ \A r \in RunIDs \ {job.run} : finished'[r] = finished[r]
    BY <1>1, <1>3, <1>6, WritingTouchesOneInvite
  <1>8. QueueInv'
    <2>1. ASSUME NEW i \in DOMAIN job'.queue
          PROVE  job'.queue[i] \in planned[job.run] /\ job'.queue[i].invite \notin Touched(job.run)'
      <3>1. /\ job'.queue[i] \in planned[job.run] /\ job'.queue[i].invite \notin Touched(job.run)
            /\ job'.queue[i].invite # server.invite
        BY <1>1, <1>3, <1>4 DEF QueueInv
      <3>2. PICK r \in RunIDs : r = job.run
        BY <1>3
      <3>3. Touched(r)' \subseteq Touched(r) \cup {server.invite} /\ Touched(job.run)' = Touched(r)'
        BY <1>2, <1>7, <3>2 DEF Touched
      <3>. QED
        BY <3>1, <3>2, <3>3
    <2>. QED
      BY <1>1, <1>2, <1>4, <2>1 DEF QueueInv
  <1>9. AtHandInv'
    BY <1>1 DEF AtHandInv, Inside, Entering, Examining
  <1>10. RowsInv'
    <2>1. "complete" \in Terminal \cup {"error"} /\ "complete" # "error"
      BY DEF Terminal
    <2>. QED
      BY <1>1, <1>2, <1>3, <1>4, <1>6, <2>1, WritingKeepsRows DEF RevisitInv
  <1>11. FromInv' /\ RevisitsAreShared'
    BY <1>1, <1>2, <1>3, <1>4, <1>7, ShrinkingKeepsRevisits DEF RevisitInv
  <1>. QED
    BY <1>8, <1>9, <1>10, <1>11 DEF RevisitInv

\* A command that ends has no queue.
LEMMA EndingKeepsRevisits ==
  ASSUME IInv, RevisitInv, Finish \/ DiscoverNothing \/ WalkCancelled \/ Crash
  PROVE  RevisitInv'
  <1>1. StoreEffect
    BY FinishStep, IdleSteps DEF StoreEffect
  <1>2. scans' = scans /\ finished' = finished /\ planned' = planned /\ Idle
    BY DEF Finish, DiscoverNothing, WalkCancelled, Crash, UpdateRunStatus, storeVars, historyVars
  <1>3. pc' = "idle" /\ job'.from = NoRun /\ job'.queue = <<>>
    BY <1>2 DEF Idle, NoJob
  <1>4. QueueInv' /\ AtHandInv'
    BY <1>3 DEF QueueInv, AtHandInv, Inside, Entering, Examining
  <1>5. RowsInv'
    BY <1>1, <1>2, <1>3, QuietKeepsRows DEF RevisitInv
  <1>. QED
    BY <1>3, <1>4, <1>5 DEF RevisitInv, FromInv, RevisitsAreShared

LEMMA QuietKeepsRevisits ==
  ASSUME RevisitInv, ResumeNothing \/ Cancel \/ UNCHANGED vars
  PROVE  RevisitInv'
  <1>1. UNCHANGED <<runs, scans, pc, job, visit, planned, finished>>
    BY DEF ResumeNothing, Cancel, vars, engineVars, storeVars, historyVars
  <1>. QED
    BY <1>1 DEF RevisitInv, QueueInv, AtHandInv, RowsInv, FromInv, RevisitsAreShared, Touched,
                SharesRow, ResumableScans, RunExists

\* A visit deals with its invite and with no other: it gives up, leaving a row
\* to resume only before the invite is resolved, or records what it has read
\* under the guild the invite leads to.
LEMMA VisitKeepsRevisits ==
  ASSUME IInv, RevisitInv, VisitStep
  PROVE  RevisitInv'
  <1> DEFINE invite == visit.scan.invite
  <1>1. Advances /\ VisitInv
    BY VisitStepAdvances DEF IInv
  <1>2. /\ StoreEffect /\ UNCHANGED <<job, cancelled>> /\ pc \in Inside /\ pc' \in Inside \cup {"walk"}
        /\ pc' \in Inside => visit'.scan.invite = invite
    BY <1>1 DEF Advances, StoreEffect
  <1>3. /\ planned' = planned
        /\ pc' \in Entering \cup Examining =>
             /\ pc \in Entering \cup Examining
             /\ visit'.key \in {visit.key, InviteGuild[invite]}
    BY VisitMoves
  <1>4. /\ QueueInv /\ AtHandInv /\ RowsInv /\ FromInv /\ RevisitsAreShared /\ job.live
        /\ job.run \in RunIDs /\ visit.key \in GuildKeys /\ StoreTypeOK
    BY <1>2, InvHolds DEF RevisitInv, AtHandInv, Visits
  <1>5. pc # "idle" /\ pc # "discover" /\ pc' # "idle" /\ pc' # "discover"
    BY <1>2 DEF Inside, Entering, Examining
  \* A row is written of the invite at hand, or none.
  <1>6. \/ scans' = scans /\ finished' = finished
        \/ /\ invite \notin Touched(job.run) /\ \A i \in DOMAIN job.queue : job.queue[i].invite # invite
           /\ pc' \in {"walk", "leave"} /\ Noted(invite)
           /\ \E status : RowWritten(visit.key, invite, status)
    BY <1>4, VisitWrites DEF AtHandInv, Noted, Examining
  <1>7. /\ \A r \in RunIDs \ {job.run} : finished'[r] = finished[r]
        /\ \A i \in DOMAIN job.queue : job.queue[i].invite \notin Touched(job.run)'
        /\ pc' \in Entering \cup Examining => Touched(job.run)' = Touched(job.run)
    <2>1. CASE scans' = scans /\ finished' = finished
      <3>1. Touched(job.run)' = Touched(job.run)
        BY <1>2, <2>1 DEF Touched
      <3>. QED
        BY <1>2, <1>4, <2>1, <3>1 DEF QueueInv
    <2>2. CASE ~(scans' = scans /\ finished' = finished)
      <3>1. PICK status : RowWritten(visit.key, invite, status)
        BY <1>6, <2>2
      <3>2. PICK r \in RunIDs : r = job.run
        BY <1>4
      <3>3. /\ Touched(r)' \subseteq Touched(r) \cup {invite}
            /\ \A q \in RunIDs \ {r} : finished'[q] = finished[q]
        BY <1>4, <1>6, <2>2, <3>1, <3>2, WritingTouchesOneInvite
      <3>4. Touched(job.run)' = Touched(r)' /\ Touched(job.run) = Touched(r)
        BY <1>2, <3>2 DEF Touched
      <3>5. \A i \in DOMAIN job.queue : job.queue[i].invite \notin Touched(job.run)
        BY <1>2, <1>4 DEF QueueInv
      <3>6. pc' \notin Entering \cup Examining
        BY <1>6, <2>2 DEF Entering, Examining
      <3>. QED
        BY <1>6, <2>2, <3>2, <3>3, <3>4, <3>5, <3>6
    <2>. QED
      BY <2>1, <2>2
  <1>8. QueueInv'
    BY <1>2, <1>3, <1>4, <1>5, <1>7 DEF QueueInv
  <1>9. AtHandInv'
    <2>1. pc' # "resolve"
      BY VisitWrites
    <2>2. ASSUME pc' \in Entering \cup Examining
          PROVE  visit'.key = InviteGuild[visit'.scan.invite]
      <3>1. visit'.scan.invite = invite /\ pc \in Entering \cup Examining
        BY <1>2, <1>3, <2>2 DEF Inside
      <3>2. CASE pc = "resolve"
        BY <2>2, <3>1, <3>2, VisitWrites
      <3>3. CASE pc # "resolve"
        BY <1>3, <1>4, <2>2, <3>1, <3>3 DEF AtHandInv
      <3>. QED
        BY <3>2, <3>3
    <2>3. ASSUME pc' \in Entering \cup Examining
          PROVE  /\ visit'.scan.invite = invite /\ invite \notin Touched(job.run)
                 /\ \A i \in DOMAIN job.queue : job.queue[i].invite # invite
      BY <1>2, <1>3, <1>4, <2>3 DEF AtHandInv, Inside
    <2>. QED
      BY <1>2, <1>4, <1>7, <2>1, <2>2, <2>3 DEF AtHandInv
  <1>10. RowsInv'
    <2>1. CASE scans' = scans /\ finished' = finished
      BY <1>2, <1>3, <1>4, <1>5, <2>1, QuietKeepsRows
    <2>2. ASSUME NEW status \in {"error", "blocked"}, RowWritten(visit.key, invite, status),
                 finished' = finished, pc \in Entering, status = "error" => pc = "resolve"
          PROVE  RowsInv'
      <3>1. invite \notin Touched(job.run) /\ Noted(invite) /\ status \in Terminal \cup {"error"}
        BY <1>4, <2>2 DEF AtHandInv, Noted, Terminal
      <3>2. status = "error" => [invite |-> invite, key |-> visit.key] \in planned[job.run]
        BY <1>4, <2>2 DEF AtHandInv
      <3> HIDE DEF invite
      <3>. QED
        BY <1>2, <1>3, <1>4, <1>5, <2>2, <3>1, <3>2, WritingKeepsRows
    <2>3. CASE RowWritten(visit.key, invite, "complete") /\ Noted(invite) /\ pc = "record"
      <3>1. invite \notin Touched(job.run) /\ visit.key = InviteGuild[invite]
        BY <1>4, <2>3 DEF AtHandInv, Entering, Examining
      <3>2. "complete" \in Terminal \cup {"error"} /\ "complete" # "error"
        BY DEF Terminal
      <3> HIDE DEF invite
      <3>. QED
        BY <1>2, <1>3, <1>4, <1>5, <2>3, <3>1, <3>2, WritingKeepsRows
    <2>. QED
      BY <2>1, <2>2, <2>3, VisitWrites
  <1>11. FromInv' /\ RevisitsAreShared'
    BY <1>2, <1>3, <1>4, <1>7, ShrinkingKeepsRevisits
  <1>. QED
    BY <1>8, <1>9, <1>10, <1>11 DEF RevisitInv

LEMMA RevisitStep ==
  ASSUME IInv, RevisitInv, [Next]_vars
  PROVE  RevisitInv'
  BY NextCases, VisitKeepsRevisits, CommandsKeepRevisits, DiscoverKeepsRevisits,
     NextServerKeepsRevisits, MockServerKeepsRevisits, EndingKeepsRevisits, QuietKeepsRevisits

\* Resume walks an invite that the run had recorded as complete only where the
\* run had listed another server under that invite's guild, whatever fails and
\* wherever the run was interrupted.
THEOREM OnlySharedRowsAreRevisited == Spec => []RevisitsAreShared
  <1>1. Init => RevisitInv
    <2> SUFFICES ASSUME Init
                 PROVE  RevisitInv
      OBVIOUS
    <2>1. /\ pc = "idle" /\ job.queue = <<>> /\ job.from = NoRun
          /\ \A r \in RunIDs : ResumableScans(r) = {} /\ finished[r] = {}
      BY DEF Init, StoreInit, NoJob, ResumableScans
    <2>. QED
      BY <2>1 DEF RevisitInv, QueueInv, AtHandInv, RowsInv, FromInv, RevisitsAreShared, Inside,
                  Entering, Examining
  <1>2. IInv /\ RevisitInv /\ [Next]_vars => RevisitInv'
    BY RevisitStep
  <1>3. RevisitInv => RevisitsAreShared
    BY DEF RevisitInv
  <1>. QED
    BY <1>1, <1>2, <1>3, Invariant, PTL DEF Spec

\* A server is planned under the key of its invite, or under the one listed.
ListedInv ==
  /\ pc = "discover" =>
       \A i \in DOMAIN job.queue : job.queue[i].key = InviteKey[job.queue[i].invite]
  /\ \A r \in RunIDs : \A server \in planned[r] :
       server.key \in {InviteKey[server.invite], ListedKey[server.invite]}

LEMMA ListedStep ==
  ASSUME IInv, ListedInv, [Next]_vars
  PROVE  ListedInv'
  <1>1. CASE Search
    <2>1. pc' = "discover" /\ job'.queue = <<>> /\ planned' = planned
      BY <1>1 DEF Search, StartRun, historyVars
    <2>. QED
      BY <2>1 DEF ListedInv
  <1>2. CASE Resume
    <2>1. planned' = planned /\ \E order : job'.queue =
            [n \in DOMAIN order |-> [invite |-> order[n], key |-> InviteKey[order[n]]]]
      BY <1>2 DEF Resume, StartRun, historyVars
    <2>. QED
      BY <2>1 DEF ListedInv
  <1>3. CASE Discover
    <2>1. PICK queue \in DiscoveredQueues :
            /\ pc = "discover" /\ pc' = "walk"
            /\ planned' = [planned EXCEPT ![job.run] = ToSet(Walked(queue))]
      BY <1>3 DEF Discover
    <2>2. queue \in Seq(Servers)
      <3>1. CASE job.from # NoRun
        BY <3>1 DEF DiscoveredQueues, IInv, ControlOK, Jobs
      <3>2. CASE job.from = NoRun
        <4>1. Cardinality(Invites) \in Nat
          BY WorkflowAssumption, FS_CardinalityType
        <4>2. PICK m \in 0 .. Cardinality(Invites) : queue \in [1 .. m -> Servers]
          BY <3>2 DEF DiscoveredQueues, SeqOf
        <4>. QED
          BY <4>1, <4>2
      <3>. QED
        BY <3>1, <3>2
    <2>3. \A i \in DOMAIN queue :
            queue[i].key \in {InviteKey[queue[i].invite], ListedKey[queue[i].invite]}
      BY <2>1 DEF DiscoveredQueues, ListedInv
    <2>4. \A server \in ToSet(Walked(queue)) : \E i \in DOMAIN queue : server = queue[i]
      BY <2>2, WalkedServers DEF ToSet
    <2>5. \A r \in RunIDs : planned'[r] \in {planned[r], ToSet(Walked(queue))}
      BY <2>1 DEF IInv, ControlOK
    <2>. QED
      BY <2>1, <2>3, <2>4, <2>5 DEF ListedInv
  <1>4. CASE VisitStep
    <2>1. planned' = planned /\ pc' # "discover"
      BY <1>4, VisitMoves, VisitStepAdvances DEF Advances, Inside, Entering, Examining
    <2>. QED
      BY <2>1 DEF ListedInv
  <1>5. CASE \/ NextServer \/ MockServer \/ Finish \/ DiscoverNothing \/ WalkCancelled \/ Crash
             \/ ResumeNothing \/ Cancel \/ UNCHANGED vars
    <2>1. planned' = planned /\ (pc' = "discover" => pc = "discover" /\ job' = job)
      BY <1>5 DEF NextServer, MockServer, NoteFinished, Finish, DiscoverNothing, WalkCancelled,
                  Crash, Idle, ResumeNothing, Cancel, vars, engineVars, historyVars
    <2>. QED
      BY <2>1 DEF ListedInv
  <1>. QED
    BY <1>1, <1>2, <1>3, <1>4, <1>5, NextCases

\* No invite goes by the guild that another invite leads to.
DistinctListings ==
  \A c, d \in Invites : c # d => InviteGuild[c] \notin {InviteKey[d], ListedKey[d]}

\* So what the README says of resume is true of a run whose servers are listed
\* apart: none that is complete is scanned again.
THEOREM DistinctServersAreNotRescanned ==
  ASSUME DistinctListings
  PROVE  Spec => []ResumeSkipsCompleted
  <1>1. Init => ListedInv
    BY DEF Init, ListedInv
  <1>2. IInv /\ ListedInv /\ [Next]_vars => ListedInv'
    BY ListedStep
  <1>3. IInv /\ ListedInv /\ RevisitsAreShared => ResumeSkipsCompleted
    <2> SUFFICES ASSUME IInv, ListedInv, RevisitsAreShared, job.from # NoRun,
                        NEW i \in DOMAIN job.queue, job.queue[i].invite \in finished[job.from]
                 PROVE  FALSE
      BY DEF ResumeSkipsCompleted
    <2>1. job.from \in RunIDs /\ job.queue[i] \in Servers /\ planned[job.from] \subseteq Servers
      BY DEF IInv, ControlOK, Jobs
    <2>2. PICK server \in planned[job.from] :
            /\ server.invite # job.queue[i].invite
            /\ server.key = InviteGuild[job.queue[i].invite]
      BY DEF RevisitsAreShared
    <2>3. server.key \in {InviteKey[server.invite], ListedKey[server.invite]}
      BY <2>1, <2>2 DEF ListedInv
    <2>. QED
      BY <2>1, <2>2, <2>3 DEF DistinctListings, Servers
  <1>. QED
    BY <1>1, <1>2, <1>3, Invariant, OnlySharedRowsAreRevisited, PTL DEF Spec
=============================================================================
