---------------------------- MODULE WorkflowProps ----------------------------
(***************************************************************************)
(* What a search promises its operator.                                    *)
(***************************************************************************)
EXTENDS Workflow

Places == {"idle", "discover", "walk", "resolve", "join", "solve", "discovery", "match",
           "messages", "probe", "record", "leave"}

Jobs ==
  [ run : RunIDs \cup {NoRun}, target : Users \cup {NoUser}, queue : Seq(Servers),
    live : BOOLEAN, solver : BOOLEAN, from : RunIDs \cup {NoRun} ]

Visits ==
  [ key : GuildKeys, scan : ScanRows, attempt : 0 .. MaxJoinAttempts - 1,
    membership : {"none", "joined", "already"}, lookedUp : BOOLEAN,
    pending : SUBSET Identities, obs : ObservationBatches, msgs : MessageBatches ]

WorkflowTypeOK ==
  /\ StoreTypeOK
  /\ pc \in Places
  /\ job \in Jobs
  /\ visit \in Visits
  /\ cancelled \in BOOLEAN
  /\ {memberships, home, stranded} \subseteq SUBSET GuildKeys
  /\ planned \in [RunIDs -> SUBSET Servers] /\ finished \in [RunIDs -> SUBSET Invites]
  /\ declared \subseteq RunIDs

\* The engine is a lawful caller of the store: every step it takes, under any
\* interleaving with Ctrl-C and crashes, writes what CallerContract describes.
UsesStoreLawfully == StoreSpec

HasScanOf(r, server) ==
  \E g \in {server.key, InviteGuild[server.invite]} : scans[r][g] # NoRow

\* A run marked complete has a row for every server it set out to walk: the
\* engine ignores every error of RecordGuildScanTransaction, and what saves it
\* is that the context that failed the write also fails UpdateRunStatus.
CompleteRunCoversItsServers ==
  \A r \in RunIDs : RunExists(r) /\ runs[r].status = "complete" =>
    \A server \in planned[r] : HasScanOf(r, server)

\* A recorded scan is of a server that SaveDiscoveredServers has stored, though
\* the engine ignores the error of that call too.
ScansAreOfSavedServers ==
  \A r \in RunIDs, g \in GuildKeys :
    scans[r][g] # NoRow => scans[r][g].invite \in servers

\* Between two servers the account is in no guild it was not in before, except
\* where leaving failed, an answer to a join was lost or the process died.
NoGuildLeftBehind ==
  pc \in {"idle", "discover", "walk", "resolve"} /\ ~StayAfterHit
    => memberships \subseteq home \cup stranded

\* A guild the operator had joined before is never left, unless the lookup of
\* the account's guilds failed and the engine joined it a second time.
OwnGuildsKept ==
  [][\A g \in home : g \notin home' => visit.key = g /\ ~visit.lookedUp]_home

\* A run that was created comes to an end, by completing, by Ctrl-C or by
\* dying: no series of captcha challenges, failures and retries holds it up.
RunEnds == pc = "discover" ~> pc = "idle"

\* Resuming a run changes nothing of it: "Preserves the immutable target
\* snapshot and all existing confirmed and candidate matches".
OtherRunsUntouched ==
  [][\A r \in RunIDs \ {job.run} : RunExists(r) =>
       /\ runs'[r] = runs[r]
       /\ scans'[r] = scans[r]
       /\ observations'[r] = observations[r]
       /\ messages'[r] = messages[r]]_storeVars

\* An invite recorded as complete is walked again by resume only because the run
\* had listed another server under the guild the invite leads to, whose failure
\* reopened the row they share.
RevisitsAreShared ==
  job.from # NoRun =>
    \A i \in DOMAIN job.queue : job.queue[i].invite \in finished[job.from] =>
      \E server \in planned[job.from] :
        /\ server.invite # job.queue[i].invite
        /\ server.key = InviteGuild[job.queue[i].invite]

-----------------------------------------------------------------------------
(* Statements of the documentation and the program's own output *)

\* "subsequent matches can only ever be 'candidate', never 'confirmed'".
UsernameOnlyNeverConfirmed ==
  \A r \in RunIDs, g \in GuildKeys :
    RunExists(r) /\ runs[r].userID = NoUser /\ scans[r][g] # NoRow
      => scans[r][g].best # "confirmed"

\* "has no incomplete or pending scans. All servers completed."
DeclaredRunsAreCovered ==
  \A r \in declared : \A server \in planned[r] : HasScanOf(r, server)

\* "Resume an interrupted or rate-limited scan without re-scanning completed
\* servers".
ResumeSkipsCompleted ==
  job.from # NoRun =>
    \A i \in DOMAIN job.queue : job.queue[i].invite \notin finished[job.from]
=============================================================================
