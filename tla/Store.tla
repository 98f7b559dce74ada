------------------------------- MODULE Store -------------------------------
(***************************************************************************)
(* The SQLite checkpoint of internal/store: the tables runs, servers,      *)
(* guild_scans, match_observations and messages, and the operations        *)
(* store.go offers on them.  Every operation is one SQL statement or one   *)
(* transaction, so it is one action here.                                  *)
(*                                                                         *)
(* A table with a UNIQUE key is a function from its key to a row or NoRow. *)
(***************************************************************************)
EXTENDS Sequences, FiniteSets, Naturals

CONSTANTS
  RunIDs,      \* values of runs.run_id
  GuildKeys,   \* values of guild_scans.guild_id: guild ids, and "invite_<code>"
  Invites,     \* invite codes
  Identities,  \* (observed_user_id, observed_username_norm, observed_nick)
  MessageIDs,  \* (channel_id, message_id)
  MessageAuthor,  \* the author_id of a message, which Discord never changes
  Users,       \* Discord user ids
  NoUser,      \* the empty user id
  Avatars,     \* avatar URLs
  NoAvatar,    \* the empty avatar URL
  Names,       \* display names, channel names
  NoName,      \* the empty name
  NoRow,       \* a key with no row
  IdentUser,   \* the user id of an observed identity
  CandidateReasons  \* match_reason values of the matcher's candidate rules

ASSUME StoreAssumption ==
  /\ NoUser \notin Users
  /\ NoAvatar \notin Avatars
  /\ NoName \notin Names
  /\ IdentUser \in [Identities -> Users]
  /\ MessageAuthor \in [MessageIDs -> Users]
  /\ CandidateReasons \cap {"none", "user_id_exact", "message_author_id_exact"} = {}

MatchLevels  == {"unknown", "not_found", "candidate", "confirmed"}
MatchKinds   == {"candidate", "confirmed"}
Coverages    == {"partial", "bounded", "complete"}
ConfirmReasons == {"user_id_exact", "message_author_id_exact"}
Reasons      == CandidateReasons \cup ConfirmReasons \cup {"none"}
RunStatuses  == {"running", "complete", "error", "aborted"}

Terminal     == {"complete", "blocked"}
NonTerminal  == {"pending", "running", "rate_limited", "error"}
ScanStatuses == Terminal \cup NonTerminal \cup {"permission_limited"}

RunRows ==
  [ userID      : Users \cup {NoUser},
    username    : Names,
    displayName : Names \cup {NoName},
    avatar      : Avatars \cup {NoAvatar},
    status      : RunStatuses ]

ScanRows ==
  [ invite   : Invites,
    status   : ScanStatuses,
    best     : MatchLevels,
    reason   : Reasons,
    user     : Users \cup {NoUser},
    coverage : Coverages ]

\* Of a message row, the column a later write can change: channel_name.
MessageRows == Names \cup {NoName}

ASSUME NoRowAssumption == NoRow \notin RunRows \cup ScanRows \cup MessageRows \cup MatchKinds

VARIABLES
  runs,          \* runs, by run_id
  runOrder,      \* run_ids by created_at, the oldest first
  servers,       \* invite codes of the servers table
  scans,         \* guild_scans, by (run_id, guild_id)
  observations,  \* match_observations: the match_status, by (run, guild, identity)
  messages       \* messages: the channel_name, by (run, guild, message)

storeVars == <<runs, runOrder, servers, scans, observations, messages>>

StoreTypeOK ==
  /\ runs \in [RunIDs -> RunRows \cup {NoRow}]
  /\ runOrder \in Seq(RunIDs)
  /\ servers \in SUBSET Invites
  /\ scans \in [RunIDs -> [GuildKeys -> ScanRows \cup {NoRow}]]
  /\ observations \in [RunIDs -> [GuildKeys -> [Identities -> MatchKinds \cup {NoRow}]]]
  /\ messages \in [RunIDs -> [GuildKeys -> [MessageIDs -> MessageRows \cup {NoRow}]]]

StoreInit ==
  /\ runs = [r \in RunIDs |-> NoRow]
  /\ runOrder = <<>>
  /\ servers = {}
  /\ scans = [r \in RunIDs |-> [g \in GuildKeys |-> NoRow]]
  /\ observations = [r \in RunIDs |-> [g \in GuildKeys |-> [i \in Identities |-> NoRow]]]
  /\ messages = [r \in RunIDs |-> [g \in GuildKeys |-> [m \in MessageIDs |-> NoRow]]]

-----------------------------------------------------------------------------
(* Runs *)

RunExists(r) == runs[r] # NoRow

\* The INSERT fails, and changes nothing, when the primary key is taken.
CreateRunAtomic(r, user, username, displayName, avatar) ==
  /\ ~RunExists(r)
  /\ runs' = [runs EXCEPT ![r] =
        [ userID |-> user, username |-> username, displayName |-> displayName,
          avatar |-> avatar, status |-> "running" ]]
  /\ runOrder' = Append(runOrder, r)
  /\ UNCHANGED <<servers, scans, observations, messages>>

\* Defect: a status that is none of the declared ones.
WithStatusMisspelt(row, status) == [row EXCEPT !.status = "completed"]

WithStatus(row, status) == [row EXCEPT !.status = status]

UpdateRunStatus(r, status) ==
  /\ runs' = IF RunExists(r) THEN [runs EXCEPT ![r] = WithStatus(runs[r], status)] ELSE runs
  /\ UNCHANGED <<runOrder, servers, scans, observations, messages>>

\* A profile column is filled once: the avatar when empty, the display name
\* when empty or merely the username.
FilledProfile(row, avatar, name) ==
  [ row EXCEPT
      !.avatar = IF @ = NoAvatar THEN avatar ELSE @,
      !.displayName = IF @ \in {NoName, row.username} /\ name # NoName THEN name ELSE @ ]

UpdateRunTargetProfile(r, avatar, name) ==
  /\ runs' = IF RunExists(r)
             THEN [runs EXCEPT ![r] = FilledProfile(runs[r], avatar, name)] ELSE runs
  /\ UNCHANGED <<runOrder, servers, scans, observations, messages>>

SaveDiscoveredServers(codes) ==
  /\ servers' = servers \cup codes
  /\ UNCHANGED <<runs, runOrder, scans, observations, messages>>

-----------------------------------------------------------------------------
(* The per-guild checkpoint *)

\* Defect: the CASE has no branch for a new candidate.
PromotesConfirmed(old, new) == new.best = "confirmed"

\* ON CONFLICT(run_id, guild_id): the match and its reason are only promoted,
\* the observed user is the new one unless the stored match is the better one,
\* the invite stays, and the rest is overwritten.
Promotes(old, new) ==
  \/ new.best = "confirmed"
  \/ new.best = "candidate" /\ old.best # "confirmed"

\* Defect: best_match_status = excluded.best_match_status.
OverwrittenMatch(old, new) == new.best

PromotedMatch(old, new) == IF Promotes(old, new) THEN new.best ELSE old.best

\* Defect: best_match_reason = excluded.best_match_reason.
OverwrittenReason(old, new) == new.reason

PromotedReason(old, new) == IF Promotes(old, new) THEN new.reason ELSE old.reason

\* Defect: best_observed_user_id = excluded.best_observed_user_id.
OverwrittenUser(old, new) == new.user

PromotedUser(old, new) ==
  IF old.best = "confirmed" /\ new.best # "confirmed" THEN old.user ELSE new.user

MergedScan(old, new) ==
  [ invite   |-> old.invite,
    status   |-> new.status,
    best     |-> PromotedMatch(old, new),
    reason   |-> PromotedReason(old, new),
    user     |-> PromotedUser(old, new),
    coverage |-> new.coverage ]

UpsertedScan(old, new) == IF old = NoRow THEN new ELSE MergedScan(old, new)

\* CHECK (best_match_status != 'not_found' OR member_coverage = 'complete').
\* SQLite applies it to the inserted row before it looks for a conflict, and
\* to the row the conflict clause produces.
CheckHolds(row) == row.best = "not_found" => row.coverage = "complete"

AcceptsScan(r, g, scan) ==
  CheckHolds(scan) /\ CheckHolds(UpsertedScan(scans[r][g], scan))

\* ON CONFLICT DO NOTHING: the first observation of an identity stays.
InsertedObservations(table, obs) ==
  [i \in Identities |->
     IF i \in DOMAIN obs /\ table[i] = NoRow THEN obs[i] ELSE table[i]]

\* Defect: channel_name = excluded.channel_name.
OverwrittenMessage(old, new) == new

\* ON CONFLICT DO UPDATE of the names alone, and only by non-empty ones.
EnrichedMessage(old, new) ==
  IF old # NoRow /\ new = NoName THEN old ELSE new

UpsertedMessages(table, msgs) ==
  [m \in MessageIDs |->
     IF m \in DOMAIN msgs THEN EnrichedMessage(table[m], msgs[m]) ELSE table[m]]

\* Defect: no transaction around the three statements, any of which may fail.
RecordStatementwise(r, g, scan, obs, msgs) ==
  \E done \in SUBSET {"scan", "evidence"} :
    /\ scans' = IF "scan" \in done /\ AcceptsScan(r, g, scan)
                THEN [scans EXCEPT ![r][g] = UpsertedScan(scans[r][g], scan)] ELSE scans
    /\ observations' = IF "evidence" \in done
                       THEN [observations EXCEPT ![r][g] =
                               InsertedObservations(observations[r][g], obs)]
                       ELSE observations
    /\ UNCHANGED <<runs, runOrder, servers, messages>>

\* A failed CHECK rolls the whole transaction back.
RecordGuildScanTransaction(r, g, scan, obs, msgs) ==
  IF AcceptsScan(r, g, scan)
  THEN /\ scans' = [scans EXCEPT ![r][g] = UpsertedScan(scans[r][g], scan)]
       /\ observations' = [observations EXCEPT
                             ![r][g] = InsertedObservations(observations[r][g], obs)]
       /\ messages' = [messages EXCEPT ![r][g] = UpsertedMessages(messages[r][g], msgs)]
       /\ UNCHANGED <<runs, runOrder, servers>>
  ELSE UNCHANGED storeVars

RenamedMessages(table, ids, name) ==
  [m \in MessageIDs |->
     IF m \in ids /\ table[m] # NoRow /\ name # NoName THEN name ELSE table[m]]

UpdateMessageMetadata(r, g, ids, name) ==
  /\ messages' = [messages EXCEPT ![r][g] = RenamedMessages(messages[r][g], ids, name)]
  /\ UNCHANGED <<runs, runOrder, servers, scans, observations>>

-----------------------------------------------------------------------------
(* Queries *)

\* Defect: the status is not looked at.
RecordedScans(r) == {g \in GuildKeys : scans[r][g] # NoRow}

ResumableScans(r) ==
  {g \in GuildKeys : scans[r][g] # NoRow /\ scans[r][g].status \in NonTerminal}

Incomplete(r) == runs[r].status # "complete" \/ ResumableScans(r) # {}

\* The newest run that is not complete or has a non-terminal scan.
LatestIncompleteRuns ==
  {r \in RunIDs : \E i \in DOMAIN runOrder :
      /\ runOrder[i] = r /\ Incomplete(r)
      /\ \A j \in DOMAIN runOrder : j > i => ~Incomplete(runOrder[j])}
-----------------------------------------------------------------------------
(***************************************************************************)
(* What the only writer, the workflow engine, passes to the store.         *)
(*                                                                         *)
(* A guild it could not read is recorded as error or blocked, with nothing *)
(* learnt.  A guild it read is complete: its summary is backed by the      *)
(* observations and messages of the same transaction, and the matcher      *)
(* confirms an identity exactly when it has the target's id.               *)
(***************************************************************************)
UnreadScans ==
  [ invite : Invites, status : {"error", "blocked"}, coverage : {"partial"},
    best : {"unknown"}, reason : {"none"}, user : {NoUser} ]

ReadScans ==
  [ invite : Invites, status : {"complete"}, coverage : {"bounded", "complete"},
    best : MatchLevels, reason : Reasons, user : Users \cup {NoUser} ]

SummaryFits(scan, obs, msgs) ==
  CASE scan.best = "confirmed" ->
         \/ /\ scan.reason = "user_id_exact"
            /\ \E i \in DOMAIN obs : obs[i] = "confirmed" /\ IdentUser[i] = scan.user
         \/ /\ scan.reason = "message_author_id_exact"
            /\ \E m \in DOMAIN msgs : MessageAuthor[m] = scan.user
    [] scan.best = "candidate" ->
         /\ scan.reason \in CandidateReasons
         /\ \E i \in DOMAIN obs : IdentUser[i] = scan.user
         /\ \A i \in DOMAIN obs : obs[i] = "candidate"
         /\ DOMAIN msgs = {}
    [] OTHER ->
         /\ scan.reason = "none" /\ scan.user = NoUser
         /\ DOMAIN obs = {} /\ DOMAIN msgs = {}

CallerContract(r, scan, obs, msgs) ==
  /\ RunExists(r)
  /\ scan.invite \in servers
  /\ SummaryFits(scan, obs, msgs)
  /\ \A i \in DOMAIN obs : obs[i] = "confirmed" <=> IdentUser[i] = runs[r].userID

ObservationBatches == UNION {[S -> MatchKinds] : S \in SUBSET Identities}
MessageBatches == UNION {[S -> MessageRows] : S \in SUBSET MessageIDs}

\* What may be recorded about a guild, whichever run it is for.
Recordable ==
  {rec \in [scan : UnreadScans \cup ReadScans, obs : ObservationBatches, msgs : MessageBatches] :
     SummaryFits(rec.scan, rec.obs, rec.msgs)}

StoreNext ==
  \/ \E r \in RunIDs, u \in Users \cup {NoUser}, n \in Names,
        d \in Names \cup {NoName}, a \in Avatars \cup {NoAvatar} :
       CreateRunAtomic(r, u, n, d, a)
  \/ \E r \in RunIDs : UpdateRunStatus(r, "complete")
  \/ \E r \in RunIDs, a \in Avatars, n \in Names \cup {NoName} :
       UpdateRunTargetProfile(r, a, n)
  \/ \E codes \in SUBSET Invites : SaveDiscoveredServers(codes)
  \/ \E r \in RunIDs, g \in GuildKeys, rec \in Recordable :
       /\ CallerContract(r, rec.scan, rec.obs, rec.msgs)
       /\ RecordGuildScanTransaction(r, g, rec.scan, rec.obs, rec.msgs)
  \/ \E r \in RunIDs, g \in GuildKeys, ids \in SUBSET MessageIDs, n \in Names :
       UpdateMessageMetadata(r, g, ids, n)

StoreSpec == StoreInit /\ [][StoreNext]_storeVars
=============================================================================
