------------------------------ MODULE Workflow ------------------------------
(***************************************************************************)
(* The search engine of internal/workflow/engine.go, driven by the search  *)
(* and resume commands, over the checkpoint of Store.tla.                  *)
(*                                                                         *)
(* One process walks the discovered servers one by one: resolve the        *)
(* invite, join, discover members, match them, gather messages, checkpoint *)
(* the guild, leave it.  Ctrl-C cancels the context of a search, after     *)
(* which every REST call and every statement fails; the process may die at *)
(* any point; the checkpoint and the account's guild memberships survive.  *)
(***************************************************************************)
EXTENDS Store, Client, SequencesExt

CONSTANTS
  InviteGuild,  \* the guild id Discord resolves an invite to
  ListedKey,    \* the guild id a Disboard listing gives for it
  InviteKey,    \* the key "invite_<code>" of an invite not listed with one
  AvatarOf,     \* the avatar of a user, or NoAvatar
  NameOf,       \* the display name of a user, or NoName
  Targets,      \* target ids a search verifies, NoUser for a username alone
  Limit,        \* --limit: at most this many servers are walked
  NoRun,        \* no run id
  SearchRuns,   \* bound: the run ids fresh searches take
  StayAfterHit, \* --stay
  Solvers       \* whether --captcha manual is on: a subset of BOOLEAN

ASSUME WorkflowAssumption ==
  /\ IsFiniteSet(Invites) /\ Invites # {}
  /\ {InviteGuild, ListedKey, InviteKey} \subseteq [Invites -> GuildKeys]
  /\ AvatarOf \in [Users -> Avatars \cup {NoAvatar}]
  /\ NameOf \in [Users -> Names \cup {NoName}]
  /\ Targets \subseteq Users \cup {NoUser}
  /\ Limit \in Nat \ {0}
  /\ NoRun \notin RunIDs
  /\ SearchRuns \subseteq RunIDs
  /\ StayAfterHit \in BOOLEAN
  /\ Solvers \subseteq BOOLEAN

MaxJoinAttempts == 3

VARIABLES
  pc,          \* where the engine is
  job,         \* what Run holds: run, target id, servers to walk, live, solver
  visit,       \* what processServer holds about the current server
  cancelled,   \* the context of the command is done
  memberships, \* guilds the account is a member of, at Discord
  planned,     \* history: servers each run set out to walk
  finished,    \* history: invites each run has recorded as complete
  home,        \* history: the operator's own guilds the engine has not left
  stranded,    \* history: guilds the account could not leave again
  declared     \* history: runs resume called completed

engineVars == <<pc, job, visit, cancelled>>
historyVars == <<planned, finished, home, stranded, declared>>
vars == <<storeVars, engineVars, memberships, historyVars>>

Servers == [invite : Invites, key : GuildKeys]

NoJob == [run |-> NoRun, target |-> NoUser, queue |-> <<>>, live |-> FALSE, solver |-> FALSE,
          from |-> NoRun]

\* The scan row processServer starts from.
FreshScan(invite) ==
  [ invite |-> invite, status |-> "running", best |-> "unknown", reason |-> "none",
    user |-> NoUser, coverage |-> "partial" ]

NoVisit ==
  [ key |-> CHOOSE g \in GuildKeys : TRUE,
    scan |-> FreshScan(CHOOSE c \in Invites : TRUE),
    attempt |-> 0, membership |-> "none", lookedUp |-> FALSE,
    pending |-> {}, obs |-> <<>>, msgs |-> <<>> ]

Visiting(server) ==
  [NoVisit EXCEPT !.key = server.key, !.scan = FreshScan(server.invite)]

Init ==
  /\ StoreInit
  /\ pc = "idle" /\ job = NoJob /\ visit = NoVisit /\ cancelled = FALSE
  /\ memberships \in SUBSET {InviteGuild[c] : c \in Invites}
  /\ home = memberships
  /\ planned = [r \in RunIDs |-> {}] /\ finished = [r \in RunIDs |-> {}]
  /\ stranded = {}
  /\ declared = {}

-----------------------------------------------------------------------------
(* Commands *)

\* Preflight and target verification succeeded: the run is created.  When one
\* of them fails, or the run id of this second is taken, nothing changes.
StartRun(r, target, live, solver, from, queue) ==
  /\ pc = "idle"
  /\ \E n \in Names, d \in Names,
        a \in IF target = NoUser THEN {NoAvatar} ELSE {AvatarOf[target], NoAvatar} :
       CreateRunAtomic(r, target, n, d, a)
  /\ job' = [run |-> r, target |-> target, queue |-> queue, live |-> live,
             solver |-> solver, from |-> from]
  /\ pc' = "discover"
  /\ cancelled' = FALSE
  /\ UNCHANGED <<visit, memberships, historyVars>>

Search ==
  \E r \in SearchRuns, target \in Targets, live \in BOOLEAN, solver \in Solvers :
    StartRun(r, target, live, solver, NoRun, <<>>)

\* The run to resume: the one named, or the latest incomplete one.
ResumableRuns == {r \in RunIDs : RunExists(r)} \cup LatestIncompleteRuns

ResumeNothing ==
  /\ pc = "idle"
  /\ \E r \in ResumableRuns :
       /\ ResumableScans(r) = {}
       /\ declared' = declared \cup {r}
  /\ UNCHANGED <<storeVars, engineVars, memberships, planned, finished, home, stranded>>

\* Without captcha solver, scraper and signal handler; the servers are the
\* invites of the resumable scans, and Run gives them a run of their own.
Resume ==
  \E old \in ResumableRuns, r \in RunIDs, live \in BOOLEAN :
    LET invites == {scans[old][g].invite : g \in ResumableScans(old)}
    IN  /\ invites # {}
        /\ \E order \in SetToSeqs(invites) :
             StartRun(r, runs[old].userID, live, FALSE, old,
                      [n \in DOMAIN order |->
                         [invite |-> order[n], key |-> InviteKey[order[n]]]])

\* Disboard, --invites-file and --invite gave these servers, or none.  Saving
\* them fails, unnoticed, when the context is done.
DiscoveredQueues ==
  IF job.from # NoRun THEN {job.queue}
  ELSE {q \in SeqOf(Servers, Cardinality(Invites)) :
          /\ q # <<>>
          /\ \A i, j \in DOMAIN q : q[i].invite = q[j].invite => i = j
          /\ \A i \in DOMAIN q :
               q[i].key \in {InviteKey[q[i].invite], ListedKey[q[i].invite]}}

Walked(queue) == SubSeq(queue, 1, IF Len(queue) < Limit THEN Len(queue) ELSE Limit)

\* Defect: the servers are saved before those listed on Disboard are added.
DiscoverSavedEarly ==
  /\ pc = "discover" /\ ~cancelled
  /\ \E queue \in DiscoveredQueues :
       /\ LET direct == {i \in DOMAIN queue : queue[i].key = InviteKey[queue[i].invite]}
          IN  SaveDiscoveredServers({queue[i].invite : i \in direct})
       /\ job' = [job EXCEPT !.queue = Walked(queue)]
       /\ planned' = [planned EXCEPT ![job.run] = ToSet(Walked(queue))]
  /\ pc' = "walk"
  /\ UNCHANGED <<visit, cancelled, memberships, finished, home, stranded, declared>>

Discover ==
  /\ pc = "discover"
  /\ \E queue \in DiscoveredQueues :
       /\ IF cancelled THEN UNCHANGED storeVars
          ELSE SaveDiscoveredServers({queue[i].invite : i \in DOMAIN queue})
       /\ job' = [job EXCEPT !.queue = Walked(queue)]
       /\ planned' = [planned EXCEPT ![job.run] = ToSet(Walked(queue))]
  /\ pc' = "walk"
  /\ UNCHANGED <<visit, cancelled, memberships, finished, home, stranded, declared>>

\* The engine lets go of everything it holds in memory.
Idle ==
  /\ pc' = "idle" /\ job' = NoJob /\ visit' = NoVisit /\ cancelled' = FALSE

\* No servers, or an unreadable invites file: the run stays "running".
DiscoverNothing ==
  /\ pc = "discover" /\ job.from = NoRun
  /\ Idle
  /\ UNCHANGED <<storeVars, memberships, historyVars>>

-----------------------------------------------------------------------------
(* The walk *)

Continue(next) ==
  /\ pc' = next
  /\ UNCHANGED <<job, cancelled>>

BackToWalk ==
  /\ Continue("walk")
  /\ visit' = NoVisit

\* RecordGuildScanTransaction under the command's context, its error ignored.
Checkpoint(key, scan, obs, msgs) ==
  IF cancelled THEN UNCHANGED storeVars
  ELSE RecordGuildScanTransaction(job.run, key, scan, obs, msgs)

NoteFinished(invite) ==
  /\ finished' = IF cancelled THEN finished
                 ELSE [finished EXCEPT ![job.run] = @ \cup {invite}]
  /\ UNCHANGED <<planned, home, stranded, declared>>

NextServer ==
  /\ pc = "walk" /\ job.queue # <<>> /\ ~cancelled /\ job.live
  /\ visit' = Visiting(Head(job.queue))
  /\ job' = [job EXCEPT !.queue = Tail(@)]
  /\ pc' = "resolve"
  /\ UNCHANGED <<storeVars, cancelled, memberships, historyVars>>

\* Without a token no server is contacted and each is recorded as read.
MockServer ==
  /\ pc = "walk" /\ job.queue # <<>> /\ ~cancelled /\ ~job.live
  /\ LET server == Head(job.queue)
     IN  Checkpoint(server.key,
           [FreshScan(server.invite) EXCEPT
              !.status = "complete", !.coverage = "complete", !.best = "not_found"],
           <<>>, <<>>)
  /\ NoteFinished(Head(job.queue).invite)
  /\ job' = [job EXCEPT !.queue = Tail(@)]
  /\ UNCHANGED <<pc, visit, cancelled, memberships>>

\* ctx.Done before the next server: Run returns, the run stays "running".
WalkCancelled ==
  /\ pc = "walk" /\ job.queue # <<>> /\ cancelled
  /\ Idle
  /\ UNCHANGED <<storeVars, memberships, historyVars>>

\* Defect: a resumed run is marked complete in place of the run that ends.
FinishResumed ==
  /\ pc = "walk" /\ job.queue = <<>>
  /\ IF cancelled THEN UNCHANGED storeVars
     ELSE UpdateRunStatus(IF job.from = NoRun THEN job.run ELSE job.from, "complete")
  /\ Idle
  /\ UNCHANGED <<memberships, historyVars>>

\* After the last server the context is not looked at again.
Finish ==
  /\ pc = "walk" /\ job.queue = <<>>
  /\ IF cancelled THEN UNCHANGED storeVars ELSE UpdateRunStatus(job.run, "complete")
  /\ Idle
  /\ UNCHANGED <<memberships, historyVars>>

-----------------------------------------------------------------------------
(* processServer: entering the guild *)

\* A guild that was not read is recorded with what stopped the scan.
GiveUp(status) ==
  /\ Checkpoint(visit.key, [visit.scan EXCEPT !.status = status], <<>>, <<>>)
  /\ BackToWalk

\* The answers a REST call may get; none once the context is done.
Answer == IF cancelled THEN {NoAnswer} ELSE Answers \cup {NoAnswer}

ResolveFails ==
  /\ pc = "resolve"
  /\ GiveUp("error")
  /\ UNCHANGED <<memberships, historyVars>>

\* Defect: the guilds the account was in before are not told apart.
ResolveForgetful ==
  /\ pc = "resolve" /\ ~cancelled
  /\ LET guild == InviteGuild[visit.scan.invite]
     IN  \E lookedUp \in BOOLEAN :
           LET in == lookedUp /\ guild \in memberships
           IN  /\ visit' = [visit EXCEPT !.key = guild, !.lookedUp = lookedUp,
                              !.membership = IF in THEN "joined" ELSE "none"]
               /\ Continue(IF in THEN "discovery" ELSE "join")
  /\ UNCHANGED <<storeVars, memberships, historyVars>>

\* The invite names its guild, and the account's guilds are looked up.  A
\* failed lookup counts as not being a member.
Resolve ==
  /\ pc = "resolve"
  /\ \E answer \in Answer : Fetches(answer)
  /\ LET guild == InviteGuild[visit.scan.invite]
     IN  \E lookedUp \in BOOLEAN :
           LET already == lookedUp /\ guild \in memberships
           IN  /\ visit' = [visit EXCEPT !.key = guild, !.lookedUp = lookedUp,
                              !.membership = IF already THEN "already" ELSE "none"]
               /\ Continue(IF already THEN "discovery" ELSE "join")
  /\ UNCHANGED <<storeVars, memberships, historyVars>>

Join ==
  /\ pc = "join"
  /\ \E answer \in Answer : JoinGuild(answer) = "joined"
  /\ memberships' = memberships \cup {visit.key}
  /\ visit' = [visit EXCEPT !.membership = "joined"]
  /\ Continue("discovery")
  /\ UNCHANGED <<storeVars, historyVars>>

Strand(guilds) == stranded' = stranded \cup guilds

\* Any error but a captcha challenge, a rate limit and a lost answer included.
\* The account may have joined without the engine knowing.
JoinFails ==
  /\ pc = "join"
  /\ GiveUp("blocked")
  /\ \E answer \in Answer :
       /\ JoinGuild(answer) \notin {"joined", "challenge"}
       /\ \E entered \in MayHaveEntered(answer) :
            LET joined == IF entered THEN {visit.key} ELSE {}
            IN  /\ memberships' = memberships \cup joined
                /\ Strand(joined \ memberships)
  /\ UNCHANGED <<planned, finished, home, declared>>

JoinChallenged ==
  /\ pc = "join"
  /\ \E answer \in Answer : JoinGuild(answer) = "challenge"
  /\ IF job.solver THEN /\ Continue("solve")
                        /\ UNCHANGED <<storeVars, visit>>
                   ELSE GiveUp("blocked")
  /\ UNCHANGED <<memberships, historyVars>>

SolveFails ==
  /\ pc = "solve"
  /\ GiveUp("blocked")
  /\ UNCHANGED <<memberships, historyVars>>

\* Defect: one attempt too many.
SolveOnceMore ==
  /\ pc = "solve" /\ ~cancelled
  /\ IF visit.attempt < MaxJoinAttempts
     THEN /\ visit' = [visit EXCEPT !.attempt = @ + 1]
          /\ Continue("join")
          /\ UNCHANGED storeVars
     ELSE GiveUp("blocked")
  /\ UNCHANGED <<memberships, historyVars>>

\* Defect: attempts are not counted.
SolveForever ==
  /\ pc = "solve" /\ ~cancelled
  /\ Continue("join")
  /\ UNCHANGED <<storeVars, visit, memberships, historyVars>>

\* The join is tried again with the token, unless that was the last attempt.
Solve ==
  /\ pc = "solve" /\ ~cancelled
  /\ IF visit.attempt + 1 < MaxJoinAttempts
     THEN /\ visit' = [visit EXCEPT !.attempt = @ + 1]
          /\ Continue("join")
          /\ UNCHANGED storeVars
     ELSE GiveUp("blocked")
  /\ UNCHANGED <<memberships, historyVars>>

-----------------------------------------------------------------------------
(* processServer: reading the guild *)

\* MatchTarget: the target's id confirms, anything else is a candidate.
KindOf(i) == IF job.target = IdentUser[i] THEN "confirmed" ELSE "candidate"

\* DiscoverMembers returned members of which these match.  The engine never
\* asks for the exhaustive listing, so its coverage is bounded.
DiscoverMembers ==
  /\ pc = "discovery"
  /\ \E matching \in IF cancelled THEN {{}} ELSE SUBSET Identities :
       visit' = [visit EXCEPT !.scan.coverage = "bounded", !.pending = matching]
  /\ Continue("match")
  /\ UNCHANGED <<storeVars, memberships, historyVars>>

\* The profile columns of the run are filled from a user with an avatar.
FillProfile(user) ==
  IF cancelled \/ AvatarOf[user] = NoAvatar THEN UNCHANGED storeVars
  ELSE UpdateRunTargetProfile(job.run, AvatarOf[user], NameOf[user])

\* The summary follows the last confirmed member, else the last candidate.
Summarised(scan, i, reason) ==
  [scan EXCEPT !.best = KindOf(i), !.reason = reason, !.user = IdentUser[i]]

MatchMember(i) ==
  /\ pc = "match" /\ i \in visit.pending
  /\ LET leads == KindOf(i) = "confirmed" \/ visit.scan.best # "confirmed"
         reasons == IF KindOf(i) = "confirmed" THEN {"user_id_exact"} ELSE CandidateReasons
     IN  /\ \E reason \in reasons :
              visit' = [visit EXCEPT
                          !.pending = @ \ {i},
                          !.obs = [j \in DOMAIN @ \cup {i} |-> KindOf(j)],
                          !.scan = IF leads THEN Summarised(@, i, reason) ELSE @]
         /\ IF leads THEN FillProfile(IdentUser[i]) ELSE UNCHANGED storeVars
  /\ Continue("match")
  /\ UNCHANGED <<memberships, historyVars>>

\* Defect: absence is concluded from any member list without a match.
MatchDoneHasty ==
  /\ pc = "match" /\ visit.pending = {}
  /\ visit' = [visit EXCEPT !.scan.best = IF visit.obs = <<>> THEN "not_found" ELSE @]
  /\ Continue("messages")
  /\ UNCHANGED <<storeVars, memberships, historyVars>>

MatchDone ==
  /\ pc = "match" /\ visit.pending = {}
  /\ visit' = [visit EXCEPT !.scan.best =
                 IF visit.obs = <<>> /\ visit.scan.coverage = "complete" THEN "not_found" ELSE @]
  /\ Continue("messages")
  /\ UNCHANGED <<storeVars, memberships, historyVars>>

\* Whose messages are searched: the best observed user's, else the target's.
SearchedUser == IF visit.scan.user # NoUser THEN visit.scan.user ELSE job.target

\* Defect: any answer of the search confirms, an empty one included.
SearchMessagesEmpty ==
  /\ pc = "messages" /\ ~cancelled /\ SearchedUser # NoUser
  /\ visit' = [visit EXCEPT !.scan.best = "confirmed", !.scan.user = SearchedUser,
                            !.scan.reason = "message_author_id_exact"]
  /\ Continue("probe")
  /\ UNCHANGED <<storeVars, memberships, historyVars>>

\* A hit confirms the searched user, whoever that is.  The hits may include
\* messages of others that Discord returns as context.
SearchMessages ==
  /\ pc = "messages" /\ ~cancelled /\ SearchedUser # NoUser
  /\ \E hits \in SUBSET MessageIDs, channel \in Names \cup {NoName} :
       /\ \E m \in hits : MessageAuthor[m] = SearchedUser
       /\ visit' = [visit EXCEPT
            !.msgs = [m \in hits |-> channel],
            !.scan = IF @.best = "confirmed" THEN @
                     ELSE [@ EXCEPT !.best = "confirmed", !.reason = "message_author_id_exact",
                                    !.user = SearchedUser]]
  /\ FillProfile(SearchedUser)
  /\ Continue("probe")
  /\ UNCHANGED <<memberships, historyVars>>

\* No id to search for, no hits, or the search failed.
NoMessages ==
  /\ pc = "messages"
  /\ Continue("probe")
  /\ UNCHANGED <<storeVars, visit, memberships, historyVars>>

\* GetGuildMember of a confirmed user fills the profile, if it succeeds.
Probe ==
  /\ pc = "probe"
  /\ \/ visit.scan.best = "confirmed" /\ FillProfile(visit.scan.user)
     \/ UNCHANGED storeVars
  /\ Continue("record")
  /\ UNCHANGED <<visit, memberships, historyVars>>

RecordScan ==
  /\ pc = "record"
  /\ Checkpoint(visit.key, [visit.scan EXCEPT !.status = "complete"], visit.obs, visit.msgs)
  /\ NoteFinished(visit.scan.invite)
  /\ Continue("leave")
  /\ UNCHANGED <<visit, memberships>>

\* Defect: a guild with a confirmed match is stayed in, whatever --stay says.
LeaveUnlessHit ==
  /\ pc = "leave"
  /\ IF visit.scan.best = "confirmed" \/ visit.membership = "already"
     THEN UNCHANGED <<memberships, home, stranded>>
     ELSE \E answer \in Answer : \E gone \in MayHaveLeft(answer) :
            LET left == IF gone THEN {visit.key} ELSE {}
            IN  /\ memberships' = memberships \ left
                /\ home' = home \ left
                /\ Strand({visit.key} \ left)
  /\ BackToWalk
  /\ UNCHANGED <<storeVars, planned, finished, declared>>

\* The deferred call, whose error is dropped: a guild the engine joined is left
\* again, unless the call fails.
Leave ==
  /\ pc = "leave"
  /\ IF StayAfterHit \/ visit.membership = "already"
     THEN UNCHANGED <<memberships, home, stranded>>
     ELSE \E answer \in Answer : \E gone \in MayHaveLeft(answer) :
            LET left == IF gone THEN {visit.key} ELSE {}
            IN  /\ memberships' = memberships \ left
                /\ home' = home \ left
                /\ Strand({visit.key} \ left)
  /\ BackToWalk
  /\ UNCHANGED <<storeVars, planned, finished, declared>>

-----------------------------------------------------------------------------
(* Interruptions *)

Cancel ==
  /\ pc # "idle" /\ job.from = NoRun /\ ~cancelled
  /\ cancelled' = TRUE
  /\ UNCHANGED <<storeVars, pc, job, visit, memberships, historyVars>>

Crash ==
  /\ pc # "idle"
  /\ Strand(IF visit.membership = "joined" THEN {visit.key} ELSE {})
  /\ Idle
  /\ UNCHANGED <<storeVars, memberships, planned, finished, home, declared>>

EngineStep ==
  \/ Discover \/ DiscoverNothing
  \/ NextServer \/ MockServer \/ WalkCancelled \/ Finish
  \/ ResolveFails \/ Resolve
  \/ Join \/ JoinFails \/ JoinChallenged \/ SolveFails \/ Solve
  \/ DiscoverMembers \/ (\E i \in Identities : MatchMember(i)) \/ MatchDone
  \/ SearchMessages \/ NoMessages \/ Probe \/ RecordScan \/ Leave

Next == Search \/ Resume \/ ResumeNothing \/ EngineStep \/ Cancel \/ Crash

\* Every call of the engine returns: REST calls, the captcha bridge and
\* statements all have timeouts.  The one that need not is SessionID, whose
\* waiting is the subject of Gateway.
Spec == Init /\ [][Next]_vars /\ WF_vars(EngineStep)
=============================================================================
