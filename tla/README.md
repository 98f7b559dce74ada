# discord-osint: specifications, model checking and proofs

This directory specifies `discord-osint`, a Go command-line program that looks
for a Discord account in a list of servers. It walks the servers with one
account, matches members against a target the operator has confirmed, collects
messages as evidence and checkpoints each server in SQLite, so that a run can
be interrupted, resumed, exported and looked at in a dashboard.

Paths are relative to `src/`.

## 1. The system

| part | code | state it keeps | operations | module |
|---|---|---|---|---|
| checkpoint store | `internal/store` | six SQLite tables | create a run, set its status, fill its profile, save servers, record a scan (one transaction), rename channels, resumable scans, latest incomplete run | `Store`, `Ledger` |
| workflow engine | `internal/workflow/engine.go` | the run, the servers left, the scan of the current server | `Run`, `processServer` | `Workflow` |
| search, resume | `cmd/discord-osint/{search,resume}.go` | the context of the command | start, resume, Ctrl-C | `Workflow` |
| gateway session | `internal/discord/gateway.go` | websocket, session id, sequence, RWMutex | `Connect`, heartbeat loop, read loop, `SessionID`, `Close` | `Gateway` |
| rate limiter | `internal/ratelimit/limiter.go` | tokens, time of the last check | `Wait` | `RateLimiter` |
| captcha bridge | `internal/captcha` | per challenge: a server, a terminal goroutine, two channels, a `sync.Once` | `Solve` | `CaptchaBridge` |
| target verification | `internal/target` | none | `VerifyTarget` and its prompts | `Targeting` |
| Disboard, invites | `internal/disboard`, collected by `Run` | pages read, codes seen | `Discover`, `SearchByName`, `LoadInvitesFromFile`, `ParseDirectInvites` | `Listing` |
| member discovery | `internal/discord/members.go` | none | `DiscoverMembers` | `Matching`; its outcome, in `Workflow` |
| matcher | `internal/matcher` | none | `MatchTarget` | `Matching`; its outcome, in `Workflow` |
| REST client | `internal/discord/client.go` | none but the limiter | join, leave, search, lookups | `Client`; searches succeed or fail, in `Workflow` |
| AI client, triage | `internal/ai`, `cmd/discord-osint/triage.go` | a cache that stays unused | `Complete`, `TriageEvidence` | `Completion`, `Reading` |
| exporter | `internal/export/exporter.go` | five files per run | `ExportArtifacts` | `Reading`, `Readers` |
| web dashboard | `internal/ui` | none | `handleRunDetail` and smaller handlers | `Reading`, `Readers` |
| configuration | `internal/config` | the settings | `Load`, `Validate` | what paces the walk, in `Pacing` |
| report layout, onboarding gates, browser bridge, other commands, `scripts/` | | none | | not modelled (section 6) |

**How the parts meet.** The command opens the store, starts `Connect` in a
goroutine of its own and calls `Engine.Run`. `Run` verifies the target, creates
the run, collects invites, saves them and walks them. For each one
`processServer` resolves the invite, asks the gateway for its session id, joins
(asking the captcha bridge when Discord wants one), discovers and matches
members, searches messages, records everything in one transaction and leaves
the guild in a deferred call. Every REST call first goes through the rate
limiter. All of it shares one context, which Ctrl-C cancels; after that every
REST call and every SQL statement fails, and the engine ignores the errors of
most statements. What outlives the process is the database and the account's
guild memberships at Discord. The export that ends a search, the export command, the
dashboard and the triage command read that database, some of them while a search
in another process is writing it.

**What is hard about it.** Errors that are dropped; Ctrl-C or a crash between any
two calls; a rescan that merges into a row other code wrote; two invites of one
guild; a lock shared by three goroutines; goroutines that outlive the call they
belong to; a token bucket whose clock runs ahead of time; readers that put
together what several queries return; answers that are lost after Discord has
acted. The hazards are listed line by line in `PROJECT.json`, with the properties
that look at each.

**What makes each part correct.**
- Store: whatever is recorded, in whatever order, a summary row is consistent
  with itself and with its evidence, in both directions: a confirmation has what it
  rests on, and evidence is never next to a row that says less. Neither is ever weakened.
- Engine: a complete run has looked at every server it set out for; the account
  ends in the guilds it started in; the run ends; the store is used as its
  schema assumes.
- Resume: what is left to do is found again, what is done is not repeated, and the
  old run stays as it was.
- Gateway: heartbeats are sent while and only while the session lasts, the engine
  is not held up, the session id is real.
- Limiter: no interval sees more requests than the rate and the burst allow, and no
  caller waits longer than its place in the line requires.
- Verification, discovery, matching: whatever the resolver could read, only the id the
  operator gave confirms; no name the operator gave is dropped; what is recorded
  about a guild agrees with what was found in it.
- Collecting servers: no server twice, none beyond the limit that would displace one
  asked for, nothing found is lost, and it ends.
- Readers: what is shown has its evidence and is not contradicted later, a report
  has the files it is about next to it, and a reading ends.
- Captcha bridge: one answer per challenge, to the challenge it was given for, and
  every challenge ends.

## 2. Modules

**`Store`** is the database. A table with a UNIQUE key is a function from the key
to a row or `NoRow`; each operation of `store.go` is one statement or one
transaction and is one action with the same name. `MergedScan` is the
`ON CONFLICT` clause of `guild_scans` column by column, `CheckHolds` the `CHECK`
constraint, `EnrichedMessage` the clause that only fills channel names.
`StoreNext` lets any caller call any operation at any time, where what may be
recorded is `CallerContract`: what the engine, the only writer, passes. That
contract is not assumed: `Workflow` is shown to keep it (`UsesStoreLawfully`).
Columns that no operation compares (timestamps, counters, guild names, texts) are
left out. A statement fails when its context is cancelled; a failing disk or a
locked database are not modelled.

**`Ledger`** is what the store promises with tables and SQL left out: findings that
only get stronger, evidence that only grows, a run that is opened and closed.
**`StoreProps`** has the store's properties and the refinement mapping.

**`Workflow`** extends `Store` with the engine and the two commands. `pc` is the
place in `Run` or `processServer` and there is one action per place and outcome;
`job` and `visit` hold their local variables. `cancelled` is the context: once it
is set `Checkpoint` changes nothing and every REST call takes its failure branch,
while the code goes on until it looks at the context again, as it does in
`engine.go`. A REST call gets one of `Client`'s answers or none. `Crash` stops the process at any place and keeps the store and the
memberships. `planned`, `finished`, `home`, `stranded` and `declared` are history
variables and no action reads them. Discord is nondeterministic: it gives any
answer to resolving, joining and leaving, the lookup of the account's guilds
succeeds or not, and members and messages are any of the given ones. The one assumption on it is that a search by
author returns at least one message of that author if it returns any, besides
messages of others as context. The matcher appears by its outcome (`KindOf`): the
target's id confirms and anything else is a candidate. A user has one avatar here,
where the code has one per guild and a global one. Invites always name their
guild. **`WorkflowProps`** has the properties.

**`Client`** is what the REST client makes of an answer, a status with a body that is
valid, asks for a captcha or a phone, or cannot be decoded, and what Discord has
done by then: nothing is known of a call without an answer, and a join whose
answer is garbled has happened though the client reports a failure.

**`Reading`** is whoever reads the database: the export of a search, the export
command, a request of the dashboard, the triage command. Each query is an action,
and so is each creation and each completion of a file. A context that is done
fails a query that has not begun and cuts one that has begun short, with no
error, as `rows.Err` is never asked. **`Completion`** is the AI client's loop of
requests and pauses, which the triage command runs through. **`Readers`** interleaves
one reader with `StoreNext`, the writer, and has the properties of both.

**`Pacing`** is the walk of `Run` in time: how long servers take, the random pause between
them, and when guilds are joined. It holds no store and no account.

**`Gateway`** has four processes, one per goroutine, with one action per step between
two accesses to shared state. `Lock` and `RLock` are those of `sync.RWMutex`,
where a waiting writer holds off new readers. `g.conn` and `g.cancel` are read and
written without the lock where the code does so. A nil connection that is read
ends the process (`"panicked"`). The content of events is left out, except for
whether one is READY.

**`RateLimiter`** counts time in ticks and the bucket in ticks' worth of tokens, which
makes the floating-point refill exact; the conversion of a wait to nanoseconds is
left out. `last` runs ahead of `now` while calls wait, as `lastChecked` does.

**`CaptchaBridge`** runs one `Solve` after another, as the engine does, with what each
leaves behind: the terminal goroutine, which nothing stops, pages still open on
the configured port, and a handler that has answered its page and has yet to
report.

**`Targeting`**, **`Listing`** and **`Matching`** are the three decisions a search makes,
and **`Search`** runs them one after the other as `Run` does; `stage` is shared by all
four. `Workflow` is about what happens to the store and the account meanwhile and
takes their results as given: any target, any list of distinct invites, any
members, of which those with the target's id are confirmed (`KindOf`).
`OnlyTheIDConfirms` and `NoServerTwice` are why it may.
- A name is a model value; `NormOf`, `FoldOf`, `Alike` and `Mentions` say what
  `NormalizeUsername`, `strings.EqualFold`, the similarity of 0.85 and the substring
  search in the alias note make of it. Nothing is assumed of them but that the
  note for a name contains that name normalised.
- `Targeting`: `ResolveUserID` is the set of answers of both resolvers, a failure with
  a valid id being the same as a placeholder where both flags were given. The
  resolvers of the program never resolve a username; `ResolvedUsername` and
  `ListCandidates` are the branches of `VerifyTarget` for one that does, as its tests
  have.
- `Listing`: one page loop stands for `Discover` and `SearchByName`, which differ in what
  they ask for (`Wanted`) and in what the engine does with an error (`PageFails`). Pages
  are arbitrary at every request, since servers on Disboard move.
- `Matching`: one action per phase of `DiscoverMembers`; `MatchTarget` is its list of rules,
  of which the first that applies decides.

The `MC...` modules give the constants values. The `...Proofs` modules hold the
theorems.

Operators marked `Defect:` are not part of any specification. Each is the operator
after it with one plausible mistake, and for every property there is one that
breaks it, so no property holds for want of anything to go wrong.

## 3. Runs

| run | configuration | what it shows |
|---|---|---|
| `store` | `MCStore.cfg` | a guild's row stays consistent over every sequence of operations, what it says of a confirmation can be found next to it, it never says less than the evidence next to it shows, and the store implements the ledger; meanwhile a reader queries, writes files, asks the AI endpoint, fails, is cut short or dies: what it shows is evidenced and stays true, its reports are complete, it ends |
| `workflow` | `MCWorkflow.cfg` | a search over two invites of one guild, and resumes of it, with every answer of Discord, Ctrl-C and crash: complete runs are covered, scans belong to saved servers, no guild is left behind, the operator's own guilds are kept, the other run is never touched, what is done is only visited again where two servers share a row, the store's contract is met, the run ends |
| `gateway` | `MCGateway.cfg` | all interleavings of the four goroutines, `Close` at any moment |
| `limiter` | `MCRateLimiter.cfg` | three callers, five calls, cancellation and late wake-ups |
| `captcha` | `MCCaptcha.cfg` | two challenges, three lines at the terminal, any number of posts from any page |
| `search` | `MCSearch.cfg` | every answer of resolver and operator, every phase of discovery, every order of pages, repeats and failures: who is confirmed, what is matched, recorded and listed, and that it ends |
| `username_only`, `declared`, `resume_skips`, `heartbeat`, `captcha_skip`, `joins_per_hour` | | statements of the repository that the code does not keep; see section 5 |

**Bounds.** `store`: no operation reads two guilds or two runs, so one of each is
enough for what one row can go through; an observation of one user and a message
of another give every kind of evidence, with and against each other. There is one
reader, since readers change nothing another could see but files of the same
name; `MaxRetries` is 1 where the client has 4, so that there is a request that
may be repeated and a last one. `workflow`: two invites of one guild is the smallest case in
which a row is written twice, and one of them may be listed under the guild's own
id; of the two runs a search takes the first and a resume the second, which is
also the only way a run can meet another's rows. Each message is of the namesake,
which is the case the engine confuses; a message of the target adds no branch.
`joins_per_hour`: the default pause and limit, half a minute to a unit, ten servers of
half a minute each; the behaviour found does not depend on the unit.
`gateway` has no bounds. `limiter`: five calls on a bucket of two drain
it, queue three deep and refill part of a token in between. `captcha`: what a
challenge leaves behind meets the next one, and two goroutines read three lines,
so that a line may also be left over. `search`: the requests are of two kinds, so that
the two halves do not multiply. `Persons` has every combination of flags, with ids
that have an account, have none or are no snowflake, among six people of whom some
share the target's name up to case or width, its nickname, the placeholder, or a
word of the alias note. `Places` has up to two name searches, a file and arguments
that overlap, a tag and limits of 1 to 3 for three codes on pages of two; `NameLimit`
is 2 where the code has 3, so that a name search can be cut off with three codes.

`CHECK_DEADLOCK FALSE` is given throughout because the system may really stop: the
run ids are used up, the process has exited, all calls have been made; in the
gateway, additionally, because of the deadlock that `heartbeat` is about.

**Fairness.** `Workflow`: weak fairness of the engine as a whole, as one goroutine is
scheduled and every call it makes has a timeout. The exception is `SessionID`,
which by the `heartbeat` finding may wait for ever: `RunEnds` therefore says that
the engine's own logic ends, and `EngineNotHeldUp` says when `SessionID` returns.
Commands, Ctrl-C and crashes are not fair. `Gateway`: no fairness of the network or of the
ticker; a goroutine that can release a lock does so, and one that waits for a lock
gets it if it is free again and again (strong fairness, which the queueing of
`sync.RWMutex` gives). `RateLimiter`: time passes and a fired timer wakes its
goroutine. `Readers`: queries, files and requests succeed, fail or time out, so a reader that has
begun goes on; beginning to read, crashing and the writer are not fair. `Search`: collecting, discovery and the walk go on, as every request has a timeout;
nobody has to answer a prompt. `CaptchaBridge`: `Solve`'s select, handlers and terminal goroutines are
scheduled; nobody has to click or type.

## 4. Proofs

All with TLAPS, for every value of the constants under the named assumptions
(`StoreAssumption`, `NoRowAssumption`, `WorkflowAssumption`, `ReadingAssumption`,
`CompletionAssumption`, `GoroutinesAssumption`, `CaptchaAssumption`, `LimiterAssumption`,
`TargetingAssumption`, `MatchingAssumption`, `ListingAssumption`, and `PacingTypes` as a
hypothesis of the theorems about `Pacing`), which only say what kind
of value each constant is, that the absent values are not values and the four
goroutines are four, that numbers are natural or positive, that there is a run, an
invite and a finite number of them, and that an alias note contains the name it is for.

**Store** (`StoreProofs`). Type correctness is inductive by itself. The four
invariants are proved together from `SafetyInv`, their conjunction with the types:
- they need each other, since a merged row is consistent only if both rows were
  (`MergePromotes`, `MergeReasonFits`), and the evidence of the stored row has to
  survive the commit (`EvidenceSurvives`) for the promoted user to keep it;
- `CallerContract` gives that the new row fits what is recorded with it
  (`EngineReasonFits`, `EvidenceStored`) and says no less than it (`BatchSummarised`);
- evidence and summary meet in `UpsertSummarised`: whatever is then on record came
  with this scan or with an earlier one, and the merged match is at least as strong as
  that of both. That the earlier one has a row at all is `EvidenceHasScan`;
- `RecordingSafe` combines them for the one interesting action; `OtherSafe` disposes
  of the rest.

The two action properties (`MatchesOnlyPromote`, `EvidenceOnlyGrows`) follow from
`StepKinds`, which classifies every step by what it does to the tables of
findings.

`ConfirmedByItsReason` needs more, because a summary, its observations and the run's
target id are written at different times. `ReasonInv` adds that every observation on
record, of whatever scan, is confirmed exactly when its id is the one the run looks
for (`ConfirmsTheTarget`), and `TargetsStay` that this id never changes. Then a
confirming batch explains its own summary even where the identity was observed
before and the insertion does nothing (`BatchExplains`), and an explanation outlives
later scans (`ExplainsOn`). `NamesConfirmNoMember` reads off what a username-only run
can rely on: none of its observations is confirmed, and none of its guilds but by
the author of a message.

**Refinement** (`StoreProofs`). `StoreImplementsLedger`: initial states map to
initial states, and each step to opening, closing, a checkpoint or a stutter. The
work is in `RecordingIsCheckpoint`: the mapped finding is at least as strong as
before and a confirmed one has evidence, which takes `SafetyInv`.

**Limiter** (`RateLimiterProofs`). `RateBound` relates any two calls and does not follow
from the bucket's level alone. The strengthening is `Account`: for every past call
`i`, the cost of all calls from `i` on, plus what the bucket holds, is at most a
full bucket plus the time from `i`'s slot to `last`. A refill raises both sides by
the same amount or caps the left side; a taken token moves from the bucket to the
cost; a reservation pays for its token by moving `last`. With `LastIsLatest` (no slot
is later than `last`, which is the last slot while it is ahead of now), `Account` gives `RateBound` for the new
call, and `LineIsTight` is proved in the same induction.

**Search** (`SearchProofs`). None of the three properties is inductive: each speaks of the
end of a chain that begins at the command line. `IInv` carries along it
- `TargetOfRequest`: past the prompts the target has the id given, and the name given
  is its username up to normalisation or is in its note. `TargetingKeeps` goes through
  the branches of `VerifyTarget`; `CandidatesOfName` is needed for a selected candidate;
- `DiscoveryIsSound`: what the members found and the stop reason say in each phase
  (`MatchingKeeps`);
- `ObservedIsMatched` and `ScanStartsAfresh`: observations are of the members found in
  this guild for this target.

With three lemmas on `MatchTarget` (`ConfirmedIsTarget`, `VerdictIsAStatus`, `NameMatches`)
they give `OnlyTheIDConfirms`, `SuppliedNameIsMatched` and `StopReasonIsTrue`.

The list of servers is the subject of a second invariant, `ListIInv`, on top of the
first. That no code is on it twice and that a tag fills it no further than the limit
are inductive together with the lengths of the scraper's results, the order of the
sources (`TagIsLast`) and the place in the walk. The lemma they rest on is
`NewCodesFacts`: of a page of any length, whatever it repeats, `NewCodes` gives each
code that is not seen once, and no other. `NewCodes` takes the first occurrences in
ascending order, so the lemma needs that every set of positions can be ordered, for
every length. No induction theorem of the library can be used for that; it is proved
by a least counterexample instead: `LeastElement`, that a set of numbers has a least
member, comes from the well-foundedness of strict inclusion between finite sets, and
the least length at which an ordering were missing would have one.

**Workflow** (`WorkflowProofs`). `IInv` has the types of the tables and of the engine's
memory (`ControlOK`, which ties the place to what is held there), and
- `RunInv`: while the engine is at work its run is open, and a run it has not created
  has no rows;
- `SavedInv`: past `Discover`, the servers in the queue and under visit are saved, or the
  context is done, in which case nothing more is recorded;
- `VisitInv`: before the members are matched the scan says nothing (`Unread`), and after
  that the summary is backed by the observations and messages held (`Backed`).

`StoreEffect` classifies each step by what it does to the tables: one of five
operations on the engine's own run, under these conditions, or nothing. From that
follow `EngineIsALawfulCaller`, hence, with `StoreProofs`, `SearchesLeaveSoundRecords`: what is
proved of the store under any lawful caller holds of every search; and
`OtherRunsStay`, `RecordedServersAreSaved`. The refinements compose too: a search, with its
failures, crashes and resumes, implements the ledger (`SearchesImplementTheLedger`). The account's guilds need an invariant of
their own, `MemberInv`: what the account is in beyond its own guilds is stranded or the
guild under visit. `CoverInv` is about the promise of a complete run: each planned
server is still in the queue, under visit, or has a row, as long as the context is
not done; a context that is done also fails the statement that marks the run
complete, which is why dropping the other errors does no harm.

`RevisitsAreShared` speaks of the run resumed and is decided while that run was at work,
possibly long before. `RevisitInv` keeps, for every run there is, the history of its rows:
- `QueueInv`: no invite is in the queue twice, nor one the run has a row of or has recorded
  as complete (`Touched`), so that each is visited once;
- `AtHandInv`: nor is the one under visit, which from its resolution on is known under the
  guild it leads to;
- `RowsInv`: a row that resume would take up is of an invite not recorded as complete, or
  another server of the run was listed under the guild it leads to. A row keeps its
  first invite while its status is overwritten, and of the statuses the engine writes
  only that of an invite that does not resolve is one resume takes up. It is written
  under the key the invite was listed by; for that to be the row of a complete
  invite, it must be the guild that one leads to;
- `FromInv`: the run resumed is not the run at work, and its rows rest.

`OnlySharedRowsAreRevisited` follows. `DistinctServersAreNotRescanned` adds the case in which
the sentence `resume_skips` refutes is true: where no invite is known by the guild another
one leads to (`DistinctListings`), resume scans no completed server again.

**Readers** (`ReadersProofs`). Here two processes share the tables, and what a reader holds
is about an earlier state. `SeenInv` says of each query already answered what remains
true of it: its rows are still there, no match among them was weakened, and the
evidence of a confirmation is in the tables (the writer's part, by `StepKinds`), so that
the query of that table, which comes later, returns it. To know which table,
`SummariesBacked` adds to `SafetyInv` that the reason of a confirmation names it. The rest
is about which query may have been cut short (`CutLast`), and which files are new at
each place of an export (`FilesInv`).

**Gateway** (`GatewayProofs`). The places that hold the lock are exactly those whose goroutine
is its holder or among its readers; exclusion, and with it the three properties,
follow from that. So does, for every schedule, what the run `heartbeat` shows in one:
`NoHeartbeatIsSent`, and `FirstHeartbeatHangs`, that no step of any goroutine releases the
lock a due heartbeat has taken, or moves on the engine or the read loop once they wait for it.

**Pacing** (`PacingProofs`). By `PacingInv` every join is at least as long ago as the pauses
taken since. `JoinsKeepTheirDistance` is that bound, for any settings and visits, and
`LongPausesKeepTheMaximum` the case in which the sentence `joins_per_hour` refutes is true:
when the least pause times `max_joins_per_hour` is an hour. With the default of 8 that
is 450 seconds, where the default pause is 30 to 90.

**Captcha bridge** (`CaptchaProofs`). Nothing is reported to a call before its `sync.Once` is
used, and at most one report after that is in its two channels or taken from them
(`Guarded`); what is in the channels of a call was reported to it (`Addressed`).
`AtMostOneReport` and `AnswersReachTheirCall` are read off.

**Only model-checked.** Liveness under fairness (`RunEnds`, `ReadingEnds`, `EngineNotHeldUp`,
`EveryWaitReturns`, `EverySolveEnds`, `SearchEnds`), which needs `ENABLED` and is out of the
prover's reach. Every invariant and action property that a passing run checks is also
proved. The statements of section 5 are refuted by TLC; theorems above say in which
cases two of them hold (`resume_skips`, `joins_per_hour`) and what is left of a third
(`username_only`).

## 5. Where the repository says something else

Each is a run whose single property is a sentence of the repository, which TLC
refutes with a behaviour of the code.

- `username_only`. "subsequent matches can only ever be 'candidate', never 'confirmed'"
  (`internal/target/verify.go:203`). A candidate's id replaces the missing target
  id, and a message by that account then confirms it.
- `declared`. "has no incomplete or pending scans. All servers completed."
  (`cmd/discord-osint/resume.go:61`). A server without a row counts as completed;
  a run that dies before its first server is declared done.
- `resume_skips`. "without re-scanning completed servers" (`README.md:493`). Two
  invites of one guild share a row, and a failure of the second reopens the first.
- `heartbeat`. "runs background heartbeat and dispatch routines" (`gateway.go:50`). The
  first heartbeat waits for a lock its own goroutine holds; from then on
  `SessionID` and `Close` wait as well.
- `captcha_skip`. "'s' to skip this server" (`internal/captcha/bridge.go:271`). A line
  typed at one prompt may be read at the next.

- `joins_per_hour`. "Maximum guild joins allowed per 60-minute window" (`README.md:431`).
  `max_joins_per_hour` is read and repaired by the configuration and used nowhere.

More such places were met while modelling, without a run of their own:
- An account whose name begins with "user_" gets the operator's name instead,
  without the "visible warning" of
  `docs/superpowers/specs/2026-09-15-discord-osint-design.md:168` (`VerifyBoth`).
- `Close` may set the connection to nil just before the read loop reads from it
  (`ReaderLoadsConn`, the place "panicked"): the process then ends with a panic, where
  `gateway.go:226` says "gracefully". `NilConnOnlyAfterClose` says it is the only such case.
- `README.md:493` offers to resume a "rate-limited" scan. No scan gets the status
  `rate_limited`: `engine.go:410` records "blocked", which resume takes for done.
- The token of the third captcha is never sent: the join loop is over
  (`engine.go:353`, `Solve`).
- `triage.go:107` prints that the file was saved whatever became of it (`SaveTriage`).
- "Target identity [...] never passed to AI endpoints"
  (`docs/superpowers/specs/2026-09-15-discord-osint-design.md:457`): `TriageEvidence` begins its prompt with the
  target's username.
- `MAX_JOINS_PER_HOUR` and `JOIN_DELAY_SEC` of `README.md:431` are not among the variables
  `ApplyEnv` reads (`config.go:60`).

`username_only` and `OnlyTheIDConfirms` do not contradict each other: matching members
never confirms a username-only target, the search for messages after it may.

## 6. What is left out

The plan (the store and its ledger, the workflow, the gateway, the limiter, the
captcha bridge, a search's three decisions, the readers, the AI client, and the
proofs about all of them) is carried out. What could follow:

1. Two searches at once on one database and one account, which the code does not
   rule out and whose runs would leave each other's guilds.
2. A composition of `Search` with `Workflow`, so that the list a search makes is the
   one that is walked in the same behaviour; each now takes the other's result as
   any there may be.

Not modelled, and why:
- The layout of `report.md` and `report.html` (`internal/export/report.go`): text made of rows already
  read, without a decision a property here could be about.
- The onboarding gates, the browser bridge they use, and `SubscribeLazyGuild`: nothing in
  the program calls them, so their environment would be invented.
- `SubmitRulesScreening`, whose result and error the engine drops, and which changes
  nothing the models hold.
- HTML parsing, command-line flags, YAML, header and token formatting, the dashboard's
  page and list of runs: no state, and no order of steps.
- `store.New` and `migrate`: they run before anything else and once.
- The helper script: the operator runs it by hand, and the program reads its output
  as an invites file, which is in `Listing`.
