SPECIFICATION Spec
CONSTANTS
  c1 = c1
  c2 = c2
  g1 = g1
  g2 = g2
  k1 = k1
  k2 = k2
  i1 = i1
  i2 = i2
  m1 = m1
  m2 = m2
  u1 = u1
  u2 = u2
  a1 = a1
  a2 = a2
  n1 = n1
  r1 = r1
  r2 = r2
  RunIDs = {r1, r2}
  GuildKeys = {g1, k1, k2}
  Invites = {c1, c2}
  Identities = {i1, i2}
  MessageIDs = {m2}
  Users = {u1, u2}
  NoUser = NoUser
  Avatars = {a2}
  NoAvatar = NoAvatar
  Names = {n1}
  NoName = NoName
  NoRow = NoRow
  NoRun = NoRun
  SearchRuns = {r1}
  Limit = 2
  Targets = {u1, NoUser}
  StayAfterHit = FALSE
  Solvers = {TRUE, FALSE}
  IdentUser <- MCIdentUser
  MessageAuthor <- MCOneMessageAuthor
  CandidateReasons <- MCCandidateReasons
  InviteGuild <- MCInviteGuild
  ListedKey <- MCListedKey
  InviteKey <- MCInviteKey
  AvatarOf <- MCAvatarOf
  NameOf <- MCNameOf
INVARIANTS
  WorkflowTypeOK
  CompleteRunCoversItsServers
  ScansAreOfSavedServers
  NoGuildLeftBehind
  RevisitsAreShared
PROPERTIES
  UsesStoreLawfully
  OwnGuildsKept
  OtherRunsUntouched
  RunEnds
CHECK_DEADLOCK FALSE
