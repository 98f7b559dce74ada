SPECIFICATION Spec
CONSTANTS
  i1 = i1
  m1 = m1
  u1 = u1
  u2 = u2
  RunIDs = {r1}
  GuildKeys = {g1}
  Invites = {c1}
  Identities = {i1}
  MessageIDs = {m1}
  Users = {u1, u2}
  NoUser = NoUser
  Avatars = {a1}
  NoAvatar = NoAvatar
  Names = {n1}
  NoName = NoName
  NoRow = NoRow
  IdentUser <- MCIdentUser
  MessageAuthor <- MCMessageAuthor
  MaxRetries = 1
  CandidateReasons <- MCCandidateReasons
INVARIANTS
  ReadersTypeOK
  ReasonFitsMatch
  ConfirmedByItsReason
  EvidenceHasScan
  EvidenceIsSummarised
  ShownMatchesHaveEvidence
  ShownIsStillStored
  ReportHasItsFiles
PROPERTIES
  EvidenceKept
  ImplementsLedger
  ReadingEnds
CHECK_DEADLOCK FALSE
