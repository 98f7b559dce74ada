SPECIFICATION Spec
CONSTANTS
  u1 = u1
  u2 = u2
  u3 = u3
  u4 = u4
  bad = bad
  ann = ann
  Ann = Ann
  wide = wide
  user1 = user1
  user2 = user2
  user3 = user3
  user4 = user4
  unknown = unknown
  alias = alias
  bob = bob
  anna = anna
  c1 = c1
  c2 = c2
  c3 = c3
  NoID = NoID
  NoName = NoName
  UserIDs = {u1, u2, u3, u4, bad}
  ValidIDs = {u1, u2, u3, u4}
  Names = {ann, Ann, wide, user1, user2, user3, user4, unknown, alias, bob, anna}
  NormOf <- MCNormOf
  PrefixedNames = {user1, user2, user3, user4}
  PlaceholderOf <- MCPlaceholderOf
  UnknownUser = unknown
  Accounts <- MCAccounts
  Directories = {"resolved", "multiple_candidates", "unresolved"}
  Requests <- MCRequests
  People <- MCPeople
  FoldOf <- MCFoldOf
  Answers <- MCAnswers
  Alike <- MCAlike
  Mentions <- MCMentions
  Codes = {c1, c2, c3}
  NameLimit = 2
  Pages <- MCPages
INVARIANTS
  SearchTypeOK
  OnlyTheIDConfirms
  SuppliedNameIsMatched
  StopReasonIsTrue
  NoServerTwice
  TagFillsUp
PROPERTIES
  TagPagesAreKept
  SearchEnds
CHECK_DEADLOCK FALSE
