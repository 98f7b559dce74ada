---------------------------- MODULE SearchProofs ----------------------------
(***************************************************************************)
(* Proofs about Search for all ids, names, people and pages: who can be    *)
(* confirmed, that a supplied name is matched, that stop reasons are true, *)
(* and that no server is listed twice or beyond what was asked for.        *)
(***************************************************************************)
EXTENDS Search, FiniteSetTheorems, SequenceTheorems, TLAPS

\* The target of a request that verification has let through.
TargetOfRequest ==
  /\ target \in Targets
  /\ stage \notin {"verify", "select", "refused"} =>
       /\ request.id # NoID => target.id = request.id
       /\ (request.id # NoID /\ request.name # NoName) =>
            Norm(target.username) = Norm(request.name) \/ target.note = request.name

\* Only a username alone can have several candidates.
CandidatesOfName == stage = "select" => request.id = NoID /\ options \subseteq Accounts

\* What DiscoverMembers holds in each of its phases.
DiscoveryIsSound ==
  /\ phase \in {"lookup", "search", "author", "match", "done"}
  /\ found \subseteq Members
  /\ phase \in {"lookup", "search"} => found = {}
  /\ phase = "author" => \A m \in found : ~Matches(target, m)
  /\ phase \in {"match", "done"} =>
       /\ reason = "direct_member_hit" => \E m \in found : found = {m} /\ IsTarget(target, m)
       /\ reason = "large_guild_targeted_only" =>
            found # {} /\ \A m \in found : ~Matches(target, m)
       /\ reason = "large_guild_targeted_no_hits" => found = {}

\* Observations are made at the end of discovery, and of all it found.
ObservedIsMatched ==
  observed = IF phase = "done" THEN {Observation(target, m) : m \in {n \in found : Matches(target, n)}}
             ELSE {}

\* Discovery runs in the scan of one server and starts afresh in each.
ScanStartsAfresh == stage # "scan" => phase = "lookup"

IInv ==
  /\ request \in Requests
  /\ TargetOfRequest
  /\ CandidatesOfName
  /\ DiscoveryIsSound
  /\ ObservedIsMatched
  /\ ScanStartsAfresh

-----------------------------------------------------------------------------
(* MatchTarget *)

\* Only the id confirms, for any target and member whatever.
LEMMA ConfirmedIsTarget ==
  ASSUME NEW t, NEW m
  PROVE  MatchTarget(t, m).status = "confirmed" <=> IsTarget(t, m)
BY DEF MatchTarget, Candidate

\* A verdict is one of three.
LEMMA VerdictIsAStatus ==
  ASSUME NEW t, NEW m
  PROVE  MatchTarget(t, m).status \in MatchStatuses
BY DEF MatchTarget, Candidate, MatchStatuses

\* Whoever has the target's username, or is mentioned in its note, matches.
LEMMA NameMatches ==
  ASSUME NEW t, NEW m, t.id # NoID, m.id # NoID, SameUsername(t, m) \/ MentionedInNote(t, m)
  PROVE  Matches(t, m)
BY DEF MatchTarget, Candidate, Matches

LEMMA ProfileIsMember ==
  ASSUME NEW m \in People
  PROVE  Profile(m) \in Members /\ Profile(m).id = m.id
BY MatchingAssumption DEF Profile, Members

-----------------------------------------------------------------------------
(* The invariant *)

LEMMA InitIInv == Init => IInv
<1> SUFFICES ASSUME Init PROVE IInv
    OBVIOUS
<1>1. target \in Targets
    BY TargetingAssumption DEF Init, TargetingInit, NoTarget, Targets
<1>2. QED
    BY <1>1 DEF Init, TargetingInit, MatchingInit, IInv, TargetOfRequest, CandidatesOfName,
       DiscoveryIsSound, ObservedIsMatched, ScanStartsAfresh

\* Showing a candidate makes a target of it.
LEMMA ShowIsTarget ==
  ASSUME NEW c \in [id : UserIDs \cup {NoID}, username : Names \cup {NoName}, display : Names],
         NEW note \in Names \cup {NoName}, Show(c, note)
  PROVE  target' \in Targets /\ target'.id = c.id /\ target'.username = c.username
           /\ target'.note = note
BY DEF Show, Targets

\* Verification: the target shown is the one asked for; nothing is read yet.
LEMMA TargetingKeeps == IInv /\ TargetingStep => IInv'
<1> SUFFICES ASSUME IInv, TargetingStep PROVE IInv'
    OBVIOUS
<1>1. stage \in {"verify", "select", "confirm"} /\ phase = "lookup"
    BY DEF IInv, ScanStartsAfresh, TargetingStep, VerifyStep, PromptStep, VerifyFails, VerifyBoth,
       VerifyID, ResolvedUsername, UnresolvedUsername, ListCandidates, VerifyUsername,
       SelectCandidate, SelectWrong, SelectQuit, Decline, Confirm
<1>2. UNCHANGED <<phase, found, reason, observed>> /\ request' = request
    BY DEF TargetingStep, matchingVars, VerifyStep, PromptStep, VerifyFails, VerifyBoth,
       VerifyID, ResolvedUsername, UnresolvedUsername, ListCandidates, VerifyUsername,
       SelectCandidate, SelectWrong, SelectQuit, Decline, Confirm, Show, Refuse, targetingVars
<1>3. DiscoveryIsSound' /\ ObservedIsMatched' /\ ScanStartsAfresh'
    BY <1>1, <1>2 DEF IInv, DiscoveryIsSound, ObservedIsMatched, ScanStartsAfresh
<1>4. request.id \in UserIDs \cup {NoID} /\ request.name \in Names \cup {NoName}
    BY TargetingAssumption DEF IInv
<1>5. TargetOfRequest'
  <2>1. CASE VerifyBoth
    <3>1. Supplied \in Candidates /\ AliasNote(Supplied) \in Names \cup {NoName}
        BY <1>4, <2>1, TargetingAssumption DEF VerifyBoth, Supplied, Candidates, AliasNote
    <3>2. CASE Show(Supplied, AliasNote(Supplied))
        BY <3>1, <3>2, <1>2, ShowIsTarget DEF TargetOfRequest, Supplied, Candidates
    <3>3. ASSUME NEW c \in ResolveUserID(request.id), Show(c, AliasNote(c))
          PROVE  TargetOfRequest'
      <4>1. c \in Candidates /\ c.id = request.id
          BY <2>1, TargetingAssumption DEF ResolveUserID, VerifyBoth, Candidates
      <4>2. AliasNote(c) \in Names \cup {NoName}
          BY <1>4 DEF AliasNote
      <4>3. target' \in Targets /\ target'.id = c.id /\ target'.username = c.username
              /\ target'.note = AliasNote(c)
          BY <3>3, <4>1, <4>2, ShowIsTarget DEF Candidates
      <4>4. Norm(c.username) = Norm(request.name) \/ AliasNote(c) = request.name
          BY DEF AliasNote
      <4>5. QED
          BY <4>1, <4>3, <4>4, <1>2 DEF TargetOfRequest, Norm
    <3>4. QED
        BY <2>1, <3>2, <3>3 DEF VerifyBoth
  <2>2. CASE VerifyID
    <3>1. PICK c \in ResolveUserID(request.id) : Show(c, NoName)
        BY <2>2 DEF VerifyID
    <3>2. c \in Candidates /\ c.id = request.id
        BY <2>2, TargetingAssumption DEF ResolveUserID, VerifyID, Candidates
    <3>3. QED
        BY <2>2, <3>1, <3>2, <1>2, ShowIsTarget DEF TargetOfRequest, VerifyID, Candidates
  <2>3. CASE ResolvedUsername
        BY <2>3, <1>2, ShowIsTarget, TargetingAssumption
        DEF ResolvedUsername, VerifyUsername, TargetOfRequest, Candidates
  <2>4. CASE UnresolvedUsername
    <3>1. Norm(request.name) \in Names \cup {NoName}
        BY <1>4, TargetingAssumption DEF Norm
    <3>2. QED
        BY <2>4, <3>1, <1>2, <1>4, ShowIsTarget
        DEF UnresolvedUsername, VerifyUsername, TargetOfRequest
  <2>5. CASE SelectCandidate
        BY <2>5, <1>2, ShowIsTarget, TargetingAssumption
        DEF SelectCandidate, IInv, CandidatesOfName, TargetOfRequest, Candidates
  <2>6. CASE Confirm
        BY <2>6, <1>2 DEF Confirm, targetingVars, IInv, TargetOfRequest, Norm
  <2>7. CASE Decline
        BY <2>7, <1>2, TargetingAssumption DEF Decline, TargetOfRequest, NoTarget, Targets
  <2>8. CASE VerifyFails \/ SelectQuit
        BY <2>8, <1>2 DEF VerifyFails, SelectQuit, Refuse, targetingVars, IInv, TargetOfRequest
  <2>9. CASE ListCandidates \/ SelectWrong
        BY <2>9, <1>2 DEF ListCandidates, SelectWrong, IInv, TargetOfRequest
  <2>10. QED
        BY <2>1, <2>2, <2>3, <2>4, <2>5, <2>6, <2>7, <2>8, <2>9
        DEF TargetingStep, VerifyStep, PromptStep
<1>6. CandidatesOfName'
    BY <1>2 DEF IInv, CandidatesOfName, TargetingStep, VerifyStep, PromptStep, VerifyFails, VerifyBoth,
       VerifyID, ResolvedUsername, UnresolvedUsername, ListCandidates, VerifyUsername,
       SelectCandidate, SelectWrong, SelectQuit, Decline, Confirm, Show, Refuse, targetingVars
<1>7. QED
    BY <1>2, <1>3, <1>5, <1>6 DEF IInv

\* Collecting servers touches neither the target nor a scan.
LEMMA ListingKeeps == IInv /\ ListingStep => IInv'
<1> SUFFICES ASSUME IInv, ListingStep PROVE IInv'
    OBVIOUS
<1>1. UNCHANGED <<request, options, target, phase, found, reason, observed>>
    BY DEF ListingStep, targetingVars, matchingVars
<1>2. stage = "collect" /\ stage' \in {"collect", "listed", "failed"}
  <2>1. ASSUME NEW codes, Collect(codes), stage = "collect"
        PROVE  stage' \in {"collect", "listed"}
      BY <2>1 DEF Collect
  <2>2. ASSUME NEW page \in Pages, ReadPage(page)
        PROVE  stage = "collect" /\ stage' \in {"collect", "listed"}
      BY <2>1, <2>2 DEF ReadPage, Scraping, ReadOn
  <2>3. NoMorePages \/ PageFails => stage = "collect" /\ stage' \in {"collect", "listed"}
      BY <2>1 DEF NoMorePages, PageFails, Scraping
  <2>4. QED
      BY <2>2, <2>3 DEF ListingStep, CollectStep, AskForPage, Scraping, NamesSearched,
         LoadInvitesFromFile, InvitesFileFails, ParseDirectInvites, NoTag
<1>3. QED
    BY <1>1, <1>2 DEF IInv, TargetOfRequest, CandidatesOfName, DiscoveryIsSound,
       ObservedIsMatched, ScanStartsAfresh, Norm

\* The walk begins each scan with nothing found.
LEMMA WalkKeeps == IInv /\ WalkStep => IInv'
<1> SUFFICES ASSUME IInv, WalkStep PROVE IInv'
    OBVIOUS
<1>1. UNCHANGED <<request, options, target>>
    BY DEF WalkStep, NothingListed, BeginWalk, VisitServer, CannotEnter, LeaveServer, Finish,
       targetingVars
<1>2. /\ stage \in {"listed", "walk", "scan"}
      /\ stage' \in {"failed", "walk", "scan", "ended"}
    BY DEF WalkStep, NothingListed, BeginWalk, VisitServer, CannotEnter, LeaveServer, Finish
<1>3. TargetOfRequest' /\ CandidatesOfName'
    BY <1>1, <1>2 DEF IInv, TargetOfRequest, CandidatesOfName, Norm
<1>4. CASE LeaveServer
    BY <1>1, <1>3, <1>4 DEF LeaveServer, IInv, DiscoveryIsSound, ObservedIsMatched, ScanStartsAfresh
<1>5. CASE ~LeaveServer
    BY <1>1, <1>3, <1>5 DEF WalkStep, NothingListed, BeginWalk, VisitServer, CannotEnter, Finish,
       matchingVars, IInv, DiscoveryIsSound, ObservedIsMatched, ScanStartsAfresh
<1>6. QED
    BY <1>4, <1>5

\* A phase of discovery hands on what its stop reason says.
LEMMA MatchingKeeps == IInv /\ MatchingStep => IInv'
<1> SUFFICES ASSUME IInv, MatchingStep PROVE IInv'
    OBVIOUS
<1>1. UNCHANGED <<stage, request, options, target>> /\ stage = "scan"
    BY DEF MatchingStep, targetingVars, MatchStep, LookUpMember, NoMemberLookedUp, SearchMembers,
       ProbeAuthor, NoAuthor, MatchMembers
<1>2. TargetOfRequest' /\ CandidatesOfName' /\ ScanStartsAfresh' /\ request' \in Requests
    BY <1>1 DEF IInv, TargetOfRequest, CandidatesOfName, ScanStartsAfresh, Norm
<1>3. target' = target /\ found \subseteq Members
    BY <1>1 DEF IInv, DiscoveryIsSound
<1>4. DiscoveryIsSound' /\ ObservedIsMatched'
  <2>1. CASE LookUpMember
    <3>1. PICK m \in People : m.id = target.id /\ Found({Profile(m)}, "direct_member_hit")
        BY <2>1 DEF LookUpMember
    <3>2. Profile(m) \in Members /\ IsTarget(target, Profile(m))
        BY <2>1, <3>1, ProfileIsMember DEF LookUpMember, IsTarget
    <3>3. QED
        BY <2>1, <3>1, <3>2, <1>3
        DEF LookUpMember, Found, IInv, DiscoveryIsSound, ObservedIsMatched, IsTarget
  <2>2. CASE NoMemberLookedUp
        BY <2>2, <1>3 DEF NoMemberLookedUp, IInv, DiscoveryIsSound, ObservedIsMatched
  <2>3. CASE SearchMembers
    <3>1. PICK answer \in SUBSET Answering : Searched({Profile(m) : m \in answer})
        BY <2>3 DEF SearchMembers
    <3> DEFINE members == {Profile(m) : m \in answer}
    <3>2. members \subseteq Members
        BY ProfileIsMember DEF Answering
    <3> HIDE DEF members
    <3>3. CASE \E m \in members : Matches(target, m)
        BY <2>3, <3>1, <3>2, <3>3, <1>3
        DEF members, SearchMembers, Searched, Found, IInv, DiscoveryIsSound, ObservedIsMatched
    <3>4. CASE \A m \in members : ~Matches(target, m)
        BY <2>3, <3>1, <3>2, <3>4, <1>3
        DEF members, SearchMembers, Searched, IInv, DiscoveryIsSound, ObservedIsMatched, Matches
    <3>5. QED
        BY <3>3, <3>4
  <2>4. CASE ProbeAuthor
    <3>1. PICK m \in People :
            Found(found \cup {[Profile(m) EXCEPT !.nick = NoName]}, "targeted_search_hit")
        BY <2>4 DEF ProbeAuthor
    <3>2. [Profile(m) EXCEPT !.nick = NoName] \in Members
        BY ProfileIsMember DEF Members
    <3>3. QED
        BY <2>4, <3>1, <3>2, <1>3
        DEF ProbeAuthor, Found, IInv, DiscoveryIsSound, ObservedIsMatched
  <2>5. CASE NoAuthor
        BY <2>5, <1>3
        DEF NoAuthor, Found, IInv, DiscoveryIsSound, ObservedIsMatched, Matches
  <2>6. CASE MatchMembers
    <3>1. DiscoveryIsSound'
        BY <2>6, <1>3 DEF MatchMembers, IInv, DiscoveryIsSound, Matches, IsTarget
    <3>2. ObservedIsMatched'
        BY <2>6, <1>3 DEF MatchMembers, ObservedIsMatched
    <3>3. QED
        BY <3>1, <3>2
  <2>7. QED
        BY <2>1, <2>2, <2>3, <2>4, <2>5, <2>6 DEF MatchingStep, MatchStep
<1>5. QED
    BY <1>2, <1>4 DEF IInv

LEMMA StepKeeps == IInv /\ [Next]_vars => IInv'
<1>1. IInv /\ UNCHANGED vars => IInv'
    BY DEF vars, targetingVars, matchingVars, IInv, TargetOfRequest, CandidatesOfName,
       DiscoveryIsSound, ObservedIsMatched, ScanStartsAfresh, Norm, Matches, IsTarget
<1>2. QED
    BY <1>1, TargetingKeeps, ListingKeeps, MatchingKeeps, WalkKeeps DEF Next

\* IInv holds throughout every search.
THEOREM Invariance == Spec => []IInv
<1>1. QED
    BY InitIInv, StepKeeps, PTL DEF Spec

-----------------------------------------------------------------------------
(* What a search reports *)

\* Only the user with the id asked for, or agreed to, is confirmed
\* (VerifyTarget, DiscoverMembers and MatchTarget together).
THEOREM OnlyTheIDConfirmsAlways == Spec => []OnlyTheIDConfirms
<1>1. IInv => OnlyTheIDConfirms
  <2> SUFFICES ASSUME IInv, NEW o \in observed
               PROVE  /\ request.id # NoID => (o.status = "confirmed" <=> o.member.id = request.id)
                      /\ request.id = NoID => (o.status = "confirmed" => o.member.id = target.id)
                      /\ target.id = NoID => o.status = "candidate"
      BY DEF OnlyTheIDConfirms
  <2>1. phase = "done" /\ stage = "scan"
      BY DEF IInv, ObservedIsMatched, ScanStartsAfresh
  <2>2. PICK m \in found : Matches(target, m) /\ o = Observation(target, m)
      BY <2>1 DEF IInv, ObservedIsMatched
  <2>3. o.member = m /\ o.status = MatchTarget(target, m).status /\ m.id # NoID
      BY <2>2, TargetingAssumption DEF Observation, IInv, DiscoveryIsSound, Members
  <2>4. o.status = "confirmed" <=> IsTarget(target, m)
      BY <2>3, ConfirmedIsTarget
  <2>5. o.status \in MatchStatuses /\ o.status # "none"
      BY <2>2, <2>3, VerdictIsAStatus DEF Matches
  <2>6. request.id # NoID => target.id = request.id
      BY <2>1 DEF IInv, TargetOfRequest
  <2>7. QED
      BY <2>3, <2>4, <2>5, <2>6 DEF IsTarget, MatchStatuses
<1>2. QED
    BY <1>1, Invariance, PTL

\* Whoever uses the username given with an id is reported, whether the account
\* has that name, another, or could not be read.
THEOREM SuppliedNameIsMatchedAlways == Spec => []SuppliedNameIsMatched
<1>1. IInv => SuppliedNameIsMatched
  <2> SUFFICES ASSUME IInv, phase = "done", request.id # NoID, Norm(request.name) # NoName,
                      NEW m \in found, Norm(m.username) = Norm(request.name)
               PROVE  \E o \in observed : o.member = m
      BY DEF SuppliedNameIsMatched
  <2>1. stage = "scan" /\ m \in Members
      BY DEF IInv, ScanStartsAfresh, DiscoveryIsSound
  <2>2. request.name \in Names /\ Norm(request.name) = NormOf[request.name]
      BY TargetingAssumption DEF IInv, Norm
  <2>3. Norm(target.username) = Norm(request.name) \/ target.note = request.name
      BY <2>1, <2>2, TargetingAssumption DEF IInv, TargetOfRequest
  <2>4. SameUsername(target, m) \/ MentionedInNote(target, m)
      BY <2>2, <2>3, MatchingAssumption, TargetingAssumption DEF SameUsername, MentionedInNote
  <2>5. target.id # NoID /\ m.id # NoID
      BY <2>1, TargetingAssumption DEF IInv, TargetOfRequest, Members
  <2>6. Matches(target, m)
      BY <2>4, <2>5, NameMatches
  <2>7. Observation(target, m) \in observed
      BY <2>6 DEF IInv, ObservedIsMatched
  <2>8. QED
      BY <2>7 DEF Observation
<1>2. QED
    BY <1>1, Invariance, PTL

\* A guild's stop reason never contradicts what was found and observed in it.
THEOREM StopReasonIsTrueAlways == Spec => []StopReasonIsTrue
<1>1. IInv => StopReasonIsTrue
  <2> SUFFICES ASSUME IInv, phase = "done" PROVE StopReasonIsTrue
      BY DEF StopReasonIsTrue
  <2>1. observed = {Observation(target, m) : m \in {n \in found : Matches(target, n)}}
      BY DEF IInv, ObservedIsMatched
  <2>2. ASSUME reason = "direct_member_hit"
        PROVE  {[id |-> o.member.id, status |-> o.status] : o \in observed}
                 = {[id |-> target.id, status |-> "confirmed"]}
    <3>1. PICK m \in found : found = {m} /\ IsTarget(target, m)
        BY <2>2 DEF IInv, DiscoveryIsSound
    <3>2. MatchTarget(target, m).status = "confirmed"
        BY <3>1, ConfirmedIsTarget
    <3>3. observed = {Observation(target, m)}
        BY <2>1, <3>1, <3>2 DEF Matches
    <3>4. QED
        BY <3>1, <3>2, <3>3 DEF Observation, IsTarget
  <2>3. reason = "large_guild_targeted_only" => found # {} /\ observed = {}
      BY <2>1 DEF IInv, DiscoveryIsSound
  <2>4. reason = "large_guild_targeted_no_hits" => found = {}
      BY DEF IInv, DiscoveryIsSound
  <2>5. QED
      BY <2>2, <2>3, <2>4 DEF StopReasonIsTrue
<1>2. QED
    BY <1>1, Invariance, PTL

-----------------------------------------------------------------------------
(***************************************************************************)
(* The list of servers.  NewCodes puts positions in ascending order; that  *)
(* such an order exists takes an induction, which is made with a least     *)
(* counterexample: the finite sets 1 .. n are well-founded under inclusion.*)
(***************************************************************************)

LEMMA LeastElement ==
  ASSUME NEW T \in SUBSET Nat, T # {}
  PROVE  \E n \in T : \A m \in T : n <= m
<1> DEFINE upTo == {1 .. n : n \in T}
<1>1. upTo \subseteq FiniteSubsetsOf(Nat) /\ upTo # {}
  <2>1. ASSUME NEW n \in T PROVE 1 .. n \in FiniteSubsetsOf(Nat)
    <3>1. IsFiniteSet(1 .. n)
      BY FS_Interval
    <3>2. QED BY <3>1 DEF FiniteSubsetsOf
  <2>2. QED BY <2>1
<1>2. PICK n \in T : \A m \in T : ~(<<1 .. m, 1 .. n>> \in StrictSubsetOrdering(Nat))
  <2>1. IsWellFoundedOn(StrictSubsetOrdering(Nat), FiniteSubsetsOf(Nat))
    BY FS_StrictSubsetOrderingWellFounded
  <2> HIDE DEF upTo
  <2>2. PICK x \in upTo : \A y \in upTo : ~(<<y, x>> \in StrictSubsetOrdering(Nat))
    BY <1>1, <2>1, WFMin
  <2>3. QED BY <2>2 DEF upTo
<1>3. ASSUME NEW m \in T, m < n PROVE <<1 .. m, 1 .. n>> \in StrictSubsetOrdering(Nat)
  <2>1. n \in 1 .. n /\ n \notin 1 .. m /\ 1 .. m \subseteq 1 .. n /\ 1 .. n \subseteq Nat
    BY <1>3
  <2>2. QED BY <2>1 DEF StrictSubsetOrdering
<1>4. \A m \in T : ~(m < n)
  BY <1>2, <1>3
<1>5. QED BY <1>4

IsAscending(s, S) ==
  s \in SetToSeqs(S) /\ \A i, j \in DOMAIN s : i < j => s[i] < s[j]

\* Every set of positions of a list can be put in ascending order.
LEMMA AscendingExists ==
  ASSUME NEW n \in Nat, NEW S \in SUBSET (1 .. n)
  PROVE  \E s : IsAscending(s, S)
<1> DEFINE Bad == {k \in Nat : \E R \in SUBSET (1 .. k) : \A s : ~IsAscending(s, R)}
<1>1. SUFFICES Bad = {}
  OBVIOUS
<1>2. SUFFICES ASSUME Bad # {} PROVE FALSE
  OBVIOUS
<1>3. PICK k \in Bad : \A m \in Bad : k <= m
  BY <1>2, LeastElement
<1>4. PICK R \in SUBSET (1 .. k) : \A s : ~IsAscending(s, R)
  OBVIOUS
<1>5. IsFiniteSet(R)
  <2>1. IsFiniteSet(1 .. k)
    BY FS_Interval
  <2>2. QED BY <2>1, FS_Subset
<1>6. CASE k \notin R
  <2>1. CASE k = 0
    <3>1. R = {}
      BY <2>1
    <3>4. Cardinality(R) = 0
      BY <3>1, FS_EmptySet
    <3>2. IsAscending(<<>>, R)
      BY <3>1, <3>4 DEF IsAscending, SetToSeqs
    <3>3. QED BY <3>2, <1>4
  <2>2. CASE k # 0
    <3>1. k - 1 \in Nat /\ R \in SUBSET (1 .. k - 1)
      BY <1>6, <2>2
    <3>2. k - 1 \in Bad
      BY <3>1, <1>4
    <3>3. QED BY <3>2, <1>3
  <2>3. QED BY <2>1, <2>2
<1>7. CASE k \in R
  <2>1. k - 1 \in Nat /\ R \ {k} \in SUBSET (1 .. k - 1)
    BY <1>7
  <2>2. k - 1 \notin Bad
    BY <1>3
  <2>3. PICK s : IsAscending(s, R \ {k})
    BY <2>1, <2>2
  <2> DEFINE c == Cardinality(R \ {k})
             t == [i \in 1 .. c + 1 |-> IF i = c + 1 THEN k ELSE s[i]]
  <2>4. c \in Nat /\ Cardinality(R) = c + 1
    <3>1. IsFiniteSet(R \ {k}) /\ Cardinality(R) \in Nat /\ Cardinality(R \ {k}) \in Nat
          /\ Cardinality(R \ {k}) = Cardinality(R) - 1
      BY <1>5, <1>7, FS_RemoveElement, FS_CardinalityType
    <3>2. QED BY <3>1
  <2> HIDE DEF c
  <2>5. s \in [1 .. c -> R \ {k}] /\ \A i, j \in 1 .. c : i < j => s[i] < s[j]
    BY <2>3 DEF IsAscending, SetToSeqs, c
  <2>6. t \in [1 .. c + 1 -> R] /\ DOMAIN t = 1 .. c + 1
    BY <2>4, <2>5, <1>7
  <2>7. \A i \in 1 .. c : t[i] = s[i] /\ s[i] \in 1 .. k /\ s[i] < k
    <3>1. \A i \in 1 .. c : t[i] = s[i]
      BY <2>4
    <3>2. \A i \in 1 .. c : s[i] \in R \ {k}
      BY <2>5
    <3>3. \A x \in R \ {k} : x \in 1 .. k /\ x < k
      OBVIOUS
    <3>4. QED BY <3>1, <3>2, <3>3
  <2>8. t[c + 1] = k
    BY <2>4
  <2>9. ASSUME NEW i \in 1 .. c + 1, NEW j \in 1 .. c + 1, i < j PROVE t[i] < t[j]
    <3>1. i \in 1 .. c
      BY <2>4, <2>9
    <3>2. CASE j = c + 1
      BY <3>1, <3>2, <2>7, <2>8
    <3>3. CASE j # c + 1
      <4>1. j \in 1 .. c
        BY <3>3, <2>4
      <4>2. QED BY <2>5, <2>7, <2>9, <3>1, <4>1
    <3>4. QED BY <3>2, <3>3
  <2> HIDE DEF t
  <2>10. \A i \in 1 .. c + 1 : t[i] \in 1 .. k
    BY <2>6
  <2>11. \A i, j \in 1 .. c + 1 : i # j => t[i] # t[j]
    BY <2>4, <2>9, <2>10
  <2>12. IsAscending(t, R)
    BY <2>4, <2>6, <2>9, <2>11 DEF IsAscending, SetToSeqs
  <2>13. QED BY <2>12, <1>4
<1>8. QED BY <1>6, <1>7

\* Ascending lists every position once.
LEMMA AscendingFacts ==
  ASSUME NEW n \in Nat, NEW S \in SUBSET (1 .. n)
  PROVE  /\ Ascending(S) \in Seq(S) /\ Len(Ascending(S)) <= n
         /\ \A i, j \in DOMAIN Ascending(S) : i # j => Ascending(S)[i] # Ascending(S)[j]
         /\ \A x \in S : \E i \in DOMAIN Ascending(S) : Ascending(S)[i] = x
<1> DEFINE a == Ascending(S)
           c == Cardinality(S)
<1>1. IsFiniteSet(S) /\ c \in Nat /\ c <= n
  <2>1. IsFiniteSet(1 .. n) /\ Cardinality(1 .. n) = n
    BY FS_Interval
  <2>2. QED BY <2>1, FS_Subset, FS_CardinalityType
<1>2. IsAscending(a, S)
  <2>1. a = CHOOSE s : IsAscending(s, S)
    BY DEF Ascending, IsAscending
  <2>2. QED BY <2>1, AscendingExists
<1> HIDE DEF a
<1>3. a \in [1 .. c -> S] /\ \A i, j \in 1 .. c : i # j => a[i] # a[j]
  BY <1>2 DEF IsAscending, SetToSeqs
<1>4. a \in Seq(S) /\ Len(a) = c /\ DOMAIN a = 1 .. c
  BY <1>1, <1>3
<1>5. \A x \in S : \E i \in 1 .. c : a[i] = x
  <2>1. a \in Injection(1 .. c, S)
    BY <1>3 DEF Injection, IsInjective
  <2>2. Cardinality(1 .. c) = c
    BY <1>1, FS_Interval
  <2>3. a \in Surjection(1 .. c, S)
    BY <1>1, <2>1, <2>2, FS_Injection
  <2>4. QED BY <2>3 DEF Surjection
<1>6. QED BY <1>1, <1>3, <1>4, <1>5 DEF a

-----------------------------------------------------------------------------
(* What is collected *)

\* NewCodes has every code of the list that is not seen, once, and no other.
LEMMA NewCodesFacts ==
  ASSUME NEW codes \in Seq(Codes), NEW seen
  PROVE  /\ NewCodes(codes, seen) \in Seq(Codes \ seen)
         /\ Len(NewCodes(codes, seen)) <= Len(codes)
         /\ \A i, j \in DOMAIN NewCodes(codes, seen) :
              NewCodes(codes, seen)[i] = NewCodes(codes, seen)[j] => i = j
         /\ \A k \in DOMAIN codes : codes[k] \notin seen =>
              \E i \in DOMAIN NewCodes(codes, seen) : NewCodes(codes, seen)[i] = codes[k]
<1> DEFINE S == Firsts(codes, seen)
           at == Ascending(S)
           new == NewCodes(codes, seen)
<1>1. Len(codes) \in Nat /\ DOMAIN codes = 1 .. Len(codes) /\ S \in SUBSET (1 .. Len(codes))
  BY DEF Firsts
<1>2. /\ at \in Seq(S) /\ Len(at) <= Len(codes)
      /\ \A i, j \in DOMAIN at : i # j => at[i] # at[j]
      /\ \A x \in S : \E i \in DOMAIN at : at[i] = x
  BY <1>1, AscendingFacts
<1>3. new = [n \in DOMAIN at |-> codes[at[n]]]
  BY DEF NewCodes
<1>4. \A k \in S : codes[k] \in Codes \ seen
  BY <1>1 DEF Firsts
<1>5. \A k, l \in S : codes[k] = codes[l] => k = l
  <2> SUFFICES ASSUME NEW k \in S, NEW l \in S, codes[k] = codes[l], k < l PROVE FALSE
    BY <1>1
  <2>1. k \in 1 .. l - 1
    BY <1>1
  <2>2. QED BY <2>1 DEF Firsts
<1>6. ASSUME NEW k \in DOMAIN codes, codes[k] \notin seen
      PROVE  \E l \in S : codes[l] = codes[k]
  <2> DEFINE same == {l \in DOMAIN codes : codes[l] = codes[k]}
  <2>1. same \in SUBSET Nat /\ same # {}
    BY <1>1
  <2>2. PICK l \in same : \A m \in same : l <= m
    BY <2>1, LeastElement
  <2>3. \A j \in 1 .. l - 1 : codes[j] # codes[l]
    BY <1>1, <2>2
  <2>4. QED BY <1>6, <2>3 DEF Firsts
<1> HIDE DEF at, S, new
<1>7. /\ Len(at) \in Nat /\ DOMAIN at = 1 .. Len(at) /\ \A i \in DOMAIN at : at[i] \in S
  BY <1>2
<1>8. new \in Seq(Codes \ seen) /\ Len(new) = Len(at) /\ DOMAIN new = DOMAIN at
  BY <1>3, <1>4, <1>7
<1>9. \A i, j \in DOMAIN new : new[i] = new[j] => i = j
  BY <1>2, <1>3, <1>5, <1>7, <1>8
<1>10. \A k \in DOMAIN codes : codes[k] \notin seen => \E i \in DOMAIN new : new[i] = codes[k]
  BY <1>2, <1>3, <1>6, <1>8
<1>11. QED BY <1>2, <1>8, <1>9, <1>10 DEF new

Entries == [code : Codes, source : Sources]

\* AddServers leaves the list as it is and adds what it lacks, each once.
LEMMA AddServersFacts ==
  ASSUME NEW list \in Seq(Entries), NEW codes \in Seq(Codes), NEW from \in Sources,
         \A i, j \in DOMAIN list : list[i].code = list[j].code => i = j
  PROVE  LET new == AddServers(list, codes, from)
         IN  /\ new \in Seq(Entries)
             /\ Len(list) <= Len(new) /\ Len(new) <= Len(list) + Len(codes)
             /\ \A i \in DOMAIN list : new[i] = list[i]
             /\ \A i \in DOMAIN new : i \notin DOMAIN list => new[i].source = from
             /\ \A i, j \in DOMAIN new : new[i].code = new[j].code => i = j
             /\ CodesOf(list) \subseteq CodesOf(new) /\ ToSet(codes) \subseteq CodesOf(new)
<1> DEFINE add == NewCodes(codes, CodesOf(list))
           tail == Tagged(add, from)
           new == AddServers(list, codes, from)
           n == Len(list)
<1>1. /\ add \in Seq(Codes \ CodesOf(list)) /\ Len(add) <= Len(codes)
      /\ \A i, j \in DOMAIN add : add[i] = add[j] => i = j
      /\ \A k \in DOMAIN codes : codes[k] \notin CodesOf(list) =>
           \E i \in DOMAIN add : add[i] = codes[k]
  BY NewCodesFacts
<1> HIDE DEF add
<1>2. Len(add) \in Nat /\ DOMAIN add = 1 .. Len(add) /\ \A i \in DOMAIN add : add[i] \in Codes \ CodesOf(list)
  BY <1>1
<1>3. /\ tail \in Seq(Entries) /\ Len(tail) = Len(add) /\ DOMAIN tail = DOMAIN add
      /\ \A i \in DOMAIN add : tail[i] = [code |-> add[i], source |-> from]
  BY <1>2 DEF Tagged, Entries
<1> HIDE DEF tail
<1>4. n \in Nat /\ DOMAIN list = 1 .. n /\ \A i \in 1 .. n : list[i].code \in CodesOf(list)
  BY DEF CodesOf
<1>5. new = list \o tail
  BY DEF new, AddServers, tail, add
<1> HIDE DEF new, n
<1>6. /\ new \in Seq(Entries) /\ Len(new) = n + Len(add) /\ DOMAIN new = 1 .. n + Len(add)
      /\ \A i \in 1 .. n : new[i] = list[i]
      /\ \A i \in 1 .. n + Len(add) : i > n => i - n \in 1 .. Len(add) /\ new[i] = tail[i - n]
  <2>1. /\ new \in Seq(Entries) /\ Len(new) = Len(list) + Len(tail)
        /\ \A i \in 1 .. Len(list) + Len(tail) :
             new[i] = IF i <= Len(list) THEN list[i] ELSE tail[i - Len(list)]
    BY <1>3, <1>5, ConcatProperties
  <2>2. QED BY <1>2, <1>3, <1>4, <2>1 DEF n
<1>7. \A i \in DOMAIN new : i > n =>
        /\ i - n \in DOMAIN add /\ new[i] = [code |-> add[i - n], source |-> from]
        /\ new[i].code \notin CodesOf(list)
  BY <1>2, <1>3, <1>6
<1>8. ASSUME NEW i \in DOMAIN new, NEW j \in DOMAIN new, new[i].code = new[j].code
      PROVE  i = j
  <2>1. CASE i > n /\ j > n
    <3>1. add[i - n] = add[j - n]
      BY <1>7, <1>8, <2>1
    <3>2. i - n = j - n
      BY <1>1, <1>7, <2>1, <3>1
    <3>3. i \in Nat /\ j \in Nat
      BY <1>6
    <3>4. QED BY <1>4, <3>2, <3>3
  <2>2. CASE i <= n /\ j <= n
    BY <1>4, <1>6, <1>8, <2>2
  <2>3. CASE i > n /\ j <= n
    BY <1>4, <1>6, <1>7, <1>8, <2>3
  <2>4. CASE i <= n /\ j > n
    BY <1>4, <1>6, <1>7, <1>8, <2>4
  <2>5. QED
    BY <1>4, <1>6, <2>1, <2>2, <2>3, <2>4
<1>9. CodesOf(list) \subseteq CodesOf(new)
  BY <1>2, <1>4, <1>6 DEF CodesOf
<1>10. ASSUME NEW k \in DOMAIN codes PROVE codes[k] \in CodesOf(new)
  <2>1. CASE codes[k] \in CodesOf(list)
    BY <1>9, <2>1
  <2>2. CASE codes[k] \notin CodesOf(list)
    <3>1. PICK i \in DOMAIN add : add[i] = codes[k]
      BY <1>1, <2>2
    <3>2. n + i \in DOMAIN new /\ (n + i) - n = i /\ n + i > n
      BY <1>2, <1>4, <1>6
    <3>3. new[n + i].code = codes[k]
      BY <1>7, <3>1, <3>2
    <3>4. QED BY <3>2, <3>3 DEF CodesOf
  <2>3. QED BY <2>1, <2>2
<1>11. ToSet(codes) \subseteq CodesOf(new)
  BY <1>10 DEF ToSet
<1>12. Len(list) <= Len(new) /\ Len(new) <= Len(list) + Len(codes)
  BY <1>1, <1>2, <1>4, <1>6 DEF n
<1>13. \A i \in DOMAIN new : i \notin DOMAIN list => new[i].source = from
  BY <1>4, <1>6, <1>7
<1>14. QED
  BY <1>4, <1>6, <1>8, <1>9, <1>11, <1>12, <1>13 DEF new

\* WithPage keeps what earlier pages gave and asks for no more than is wanted.
LEMMA WithPageFacts ==
  ASSUME results \in Seq(Codes), Wanted \in Nat \ {0},
         results # <<>> => Len(results) < Wanted, NEW page \in Seq(Codes)
  PROVE  /\ WithPage(page) \in Seq(Codes) /\ Len(WithPage(page)) <= Wanted
         /\ ToSet(results) \subseteq ToSet(WithPage(page))
<1> DEFINE new == NewCodes(page, ToSet(results))
           all == results \o new
<1>1. new \in Seq(Codes)
  <2>1. new \in Seq(Codes \ ToSet(results))
    BY NewCodesFacts
  <2>2. QED BY <2>1
<1> HIDE DEF new
<1>2. /\ all \in Seq(Codes) /\ Len(all) \in Nat /\ Len(results) \in Nat /\ Len(results) <= Len(all)
      /\ \A i \in 1 .. Len(results) : all[i] = results[i]
  BY <1>1
<1> HIDE DEF all
<1>3. Len(results) < Wanted
  BY <1>2
<1>4. WithPage(page) = IF Len(all) <= Wanted THEN all ELSE SubSeq(all, 1, Wanted)
  BY DEF WithPage, all, new
<1>5. CASE Len(all) <= Wanted
  BY <1>2, <1>4, <1>5 DEF ToSet
<1>6. CASE Len(all) > Wanted
  <2> DEFINE cut == SubSeq(all, 1, Wanted)
  <2>1. cut \in Seq(Codes) /\ Len(cut) = Wanted /\ \A i \in 1 .. Wanted : cut[i] = all[i]
    BY <1>2, <1>6
  <2>2. \A i \in 1 .. Len(results) : i \in DOMAIN cut /\ cut[i] = results[i]
    BY <1>2, <1>3, <2>1
  <2>3. ToSet(results) \subseteq ToSet(cut)
    <3>1. DOMAIN results = 1 .. Len(results)
      OBVIOUS
    <3> HIDE DEF cut
    <3>2. QED BY <2>2, <3>1 DEF ToSet
  <2>4. WithPage(page) = cut
    BY <1>2, <1>4, <1>6
  <2> HIDE DEF cut
  <2>5. QED BY <2>1, <2>3, <2>4
<1>7. QED BY <1>2, <1>5, <1>6

-----------------------------------------------------------------------------
(* The invariant of the list *)

Early == {"verify", "select", "confirm", "refused", "collect"}

\* The prompt allows two invalid selections, and discovery has its reasons.
PromptInv ==
  /\ stage \in Early \cup {"failed", "listed", "walk", "scan", "ended"}
  /\ options \subseteq Accounts /\ wrong \in 0 .. 2
  /\ stage = "verify" => wrong = 0
  /\ stage = "select" => wrong < 2
  /\ reason \in StopReasons

\* The scraper holds fewer results than it is asked for, and none while the
\* engine is at another source; the walk is within the list.
ListInv ==
  /\ source \in Sources /\ names \in 0 .. request.names /\ asked \in BOOLEAN
  /\ servers \in Seq(Entries) /\ results \in Seq(Codes)
  /\ results # <<>> => Len(results) < Wanted
  /\ source \in {"file", "direct"} => results = <<>>
  /\ source = "name" /\ names = 0 => results = <<>>
  /\ walked \in 0 .. Len(servers)

\* The tag is the last source that is collected from.
TagIsLast == stage \in Early => \A i \in DOMAIN servers : servers[i].source # "tag"

ListIInv == IInv /\ PromptInv /\ ListInv /\ TagIsLast /\ NoServerTwice /\ TagFillsUp

LEMMA RequestFacts ==
  ASSUME IInv
  PROVE  /\ request \in Requests
         /\ request.names \in Nat /\ request.limit \in Nat /\ request.limit > 0
         /\ request.file \in Seq(Codes) /\ request.direct \in Seq(Codes)
BY ListingAssumption DEF IInv

\* What the rest of the run does leaves the list as it is.
LEMMA ListStays ==
  ASSUME ListIInv, UNCHANGED <<listingVars, request>>, walked' \in 0 .. Len(servers),
         stage \in Early \/ stage' \notin Early
  PROVE  ListInv' /\ TagIsLast' /\ NoServerTwice' /\ TagFillsUp'
<1>1. UNCHANGED <<source, names, asked, results, servers, request>>
  BY DEF listingVars
<1>2. ListInv'
  BY <1>1 DEF ListIInv, ListInv, Wanted
<1>3. TagIsLast' /\ NoServerTwice' /\ TagFillsUp'
  BY <1>1 DEF ListIInv, TagIsLast, NoServerTwice, TagFillsUp
<1>4. QED BY <1>2, <1>3

LEMMA InitList == Init => ListIInv
<1> SUFFICES ASSUME Init PROVE ListIInv
  OBVIOUS
<1>1. IInv
  BY InitIInv
<1>2. PromptInv
  BY DEF Init, TargetingInit, MatchingInit, PromptInv, StopReasons, Early
<1>3. servers = <<>> /\ results = <<>> /\ source = "name" /\ names = request.names
      /\ asked = FALSE /\ walked = 0
  BY DEF Init, ListingInit
<1>4. ListInv
  <2>1. names \in 0 .. request.names
    BY <1>1, <1>3, RequestFacts
  <2>2. <<>> \in Seq(Entries) /\ <<>> \in Seq(Codes) /\ Len(<<>>) = 0
    OBVIOUS
  <2>3. servers \in Seq(Entries) /\ results \in Seq(Codes) /\ walked \in 0 .. Len(servers)
    BY <1>3, <2>2
  <2>4. source \in Sources /\ asked \in BOOLEAN
    BY <1>3 DEF Sources
  <2>5. QED BY <1>3, <2>1, <2>3, <2>4 DEF ListInv
<1>5. TagIsLast /\ NoServerTwice /\ TagFillsUp
  BY <1>3 DEF TagIsLast, NoServerTwice, TagFillsUp
<1>6. QED BY <1>1, <1>2, <1>4, <1>5 DEF ListIInv

\* A prompt counts its invalid answers; nothing is listed yet.
LEMMA TargetingKeepsList ==
  ASSUME ListIInv, TargetingStep
  PROVE  PromptInv' /\ ListInv' /\ TagIsLast' /\ NoServerTwice' /\ TagFillsUp'
<1>1. UNCHANGED <<listingVars, matchingVars, walked>>
  BY DEF TargetingStep
<1>2. /\ stage \in {"verify", "select", "confirm"}
      /\ stage' \in Early /\ request' = request
  BY DEF Early, TargetingStep, VerifyStep, PromptStep, VerifyFails, VerifyBoth, VerifyID,
     ResolvedUsername, UnresolvedUsername, ListCandidates, VerifyUsername, SelectCandidate,
     SelectWrong, SelectQuit, Decline, Confirm, Show, Refuse, targetingVars
<1>3. PromptInv'
  <2>1. reason' = reason
    BY <1>1 DEF matchingVars
  <2>2. CASE SelectWrong
    BY <1>2, <2>1, <2>2 DEF SelectWrong, ListIInv, PromptInv, Early
  <2>3. CASE ListCandidates
    BY <1>2, <2>1, <2>3 DEF ListCandidates, VerifyUsername, ListIInv, PromptInv, Early
  <2>4. CASE ~SelectWrong /\ ~ListCandidates
    <3>1. UNCHANGED <<options, wrong>> /\ stage' \in {"confirm", "refused", "collect"}
      BY <2>4 DEF TargetingStep, VerifyStep, PromptStep, VerifyFails, VerifyBoth, VerifyID,
         ResolvedUsername, UnresolvedUsername, VerifyUsername, SelectCandidate,
         SelectQuit, Decline, Confirm, Show, Refuse, targetingVars
    <3>2. QED BY <2>1, <3>1 DEF ListIInv, PromptInv, Early
  <2>5. QED BY <2>2, <2>3, <2>4
<1>4. walked' \in 0 .. Len(servers) /\ stage \in Early
  BY <1>1, <1>2 DEF ListIInv, ListInv, Early
<1>5. QED BY <1>1, <1>2, <1>3, <1>4, ListStays

\* Discovery gives its reason and touches nothing else.
LEMMA MatchingKeepsList ==
  ASSUME ListIInv, MatchingStep
  PROVE  PromptInv' /\ ListInv' /\ TagIsLast' /\ NoServerTwice' /\ TagFillsUp'
<1>1. UNCHANGED <<stage, targetingVars, listingVars, walked>> /\ stage = "scan"
  BY DEF MatchingStep, MatchStep, LookUpMember, NoMemberLookedUp, SearchMembers,
     ProbeAuthor, NoAuthor, MatchMembers
<1>2. reason' \in StopReasons
  BY DEF MatchingStep, MatchStep, LookUpMember, NoMemberLookedUp, SearchMembers, Searched,
     ProbeAuthor, NoAuthor, MatchMembers, Found, StopReasons, ListIInv, PromptInv
<1>3. PromptInv'
  BY <1>1, <1>2 DEF targetingVars, ListIInv, PromptInv
<1>4. walked' \in 0 .. Len(servers) /\ stage' \notin Early
  BY <1>1 DEF ListIInv, ListInv, Early
<1>5. request' = request
  BY <1>1 DEF targetingVars
<1>6. QED BY <1>1, <1>3, <1>4, <1>5, ListStays

\* The walk goes no further than the list.
LEMMA WalkKeepsList ==
  ASSUME ListIInv, WalkStep
  PROVE  PromptInv' /\ ListInv' /\ TagIsLast' /\ NoServerTwice' /\ TagFillsUp'
<1>1. UNCHANGED <<targetingVars, listingVars>>
  BY DEF WalkStep, NothingListed, BeginWalk, VisitServer, CannotEnter, LeaveServer, Finish
<1>2. stage' \in {"failed", "walk", "scan", "ended"}
  BY DEF WalkStep, NothingListed, BeginWalk, VisitServer, CannotEnter, LeaveServer, Finish
<1>3. reason' \in StopReasons
  BY DEF WalkStep, NothingListed, BeginWalk, VisitServer, CannotEnter, LeaveServer, Finish,
     matchingVars, StopReasons, ListIInv, PromptInv
<1>4. PromptInv'
  BY <1>1, <1>2, <1>3 DEF targetingVars, ListIInv, PromptInv, Early
<1>5. walked' \in 0 .. Len(servers)
  <2>1. walked \in 0 .. Len(servers) /\ Len(servers) \in Nat
    BY DEF ListIInv, ListInv
  <2>2. walked' = walked \/ (walked' = walked + 1 /\ walked < Len(servers))
    BY DEF WalkStep, NothingListed, BeginWalk, VisitServer, CannotEnter, LeaveServer, Finish,
       MoreToWalk
  <2>3. QED BY <2>1, <2>2
<1>6. request' = request /\ stage' \notin Early
  BY <1>1, <1>2 DEF targetingVars, Early
<1>7. QED BY <1>1, <1>4, <1>5, <1>6, ListStays

\* The scraper is asked for something, and of a tag for no more than is missing.
LEMMA WantedFacts ==
  ASSUME ListIInv, Scraping
  PROVE  /\ source \in {"name", "tag"} /\ Wanted \in Nat \ {0}
         /\ source = "tag" => Len(servers) + Wanted = request.limit
<1>1. request.limit \in Nat /\ Len(servers) \in Nat /\ NameLimit \in Nat \ {0}
  BY RequestFacts, ListingAssumption DEF ListIInv, ListInv
<1>2. source \in {"name", "tag"}
  BY DEF Scraping
<1>3. QED BY <1>1, <1>2 DEF Scraping, Wanted

\* What a source adds is new to the list, and lengthens it.
LEMMA AddingKeeps ==
  ASSUME ListIInv, NEW codes \in Seq(Codes), servers' = AddServers(servers, codes, source)
  PROVE  /\ servers' \in Seq(Entries) /\ Len(servers) <= Len(servers')
         /\ Len(servers') <= Len(servers) + Len(codes)
         /\ NoServerTwice'
         /\ CodesOf(servers) \subseteq CodesOf(servers') /\ ToSet(codes) \subseteq CodesOf(servers')
         /\ \A i \in DOMAIN servers' : i \notin DOMAIN servers => servers'[i].source = source
         /\ \A i \in DOMAIN servers : servers'[i] = servers[i]
<1>1. /\ servers \in Seq(Entries) /\ source \in Sources
      /\ \A i, j \in DOMAIN servers : servers[i].code = servers[j].code => i = j
  BY DEF ListIInv, ListInv, NoServerTwice
<1>2. QED BY <1>1, AddServersFacts DEF NoServerTwice

\* What the engine collects from the scraper fits below the limit of a tag.
LEMMA CollectingKeeps ==
  ASSUME ListIInv, Scraping, NEW codes \in Seq(Codes), Len(codes) <= Wanted,
         Collect(codes), UNCHANGED <<request, walked>>
  PROVE  ListInv' /\ TagIsLast' /\ NoServerTwice' /\ TagFillsUp'
<1>1. /\ servers' = AddServers(servers, codes, source)
      /\ source' = source /\ results' = <<>> /\ asked' = FALSE
      /\ source = "name" => names' = names - 1 /\ stage' = stage
      /\ source # "name" => names' = names /\ stage' = "listed"
  BY DEF Collect
<1>2. /\ servers' \in Seq(Entries) /\ Len(servers) <= Len(servers')
      /\ Len(servers') <= Len(servers) + Len(codes) /\ NoServerTwice'
      /\ \A i \in DOMAIN servers' : i \notin DOMAIN servers => servers'[i].source = source
      /\ \A i \in DOMAIN servers : servers'[i] = servers[i]
  BY <1>1, AddingKeeps
<1>3. Len(servers) \in Nat /\ Len(codes) \in Nat /\ Len(servers') \in Nat
  BY <1>2 DEF ListIInv, ListInv
<1>4. ListInv'
  <2>1. names' \in 0 .. request'.names
    <3>1. source = "name" => names > 0
      BY DEF Scraping
    <3>2. names \in 0 .. request.names /\ request.names \in Nat
      BY RequestFacts DEF ListIInv, ListInv
    <3>3. QED BY <1>1, <3>1, <3>2
  <2>2. walked' \in 0 .. Len(servers')
    BY <1>2, <1>3 DEF ListIInv, ListInv
  <2>3. <<>> \in Seq(Codes)
    OBVIOUS
  <2>4. source' \in Sources
    BY <1>1 DEF ListIInv, ListInv
  <2>5. QED BY <1>1, <1>2, <2>1, <2>2, <2>3, <2>4 DEF ListInv
<1>5. CASE source = "name"
  <2>1. \A i \in DOMAIN servers' : servers'[i].source # "tag"
    <3>1. stage = "collect" /\ \A i \in DOMAIN servers : servers[i].source # "tag"
      BY DEF Scraping, ListIInv, TagIsLast, Early
    <3>2. QED BY <1>2, <1>5, <3>1
  <2>2. QED BY <1>2, <1>4, <2>1 DEF TagIsLast, TagFillsUp
<1>6. CASE source = "tag"
  <2>1. Len(servers') <= request.limit
    BY <1>2, <1>3, <1>6, WantedFacts, RequestFacts DEF ListIInv
  <2>2. \A i \in DOMAIN servers' : i <= request'.limit
    <3>1. DOMAIN servers' = 1 .. Len(servers')
      BY <1>2
    <3>2. request.limit \in Nat
      BY RequestFacts DEF ListIInv
    <3>3. QED BY <1>3, <2>1, <3>1, <3>2
  <2>3. stage' \notin Early
    BY <1>1, <1>6 DEF Early
  <2>4. QED BY <1>2, <1>4, <2>2, <2>3 DEF TagIsLast, TagFillsUp
<1>7. QED BY <1>5, <1>6, WantedFacts

\* A file and the arguments are collected from at once.
LEMMA LoadingKeeps ==
  ASSUME ListIInv, stage = "collect", source \in {"file", "direct"}, NEW codes \in Seq(Codes),
         servers' = AddServers(servers, codes, source), source' \in {"direct", "tag"},
         UNCHANGED <<stage, names, asked, results, request, walked>>
  PROVE  ListInv' /\ TagIsLast' /\ NoServerTwice' /\ TagFillsUp'
<1>1. /\ servers' \in Seq(Entries) /\ Len(servers) <= Len(servers') /\ NoServerTwice'
      /\ \A i \in DOMAIN servers' : i \notin DOMAIN servers => servers'[i].source = source
      /\ \A i \in DOMAIN servers : servers'[i] = servers[i]
  BY AddingKeeps
<1>2. results' = <<>>
  BY DEF ListIInv, ListInv
<1>3. walked' \in 0 .. Len(servers')
  <2>1. Len(servers) \in Nat /\ Len(servers') \in Nat /\ walked \in 0 .. Len(servers)
    BY <1>1 DEF ListIInv, ListInv
  <2>2. QED BY <1>1, <2>1
<1>4. ListInv'
  BY <1>1, <1>2, <1>3 DEF ListIInv, ListInv, Sources
<1>5. \A i \in DOMAIN servers' : servers'[i].source # "tag"
  BY <1>1 DEF ListIInv, TagIsLast, Early
<1>6. QED BY <1>1, <1>4, <1>5 DEF TagIsLast, TagFillsUp

\* The steps of collecting, and what the scraper's last one returns.
LEMMA ListingCases ==
  ASSUME ListIInv, ListingStep
  PROVE  /\ stage = "collect" /\ UNCHANGED <<request, walked>>
         /\ \/ \E codes \in Seq(Codes) :
                 /\ Scraping /\ Len(codes) <= Wanted /\ Collect(codes)
                 /\ source = "tag" => ToSet(results) \subseteq ToSet(codes)
            \/ /\ Scraping /\ UNCHANGED <<stage, source, names, servers>>
               /\ results' \in Seq(Codes) /\ asked' \in BOOLEAN
               /\ results' # <<>> => Len(results') < Wanted
               /\ ToSet(results) \subseteq ToSet(results')
            \/ NamesSearched \/ LoadInvitesFromFile \/ ParseDirectInvites
            \/ InvitesFileFails \/ NoTag
<1>1. UNCHANGED <<request, walked>>
  BY DEF ListingStep, targetingVars
<1>2. results \in Seq(Codes) /\ (results # <<>> => Len(results) < Wanted)
  BY DEF ListIInv, ListInv
<1>3. CASE AskForPage
  BY <1>1, <1>2, <1>3 DEF AskForPage, Scraping
<1>4. ASSUME NEW page \in Pages, ReadPage(page)
      PROVE  /\ Scraping
             /\ \/ \E codes \in Seq(Codes) :
                     /\ Len(codes) <= Wanted /\ Collect(codes)
                     /\ ToSet(results) \subseteq ToSet(codes)
                \/ /\ UNCHANGED <<stage, source, names, servers>>
                   /\ results' \in Seq(Codes) /\ asked' \in BOOLEAN
                   /\ Len(results') < Wanted
                   /\ ToSet(results) \subseteq ToSet(results')
  <2>1. Scraping
    BY <1>4 DEF ReadPage
  <2>2. Wanted \in Nat \ {0} /\ page \in Seq(Codes)
    BY <2>1, WantedFacts, ListingAssumption
  <2>3. /\ WithPage(page) \in Seq(Codes) /\ Len(WithPage(page)) <= Wanted
        /\ ToSet(results) \subseteq ToSet(WithPage(page))
    BY <1>2, <2>2, WithPageFacts
  <2>4. CASE Collect(WithPage(page))
    BY <2>1, <2>3, <2>4
  <2>5. CASE ReadOn(page) /\ Len(WithPage(page)) # Wanted
    <3>1. Len(WithPage(page)) < Wanted
      BY <2>2, <2>3, <2>5
    <3>2. QED BY <2>1, <2>3, <2>5, <3>1 DEF ReadOn
  <2>6. QED BY <1>4, <2>4, <2>5 DEF ReadPage
<1>5. CASE NoMorePages \/ PageFails
  <2>1. Scraping
    BY <1>5 DEF NoMorePages, PageFails
  <2>2. Wanted \in Nat /\ Len(<<>>) <= Wanted /\ Len(results) <= Wanted
    BY <1>2, <2>1, WantedFacts
  <2>3. <<>> \in Seq(Codes)
    OBVIOUS
  <2>4. CASE Collect(results)
    BY <1>1, <1>2, <2>1, <2>2, <2>4 DEF Scraping
  <2>5. CASE Collect(<<>>) /\ source # "tag"
    BY <1>1, <2>1, <2>2, <2>3, <2>5 DEF Scraping
  <2>6. QED BY <1>5, <2>4, <2>5 DEF NoMorePages, PageFails
<1>6. CASE NamesSearched \/ LoadInvitesFromFile \/ ParseDirectInvites \/ InvitesFileFails \/ NoTag
  BY <1>1, <1>6 DEF NamesSearched, LoadInvitesFromFile, ParseDirectInvites, InvitesFileFails, NoTag
<1>7. QED
  <2>1. CASE \E page \in Pages : ReadPage(page)
    <3>1. PICK page \in Pages : ReadPage(page)
      BY <2>1
    <3>2. stage = "collect"
      BY <1>4, <3>1 DEF Scraping
    <3>3. QED BY <1>1, <1>4, <3>1, <3>2
  <2>2. QED BY <1>3, <1>5, <1>6, <2>1 DEF ListingStep, CollectStep

\* Each source hands the list on without a double, the tag within the limit.
LEMMA ListingKeepsList ==
  ASSUME ListIInv, ListingStep
  PROVE  PromptInv' /\ ListInv' /\ TagIsLast' /\ NoServerTwice' /\ TagFillsUp'
<1>1. stage = "collect" /\ UNCHANGED <<request, walked>>
  BY ListingCases
<1>2. CASE \E codes \in Seq(Codes) : Scraping /\ Len(codes) <= Wanted /\ Collect(codes)
  <2>1. PICK codes \in Seq(Codes) : Scraping /\ Len(codes) <= Wanted /\ Collect(codes)
    BY <1>2
  <2>2. stage' \in {"collect", "listed"}
    BY <1>1, <2>1 DEF Collect
  <2>3. PromptInv'
    BY <2>2 DEF ListingStep, targetingVars, matchingVars, ListIInv, PromptInv, Early
  <2>4. QED BY <1>1, <2>1, <2>3, CollectingKeeps
<1>3. CASE /\ Scraping /\ UNCHANGED <<stage, source, names, servers>>
           /\ results' \in Seq(Codes) /\ asked' \in BOOLEAN
           /\ results' # <<>> => Len(results') < Wanted
  <2>1. PromptInv'
    BY <1>3 DEF ListingStep, targetingVars, matchingVars, ListIInv, PromptInv
  <2>2. Wanted' = Wanted
    BY <1>1, <1>3 DEF Wanted
  <2>3. source \in {"name", "tag"} /\ (source = "name" => names > 0)
    BY <1>3 DEF Scraping
  <2>4. names' = names /\ (source' = "name" => names' # 0)
    BY <1>3, <2>3, RequestFacts DEF ListIInv, ListInv
  <2>5. ListInv'
    BY <1>1, <1>3, <2>2, <2>3, <2>4 DEF ListIInv, ListInv
  <2>6. TagIsLast' /\ NoServerTwice' /\ TagFillsUp'
    BY <1>1, <1>3 DEF ListIInv, TagIsLast, NoServerTwice, TagFillsUp
  <2>7. QED BY <2>1, <2>5, <2>6
<1>4. CASE NamesSearched
  <2>1. /\ source = "name" /\ names = 0 /\ source' = "file"
        /\ UNCHANGED <<stage, names, asked, results, servers>>
    BY <1>4 DEF NamesSearched
  <2>2. PromptInv'
    BY <2>1 DEF ListingStep, targetingVars, matchingVars, ListIInv, PromptInv
  <2>3. ListInv'
    BY <1>1, <2>1 DEF ListIInv, ListInv, Sources
  <2>4. TagIsLast' /\ NoServerTwice' /\ TagFillsUp'
    BY <1>1, <2>1 DEF ListIInv, TagIsLast, NoServerTwice, TagFillsUp
  <2>5. QED BY <2>2, <2>3, <2>4
<1>5. CASE LoadInvitesFromFile \/ ParseDirectInvites
  <2>1. /\ source \in {"file", "direct"} /\ source' \in {"direct", "tag"}
        /\ UNCHANGED <<stage, names, asked, results>>
        /\ \E codes \in {request.file, request.direct} : servers' = AddServers(servers, codes, source)
    BY <1>5 DEF LoadInvitesFromFile, ParseDirectInvites
  <2>2. PICK codes \in Seq(Codes) : servers' = AddServers(servers, codes, source)
    BY <2>1, RequestFacts DEF ListIInv
  <2>3. PromptInv'
    BY <2>1 DEF ListingStep, targetingVars, matchingVars, ListIInv, PromptInv
  <2>4. QED BY <1>1, <2>1, <2>2, <2>3, LoadingKeeps
<1>6. CASE InvitesFileFails \/ NoTag
  <2>1. UNCHANGED listingVars /\ stage' \in {"failed", "listed"}
    BY <1>6 DEF InvitesFileFails, NoTag
  <2>2. PromptInv'
    BY <2>1 DEF ListingStep, targetingVars, matchingVars, ListIInv, PromptInv, Early
  <2>3. walked' \in 0 .. Len(servers) /\ stage \in Early
    BY <1>1 DEF ListIInv, ListInv, Early
  <2>4. QED BY <1>1, <2>1, <2>2, <2>3, ListStays
<1>7. QED BY <1>2, <1>3, <1>4, <1>5, <1>6, ListingCases

LEMMA ListStep == ListIInv /\ [Next]_vars => ListIInv'
<1> SUFFICES ASSUME ListIInv, [Next]_vars PROVE ListIInv'
  OBVIOUS
<1>1. IInv'
  BY StepKeeps DEF ListIInv
<1>2. CASE UNCHANGED vars
  <2>1. UNCHANGED <<listingVars, request>> /\ stage' = stage /\ walked' \in 0 .. Len(servers)
    BY <1>2 DEF vars, targetingVars, ListIInv, ListInv
  <2>2. PromptInv'
    BY <1>2 DEF vars, targetingVars, matchingVars, ListIInv, PromptInv
  <2>3. QED BY <1>1, <2>1, <2>2, ListStays DEF ListIInv
<1>3. CASE Next
  BY <1>1, <1>3, TargetingKeepsList, ListingKeepsList, MatchingKeepsList, WalkKeepsList
  DEF Next, ListIInv
<1>4. QED BY <1>2, <1>3

LEMMA ListInvariance == Spec => []ListIInv
<1>1. QED BY InitList, ListStep, PTL DEF Spec

-----------------------------------------------------------------------------
(* What a search lists *)

\* However sources and pages overlap, an invite is on the list once (the codes
\* Run and the scraper have seen).
THEOREM NoServerIsListedTwice == Spec => []NoServerTwice
<1>1. ListIInv => NoServerTwice
  BY DEF ListIInv
<1>2. QED BY <1>1, ListInvariance, PTL

\* A tag fills the list up to the limit and never beyond (Run asks Discover for
\* what is missing).
THEOREM TagFillsUpAlways == Spec => []TagFillsUp
<1>1. ListIInv => TagFillsUp
  BY DEF ListIInv
<1>2. QED BY <1>1, ListInvariance, PTL

\* A verdict has a reason.
LEMMA VerdictHasAReason ==
  ASSUME NEW t, NEW m
  PROVE  MatchTarget(t, m).reason \in MatchReasons
BY DEF MatchTarget, Candidate, MatchReasons

\* The variables of a search hold what they are for; the prompt gives up after
\* two invalid selections, and the scraper before it has more than is wanted.
THEOREM SearchTypes == Spec => []SearchTypeOK
<1>1. ListIInv => SearchTypeOK
  <2> SUFFICES ASSUME ListIInv PROVE SearchTypeOK
    OBVIOUS
  <2>1. observed \subseteq [member : Members, status : MatchStatuses, reason : MatchReasons]
    <3>1. \A m \in found : Observation(target, m) \in
            [member : Members, status : MatchStatuses, reason : MatchReasons]
      BY VerdictIsAStatus, VerdictHasAReason DEF Observation, ListIInv, IInv, DiscoveryIsSound
    <3>2. QED BY <3>1 DEF ListIInv, IInv, ObservedIsMatched
  <2>2. /\ request \in Requests /\ target \in Targets
        /\ phase \in {"lookup", "search", "author", "match", "done"} /\ found \subseteq Members
    BY DEF ListIInv, IInv, TargetOfRequest, DiscoveryIsSound
  <2>3. QED BY <2>1, <2>2 DEF ListIInv, PromptInv, ListInv, SearchTypeOK, Early, Entries
<1>2. QED BY <1>1, ListInvariance, PTL

\* What the earlier pages of a tag listed reaches the list, however the search
\* of the tag ends (Discover returns its results with its error).
THEOREM TagPagesAreKeptAlways == Spec => TagPagesAreKept
<1> DEFINE Kept == source = "tag" => ToSet(results) \subseteq CodesOf(servers') \cup ToSet(results')
<1>1. ListIInv /\ [Next]_vars => [Kept]_vars
  <2> SUFFICES ASSUME ListIInv, Next, source = "tag"
               PROVE  ToSet(results) \subseteq CodesOf(servers') \cup ToSet(results')
    OBVIOUS
  <2>1. CASE results' = results
    BY <2>1
  <2>2. CASE ListingStep
    <3>1. ASSUME NEW codes \in Seq(Codes), Collect(codes), ToSet(results) \subseteq ToSet(codes)
          PROVE  ToSet(results) \subseteq CodesOf(servers')
      <4>1. ToSet(codes) \subseteq CodesOf(servers')
        BY <3>1, AddingKeeps DEF Collect
      <4>2. QED BY <3>1, <4>1
    <3>2. NamesSearched \/ LoadInvitesFromFile \/ ParseDirectInvites \/ InvitesFileFails \/ NoTag
            => results' = results
      BY DEF NamesSearched, LoadInvitesFromFile, ParseDirectInvites, InvitesFileFails, NoTag,
         listingVars
    <3>3. QED BY <2>1, <2>2, <3>1, <3>2, ListingCases
  <2>3. CASE TargetingStep \/ MatchingStep \/ WalkStep
    <3>1. UNCHANGED listingVars
      BY <2>3 DEF TargetingStep, MatchingStep, WalkStep, NothingListed, BeginWalk, VisitServer,
         CannotEnter, LeaveServer, Finish
    <3>2. QED BY <2>1, <3>1 DEF listingVars
  <2>4. QED BY <2>2, <2>3 DEF Next
<1> HIDE DEF Kept
<1>2. Spec => [][Kept]_vars
  BY <1>1, ListInvariance, PTL DEF Spec
<1>3. QED BY <1>2 DEF Kept, TagPagesAreKept
=============================================================================
