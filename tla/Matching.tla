----------------------------- MODULE Matching ------------------------------
(***************************************************************************)
(* Finding the confirmed target in one guild: the phases of                *)
(* DiscoverMembers in internal/discord/members.go, and the rules of        *)
(* MatchTarget in internal/matcher/matcher.go that decide what a member    *)
(* that was found is to the target.                                        *)
(***************************************************************************)
EXTENDS Targeting

CONSTANTS
  People,    \* the members and authors Discord may return, with their profiles
  FoldOf,    \* strings.EqualFold: the class of a name
  Answers,   \* pairs of a name and a query that Discord returns it for
  Alike,     \* pairs of names similar enough, the second long enough
  Mentions   \* the normalised names the alias note for a name contains

\* Discord gives every user an id.
Members == [id : UserIDs, username : Names \cup {NoName},
            display : Names \cup {NoName}, nick : Names \cup {NoName}]

ASSUME MatchingAssumption ==
  /\ People \subseteq Members
  /\ DOMAIN FoldOf = Names
  /\ Answers \subseteq Names \X Names
  /\ Alike \subseteq Names \X Names
  /\ Mentions \in [Names -> SUBSET Names]
  /\ \A n \in Names : NormOf[n] # NoName => NormOf[n] \in Mentions[n]

VARIABLES
  phase,   \* the phase of DiscoverMembers
  found,   \* the members it has to return
  reason,  \* its stop reason
  observed \* the matches of the guild: member, status, reason

matchingVars == <<phase, found, reason, observed>>

MatchStatuses == {"none", "candidate", "confirmed"}
MatchReasons ==
  {"none", "user_id_exact", "username_exact", "username_case_fold", "username_unicode_fold",
   "username_match_id_mismatch", "alias_username_match", "nickname_similar"}
StopReasons ==
  {"aborted", "direct_member_hit", "targeted_search_hit", "large_guild_targeted_only",
   "large_guild_targeted_no_hits"}

MatchingInit == phase = "lookup" /\ found = {} /\ reason = "aborted" /\ observed = {}

-----------------------------------------------------------------------------
(* MatchTarget *)

SameUsername(t, m) == Norm(t.username) # NoName /\ Norm(m.username) = Norm(t.username)

EqualFold(a, b) == a \in Names /\ b \in Names /\ FoldOf[a] = FoldOf[b]

MentionedInNote(t, m) ==
  t.note # NoName /\ Norm(m.username) # NoName /\ Norm(m.username) \in Mentions[t.note]

\* A nickname or display name like the target's username or display name.
LooksLike(t, m) ==
  \E shown \in {m.nick, m.display}, known \in {Norm(t.username), t.display} :
    <<shown, known>> \in Alike

\* Defect: the username is as good as the id.
IsTargetByName(t, m) == t.id # NoID /\ m.id # NoID /\ (m.id = t.id \/ m.username = t.username)

IsTarget(t, m) == t.id # NoID /\ m.id # NoID /\ m.id = t.id

Candidate(reasonOfIt) == [status |-> "candidate", reason |-> reasonOfIt]

\* The first rule that applies decides.
MatchTarget(t, m) ==
  LET nameOnly == t.id = NoID /\ t.username # NoName
  IN  IF IsTarget(t, m) THEN [status |-> "confirmed", reason |-> "user_id_exact"]
      ELSE IF t.id # NoID /\ m.id # NoID /\ SameUsername(t, m)
           THEN Candidate("username_match_id_mismatch")
      ELSE IF nameOnly /\ m.username = t.username THEN Candidate("username_exact")
      ELSE IF nameOnly /\ EqualFold(m.username, t.username) THEN Candidate("username_case_fold")
      ELSE IF t.id = NoID /\ SameUsername(t, m) THEN Candidate("username_unicode_fold")
      ELSE IF MentionedInNote(t, m) THEN Candidate("alias_username_match")
      ELSE IF LooksLike(t, m) THEN Candidate("nickname_similar")
      ELSE [status |-> "none", reason |-> "none"]

Matches(t, m) == MatchTarget(t, m).status # "none"

-----------------------------------------------------------------------------
(* DiscoverMembers *)

\* A member without a global name shows its username.
Profile(m) == [m EXCEPT !.display = IF @ = NoName THEN m.username ELSE @]

Found(members, why) ==
  /\ found' = members /\ reason' = why
  /\ phase' = "match"
  /\ UNCHANGED observed

LookUpMember ==
  /\ stage = "scan" /\ phase = "lookup" /\ target.id # NoID
  /\ \E m \in People : m.id = target.id /\ Found({Profile(m)}, "direct_member_hit")

\* No id to look up, not a member, or the call failed.
NoMemberLookedUp ==
  /\ stage = "scan" /\ phase = "lookup"
  /\ phase' = "search"
  /\ UNCHANGED <<found, reason, observed>>

\* Defect: a hit is one that has the target's id.
SearchMembersByID(answer) ==
  IF \E m \in answer : m.id = target.id THEN Found(answer, "targeted_search_hit")
  ELSE /\ found' = answer /\ phase' = "author"
       /\ UNCHANGED <<reason, observed>>

\* Members whose names begin with the query; any of them that matches ends it.
Searched(answer) ==
  IF \E m \in answer : Matches(target, m) THEN Found(answer, "targeted_search_hit")
  ELSE /\ found' = answer /\ phase' = "author"
       /\ UNCHANGED <<reason, observed>>

Query == IF target.username # NoName THEN target.username ELSE target.display

Answering == {m \in People : \E n \in {m.username, m.display, m.nick} : <<n, Query>> \in Answers}

\* A failed search counts as one without members.
SearchMembers ==
  /\ stage = "scan" /\ phase = "search"
  /\ \E answer \in SUBSET Answering : Searched({Profile(m) : m \in answer})

\* The author of the first message of the answer, which may be someone whose
\* message Discord returns as context of one by the target.
ProbeAuthor ==
  /\ stage = "scan" /\ phase = "author" /\ target.id # NoID
  /\ \E m \in People :
       Found(found \cup {[Profile(m) EXCEPT !.nick = NoName]}, "targeted_search_hit")

\* No id, no messages, or the search failed.  The engine never asks for the
\* exhaustive listing, so nothing is concluded from an empty answer.
NoAuthor ==
  /\ stage = "scan" /\ phase = "author"
  /\ Found(found, IF found = {} THEN "large_guild_targeted_no_hits"
                                ELSE "large_guild_targeted_only")

Observation(t, m) ==
  [member |-> m, status |-> MatchTarget(t, m).status, reason |-> MatchTarget(t, m).reason]

\* processServer keeps the members that match.
MatchMembers ==
  /\ stage = "scan" /\ phase = "match"
  /\ observed' = {Observation(target, m) : m \in {n \in found : Matches(target, n)}}
  /\ phase' = "done"
  /\ UNCHANGED <<found, reason>>

MatchStep ==
  \/ LookUpMember \/ NoMemberLookedUp \/ SearchMembers
  \/ ProbeAuthor \/ NoAuthor \/ MatchMembers
=============================================================================
