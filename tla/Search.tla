------------------------------- MODULE Search -------------------------------
(***************************************************************************)
(* What a search decides: whom it looks for (Targeting), where (Listing)   *)
(* and what it makes of the people it meets there (Matching), in the order *)
(* of Run in internal/workflow/engine.go.  Joining and leaving guilds, the *)
(* checkpoint and interruptions are the subject of Workflow.               *)
(***************************************************************************)
EXTENDS Listing, Matching

VARIABLES
  walked   \* the servers begun

vars == <<stage, targetingVars, listingVars, matchingVars, walked>>

Init == TargetingInit /\ ListingInit /\ MatchingInit /\ walked = 0

-----------------------------------------------------------------------------
(* The walk *)

NothingListed ==
  /\ stage = "listed" /\ servers = <<>>
  /\ stage' = "failed"
  /\ UNCHANGED <<targetingVars, listingVars, matchingVars, walked>>

BeginWalk ==
  /\ stage = "listed" /\ servers # <<>>
  /\ stage' = "walk"
  /\ UNCHANGED <<targetingVars, listingVars, matchingVars, walked>>

MoreToWalk == walked < request.limit /\ walked < Len(servers)

VisitServer ==
  /\ stage = "walk" /\ MoreToWalk
  /\ walked' = walked + 1
  /\ stage' = "scan"
  /\ UNCHANGED <<targetingVars, listingVars, matchingVars>>

\* The invite does not resolve or cannot be joined.
CannotEnter ==
  /\ stage = "walk" /\ MoreToWalk
  /\ walked' = walked + 1
  /\ UNCHANGED <<stage, targetingVars, listingVars, matchingVars>>

\* Nothing of a guild is kept in memory for the next.
LeaveServer ==
  /\ stage = "scan" /\ phase = "done"
  /\ stage' = "walk"
  /\ phase' = "lookup" /\ found' = {} /\ reason' = "aborted" /\ observed' = {}
  /\ UNCHANGED <<targetingVars, listingVars, walked>>

Finish ==
  /\ stage = "walk" /\ ~MoreToWalk
  /\ stage' = "ended"
  /\ UNCHANGED <<targetingVars, listingVars, matchingVars, walked>>

WalkStep ==
  NothingListed \/ BeginWalk \/ VisitServer \/ CannotEnter \/ LeaveServer \/ Finish

-----------------------------------------------------------------------------
TargetingStep == (VerifyStep \/ PromptStep) /\ UNCHANGED <<listingVars, matchingVars, walked>>
ListingStep == CollectStep /\ UNCHANGED <<targetingVars, matchingVars, walked>>
MatchingStep == MatchStep /\ UNCHANGED <<stage, targetingVars, listingVars, walked>>

Next == TargetingStep \/ ListingStep \/ MatchingStep \/ WalkStep

\* Every request has a timeout.  Nobody has to answer a prompt.
Spec == Init /\ [][Next]_vars /\ WF_vars(ListingStep \/ MatchingStep \/ WalkStep)

-----------------------------------------------------------------------------
(* Properties *)

\* What the variables hold, and the two attempts the prompt allows.
SearchTypeOK ==
  /\ stage \in {"verify", "select", "confirm", "refused", "collect", "failed", "listed",
                "walk", "scan", "ended"}
  /\ request \in Requests
  /\ options \subseteq Accounts /\ wrong \in 0 .. 2
  /\ target \in Targets
  /\ source \in Sources /\ names \in 0 .. request.names
  /\ asked \in BOOLEAN
  /\ results \in Seq(Codes) /\ (results # <<>> => Len(results) < Wanted)
  /\ servers \in Seq([code : Codes, source : Sources])
  /\ phase \in {"lookup", "search", "author", "match", "done"}
  /\ found \subseteq Members
  /\ reason \in StopReasons
  /\ observed \subseteq [member : Members, status : MatchStatuses, reason : MatchReasons]
  /\ walked \in 0 .. Len(servers)

\* Whatever the resolver answered, the name given with an id and the phases of
\* discovery: the user with the id the operator gave is confirmed, and nobody
\* else; a search by username alone confirms at most the account the operator
\* agreed to, and without one nobody.
OnlyTheIDConfirms ==
  \A o \in observed :
    /\ request.id # NoID => (o.status = "confirmed" <=> o.member.id = request.id)
    /\ request.id = NoID => (o.status = "confirmed" => o.member.id = target.id)
    /\ target.id = NoID => o.status = "candidate"

\* A username given with an id is never the target's if the account has another,
\* but whoever uses it is still reported as a candidate at least.
SuppliedNameIsMatched ==
  (phase = "done" /\ request.id # NoID /\ Norm(request.name) # NoName) =>
    \A m \in found : Norm(m.username) = Norm(request.name) => \E o \in observed : o.member = m

\* The stop reason recorded for a guild tells what was found there: a lookup by
\* id found the target, "targeted only" found members of whom none matches, and
\* "no hits" no member at all.
StopReasonIsTrue ==
  phase = "done" =>
    /\ reason = "direct_member_hit" =>
         {[id |-> o.member.id, status |-> o.status] : o \in observed}
           = {[id |-> target.id, status |-> "confirmed"]}
    /\ reason = "large_guild_targeted_only" => found # {} /\ observed = {}
    /\ reason = "large_guild_targeted_no_hits" => found = {}

\* However the sources overlap, no invite is listed, joined and left twice.
NoServerTwice ==
  \A i, j \in DOMAIN servers : servers[i].code = servers[j].code => i = j

\* Servers are taken from the tag's pages only as far as the limit lets them be
\* walked: none of them displaces one that was asked for by name or invite, and
\* none is saved as discovered that the walk would not come to.
TagFillsUp ==
  \A i \in DOMAIN servers : servers[i].source = "tag" => i <= request.limit

\* What earlier pages of a tag listed is not lost when a later one fails.
TagPagesAreKept ==
  [][source = "tag" => ToSet(results) \subseteq CodesOf(servers') \cup ToSet(results')]_vars

\* Pages that repeat, fail or never end do not keep a confirmed search from
\* coming to an end.
SearchEnds == stage = "collect" ~> stage \in {"ended", "failed"}
=============================================================================
