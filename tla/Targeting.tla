----------------------------- MODULE Targeting -----------------------------
(***************************************************************************)
(* VerifyTarget of internal/target/verify.go: how what the operator asked  *)
(* for becomes the confirmed target of a run.  Names are spellings; what   *)
(* the program compares them by is given by operators on spellings.        *)
(***************************************************************************)
EXTENDS Naturals, FiniteSets

CONSTANTS
  UserIDs,        \* strings given or returned as user ids
  NoID,           \* the empty id
  ValidIDs,       \* those of them that are snowflakes
  Names,          \* spellings of usernames, display names and nicknames
  NoName,         \* the empty name
  NormOf,         \* NormalizeUsername
  PrefixedNames,  \* the names that begin with "user_"
  PlaceholderOf,  \* "user_<id>", of the valid ids
  UnknownUser,    \* "Unknown User", "Target User": stand for an unknown name
  Accounts,       \* the accounts at Discord: candidates, by id
  Directories,    \* how a resolver may answer for a username
  Requests        \* the command lines

Candidates == [id : UserIDs, username : Names, display : Names]
Statuses == {"resolved", "multiple_candidates", "unresolved"}

ASSUME TargetingAssumption ==
  /\ NoID \notin UserIDs /\ NoName \notin Names
  /\ ValidIDs \subseteq UserIDs
  /\ NormOf \in [Names -> Names \cup {NoName}]
  /\ PrefixedNames \subseteq Names
  /\ PlaceholderOf \in [ValidIDs -> PrefixedNames]
  /\ UnknownUser \in Names
  /\ Accounts \subseteq Candidates
  /\ Directories \subseteq Statuses
  /\ \A request \in Requests :
       /\ request.id \in UserIDs \cup {NoID}
       /\ request.name \in Names \cup {NoName}
       /\ request.yes \in BOOLEAN

VARIABLES
  stage,    \* where the command is
  request,  \* the command line
  options,  \* the candidates SelectCandidate lists
  wrong,    \* the invalid selections made there
  target    \* the target, when verified the confirmed one

targetingVars == <<request, options, wrong, target>>

\* ConfirmedTarget: note is the name its alias note holds.
Targets == [id : UserIDs \cup {NoID}, username : Names \cup {NoName},
            display : Names, note : Names \cup {NoName}]
NoTarget == [id |-> NoID, username |-> NoName, display |-> UnknownUser, note |-> NoName]

Norm(n) == IF n = NoName THEN NoName ELSE NormOf[n]

TargetingInit ==
  /\ stage = "verify"
  /\ request \in Requests
  /\ options = {} /\ wrong = 0
  /\ target = NoTarget

-----------------------------------------------------------------------------
\* ResolveUserID: the account, or, where the token may not read it or there is
\* no token, a candidate made up from the id.
ResolveUserID(id) ==
  {c \in Accounts : c.id = id}
    \cup {[id |-> id, username |-> PlaceholderOf[id], display |-> UnknownUser]}

Refuse ==
  /\ stage' = "refused"
  /\ UNCHANGED targetingVars

\* Shown to the operator, who is asked unless --yes was given.
Show(candidate, note) ==
  /\ target' = [id |-> candidate.id, username |-> candidate.username,
                display |-> candidate.display, note |-> note]
  /\ stage' = "confirm"
  /\ UNCHANGED <<request, options, wrong>>

\* Neither flag, an id that is no snowflake, or a resolver that fails for a
\* username; with a snowflake a failing resolver is not fatal.
VerifyFails ==
  /\ stage = "verify"
  /\ request.id \notin ValidIDs
  /\ Refuse

\* The name the operator gave stands in for one that could not be read.
Supplied == [id |-> request.id, username |-> request.name, display |-> request.name]

\* Defect: the warning is shown and the name forgotten.
AliasNoteDropped(candidate) == NoName

\* A name other than the account's is kept as a note.
AliasNote(candidate) ==
  IF Norm(candidate.username) # Norm(request.name) THEN request.name ELSE NoName

\* Both flags.  A candidate made up from the id, or an account whose name looks
\* like one, takes the name the operator gave.
VerifyBoth ==
  /\ stage = "verify" /\ request.id \in ValidIDs /\ request.name # NoName
  /\ \/ Show(Supplied, AliasNote(Supplied))
     \/ \E c \in ResolveUserID(request.id) :
          /\ c.username \notin PrefixedNames
          /\ Show(c, AliasNote(c))

VerifyID ==
  /\ stage = "verify" /\ request.id \in ValidIDs /\ request.name = NoName
  /\ \E c \in ResolveUserID(request.id) : Show(c, NoName)

VerifyUsername(status) ==
  /\ stage = "verify" /\ request.id = NoID /\ request.name # NoName
  /\ status \in Directories

ResolvedUsername ==
  /\ VerifyUsername("resolved")
  /\ \E c \in Accounts : Show(c, NoName)

\* The name is kept normalised, without an id.
UnresolvedUsername ==
  /\ VerifyUsername("unresolved")
  /\ Show([id |-> NoID, username |-> Norm(request.name), display |-> request.name], NoName)

ListCandidates ==
  /\ VerifyUsername("multiple_candidates")
  /\ options' \in {found \in SUBSET Accounts : Cardinality(found) > 1}
  /\ stage' = "select"
  /\ UNCHANGED <<request, wrong, target>>

-----------------------------------------------------------------------------
(* The prompts *)

SelectCandidate ==
  /\ stage = "select"
  /\ \E c \in options : Show(c, NoName)

\* Defect: invalid selections are not limited.
SelectWrongForever ==
  /\ stage = "select"
  /\ wrong' = wrong + 1
  /\ wrong < 3
  /\ UNCHANGED <<stage, request, options, target>>

\* The second invalid selection aborts.
SelectWrong ==
  /\ stage = "select"
  /\ wrong' = wrong + 1
  /\ stage' = IF wrong' < 2 THEN "select" ELSE "refused"
  /\ UNCHANGED <<request, options, target>>

SelectQuit ==
  /\ stage = "select"
  /\ Refuse

\* "n", anything that is not yes, or the end of the input.
Decline ==
  /\ stage = "confirm" /\ ~request.yes
  /\ stage' = "refused"
  /\ target' = NoTarget
  /\ UNCHANGED <<request, options, wrong>>

\* Given by the operator, or by --yes.  The run is created with the target.
Confirm ==
  /\ stage = "confirm"
  /\ stage' = "collect"
  /\ UNCHANGED targetingVars

VerifyStep ==
  \/ VerifyFails \/ VerifyBoth \/ VerifyID
  \/ ResolvedUsername \/ UnresolvedUsername \/ ListCandidates

PromptStep == SelectCandidate \/ SelectWrong \/ SelectQuit \/ Decline \/ Confirm
=============================================================================
