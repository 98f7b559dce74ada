------------------------------- MODULE Pacing -------------------------------
(***************************************************************************)
(* The walk of internal/workflow/engine.go in time: when the account joins *)
(* guilds, with the pauses internal/config/config.go asks for.  What the   *)
(* engine does in a guild is the subject of Workflow.                      *)
(***************************************************************************)
EXTENDS Integers, Sequences

CONSTANTS
  Configured,  \* the settings as they are read
  Requested,   \* --limit
  Discovered,  \* how many servers there are
  VisitTimes,  \* bound: how long a server may take
  Hour         \* how many units of time make an hour

DefaultMaxJoins == 8

Accepted(config) ==
  0 <= config.joinDelay[1] /\ config.joinDelay[1] <= config.joinDelay[2]

\* Validate repairs some settings and refuses others.
Validated(config) ==
  [config EXCEPT !.maxJoinsPerHour = IF @ <= 0 THEN DefaultMaxJoins ELSE @]

cfg == Validated(Configured)

VARIABLES
  at,        \* walk, cooldown or done
  now,       \* the time
  walked,    \* how many servers have been visited
  joins,     \* history: when a guild was joined, in order
  cancelled  \* Ctrl-C

vars == <<at, now, walked, joins, cancelled>>

Init ==
  /\ Accepted(Configured)
  /\ at = "walk" /\ now = 0 /\ walked = 0 /\ joins = <<>> /\ cancelled = FALSE

limit == IF Requested <= 0 THEN 30 ELSE Requested

ServersLeft == walked < limit /\ walked < Discovered

\* A guild is joined at once, or after captchas and retries, or not at all.
ProcessServer ==
  /\ at = "walk" /\ ServersLeft /\ ~cancelled
  /\ \E spent \in VisitTimes :
       /\ now' = now + spent
       /\ joins' \in {joins} \cup {Append(joins, now + t) : t \in 0 .. spent}
  /\ walked' = walked + 1
  /\ at' = IF ServersLeft' THEN "cooldown" ELSE "done"
  /\ UNCHANGED cancelled

\* Min + rand.Intn(max - min), which is less than the maximum.
Delays ==
  LET min == cfg.joinDelay[1]
      max == cfg.joinDelay[2]
  IN  IF min < max THEN min .. (max - 1) ELSE {min}

\* time.Sleep knows nothing of the context.
Cooldown ==
  /\ at = "cooldown"
  /\ \E waitSec \in Delays : now' = now + waitSec
  /\ at' = "walk"
  /\ UNCHANGED <<walked, joins, cancelled>>

WalkEnds ==
  /\ at = "walk" /\ (cancelled \/ ~ServersLeft)
  /\ at' = "done"
  /\ UNCHANGED <<now, walked, joins, cancelled>>

Cancel ==
  /\ at # "done" /\ ~cancelled
  /\ cancelled' = TRUE
  /\ UNCHANGED <<at, now, walked, joins>>

Next == ProcessServer \/ Cooldown \/ WalkEnds \/ Cancel

Spec == Init /\ [][Next]_vars

\* "Maximum guild joins allowed per 60-minute window": between a join and the
\* one max_joins_per_hour joins later at least an hour passes.
JoinsPerHour ==
  \A n \in DOMAIN joins : n + cfg.maxJoinsPerHour \in DOMAIN joins =>
    joins[n + cfg.maxJoinsPerHour] - joins[n] >= Hour
=============================================================================
