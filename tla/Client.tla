------------------------------- MODULE Client -------------------------------
(***************************************************************************)
(* The Discord REST client of internal/discord/client.go: what its calls   *)
(* make of an answer, and what Discord has done when it gives one.         *)
(***************************************************************************)
EXTENDS Naturals

NoAnswer == [status |-> 0, body |-> "none"]

\* The captcha and locked bodies are JSON that asks for a captcha or a phone.
Answers ==
  [status : {200, 201, 204, 400, 401, 403, 404, 429, 500},
   body   : {"valid", "captcha", "locked", "garbled"}]

\* What do makes of an answer before the call that asked looks at it.
Do(answer) ==
  CASE answer = NoAnswer   -> "failed"
    [] answer.status = 429 -> "rate_limited"
    [] answer.status = 401 -> "unauthorized"
    [] OTHER               -> "answered"

\* ResolveInvite and the other calls that read: all but a decodable 200 fail.
Fetches(answer) ==
  Do(answer) = "answered" /\ answer.status = 200 /\ answer.body # "garbled"

JoinRefused(answer) ==
  CASE answer.body = "captcha" -> "challenge"
    [] answer.body = "locked"  -> "locked"
    [] OTHER                   -> "failed"

JoinGuild(answer) ==
  CASE Do(answer) # "answered"      -> Do(answer)
    [] answer.status \in {400, 403} -> JoinRefused(answer)
    [] answer.status \in {200, 201} /\ answer.body # "garbled" -> "joined"
    [] OTHER                        -> "failed"

\* Whether the account has entered the guild: nothing is known of a call
\* without an answer, and an answer that cannot be decoded hides a join.
MayHaveEntered(answer) ==
  CASE answer = NoAnswer            -> BOOLEAN
    [] answer.status \in {200, 201} -> {TRUE}
    [] OTHER                        -> {FALSE}

\* LeaveGuild.  404: the account is no member, which is as good as having left.
MayHaveLeft(answer) ==
  CASE answer = NoAnswer                 -> BOOLEAN
    [] answer.status \in {200, 204, 404} -> {TRUE}
    [] OTHER                             -> {FALSE}
=============================================================================
