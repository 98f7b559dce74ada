----------------------------- MODULE Completion -----------------------------
(***************************************************************************)
(* A call of Complete in internal/ai/client.go: one prompt, sent again     *)
(* after a pause while the endpoint answers that it is busy.  The context  *)
(* of the one caller, the triage command, is never done, and its client    *)
(* makes a single call, so that the cache of answers stays unused.         *)
(***************************************************************************)
EXTENDS Naturals, Sequences

CONSTANT MaxRetries

ASSUME CompletionAssumption == MaxRetries \in Nat

\* answer: a 200 with a choice.  useless: a 200 that does not decode or has
\* no choice.  busy: no response, 429 or 5xx.  refused: any other status.
Replies == {"answer", "useless", "busy", "refused"}

VARIABLES
  call,   \* outside, sending, pausing, answered or failed
  heard   \* the replies to the requests of the call, in order

completionVars == <<call, heard>>

\* The attempt of the for loop: the requests that have been answered.
attempt == Len(heard)

CompletionTypeOK ==
  /\ call \in {"outside", "sending", "pausing", "answered", "failed"}
  /\ heard \in Seq(Replies)
  /\ attempt <= MaxRetries + 1

CompletionInit == call = "outside" /\ heard = <<>>

BeginCall ==
  /\ call' = "sending"
  /\ heard' = <<>>

\* What the loop does about the reply to request number n.
AfterReply(reply, n) ==
  CASE reply = "answer"                  -> "answered"
    [] reply = "busy" /\ n <= MaxRetries -> "pausing"
    [] OTHER                             -> "failed"

Reply ==
  /\ call = "sending"
  /\ \E reply \in Replies :
       /\ heard' = Append(heard, reply)
       /\ call' = AfterReply(reply, attempt + 1)

\* sleepBackoff, as long as Retry-After or the doubled backoff says but never
\* longer than the maximum.
Pause ==
  /\ call = "pausing"
  /\ call' = "sending"
  /\ UNCHANGED heard
=============================================================================
