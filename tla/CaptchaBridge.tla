--------------------------- MODULE CaptchaBridge ---------------------------
(***************************************************************************)
(* The challenge prompts of internal/captcha/bridge.go.  Each call of      *)
(* Solve starts an HTTP server for the page in the operator's browser and  *)
(* a goroutine that reads one line of the terminal; the first of the two   *)
(* to report, the timer or Ctrl-C ends the call.  The goroutine that reads *)
(* the terminal outlives the call it was started by, and so does a handler *)
(* that has answered the page but not yet reported.                        *)
(***************************************************************************)
EXTENDS Naturals, Sequences

CONSTANTS
  MaxChallenges,  \* bound: calls of Solve, one after the other
  MaxLines        \* bound: lines the operator types

ASSUME CaptchaAssumption == MaxChallenges \in Nat /\ MaxLines \in Nat

Challenges == 1 .. MaxChallenges

VARIABLES
  current,      \* the latest challenge, 0 before the first
  waiting,      \* Solve is in its select
  cancelled,    \* the context is done
  handlers,     \* /submit requests answered and not reported: the page each came
                \* from, and the challenge whose server took it
  readers,      \* challenges whose goroutine is reading the terminal
  terminal,     \* lines typed and not read: what, and the challenge it was typed at
  typed,        \* how many lines have been typed
  once,         \* challenges whose sync.Once has been used
  solutionChan, \* by challenge, the buffered channel of tokens
  errChan,      \* by challenge, the buffered channel of errors
  result        \* by challenge, what Solve returned

vars == <<current, waiting, cancelled, handlers, readers, terminal, typed, once,
          solutionChan, errChan, result>>

LineKinds == {"token", "skip", "abort", "other"}

\* A report: what is to be returned, the challenge the operator answered, and
\* the call of Solve whose handler or terminal goroutine took the answer.
Reports == [kind : {"token", "skip", "abort"}, at : Challenges, to : Challenges]

\* What Solve returns, or "none" before it has.
Results ==
  [kind : {"token", "skip", "abort", "none", "timeout", "cancelled"},
   at : Challenges, to : Challenges]

Ended(kind, c) == [kind |-> kind, at |-> c, to |-> c]

Init ==
  /\ current = 0 /\ waiting = FALSE /\ cancelled = FALSE
  /\ handlers = {} /\ readers = {} /\ once = {}
  /\ terminal = <<>> /\ typed = 0
  /\ solutionChan = [c \in Challenges |-> <<>>]
  /\ errChan = [c \in Challenges |-> <<>>]
  /\ result = [c \in Challenges |-> Ended("none", c)]

-----------------------------------------------------------------------------
(* Reporting: sendSolution and sendErr of the challenge c *)

Put(c, report) ==
  IF report.kind = "token"
  THEN /\ solutionChan' = [solutionChan EXCEPT ![c] = Append(@, report)]
       /\ UNCHANGED errChan
  ELSE /\ errChan' = [errChan EXCEPT ![c] = Append(@, report)]
       /\ UNCHANGED solutionChan

\* Defect: without the sync.Once.
SendAlways(c, report) == Put(c, report) /\ UNCHANGED once

Send(c, report) ==
  IF c \in once THEN UNCHANGED <<once, solutionChan, errChan>>
  ELSE /\ once' = once \cup {c}
       /\ Put(c, report)

-----------------------------------------------------------------------------
(* Solve *)

\* The engine meets a challenge: also after an earlier one was skipped,
\* aborted or timed out, which blocks that server alone.
Begin ==
  /\ ~waiting /\ ~cancelled /\ current < MaxChallenges
  /\ current' = current + 1
  /\ waiting' = TRUE
  /\ readers' = readers \cup {current'}
  /\ UNCHANGED <<cancelled, handlers, terminal, typed, once, solutionChan, errChan, result>>

Return(report) ==
  /\ waiting
  /\ waiting' = FALSE
  /\ result' = [result EXCEPT ![current] = report]
  /\ UNCHANGED <<current, cancelled, handlers, readers, terminal, typed, once>>

ReturnSolution ==
  /\ waiting /\ solutionChan[current] # <<>>
  /\ Return(Head(solutionChan[current]))
  /\ solutionChan' = [solutionChan EXCEPT ![current] = Tail(@)]
  /\ UNCHANGED errChan

ReturnErr ==
  /\ waiting /\ errChan[current] # <<>>
  /\ Return(Head(errChan[current]))
  /\ errChan' = [errChan EXCEPT ![current] = Tail(@)]
  /\ UNCHANGED solutionChan

\* Defect: the timer is not armed.
ReturnTimeoutNever ==
  /\ FALSE
  /\ Return(Ended("timeout", current))
  /\ UNCHANGED <<solutionChan, errChan>>

\* The timer may fire although a report is ready: select picks either.
ReturnTimeout ==
  /\ Return(Ended("timeout", current))
  /\ UNCHANGED <<solutionChan, errChan>>

ReturnCancelled ==
  /\ cancelled
  /\ Return(Ended("cancelled", current))
  /\ UNCHANGED <<solutionChan, errChan>>

Cancel ==
  /\ ~cancelled
  /\ cancelled' = TRUE
  /\ UNCHANGED <<current, waiting, handlers, readers, terminal, typed, once, solutionChan,
                 errChan, result>>

-----------------------------------------------------------------------------
(* The page *)

\* A page posts a token, and is told "ok" before the handler reports it.  All
\* challenges use the configured port, so a page still open from an earlier one
\* posts to the server of the current one.
Submit ==
  /\ waiting
  /\ \E page \in 1 .. current : handlers' = handlers \cup {[at |-> page, to |-> current]}
  /\ UNCHANGED <<current, waiting, cancelled, readers, terminal, typed, once, solutionChan,
                 errChan, result>>

Token(h) == [kind |-> "token", at |-> h.at, to |-> h.to]

\* Defect: the channels are those of the bridge, not of the call.
SubmitReportsShared(h) ==
  /\ handlers' = handlers \ {h}
  /\ Send(current, Token(h))
  /\ UNCHANGED <<current, waiting, cancelled, readers, terminal, typed, result>>

\* Solve waits for the handlers of its server, but for one second only.
SubmitReports(h) ==
  /\ handlers' = handlers \ {h}
  /\ Send(h.to, Token(h))
  /\ UNCHANGED <<current, waiting, cancelled, readers, terminal, typed, result>>

-----------------------------------------------------------------------------
(* The terminal *)

\* The operator types at the prompt of the current challenge.
Type ==
  /\ waiting /\ typed < MaxLines
  /\ typed' = typed + 1
  /\ \E what \in LineKinds : terminal' = Append(terminal, [what |-> what, at |-> current])
  /\ UNCHANGED <<current, waiting, cancelled, handlers, readers, once, solutionChan, errChan,
                 result>>

TakeLine(c) ==
  /\ c \in readers /\ terminal # <<>>
  /\ readers' = readers \ {c}
  /\ terminal' = Tail(terminal)
  /\ UNCHANGED <<current, waiting, cancelled, handlers, typed, result>>

Answer(c, line) == [kind |-> line.what, at |-> line.at, to |-> c]

\* Defect: whatever was typed is reported.
ReadLineUnchecked(c) == TakeLine(c) /\ Send(c, Answer(c, Head(terminal)))

\* Any goroutine still reading may get the next line.  It reads no other, and
\* a line that is neither an option nor long enough for a token is dropped.
ReadLine(c) ==
  /\ TakeLine(c)
  /\ IF Head(terminal).what = "other" THEN UNCHANGED <<once, solutionChan, errChan>>
     ELSE Send(c, Answer(c, Head(terminal)))

-----------------------------------------------------------------------------
SolveStep == ReturnSolution \/ ReturnErr \/ ReturnTimeout \/ ReturnCancelled

Next ==
  \/ Begin \/ SolveStep \/ Cancel \/ Submit \/ Type
  \/ \E h \in handlers : SubmitReports(h)
  \/ \E c \in Challenges : ReadLine(c)

\* Goroutines are scheduled, and the timer fires; nobody has to type or click.
Spec ==
  /\ Init /\ [][Next]_vars
  /\ WF_vars(SolveStep)
  /\ WF_vars(\E h \in handlers : SubmitReports(h))
  /\ \A c \in Challenges : WF_vars(ReadLine(c))

-----------------------------------------------------------------------------
(* Properties *)

\* The types of the variables; a report is one of the three a caller may get.
CaptchaTypeOK ==
  /\ current \in 0 .. MaxChallenges
  /\ {waiting, cancelled} \subseteq BOOLEAN
  /\ {readers, once} \subseteq SUBSET Challenges
  /\ handlers \subseteq [at : Challenges, to : Challenges]
  /\ terminal \in Seq([what : LineKinds, at : Challenges])
  /\ typed \in 0 .. MaxLines
  /\ {solutionChan, errChan} \subseteq [Challenges -> Seq(Reports)]
  /\ result \in [Challenges -> Results]

\* A challenge gets one report, from the page or the terminal, and no goroutine
\* is left blocked on a channel nobody reads any more: each has room for one.
OneReport ==
  \A c \in Challenges : Len(solutionChan[c]) + Len(errChan[c]) +
      (IF result[c].kind \in {"token", "skip", "abort"} THEN 1 ELSE 0) <= 1

\* What a call returns was reported to that call: an answer whose handler or
\* goroutine runs only after its call has ended does not answer the next one.
LateReportsAreLost == \A c \in Challenges : result[c].to = c

\* Every call of Solve returns, whether or not anybody answers.
EverySolveEnds == waiting ~> ~waiting

\* "Options: [paste-token] / 's' to skip this server": the server skipped is
\* the one at whose prompt the operator asked for it.
SkipSkipsThisServer ==
  \A c \in Challenges : result[c].kind = "skip" => result[c].at = c
=============================================================================
