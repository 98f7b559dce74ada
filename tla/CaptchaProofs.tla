--------------------------- MODULE CaptchaProofs ---------------------------
(***************************************************************************)
(* Whatever the browser page, the terminal goroutines of earlier calls,    *)
(* the timer and Ctrl-C do, and in whatever order: a call of Solve gets at *)
(* most one report, and only one that was made to it.  Proved for any      *)
(* number of challenges and lines.                                         *)
(***************************************************************************)
EXTENDS CaptchaBridge, TLAPS

Reported == {"token", "skip", "abort"}
Lines == [what : LineKinds, at : Challenges]

\* The reports the goroutines of call c can make.
ReportsTo(c) == [kind : Reported, at : Challenges, to : {c}]

Types ==
  /\ current \in 0 .. MaxChallenges
  /\ waiting \in BOOLEAN /\ cancelled \in BOOLEAN
  /\ readers \subseteq Challenges /\ once \subseteq Challenges
  /\ handlers \subseteq [at : Challenges, to : Challenges]
  /\ terminal \in Seq(Lines)
  /\ typed \in 0 .. MaxLines
  /\ solutionChan \in [Challenges -> Seq(Reports)]
  /\ errChan \in [Challenges -> Seq(Reports)]
  /\ result \in [Challenges -> Results]

\* Calls come one after the other, and the one in progress has no result yet.
InOrder ==
  /\ waiting => current \in Challenges /\ result[current].kind = "none"
  /\ \A c \in Challenges : c > current => result[c].kind = "none"

\* The channels of a call hold what was reported to that call.
Addressed ==
  \A c \in Challenges :
    /\ solutionChan[c] \in Seq(ReportsTo(c))
    /\ errChan[c] \in Seq(ReportsTo(c))
    /\ result[c].to = c

\* Nothing is reported to call c before its sync.Once is used; afterwards there
\* is one report, in one of the channels or taken.
Unused(solutions, errors, end) ==
  Len(solutions) = 0 /\ Len(errors) = 0 /\ end.kind \notin Reported

OneAtMost(solutions, errors, end) ==
  /\ Len(solutions) + Len(errors) <= 1
  /\ end.kind \in Reported => Len(solutions) = 0 /\ Len(errors) = 0

Guarded ==
  \A c \in Challenges :
    /\ c \notin once => Unused(solutionChan[c], errChan[c], result[c])
    /\ OneAtMost(solutionChan[c], errChan[c], result[c])

IInv == Types /\ InOrder /\ Addressed /\ Guarded

LEMMA InitInv == Init => IInv
  <1> SUFFICES ASSUME Init PROVE IInv
    OBVIOUS
  <1>1. \A c \in Challenges : Ended("none", c) \in Results
    BY DEF Ended, Results
  <1>2. Types
    <2>1. result \in [Challenges -> Results]
      BY <1>1 DEF Init
    <2>2. <<>> \in Seq(Lines) /\ <<>> \in Seq(Reports)
      OBVIOUS
    <2>3. /\ solutionChan \in [Challenges -> Seq(Reports)]
          /\ errChan \in [Challenges -> Seq(Reports)]
          /\ terminal \in Seq(Lines)
      BY <2>2 DEF Init
    <2>4. current \in 0 .. MaxChallenges /\ typed \in 0 .. MaxLines
      BY CaptchaAssumption DEF Init
    <2> QED BY <2>1, <2>3, <2>4 DEF Init, Types
  <1>3. InOrder
    BY DEF Init, InOrder, Ended
  <1>4. Addressed
    BY DEF Init, Addressed, Ended
  <1>5. Guarded
    BY DEF Init, Guarded, Unused, OneAtMost, Ended, Reported
  <1> QED BY <1>2, <1>3, <1>4, <1>5 DEF IInv

\* sendSolution and sendErr: the report goes to the channels of its own call,
\* and only if the sync.Once of that call was still unused.
LEMMA SendKeepsInv ==
  ASSUME IInv, NEW c \in Challenges, NEW report \in ReportsTo(c), Send(c, report),
         UNCHANGED <<current, waiting, cancelled, typed, result>>,
         readers' \subseteq Challenges, terminal' \in Seq(Lines),
         handlers' \subseteq [at : Challenges, to : Challenges]
  PROVE  IInv'
  <1> USE DEF IInv
  <1>1. report \in Reports
    BY DEF ReportsTo, Reports, Reported
  <1>2. CASE c \in once
    <2>1. UNCHANGED <<once, solutionChan, errChan>>
      BY <1>2 DEF Send
    <2> QED BY <2>1 DEF Types, InOrder, Addressed, Guarded
  <1>3. CASE c \notin once
    <2>1. once' = once \cup {c} /\ Put(c, report)
      BY <1>3 DEF Send
    <2>2. Unused(solutionChan[c], errChan[c], result[c])
      BY <1>3 DEF Guarded
    <2>3. CASE report.kind = "token"
      <3>1. /\ solutionChan' = [solutionChan EXCEPT ![c] = Append(@, report)]
            /\ errChan' = errChan
        BY <2>1, <2>3 DEF Put
      <3>2. /\ Append(solutionChan[c], report) \in Seq(Reports)
            /\ Append(solutionChan[c], report) \in Seq(ReportsTo(c))
            /\ Len(Append(solutionChan[c], report)) = Len(solutionChan[c]) + 1
        BY <1>1 DEF Types, Addressed
      <3>3. Types' /\ InOrder' /\ Addressed'
        BY <2>1, <3>1, <3>2 DEF Types, InOrder, Addressed
      <3>4. Guarded'
        BY <2>1, <2>2, <3>1, <3>2 DEF Types, Guarded, Unused, OneAtMost
      <3> QED BY <3>3, <3>4
    <2>4. CASE report.kind # "token"
      <3>1. /\ errChan' = [errChan EXCEPT ![c] = Append(@, report)]
            /\ solutionChan' = solutionChan
        BY <2>1, <2>4 DEF Put
      <3>2. /\ Append(errChan[c], report) \in Seq(Reports)
            /\ Append(errChan[c], report) \in Seq(ReportsTo(c))
            /\ Len(Append(errChan[c], report)) = Len(errChan[c]) + 1
        BY <1>1 DEF Types, Addressed
      <3>3. Types' /\ InOrder' /\ Addressed'
        BY <2>1, <3>1, <3>2 DEF Types, InOrder, Addressed
      <3>4. Guarded'
        BY <2>1, <2>2, <3>1, <3>2 DEF Types, Guarded, Unused, OneAtMost
      <3> QED BY <3>3, <3>4
    <2> QED BY <2>3, <2>4
  <1> QED BY <1>2, <1>3

\* A call that ends without a report leaves the channels as they are.
LEMMA EndKeepsInv ==
  ASSUME IInv, NEW kind \in {"timeout", "cancelled"}, Return(Ended(kind, current)),
         UNCHANGED <<solutionChan, errChan>>
  PROVE  IInv'
  <1> USE DEF IInv
  <1>1. current \in Challenges /\ result[current].kind = "none"
    BY DEF Return, InOrder
  <1>2. Ended(kind, current) \in Results
    BY <1>1 DEF Ended, Results
  <1>3. Ended(kind, current).kind \notin Reported /\ Ended(kind, current).to = current
    BY DEF Ended, Reported
  <1>4. Types'
    BY <1>1, <1>2 DEF Return, Types
  <1>5. InOrder'
    BY <1>1, CaptchaAssumption DEF Return, Types, InOrder, Challenges
  <1>6. Addressed'
    BY <1>1, <1>3 DEF Return, Types, Addressed
  <1>7. Guarded'
    BY <1>1, <1>3 DEF Return, Types, Guarded, Unused, OneAtMost, Reported
  <1> QED BY <1>4, <1>5, <1>6, <1>7

\* A call that takes a report takes it out of its own channel.
LEMMA SolutionKeepsInv ==
  ASSUME IInv, ReturnSolution
  PROVE  IInv'
  <1> USE DEF IInv
  <1> DEFINE chan == solutionChan[current]
  <1>1. /\ current \in Challenges /\ result[current].kind = "none" /\ chan # <<>>
        /\ result' = [result EXCEPT ![current] = Head(chan)]
        /\ solutionChan' = [solutionChan EXCEPT ![current] = Tail(@)]
        /\ waiting' = FALSE
        /\ UNCHANGED <<current, cancelled, handlers, readers, terminal, typed, once, errChan>>
    BY DEF ReturnSolution, Return, InOrder
  <1>2. chan \in Seq(ReportsTo(current)) /\ chan \in Seq(Reports)
    BY <1>1 DEF Addressed, Types
  <1>3. /\ Head(chan) \in ReportsTo(current) /\ Head(chan) \in Reports
        /\ Tail(chan) \in Seq(ReportsTo(current)) /\ Tail(chan) \in Seq(Reports)
        /\ Len(chan) \in Nat \ {0} /\ Len(Tail(chan)) = Len(chan) - 1
    BY <1>1, <1>2
  <1>4. Head(chan).to = current /\ Head(chan).kind \in Reported
    BY <1>3 DEF ReportsTo
  <1>5. Types'
    <2>1. Head(chan) \in Results
      <3>1. Reports \subseteq Results
        BY DEF Reports, Results
      <3> QED BY <1>3, <3>1, Zenon
    <2> QED BY <1>1, <1>3, <2>1 DEF Types
  <1>6. InOrder'
    BY <1>1, CaptchaAssumption DEF Types, InOrder, Challenges
  <1>7. Addressed'
    BY <1>1, <1>3, <1>4 DEF Types, Addressed
  <1>8. Guarded'
    <2> SUFFICES ASSUME NEW c \in Challenges
                 PROVE  /\ (c \notin once => Unused(solutionChan[c], errChan[c], result[c]))'
                        /\ OneAtMost(solutionChan[c], errChan[c], result[c])'
      BY DEF Guarded
    <2>1. CASE c = current
      <3>1. /\ Len(solutionChan[c]) \in Nat /\ Len(errChan[c]) \in Nat
            /\ Len(solutionChan[c]) + Len(errChan[c]) <= 1
            /\ c \in once
        BY <2>1, <1>1, <1>3 DEF Types, Guarded, Unused, OneAtMost
      <3>2. Len(solutionChan'[c]) = 0 /\ Len(errChan'[c]) = 0
        BY <2>1, <1>1, <1>3, <3>1 DEF Types
      <3> QED BY <1>1, <3>1, <3>2 DEF OneAtMost
    <2>2. CASE c # current
      BY <2>2, <1>1 DEF Types, Guarded
    <2> QED BY <2>1, <2>2
  <1> QED BY <1>5, <1>6, <1>7, <1>8

LEMMA ErrKeepsInv ==
  ASSUME IInv, ReturnErr
  PROVE  IInv'
  <1> USE DEF IInv
  <1> DEFINE chan == errChan[current]
  <1>1. /\ current \in Challenges /\ result[current].kind = "none" /\ chan # <<>>
        /\ result' = [result EXCEPT ![current] = Head(chan)]
        /\ errChan' = [errChan EXCEPT ![current] = Tail(@)]
        /\ waiting' = FALSE
        /\ UNCHANGED <<current, cancelled, handlers, readers, terminal, typed, once, solutionChan>>
    BY DEF ReturnErr, Return, InOrder
  <1>2. chan \in Seq(ReportsTo(current)) /\ chan \in Seq(Reports)
    BY <1>1 DEF Addressed, Types
  <1>3. /\ Head(chan) \in ReportsTo(current) /\ Head(chan) \in Reports
        /\ Tail(chan) \in Seq(ReportsTo(current)) /\ Tail(chan) \in Seq(Reports)
        /\ Len(chan) \in Nat \ {0} /\ Len(Tail(chan)) = Len(chan) - 1
    BY <1>1, <1>2
  <1>4. Head(chan).to = current /\ Head(chan).kind \in Reported
    BY <1>3 DEF ReportsTo
  <1>5. Types'
    <2>1. Head(chan) \in Results
      <3>1. Reports \subseteq Results
        BY DEF Reports, Results
      <3> QED BY <1>3, <3>1, Zenon
    <2> QED BY <1>1, <1>3, <2>1 DEF Types
  <1>6. InOrder'
    BY <1>1, CaptchaAssumption DEF Types, InOrder, Challenges
  <1>7. Addressed'
    BY <1>1, <1>3, <1>4 DEF Types, Addressed
  <1>8. Guarded'
    <2> SUFFICES ASSUME NEW c \in Challenges
                 PROVE  /\ (c \notin once => Unused(solutionChan[c], errChan[c], result[c]))'
                        /\ OneAtMost(solutionChan[c], errChan[c], result[c])'
      BY DEF Guarded
    <2>1. CASE c = current
      <3>1. /\ Len(solutionChan[c]) \in Nat /\ Len(errChan[c]) \in Nat
            /\ Len(solutionChan[c]) + Len(errChan[c]) <= 1
            /\ c \in once
        BY <2>1, <1>1, <1>3 DEF Types, Guarded, Unused, OneAtMost
      <3>2. Len(solutionChan'[c]) = 0 /\ Len(errChan'[c]) = 0
        BY <2>1, <1>1, <1>3, <3>1 DEF Types
      <3> QED BY <1>1, <3>1, <3>2 DEF OneAtMost
    <2>2. CASE c # current
      BY <2>2, <1>1 DEF Types, Guarded
    <2> QED BY <2>1, <2>2
  <1> QED BY <1>5, <1>6, <1>7, <1>8

LEMMA BeginKeepsInv ==
  ASSUME IInv, Begin
  PROVE  IInv'
  <1> USE DEF IInv, Begin
  <1>1. current' = current + 1 /\ current' \in Challenges
    BY CaptchaAssumption DEF Types, Challenges
  <1>2. Types'
    BY <1>1, CaptchaAssumption DEF Types, Challenges
  <1>3. InOrder'
    BY <1>1, CaptchaAssumption DEF Types, InOrder, Challenges
  <1>4. Addressed' /\ Guarded'
    BY DEF Addressed, Guarded
  <1> QED BY <1>2, <1>3, <1>4

LEMMA ReadLineKeepsInv ==
  ASSUME IInv, NEW c \in Challenges, ReadLine(c)
  PROVE  IInv'
  <1> USE DEF IInv
  <1> DEFINE line == Head(terminal)
  <1>1. /\ line \in Lines /\ Tail(terminal) \in Seq(Lines)
        /\ readers' \subseteq Challenges /\ terminal' = Tail(terminal)
        /\ UNCHANGED <<current, waiting, cancelled, handlers, typed, result>>
    BY DEF ReadLine, TakeLine, Types
  <1>2. CASE line.what = "other"
    BY <1>1, <1>2 DEF ReadLine, Types, InOrder, Addressed, Guarded
  <1>3. CASE line.what # "other"
    <2>1. Send(c, Answer(c, line))
      BY <1>3 DEF ReadLine
    <2>2. Answer(c, line) \in ReportsTo(c)
      BY <1>1, <1>3 DEF Answer, ReportsTo, Lines, LineKinds, Reported
    <2> QED BY <1>1, <2>1, <2>2, SendKeepsInv DEF Types
  <1> QED BY <1>2, <1>3

LEMMA NextInv ==
  ASSUME IInv, [Next]_vars
  PROVE  IInv'
  <1>1. CASE Begin
    BY <1>1, BeginKeepsInv
  <1>2. CASE SolveStep
    <2>1. CASE ReturnSolution
      BY <2>1, SolutionKeepsInv
    <2>2. CASE ReturnErr
      BY <2>2, ErrKeepsInv
    <2>3. CASE ReturnTimeout
      BY <2>3, EndKeepsInv DEF ReturnTimeout
    <2>4. CASE ReturnCancelled
      BY <2>4, EndKeepsInv DEF ReturnCancelled
    <2> QED BY <1>2, <2>1, <2>2, <2>3, <2>4 DEF SolveStep
  <1>3. CASE Cancel
    BY <1>3 DEF Cancel, IInv, Types, InOrder, Addressed, Guarded
  <1>4. CASE Submit
    <2>1. PICK page \in 1 .. current : handlers' = handlers \cup {[at |-> page, to |-> current]}
      BY <1>4 DEF Submit
    <2>2. page \in Challenges /\ current \in Challenges
      BY <1>4, CaptchaAssumption DEF Submit, IInv, Types, InOrder, Challenges
    <2> QED BY <1>4, <2>1, <2>2 DEF Submit, IInv, Types, InOrder, Addressed, Guarded
  <1>5. CASE Type
    <2>1. PICK what \in LineKinds :
            terminal' = Append(terminal, [what |-> what, at |-> current])
      BY <1>5 DEF Type
    <2>2. current \in Challenges
      BY <1>5 DEF Type, IInv, InOrder
    <2>3. [what |-> what, at |-> current] \in Lines
      BY <2>2 DEF Lines
    <2>4. typed' \in 0 .. MaxLines
      BY <1>5, CaptchaAssumption DEF Type, IInv, Types
    <2>5. terminal' \in Seq(Lines)
      BY <2>1, <2>3 DEF IInv, Types
    <2> QED BY <1>5, <2>4, <2>5 DEF Type, IInv, Types, InOrder, Addressed, Guarded
  <1>6. ASSUME NEW h \in handlers, SubmitReports(h) PROVE IInv'
    <2>1. h \in [at : Challenges, to : Challenges]
      BY DEF IInv, Types
    <2>2. Token(h) \in ReportsTo(h.to) /\ h.to \in Challenges
      BY <2>1 DEF Token, ReportsTo, Reported
    <2> QED BY <1>6, <2>2, SendKeepsInv DEF SubmitReports, IInv, Types
  <1>7. ASSUME NEW c \in Challenges, ReadLine(c) PROVE IInv'
    BY <1>7, ReadLineKeepsInv
  <1>8. CASE UNCHANGED vars
    BY <1>8 DEF vars, IInv, Types, InOrder, Addressed, Guarded
  <1> QED BY <1>1, <1>2, <1>3, <1>4, <1>5, <1>6, <1>7, <1>8 DEF Next

THEOREM InductiveInvariant == Spec => []IInv
  <1>1. Init => IInv
    BY InitInv
  <1>2. IInv /\ [Next]_vars => IInv'
    BY NextInv
  <1> QED BY <1>1, <1>2, PTL DEF Spec

\* The types hold in every reachable state.
THEOREM CaptchaTypeCorrect == Spec => []CaptchaTypeOK
  <1>1. IInv => CaptchaTypeOK
    <2> SUFFICES ASSUME Types PROVE CaptchaTypeOK
      BY DEF IInv
    <2>1. result \in [Challenges -> Results]
      BY DEF Types
    <2>2. solutionChan \in [Challenges -> Seq(Reports)] /\ errChan \in [Challenges -> Seq(Reports)]
      BY DEF Types
    <2>3. terminal \in Seq([what : LineKinds, at : Challenges])
      BY DEF Types, Lines
    <2>4. handlers \subseteq [at : Challenges, to : Challenges]
      BY DEF Types
    <2>5. /\ current \in 0 .. MaxChallenges /\ typed \in 0 .. MaxLines
          /\ readers \subseteq Challenges /\ once \subseteq Challenges
          /\ waiting \in BOOLEAN /\ cancelled \in BOOLEAN
      BY DEF Types
    <2> QED BY <2>1, <2>2, <2>3, <2>4, <2>5 DEF CaptchaTypeOK
  <1> QED BY <1>1, InductiveInvariant, PTL

\* Page and terminal together report at most once to a call, so that neither
\* ever blocks on a channel the call has stopped reading.
THEOREM AtMostOneReport == Spec => []OneReport
  <1>1. IInv => OneReport
    <2> SUFFICES ASSUME IInv, NEW c \in Challenges
                 PROVE  Len(solutionChan[c]) + Len(errChan[c]) +
                          (IF result[c].kind \in {"token", "skip", "abort"} THEN 1 ELSE 0) <= 1
      BY DEF OneReport
    <2>1. /\ OneAtMost(solutionChan[c], errChan[c], result[c])
          /\ Len(solutionChan[c]) \in Nat /\ Len(errChan[c]) \in Nat
      BY DEF IInv, Guarded, Types
    <2> DEFINE taken == IF result[c].kind \in {"token", "skip", "abort"} THEN 1 ELSE 0
    <2>2. taken \in {0, 1} /\ (taken = 1 => result[c].kind \in Reported)
      BY DEF Reported
    <2> HIDE DEF taken
    <2>3. /\ Len(solutionChan[c]) + Len(errChan[c]) <= 1
          /\ taken = 1 => Len(solutionChan[c]) = 0 /\ Len(errChan[c]) = 0
      BY <2>1, <2>2 DEF OneAtMost
    <2>4. \A m, n \in Nat, t \in {0, 1} :
            m + n <= 1 /\ (t = 1 => m = 0 /\ n = 0) => m + n + t <= 1
      OBVIOUS
    <2>5. Len(solutionChan[c]) + Len(errChan[c]) + taken <= 1
      BY <2>1, <2>2, <2>3, <2>4, Zenon
    <2> QED BY <2>5 DEF taken
  <1> QED BY <1>1, InductiveInvariant, PTL

\* An answer that comes after its call has ended answers no other call.
THEOREM AnswersReachTheirCall == Spec => []LateReportsAreLost
  <1>1. IInv => LateReportsAreLost
    BY DEF IInv, Addressed, LateReportsAreLost
  <1> QED BY <1>1, InductiveInvariant, PTL
=============================================================================
