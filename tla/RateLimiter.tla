---------------------------- MODULE RateLimiter ----------------------------
(***************************************************************************)
(* The token bucket of internal/ratelimit/limiter.go, through which every  *)
(* Discord request passes.  Time is counted in ticks; the bucket gains one *)
(* tick's worth at each tick, and a token is worth Period of them.         *)
(***************************************************************************)
EXTENDS Integers, Sequences

CONSTANTS
  Callers,    \* the goroutines that call Wait
  Period,     \* 1/rate: the ticks in which one token accrues
  Burst,      \* the tokens a full bucket holds
  MaxJitter,  \* the longest delay Jitter adds
  MaxCalls,   \* bound: the calls of Wait in a behaviour
  MaxTime     \* bound: the ticks that pass with no timer running

ASSUME LimiterAssumption ==
  /\ Period \in Nat \ {0}
  /\ Burst \in Nat \ {0}
  /\ MaxJitter \in Nat
  /\ MaxCalls \in Nat
  /\ MaxTime \in Nat

VARIABLES
  now,    \* the monotonic clock
  level,  \* l.tokens, in ticks
  last,   \* l.lastChecked; ahead of now while calls are waiting
  due,    \* due[c]: when the timer of c's Wait fires; 0 outside Wait
  slots   \* history: the time each call was let through or told to wait for

vars == <<now, level, last, due, slots>>

Init ==
  /\ now = 0
  /\ level = Burst * Period
  /\ last = now
  /\ due = [c \in Callers |-> 0]
  /\ slots = <<>>

-----------------------------------------------------------------------------
Tick ==
  /\ now < MaxTime \/ \E c \in Callers : due[c] > now
  /\ now' = now + 1
  /\ UNCHANGED <<level, last, due, slots>>

\* Defect: the bucket overflows.
RefilledUncapped == level + (now - last)

\* The elapsed time is negative while last is ahead: then the result is a debt.
Refilled == LET refilled == level + (now - last)
            IN IF refilled > Burst * Period THEN Burst * Period ELSE refilled

Called(c) == due[c] = 0 /\ Len(slots) < MaxCalls

\* Wait returns at once.
TakeToken(c) ==
  /\ Called(c)
  /\ Refilled >= Period
  /\ level' = Refilled - Period
  /\ last' = now
  /\ slots' = Append(slots, now)
  /\ UNCHANGED <<now, due>>

\* Defect: lastChecked is not moved to the end of the wait.
ReserveUnmoved(c) ==
  /\ Called(c)
  /\ Refilled < Period
  /\ \E jitter \in 0 .. MaxJitter :
       LET slot == now + (Period - Refilled) + jitter
       IN /\ due' = [due EXCEPT ![c] = slot]
          /\ slots' = Append(slots, slot)
  /\ level' = 0 /\ last' = now
  /\ UNCHANGED now

\* Defect: the debt is not cleared.
ReserveIndebted(c) ==
  /\ Called(c)
  /\ Refilled < Period
  /\ \E jitter \in 0 .. MaxJitter : last' = now + (Period - Refilled) + jitter
  /\ level' = Refilled
  /\ due' = [due EXCEPT ![c] = last']
  /\ slots' = Append(slots, last')
  /\ UNCHANGED now

\* Wait takes the next token before it has accrued, and blocks until then.
Reserve(c) ==
  /\ Called(c)
  /\ Refilled < Period
  /\ \E jitter \in 0 .. MaxJitter : last' = now + (Period - Refilled) + jitter
  /\ level' = 0
  /\ due' = [due EXCEPT ![c] = last']
  /\ slots' = Append(slots, last')
  /\ UNCHANGED now

\* Defect: a woken call asks the bucket again, which nobody refills.
WakeRechecks(c) ==
  /\ due[c] > 0 /\ due[c] <= now
  /\ level >= Period
  /\ due' = [due EXCEPT ![c] = 0]
  /\ UNCHANGED <<now, level, last, slots>>

\* The timer fires.
Wake(c) ==
  /\ due[c] > 0 /\ due[c] <= now
  /\ due' = [due EXCEPT ![c] = 0]
  /\ UNCHANGED <<now, level, last, slots>>

\* The context is done first.  The token stays taken.
Cancel(c) ==
  /\ due[c] > now
  /\ due' = [due EXCEPT ![c] = 0]
  /\ UNCHANGED <<now, level, last, slots>>

Next ==
  \/ Tick
  \/ \E c \in Callers : TakeToken(c) \/ Reserve(c) \/ Wake(c) \/ Cancel(c)

\* Time passes and a fired timer wakes its goroutine.
Spec == Init /\ [][Next]_vars /\ WF_vars(Tick) /\ \A c \in Callers : WF_vars(Wake(c))

-----------------------------------------------------------------------------
(* Properties *)

\* Types; the stored level is never a debt and never more than a full bucket.
LimiterTypeOK ==
  /\ now \in Nat /\ last \in Nat
  /\ level \in Nat /\ level <= Burst * Period
  /\ due \in [Callers -> Nat]
  /\ slots \in Seq(Nat)

\* The ticks it takes to accrue the tokens of the calls i to j.
Cost(i, j) == ((j - i) + 1) * Period

\* Between any two calls, however they interleave, wait or are cancelled, no
\* more are let through than a full bucket and the time between them allow:
\* the burst of eight and the requests per second of client.go.
RateBound ==
  \A i, j \in 1 .. Len(slots) :
    i <= j => Cost(i, j) <= Burst * Period + (slots[j] - slots[i])

\* A call is let through in the order of arrival, and a call that still waits
\* is due at most one period and one jitter after now or after the call before
\* it: waiting calls neither pay a debt twice nor lose what has accrued.
LineIsTight ==
  \A i \in 1 .. Len(slots) :
    /\ i > 1 => slots[i - 1] <= slots[i]
    /\ \/ slots[i] <= now + Period + MaxJitter
       \/ i > 1 /\ slots[i] <= slots[i - 1] + Period + MaxJitter

\* "Wait blocks until a token is available": every wait ends.
EveryWaitReturns == \A c \in Callers : due[c] > 0 ~> due[c] = 0
=============================================================================
