------------------------- MODULE RateLimiterProofs -------------------------
(***************************************************************************)
(* The bucket's bounds, for every period, burst, jitter and set of callers. *)
(***************************************************************************)
EXTENDS RateLimiter, TLAPS

Capacity == Burst * Period

\* While calls wait the bucket is empty, and the last slot is where it stands.
LastIsLatest ==
  /\ last > now => level = 0
  /\ slots = <<>> => last <= now
  /\ slots # <<>> => slots[Len(slots)] = last
  /\ \A i \in 1 .. Len(slots) : slots[i] <= last

\* What is left in the bucket and what the calls since i have cost never
\* exceed a full bucket and the time since i: RateBound, up to the present.
Account ==
  \A i \in 1 .. Len(slots) :
    level + Cost(i, Len(slots)) <= Capacity + (last - slots[i])

LimiterInv == LimiterTypeOK /\ LastIsLatest /\ Account /\ RateBound /\ LineIsTight

-----------------------------------------------------------------------------
LEMMA CapacityFits == Capacity \in Nat /\ Capacity >= Period
  BY LimiterAssumption DEF Capacity

LEMMA CostStep ==
  ASSUME NEW i \in Int, NEW j \in Int, NEW k \in Int, k = j + 1
  PROVE  /\ Cost(i, j) \in Int /\ Cost(i, k) \in Int
         /\ Cost(i, k) = Cost(i, j) + Period
  BY LimiterAssumption DEF Cost

LEMMA CostOne ==
  ASSUME NEW i \in Int, NEW j \in Int
  PROVE  Cost(i, j) \in Int /\ Cost(i, i) = Period
  BY LimiterAssumption DEF Cost

LEMMA InitOK == Init => LimiterInv
  <1> SUFFICES ASSUME Init PROVE LimiterInv
    OBVIOUS
  <1>1. LimiterTypeOK
    BY CapacityFits DEF Init, LimiterTypeOK, Capacity
  <1>2. Len(slots) = 0
    BY DEF Init
  <1> QED
    BY <1>1, <1>2 DEF Init, LimiterInv, LastIsLatest, Account, RateBound, LineIsTight

\* What TakeToken and Reserve have in common: a call is let through, or told to
\* wait, at slot; the bucket pays for it, and left is what remains.
LetsThrough(slot, left) ==
  /\ slots' = Append(slots, slot) /\ last' = slot /\ now' = now
  /\ level' = left
  /\ last <= slot /\ now <= slot
  /\ left + Period <= Capacity \/ left = 0
  /\ left + Period <= level + (slot - last)
  /\ slot > now => left = 0
  /\ slot <= now + Period + MaxJitter \/ slot <= last + Period + MaxJitter

LEMMA Appending ==
  ASSUME LimiterInv, NEW slot \in Nat, NEW left \in Nat
  PROVE  LetsThrough(slot, left) => (LastIsLatest /\ Account /\ RateBound /\ LineIsTight)'
  <1>a. SUFFICES ASSUME LetsThrough(slot, left)
                 PROVE  (LastIsLatest /\ Account /\ RateBound /\ LineIsTight)'
    OBVIOUS
  <1>0. PICK n \in Nat, m \in Nat : n = Len(slots) /\ m = n + 1
    BY DEF LimiterInv, LimiterTypeOK
  <1>1. /\ n \in Nat /\ m \in Nat /\ m = n + 1 /\ Len(slots') = m
        /\ \A i \in 1 .. n : slots'[i] = slots[i] /\ slots[i] \in Nat
        /\ slots'[m] = slot
        /\ slots' # <<>>
        /\ IF n > 0 THEN slots # <<>> ELSE slots = <<>>
    BY <1>a, <1>0 DEF LimiterInv, LimiterTypeOK, LetsThrough
  <1>2. /\ now \in Nat /\ last \in Nat /\ level \in Nat /\ left \in Nat /\ slot \in Nat
        /\ Capacity \in Nat /\ Period \in Nat /\ Period <= Capacity /\ MaxJitter \in Nat
    BY <1>a, CapacityFits, LimiterAssumption DEF LimiterInv, LimiterTypeOK, LetsThrough
  <1>3. \A i \in 1 .. n : slots[i] <= last
    BY <1>0 DEF LimiterInv, LastIsLatest
  <1>4. LastIsLatest'
    BY <1>a, <1>0, <1>1, <1>2, <1>3 DEF LastIsLatest, LetsThrough
  <1>5. ASSUME NEW i \in 1 .. m
        PROVE  left + Cost(i, m) <= Capacity + (slot - slots'[i])
    <2>1. CASE i \in 1 .. n
      <3>1. level + Cost(i, n) <= Capacity + (last - slots[i])
        BY <1>0, <2>1 DEF LimiterInv, Account
      <3>2. Cost(i, m) = Cost(i, n) + Period /\ Cost(i, n) \in Int
        <4>1. i \in Int /\ n \in Int /\ m \in Int /\ m = n + 1
          BY <1>1, <2>1
        <4> QED
          BY <4>1, CostStep
      <3>3. slots'[i] = slots[i] /\ slots[i] \in Nat
        BY <1>1, <2>1
      <3>4. left + Period <= level + (slot - last)
        BY <1>a DEF LetsThrough
      <3>5. ASSUME NEW x \in Int, NEW y \in Nat, level + x <= Capacity + (last - y)
            PROVE  left + (x + Period) <= Capacity + (slot - y)
        BY <1>2, <3>4, <3>5
      <3> QED
        BY <3>1, <3>2, <3>3, <3>5, Zenon
    <2>2. CASE i = m
      <3>1. m \in Int
        BY <1>1
      <3>2. Cost(i, m) = Period
        BY <2>2, <3>1, CostOne
      <3>3. slots'[i] = slot
        BY <1>1, <2>2
      <3>4. left + Period <= Capacity \/ left = 0
        BY <1>a DEF LetsThrough
      <3>5. left + Period <= Capacity + (slot - slot)
        BY <1>2, <3>4
      <3> QED
        BY <3>2, <3>3, <3>5, Zenon
    <2> QED
      BY <1>1, <2>1, <2>2
  <1>6. Account'
    BY <1>a, <1>0, <1>1, <1>5 DEF Account, Cost, Capacity, LetsThrough
  <1>7. RateBound'
    <2> SUFFICES ASSUME NEW i \in 1 .. m, NEW j \in 1 .. m, i <= j
                 PROVE  Cost(i, j) <= Capacity + (slots'[j] - slots'[i])
      BY <1>0, <1>1 DEF RateBound, Cost, Capacity
    <2>1. CASE j \in 1 .. n
      <3>1. i \in 1 .. n
        BY <1>1, <2>1
      <3>2. Cost(i, j) <= Capacity + (slots[j] - slots[i])
        BY <1>0, <2>1, <3>1 DEF LimiterInv, RateBound, Capacity
      <3> QED
        BY <1>1, <2>1, <3>1, <3>2
    <2>2. CASE j = m
      <3>1. i \in Int /\ j \in Int /\ slots'[j] = slot
        BY <1>1, <2>2
      <3>2. slots'[i] \in Nat
        BY <1>1, <1>2
      <3>3. Cost(i, j) \in Int
        BY <3>1, CostOne
      <3>4. left + Cost(i, j) <= Capacity + (slot - slots'[i])
        BY <1>5, <2>2
      <3> QED
        BY <1>2, <3>1, <3>2, <3>3, <3>4
    <2> QED
      BY <1>1, <2>1, <2>2
  <1>8. LineIsTight'
    <2> SUFFICES ASSUME NEW i \in 1 .. m
                 PROVE  /\ i > 1 => slots'[i - 1] <= slots'[i]
                        /\ \/ slots'[i] <= now + Period + MaxJitter
                           \/ i > 1 /\ slots'[i] <= slots'[i - 1] + Period + MaxJitter
      BY <1>a, <1>0, <1>1 DEF LineIsTight, LetsThrough
    <2>1. CASE i \in 1 .. n
      <3>1. /\ i > 1 => slots[i - 1] <= slots[i]
            /\ \/ slots[i] <= now + Period + MaxJitter
               \/ i > 1 /\ slots[i] <= slots[i - 1] + Period + MaxJitter
        BY <1>0, <2>1 DEF LimiterInv, LineIsTight
      <3>2. i > 1 => i - 1 \in 1 .. n
        BY <1>1, <2>1
      <3> QED
        BY <1>1, <2>1, <3>1, <3>2
    <2>2. CASE i = m
      <3>1. n > 0 => slots'[i - 1] = last
        BY <1>0, <1>1, <2>2 DEF LimiterInv, LastIsLatest
      <3>2. n = 0 => last <= now
        BY <1>1 DEF LimiterInv, LastIsLatest
      <3>3. slots'[i] = slot /\ (i > 1 <=> n > 0) /\ n \in Nat
        BY <1>1, <2>2
      <3>4. /\ last <= slot
            /\ slot <= now + Period + MaxJitter \/ slot <= last + Period + MaxJitter
        BY <1>a DEF LetsThrough
      <3>5. CASE n = 0
        BY <1>2, <3>2, <3>3, <3>4, <3>5
      <3>6. CASE n > 0
        BY <1>2, <3>1, <3>3, <3>4, <3>6
      <3> QED
        BY <3>3, <3>5, <3>6
    <2> QED
      BY <1>1, <2>1, <2>2
  <1> QED
    BY <1>4, <1>6, <1>7, <1>8

-----------------------------------------------------------------------------
LEMMA TakeTokenOK ==
  ASSUME LimiterInv, NEW c \in Callers, TakeToken(c)
  PROVE  LimiterInv'
  <1> USE DEF LimiterInv, LimiterTypeOK
  <1>1. /\ Capacity \in Nat /\ Period \in Nat \ {0}
        /\ Refilled <= Capacity /\ Refilled <= level + (now - last)
        /\ Refilled \in Int /\ Refilled >= Period
    BY CapacityFits, LimiterAssumption DEF Refilled, Capacity, TakeToken
  <1>2. last <= now
    BY <1>1 DEF LastIsLatest
  <1>3. LimiterTypeOK'
    BY <1>1 DEF TakeToken, Capacity
  <1>4. (LastIsLatest /\ Account /\ RateBound /\ LineIsTight)'
    <2> DEFINE left == Refilled - Period
    <2>1. /\ left \in Nat /\ level' = left
          /\ left + Period <= Capacity /\ left + Period <= level + (now - last)
      BY <1>1 DEF TakeToken
    <2> HIDE DEF left
    <2>2. now <= now + Period + MaxJitter
      BY LimiterAssumption
    <2> QED
      BY <1>2, <1>3, <2>1, <2>2, Appending DEF TakeToken, LetsThrough
  <1> QED
    BY <1>3, <1>4

LEMMA ReserveOK ==
  ASSUME LimiterInv, NEW c \in Callers, Reserve(c)
  PROVE  LimiterInv'
  <1> USE DEF LimiterInv, LimiterTypeOK
  <1>1. PICK jitter \in 0 .. MaxJitter : last' = now + (Period - Refilled) + jitter
    BY DEF Reserve
  <1> DEFINE slot == now + (Period - Refilled) + jitter
  <1>2. /\ Capacity \in Nat /\ Period \in Nat \ {0} /\ MaxJitter \in Nat /\ jitter \in Nat
        /\ Refilled <= level + (now - last)
        /\ Refilled \in Int /\ Refilled < Period
        /\ Refilled < 0 => Refilled = level + (now - last)
    BY CapacityFits, LimiterAssumption DEF Refilled, Capacity, Reserve
  <1>3. last <= slot /\ now <= slot /\ slot \in Nat
    <2>1. CASE last > now
      BY <1>2, <2>1 DEF LastIsLatest
    <2>2. CASE last <= now
      BY <1>2, <2>2
    <2> QED
      BY <2>1, <2>2
  <1>4. LimiterTypeOK'
    BY <1>1, <1>2, <1>3 DEF Reserve, Capacity
  <1>5. (LastIsLatest /\ Account /\ RateBound /\ LineIsTight)'
    <2>1. 0 + Period <= level + (slot - last)
      BY <1>2
    <2>2. slot <= now + Period + MaxJitter \/ slot <= last + Period + MaxJitter
      BY <1>2 DEF LastIsLatest
    <2>3. slots' = Append(slots, slot) /\ now' = now /\ last' = slot /\ level' = 0
      BY <1>1 DEF Reserve
    <2>4. LetsThrough(slot, 0)
      BY <1>3, <2>1, <2>2, <2>3 DEF LetsThrough
    <2> QED
      BY <1>3, <2>4, Appending
  <1> QED
    BY <1>4, <1>5

\* No other step touches the bucket, and time only makes room.
LEMMA OtherOK ==
  ASSUME LimiterInv, now' \in Nat, now' >= now, due' \in [Callers -> Nat],
         UNCHANGED <<level, last, slots>>
  PROVE  LimiterInv'
  <1> USE DEF LimiterInv, LimiterTypeOK
  <1>1. LimiterTypeOK' /\ LastIsLatest'
    BY DEF LastIsLatest
  <1>2. Account' /\ RateBound'
    BY DEF Account, RateBound
  <1>3. LineIsTight'
    BY LimiterAssumption DEF LineIsTight
  <1> QED
    BY <1>1, <1>2, <1>3

LEMMA NextOK == LimiterInv /\ [Next]_vars => LimiterInv'
  <1> SUFFICES ASSUME LimiterInv, [Next]_vars PROVE LimiterInv'
    OBVIOUS
  <1> USE DEF LimiterInv, LimiterTypeOK
  <1>1. CASE Tick
    BY <1>1, OtherOK DEF Tick
  <1>2. ASSUME NEW c \in Callers, TakeToken(c) PROVE LimiterInv'
    BY <1>2, TakeTokenOK
  <1>3. ASSUME NEW c \in Callers, Reserve(c) PROVE LimiterInv'
    BY <1>3, ReserveOK
  <1>4. ASSUME NEW c \in Callers, Wake(c) \/ Cancel(c) PROVE LimiterInv'
    BY <1>4, OtherOK DEF Wake, Cancel
  <1>5. CASE UNCHANGED vars
    BY <1>5, OtherOK DEF vars
  <1> QED
    BY <1>1, <1>2, <1>3, <1>4, <1>5 DEF Next

LEMMA LimiterInvariant == Spec => []LimiterInv
  BY InitOK, NextOK, PTL DEF Spec

-----------------------------------------------------------------------------
\* Between any two calls no more are let through than a full bucket and the
\* time between them allow (limiter.go, Wait), for any rate, burst and jitter.
THEOREM RateIsBounded == Spec => []RateBound
  <1>1. LimiterInv => RateBound
    BY DEF LimiterInv
  <1> QED
    BY <1>1, LimiterInvariant, PTL

\* Calls are let through in order, and the line of waiting calls has no gap
\* longer than one period and one jitter, although waiters may give up.
THEOREM LineStaysTight == Spec => []LineIsTight
  <1>1. LimiterInv => LineIsTight
    BY DEF LimiterInv
  <1> QED
    BY <1>1, LimiterInvariant, PTL

\* The bucket never holds a debt nor more than the burst.
THEOREM LimiterTypeCorrect == Spec => []LimiterTypeOK
  <1>1. LimiterInv => LimiterTypeOK
    BY DEF LimiterInv
  <1> QED
    BY <1>1, LimiterInvariant, PTL
=============================================================================
