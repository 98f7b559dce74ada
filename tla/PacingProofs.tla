---------------------------- MODULE PacingProofs ----------------------------
(***************************************************************************)
(* What the pauses of the walk do achieve, for any settings, visits and    *)
(* number of servers: joins are spaced by the configured minimum, and so   *)
(* the hourly maximum is kept only when that minimum alone keeps it.       *)
(***************************************************************************)
EXTENDS Pacing, TLAPS

\* Settings are integers, delays are in seconds, and visits take time.
PacingTypes ==
  /\ Configured \in [joinDelay : Int \X Int, maxJoinsPerHour : Int]
  /\ VisitTimes \subseteq Nat
  /\ Hour \in Int

Pause == cfg.joinDelay[1]

\* Between two joins there are as many pauses as joins to go.
JoinsAreSpaced ==
  \A i, j \in DOMAIN joins : i <= j => joins[j] - joins[i] >= (j - i) * Pause

\* How long ago the joins were: the pause after the last one is still to come
\* during the cooldown, and over when the walk goes on.
PausesTaken ==
  \A i \in DOMAIN joins :
    /\ at = "walk" => now - joins[i] >= (Len(joins) + 1 - i) * Pause
    /\ at = "cooldown" => now - joins[i] >= (Len(joins) - i) * Pause

PacingInv ==
  /\ Accepted(Configured)
  /\ at \in {"walk", "cooldown", "done"}
  /\ now \in Int /\ joins \in Seq(Int)
  /\ JoinsAreSpaced
  /\ PausesTaken

\* The settings the engine works with, after Validate.
LEMMA SettingsInUse ==
  ASSUME PacingTypes, Accepted(Configured)
  PROVE  /\ Pause \in Nat
         /\ cfg.maxJoinsPerHour \in Nat \ {0}
         /\ \A d \in Delays : d \in Int /\ d >= Pause
  <1>1. /\ Configured.joinDelay \in Int \X Int
        /\ Configured.maxJoinsPerHour \in Int
    BY DEF PacingTypes
  <1>2. /\ cfg.joinDelay = Configured.joinDelay
        /\ cfg.maxJoinsPerHour = IF Configured.maxJoinsPerHour <= 0 THEN DefaultMaxJoins
                                 ELSE Configured.maxJoinsPerHour
    BY DEF cfg, Validated, PacingTypes
  <1>3. Pause \in Nat /\ cfg.joinDelay[2] \in Int
    BY <1>1, <1>2 DEF Accepted, Pause
  <1>4. cfg.maxJoinsPerHour \in Nat \ {0}
    BY <1>1, <1>2 DEF DefaultMaxJoins
  <1>5. ASSUME NEW d \in Delays PROVE d \in Int /\ d >= Pause
    BY <1>3 DEF Delays, Pause
  <1>. QED
    BY <1>3, <1>4, <1>5

\* One pause more, for a product the solver does not take apart.
LEMMA OneMore ==
  ASSUME NEW k \in Int, NEW p \in Int
  PROVE  /\ (k + 1) * p = k * p + p
         /\ k * p \in Int
  OBVIOUS

\* A join that comes after every pause so far extends the spacing.
LEMMA JoinSpaced ==
  ASSUME NEW s \in Seq(Int), NEW t \in Int, NEW p \in Nat,
         \A i, j \in DOMAIN s : i <= j => s[j] - s[i] >= (j - i) * p,
         \A i \in DOMAIN s : t - s[i] >= (Len(s) + 1 - i) * p
  PROVE  \A i, j \in DOMAIN Append(s, t) : i <= j =>
           Append(s, t)[j] - Append(s, t)[i] >= (j - i) * p
  <1>1. /\ DOMAIN s = 1 .. Len(s) /\ Len(s) \in Nat
        /\ DOMAIN Append(s, t) = 1 .. (Len(s) + 1)
        /\ Append(s, t)[Len(s) + 1] = t
        /\ \A i \in 1 .. Len(s) : Append(s, t)[i] = s[i] /\ s[i] \in Int
    OBVIOUS
  <1>2. ASSUME NEW i \in 1 .. (Len(s) + 1), NEW j \in 1 .. (Len(s) + 1), i <= j
        PROVE  Append(s, t)[j] - Append(s, t)[i] >= (j - i) * p
    <2>1. CASE j <= Len(s)
      <3>1. i \in DOMAIN s /\ j \in DOMAIN s
        BY <1>1, <1>2, <2>1
      <3>2. s[j] - s[i] >= (j - i) * p
        BY <1>2, <3>1
      <3>3. Append(s, t)[i] = s[i] /\ Append(s, t)[j] = s[j]
        BY <1>1, <3>1
      <3>. QED
        BY <3>2, <3>3
    <2>2. CASE j = Len(s) + 1 /\ i <= Len(s)
      <3>1. i \in DOMAIN s
        BY <1>1, <1>2, <2>2
      <3>2. t - s[i] >= (Len(s) + 1 - i) * p
        BY <3>1
      <3>3. Append(s, t)[i] = s[i] /\ Append(s, t)[j] = t
        BY <1>1, <2>2, <3>1
      <3>. QED
        BY <2>2, <3>2, <3>3
    <2>3. CASE j = Len(s) + 1 /\ i = Len(s) + 1
      <3>1. (j - i) * p = 0
        BY <1>1, <2>3
      <3>. QED
        BY <1>1, <2>3, <3>1
    <2>. QED
      BY <1>1, <1>2, <2>1, <2>2, <2>3
  <1>. QED
    BY <1>1, <1>2

LEMMA PacingInit == Init => PacingInv
  <1>1. <<>> \in Seq(Int) /\ DOMAIN <<>> = {}
    OBVIOUS
  <1>. QED
    BY <1>1 DEF Init, PacingInv, JoinsAreSpaced, PausesTaken

LEMMA ProcessServerSpaced ==
  ASSUME PacingTypes, PacingInv, ProcessServer
  PROVE  PacingInv'
  <1>1. /\ Pause \in Nat /\ at = "walk" /\ now \in Int /\ joins \in Seq(Int)
        /\ at' \in {"cooldown", "done"} /\ Len(joins) \in Nat
    BY SettingsInUse DEF PacingInv, ProcessServer
  <1>2. /\ \A i, j \in DOMAIN joins : i <= j => joins[j] - joins[i] >= (j - i) * Pause
        /\ \A i \in DOMAIN joins : /\ now - joins[i] >= (Len(joins) + 1 - i) * Pause
                                   /\ i \in 1 .. Len(joins) /\ joins[i] \in Int
    BY <1>1 DEF PacingInv, JoinsAreSpaced, PausesTaken
  <1>3. PICK spent \in VisitTimes :
          /\ now' = now + spent
          /\ joins' \in {joins} \cup {Append(joins, now + t) : t \in 0 .. spent}
    BY DEF ProcessServer
  <1>4. spent \in Nat
    BY DEF PacingTypes
  <1>5. CASE joins' = joins
    <2>1. ASSUME NEW i \in DOMAIN joins
          PROVE  now' - joins[i] >= (Len(joins) - i) * Pause
      <3>1. (Len(joins) - i + 1) * Pause = (Len(joins) - i) * Pause + Pause
        BY <1>1, <1>2, OneMore
      <3>2. Len(joins) - i + 1 = Len(joins) + 1 - i
        BY <1>1, <1>2
      <3>3. (Len(joins) - i) * Pause \in Int
        BY <1>1, <1>2, OneMore
      <3>. QED
        BY <1>1, <1>2, <1>3, <1>4, <3>1, <3>2, <3>3
    <2>2. JoinsAreSpaced'
      BY <1>2, <1>5 DEF JoinsAreSpaced, Pause
    <2>3. PausesTaken'
      BY <1>1, <1>5, <2>1 DEF PausesTaken, Pause
    <2>. QED
      BY <1>1, <1>3, <1>4, <1>5, <2>2, <2>3 DEF PacingInv, Accepted
  <1>6. ASSUME NEW t \in 0 .. spent, joins' = Append(joins, now + t)
        PROVE  PacingInv'
    <2>1. PICK u \in Int : u = now + t
      BY <1>1, <1>4
    <2>2. \A i, j \in DOMAIN joins' : i <= j => joins'[j] - joins'[i] >= (j - i) * Pause
      <3>1. ASSUME NEW i \in DOMAIN joins
            PROVE  u - joins[i] >= (Len(joins) + 1 - i) * Pause
        <4>1. (Len(joins) + 1 - i) * Pause \in Int
          BY <1>1, <1>2, OneMore
        <4>. QED
          BY <1>1, <1>2, <2>1, <4>1
      <3>2. joins' = Append(joins, u)
        BY <1>6, <2>1
      <3>3. \A i, j \in DOMAIN Append(joins, u) : i <= j =>
              Append(joins, u)[j] - Append(joins, u)[i] >= (j - i) * Pause
        BY <1>1, <1>2, <3>1, JoinSpaced
      <3>. QED
        BY <3>2, <3>3
    <2>3. /\ Len(joins') = Len(joins) + 1 /\ DOMAIN joins' = 1 .. (Len(joins) + 1)
          /\ joins' \in Seq(Int) /\ joins'[Len(joins')] = now + t
      BY <1>1, <1>6
    <2>4. ASSUME NEW i \in DOMAIN joins'
          PROVE  now' - joins'[i] >= (Len(joins') - i) * Pause
      <3>1. Len(joins') \in DOMAIN joins' /\ i <= Len(joins')
        BY <1>1, <2>3
      <3>2. joins'[Len(joins')] - joins'[i] >= (Len(joins') - i) * Pause
        BY <2>2, <3>1
      <3>3. (Len(joins') - i) * Pause \in Int /\ joins'[i] \in Int
        BY <1>1, <2>3, OneMore
      <3>. QED
        BY <1>1, <1>3, <1>4, <2>3, <3>2, <3>3
    <2>5. JoinsAreSpaced'
      BY <2>2 DEF JoinsAreSpaced, Pause
    <2>6. PausesTaken'
      BY <1>1, <2>4 DEF PausesTaken, Pause
    <2>. QED
      BY <1>1, <1>3, <1>4, <2>3, <2>5, <2>6 DEF PacingInv, Accepted
  <1>. QED
    BY <1>3, <1>5, <1>6

LEMMA CooldownSpaced ==
  ASSUME PacingTypes, PacingInv, Cooldown
  PROVE  PacingInv'
  <1>1. /\ Pause \in Nat /\ at = "cooldown" /\ at' = "walk" /\ joins' = joins
        /\ now \in Int /\ joins \in Seq(Int) /\ Len(joins) \in Nat
    BY SettingsInUse DEF PacingInv, Cooldown
  <1>2. now' \in Int /\ now' >= now + Pause
    BY <1>1, SettingsInUse DEF PacingInv, Cooldown
  <1>3. ASSUME NEW i \in DOMAIN joins
        PROVE  now' - joins[i] >= (Len(joins) + 1 - i) * Pause
    <2>1. now - joins[i] >= (Len(joins) - i) * Pause /\ i \in Int /\ joins[i] \in Int
      BY <1>1 DEF PacingInv, PausesTaken
    <2>2. /\ (Len(joins) - i + 1) * Pause = (Len(joins) - i) * Pause + Pause
          /\ (Len(joins) - i) * Pause \in Int
      BY <1>1, <2>1, OneMore
    <2>3. Len(joins) - i + 1 = Len(joins) + 1 - i
      BY <1>1, <2>1
    <2>. QED
      BY <1>1, <1>2, <2>1, <2>2, <2>3
  <1>4. JoinsAreSpaced'
    BY <1>1 DEF PacingInv, JoinsAreSpaced, Pause
  <1>5. PausesTaken'
    BY <1>1, <1>3 DEF PausesTaken, Pause
  <1>. QED
    BY <1>1, <1>2, <1>4, <1>5 DEF PacingInv, Accepted

LEMMA PacingStep ==
  ASSUME PacingTypes, PacingInv, [Next]_vars
  PROVE  PacingInv'
  <1>1. CASE WalkEnds
    BY <1>1 DEF WalkEnds, PacingInv, JoinsAreSpaced, PausesTaken, Pause, Accepted
  <1>2. CASE Cancel
    BY <1>2 DEF Cancel, PacingInv, JoinsAreSpaced, PausesTaken, Pause, Accepted
  <1>3. CASE UNCHANGED vars
    BY <1>3 DEF vars, PacingInv, JoinsAreSpaced, PausesTaken, Pause, Accepted
  <1>. QED
    BY <1>1, <1>2, <1>3, ProcessServerSpaced, CooldownSpaced DEF Next

LEMMA WalkIsPaced == ASSUME PacingTypes PROVE Spec => []PacingInv
  BY PacingInit, PacingStep, PTL DEF Spec

\* Whatever a visit takes and however many fail, two joins are as far apart as
\* the pauses between them: nothing else slows the engine down.
THEOREM JoinsKeepTheirDistance == ASSUME PacingTypes PROVE Spec => []JoinsAreSpaced
  <1>1. PacingInv => JoinsAreSpaced
    BY DEF PacingInv
  <1>. QED
    BY <1>1, WalkIsPaced, PTL

\* The maximum per hour, which the engine never looks at, is kept when the
\* least pause is long enough to keep it by itself.
THEOREM LongPausesKeepTheMaximum ==
  ASSUME PacingTypes, cfg.maxJoinsPerHour * Pause >= Hour
  PROVE  Spec => []JoinsPerHour
  <1>1. ASSUME PacingInv PROVE JoinsPerHour
    <2>1. ASSUME NEW n \in DOMAIN joins, n + cfg.maxJoinsPerHour \in DOMAIN joins
          PROVE  joins[n + cfg.maxJoinsPerHour] - joins[n] >= Hour
      <3> DEFINE k == cfg.maxJoinsPerHour
      <3>1. Pause \in Nat /\ k \in Nat /\ joins \in Seq(Int)
        BY <1>1, SettingsInUse DEF PacingInv
      <3>2. n \in Int /\ n <= n + k /\ (n + k) - n = k
        BY <3>1
      <3>3. joins[n + k] - joins[n] >= ((n + k) - n) * Pause
        BY <1>1, <2>1, <3>2 DEF PacingInv, JoinsAreSpaced
      <3>4. joins[n + k] - joins[n] >= k * Pause
        BY <3>2, <3>3
      <3>5. k * Pause \in Int /\ k * Pause >= Hour /\ Hour \in Int
        BY <3>1, OneMore DEF PacingTypes
      <3>6. joins[n + k] \in Int /\ joins[n] \in Int
        BY <2>1, <3>1
      <3> HIDE DEF k
      <3>7. joins[n + k] - joins[n] >= Hour
        BY <3>4, <3>5, <3>6
      <3>. QED
        BY <3>7 DEF k
    <2>. QED
      BY <2>1 DEF JoinsPerHour
  <1>. QED
    BY <1>1, WalkIsPaced, PTL
=============================================================================
