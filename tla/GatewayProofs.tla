--------------------------- MODULE GatewayProofs ---------------------------
(***************************************************************************)
(* The lock of the gateway session is used as a lock should be, and what   *)
(* follows from it for g.conn and the session id.  The inductive invariant *)
(* says who holds the lock by where the goroutines are.  From the same     *)
(* invariant: the first heartbeat never gets past the lock it took itself. *)
(***************************************************************************)
EXTENDS Gateway, TLAPS

ConnectorPlaces == {"dial", "dialed", "hello", "done"}
HeartPlaces == {"notStarted", "select", "lock", "quit", "rlock", "done"}
ReaderPlaces == {"notStarted", "select", "load", "read", "panicked", "done", "lockSequence",
                 "lockSession", "setSequence", "setSession"}
EnginePlaces == {"working", "rlock", "reading", "lock", "closing", "closed", "exited"}

Places ==
  /\ pc \in [Procs -> ConnectorPlaces \cup HeartPlaces \cup ReaderPlaces \cup EnginePlaces]
  /\ pc[Connector] \in ConnectorPlaces
  /\ pc[Heart] \in HeartPlaces
  /\ pc[Reader] \in ReaderPlaces
  /\ pc[Engine] \in EnginePlaces

Flags ==
  /\ conn \in {"nil", "set"} /\ socket \in {"none", "open", "closed"}
  /\ cancelSet \in BOOLEAN /\ cancelled \in BOOLEAN
  /\ ready \in BOOLEAN /\ sessionID \in BOOLEAN

\* Who holds what can be told from where the goroutines are.
Holds ==
  /\ holder \subseteq {Heart, Reader, Engine}
  /\ Heart \in holder <=> pc[Heart] \in {"quit", "rlock"}
  /\ Reader \in holder <=> pc[Reader] \in {"setSequence", "setSession"}
  /\ Engine \in holder <=> pc[Engine] = "closing"
  /\ readers \subseteq {Engine}
  /\ Engine \in readers <=> pc[Engine] = "reading"

Excludes ==
  /\ holder = {} \/ readers = {}
  /\ \A p, q \in holder : p = q

\* The loops start once the connection is set, and it is Close that resets it.
ConnTaken ==
  /\ socket = "open" => conn = "set"
  /\ pc[Reader] # "notStarted" \/ pc[Heart] # "notStarted" => pc[Connector] = "done"
  /\ pc[Reader] # "notStarted" /\ conn = "nil" => pc[Engine] \in {"closed", "exited"}
  /\ pc[Heart] = "rlock" => conn = "set"
  /\ pc[Reader] = "panicked" => pc[Engine] = "closed"

\* What the read loop handles under the lock came after READY.
SessionTaken ==
  /\ sessionID => ready
  /\ pc[Reader] \in {"lockSequence", "setSequence", "lockSession", "setSession"} => ready

IInv == Places /\ Flags /\ Holds /\ Excludes /\ ConnTaken /\ SessionTaken

LEMMA InitInv == Init => IInv
  BY GoroutinesAssumption
     DEF Init, IInv, Places, Flags, Holds, Excludes, ConnTaken, SessionTaken, Procs,
         ConnectorPlaces, HeartPlaces, ReaderPlaces, EnginePlaces

USE GoroutinesAssumption DEF
  IInv, Places, Flags, Holds, Excludes, ConnTaken, SessionTaken, Procs,
  ConnectorPlaces, HeartPlaces, ReaderPlaces, EnginePlaces, Running, Goto,
  Lock, Unlock, RLock, RUnlock

LEMMA ConnectorKeepsInv ==
  ASSUME IInv, ConnectorStep
  PROVE  IInv'
  <1>1. CASE DialFails
    BY <1>1 DEF DialFails
  <1>2. CASE Dial
    BY <1>2 DEF Dial
  <1>3. CASE SetCancel
    BY <1>3 DEF SetCancel
  <1>4. CASE HandshakeFails
    BY <1>4 DEF HandshakeFails
  <1>5. CASE Handshake
    BY <1>5 DEF Handshake
  <1> QED BY <1>1, <1>2, <1>3, <1>4, <1>5 DEF ConnectorStep

LEMMA HeartKeepsInv ==
  ASSUME IInv, HeartStep
  PROVE  IInv'
  <1>1. CASE HeartStops
    BY <1>1 DEF HeartStops
  <1>2. CASE Tick
    BY <1>2 DEF Tick
  <1>3. CASE HeartLocks
    BY <1>3 DEF HeartLocks
  <1>4. CASE HeartQuits
    BY <1>4 DEF HeartQuits
  <1> QED BY <1>1, <1>2, <1>3, <1>4 DEF HeartStep

LEMMA ReaderKeepsInv ==
  ASSUME IInv, ReaderStep
  PROVE  IInv'
  <1>1. CASE ReaderStops
    BY <1>1 DEF ReaderStops
  <1>2. CASE ReaderGoesOn
    BY <1>2 DEF ReaderGoesOn
  <1>3. CASE ReaderLoadsConn
    BY <1>3 DEF ReaderLoadsConn
  <1>4. CASE ReadFails
    BY <1>4 DEF ReadFails
  <1>5. CASE ReadDispatch
    BY <1>5 DEF ReadDispatch
  <1>6. CASE ReadOther
    BY <1>6 DEF ReadOther
  <1>7. CASE ReaderLocks
    BY <1>7 DEF ReaderLocks
  <1>8. CASE ReaderSetsSequence
    BY <1>8 DEF ReaderSetsSequence
  <1>9. CASE ReaderSetsSession
    BY <1>9 DEF ReaderSetsSession
  <1> QED BY <1>1, <1>2, <1>3, <1>4, <1>5, <1>6, <1>7, <1>8, <1>9 DEF ReaderStep

\* The heartbeat waits at "rlock" with the write lock in its own hands.
LEMMA ReadStepKeepsInv ==
  ASSUME IInv, NEW p \in {Heart, Engine}, RLocks(p) \/ Reads(p)
  PROVE  IInv'
  <1>1. CASE RLocks(p)
    <2>1. p = Engine
      BY <1>1 DEF RLocks
    <2> QED BY <1>1, <2>1 DEF RLocks
  <1>2. CASE Reads(p)
    <2>1. p = Engine
      BY <1>2 DEF Reads
    <2> QED BY <1>2, <2>1 DEF Reads
  <1> QED BY <1>1, <1>2

LEMMA EngineKeepsInv ==
  ASSUME IInv, EngineStep
  PROVE  IInv'
  <1>1. CASE AskSession
    BY <1>1 DEF AskSession
  <1>2. CASE Close
    BY <1>2 DEF Close
  <1>3. CASE CloseLocks
    BY <1>3 DEF CloseLocks
  <1>4. CASE CloseConn
    BY <1>4 DEF CloseConn
  <1>5. CASE Exit
    BY <1>5 DEF Exit
  <1> QED BY <1>1, <1>2, <1>3, <1>4, <1>5 DEF EngineStep

LEMMA NextInv ==
  ASSUME IInv, [Next]_vars
  PROVE  IInv'
  <1>1. CASE ConnectorStep
    BY <1>1, ConnectorKeepsInv
  <1>2. CASE HeartStep
    BY <1>2, HeartKeepsInv
  <1>3. CASE ReaderStep
    BY <1>3, ReaderKeepsInv
  <1>4. CASE ReadStep
    BY <1>4, ReadStepKeepsInv DEF ReadStep
  <1>5. CASE EngineStep
    BY <1>5, EngineKeepsInv
  <1>6. CASE UNCHANGED vars
    BY <1>6 DEF vars
  <1> QED BY <1>1, <1>2, <1>3, <1>4, <1>5, <1>6 DEF Next

HIDE DEF IInv, Goto, Running, Lock, Unlock, RLock, RUnlock

THEOREM InductiveInvariant == Spec => []IInv
  <1>1. Init => IInv
    BY InitInv
  <1>2. IInv /\ [Next]_vars => IInv'
    BY NextInv
  <1> QED BY <1>1, <1>2, PTL DEF Spec

\* The types hold in every reachable state, and the RWMutex never lets a
\* writer in together with a reader or with another writer.
THEOREM GatewayTypeCorrect == Spec => []GatewayTypeOK
  <1>1. IInv => GatewayTypeOK
    BY DEF IInv, GatewayTypeOK
  <1> QED BY <1>1, InductiveInvariant, PTL

\* The connection is taken away by Close alone, under the lock of the
\* heartbeat, and found missing by the read loop only after it.
THEOREM ConnTakenByClose == Spec => []NilConnOnlyAfterClose
  <1>1. IInv => NilConnOnlyAfterClose
    BY DEF IInv, NilConnOnlyAfterClose
  <1> QED BY <1>1, InductiveInvariant, PTL

\* The engine never reads a session id that no READY event gave, nor one the
\* read loop is about to write.
THEOREM SessionIDIsOfReady == Spec => []SessionIDIsReal
  <1>1. IInv => SessionIDIsReal
    BY DEF IInv, SessionIDIsReal
  <1> QED BY <1>1, InductiveInvariant, PTL

-----------------------------------------------------------------------------
(* The first heartbeat *)

\* heartbeatLoop holds the write lock when it calls getSequence, which wants
\* the read lock: no heartbeat is ever written, in any session.
THEOREM NoHeartbeatIsSent == Spec => [](pc[Heart] # "reading")
  <1>1. IInv => pc[Heart] # "reading"
    BY DEF IInv, Places, HeartPlaces
  <1> QED BY <1>1, InductiveInvariant, PTL

\* No step of anybody moves a heartbeat out of getSequence, and while it is
\* there neither SessionID nor Close comes through.
HeldUp ==
  [][pc[Heart] = "rlock" =>
       /\ pc'[Heart] = "rlock" /\ Heart \in holder'
       /\ pc[Engine] \in {"rlock", "lock"} => pc'[Engine] = pc[Engine]
       /\ pc[Reader] \in {"lockSequence", "lockSession"} => pc'[Reader] = pc[Reader]]_vars

\* The lock a due heartbeat takes is never given back: the read loop stops at
\* its next dispatch and the engine at its next join, or at the end in Close.
THEOREM FirstHeartbeatHangs == Spec => HeldUp
  <1>1. ASSUME IInv, IInv', [Next]_vars, pc[Heart] = "rlock"
        PROVE  /\ pc'[Heart] = "rlock" /\ Heart \in holder'
               /\ pc[Engine] \in {"rlock", "lock"} => pc'[Engine] = pc[Engine]
               /\ pc[Reader] \in {"lockSequence", "lockSession"} => pc'[Reader] = pc[Reader]
    <2>1. Heart \in holder /\ pc \in [Procs -> ConnectorPlaces \cup HeartPlaces \cup ReaderPlaces \cup EnginePlaces]
      BY <1>1 DEF IInv, Holds, Places
    <2> USE GoroutinesAssumption DEF Procs, Goto, Lock, RLock, Running
    <2>2. CASE ConnectorStep
      <3>1. pc[Connector] # "done" => pc[Heart] = "notStarted"
        BY <1>1 DEF IInv, ConnTaken
      <3>2. pc'[Heart] = "rlock"
        BY <1>1, <2>1, <2>2, <3>1
           DEF ConnectorStep, DialFails, Dial, SetCancel, HandshakeFails, Handshake
      <3>. QED
        BY <1>1, <2>1, <2>2, <3>1
           DEF ConnectorStep, DialFails, Dial, SetCancel, HandshakeFails, Handshake
    <2>3. CASE HeartStep
      BY <1>1, <2>3 DEF HeartStep, HeartStops, Tick, HeartLocks, HeartQuits
    <2>4. CASE ReaderStep
      <3>1. Heart \in holder' /\ pc'[Heart] = "rlock"
        BY <2>1, <2>4, <1>1 DEF ReaderStep, ReaderStops, ReaderGoesOn, ReaderLoadsConn, ReadFails, ReadDispatch,
             ReadOther, ReaderLocks, ReaderSetsSequence, ReaderSetsSession, Unlock
      <3>2. pc'[Engine] = pc[Engine]
        BY <2>1, <2>4 DEF ReaderStep, ReaderStops, ReaderGoesOn, ReaderLoadsConn, ReadFails, ReadDispatch,
             ReadOther, ReaderLocks, ReaderSetsSequence, ReaderSetsSession
      <3>3. pc[Reader] \notin {"lockSequence", "lockSession"}
        BY <2>1, <2>4 DEF ReaderStep, ReaderStops, ReaderGoesOn, ReaderLoadsConn, ReadFails, ReadDispatch,
             ReadOther, ReaderLocks, ReaderSetsSequence, ReaderSetsSession
      <3>. QED
        BY <3>1, <3>2, <3>3
    <2>5. CASE ReadStep
      <3>1. PICK p \in {Heart, Engine} : RLocks(p) \/ Reads(p)
        BY <2>5 DEF ReadStep
      <3>2. Reads(p) /\ pc[p] = "reading"
        BY <2>1, <3>1 DEF RLocks, Reads
      <3>3. p = Engine
        BY <1>1, <3>2
      <3>4. pc'[Heart] = "rlock" /\ pc'[Reader] = pc[Reader] /\ holder' = holder \ {Engine}
        BY <1>1, <2>1, <3>2, <3>3 DEF Reads
      <3>. QED
        BY <2>1, <3>2, <3>3, <3>4
    <2>6. CASE EngineStep
      <3>1. Heart \in holder' /\ pc'[Heart] = "rlock" /\ pc'[Reader] = pc[Reader]
        BY <1>1, <2>1, <2>6 DEF EngineStep, AskSession, Close, CloseLocks, CloseConn, Exit, Unlock
      <3>2. pc[Engine] \notin {"rlock", "lock"}
        BY <2>1, <2>6 DEF EngineStep, AskSession, Close, CloseLocks, CloseConn, Exit
      <3>. QED
        BY <3>1, <3>2
    <2>7. CASE UNCHANGED vars
      BY <1>1, <2>1, <2>7 DEF vars
    <2>. QED
      BY <1>1, <2>2, <2>3, <2>4, <2>5, <2>6, <2>7 DEF Next
  <1>2. IInv /\ IInv' /\ [Next]_vars =>
          [pc[Heart] = "rlock" =>
             /\ pc'[Heart] = "rlock" /\ Heart \in holder'
             /\ pc[Engine] \in {"rlock", "lock"} => pc'[Engine] = pc[Engine]
             /\ pc[Reader] \in {"lockSequence", "lockSession"} => pc'[Reader] = pc[Reader]]_vars
    BY <1>1
  <1>. QED
    BY <1>2, InductiveInvariant, PTL DEF Spec, HeldUp
=============================================================================
