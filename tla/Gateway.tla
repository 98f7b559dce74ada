------------------------------ MODULE Gateway ------------------------------
(***************************************************************************)
(* The gateway session of internal/discord/gateway.go: the goroutine that  *)
(* connects, the heartbeat and read loops it starts, and the engine, which *)
(* asks for the session id before each join and closes the session at the  *)
(* end.  They share g.conn, g.cancel, the session id and an RWMutex.       *)
(***************************************************************************)
CONSTANTS Connector, Heart, Reader, Engine  \* the four goroutines

ASSUME GoroutinesAssumption ==
  /\ Connector \notin {Heart, Reader, Engine}
  /\ Heart \notin {Reader, Engine}
  /\ Reader # Engine

Procs == {Connector, Heart, Reader, Engine}

VARIABLES
  pc,         \* where each goroutine is
  holder,     \* the goroutines that hold the write lock: none or one
  readers,    \* the goroutines that hold the read lock
  conn,       \* g.conn: nil or set
  socket,     \* the connection behind it
  cancelSet,  \* g.cancel is not nil
  cancelled,  \* the context of the loops is done
  ready,      \* a READY event has been received
  sessionID   \* the session id is set

vars == <<pc, holder, readers, conn, socket, cancelSet, cancelled, ready, sessionID>>

LockWaiters == {p \in Procs : pc[p] \in {"lock", "lockSequence", "lockSession"}}

Init ==
  /\ pc = [p \in Procs |-> IF p = Connector THEN "dial"
                           ELSE IF p = Engine THEN "working" ELSE "notStarted"]
  /\ holder = {} /\ readers = {}
  /\ conn = "nil" /\ socket = "none"
  /\ cancelSet = FALSE /\ cancelled = FALSE
  /\ ready = FALSE /\ sessionID = FALSE

Running == pc[Engine] # "exited" /\ pc[Reader] # "panicked"

Goto(p, next) == Running /\ pc' = [pc EXCEPT ![p] = next]

-----------------------------------------------------------------------------
(* sync.RWMutex: a waiting writer holds off new readers *)

Lock(p) ==
  /\ holder = {} /\ readers = {}
  /\ holder' = {p}
  /\ UNCHANGED readers

Unlock(p) ==
  /\ holder' = holder \ {p}
  /\ UNCHANGED readers

RLock(p) ==
  /\ holder = {} /\ LockWaiters = {}
  /\ readers' = readers \cup {p}
  /\ UNCHANGED holder

RUnlock(p) ==
  /\ readers' = readers \ {p}
  /\ UNCHANGED holder

-----------------------------------------------------------------------------
(* Connect *)

DialFails ==
  /\ pc[Connector] = "dial"
  /\ Goto(Connector, "done")
  /\ UNCHANGED <<holder, readers, conn, socket, cancelSet, cancelled, ready, sessionID>>

\* g.conn and g.cancel are assigned without the lock.
Dial ==
  /\ pc[Connector] = "dial"
  /\ conn' = "set" /\ socket' = "open"
  /\ Goto(Connector, "dialed")
  /\ UNCHANGED <<holder, readers, cancelSet, cancelled, ready, sessionID>>

SetCancel ==
  /\ pc[Connector] = "dialed"
  /\ cancelSet' = TRUE
  /\ Goto(Connector, "hello")
  /\ UNCHANGED <<holder, readers, conn, socket, cancelled, ready, sessionID>>

\* No HELLO, or IDENTIFY cannot be sent: the socket is closed, g.conn stays.
HandshakeFails ==
  /\ pc[Connector] = "hello"
  /\ socket' = "closed" /\ cancelled' = TRUE
  /\ Goto(Connector, "done")
  /\ UNCHANGED <<holder, readers, conn, cancelSet, ready, sessionID>>

Handshake ==
  /\ pc[Connector] = "hello" /\ socket = "open" /\ Running
  /\ pc' = [pc EXCEPT ![Connector] = "done", ![Heart] = "select", ![Reader] = "select"]
  /\ UNCHANGED <<holder, readers, conn, socket, cancelSet, cancelled, ready, sessionID>>

-----------------------------------------------------------------------------
(* heartbeatLoop *)

HeartStops ==
  /\ pc[Heart] = "select" /\ cancelled
  /\ Goto(Heart, "done")
  /\ UNCHANGED <<holder, readers, conn, socket, cancelSet, cancelled, ready, sessionID>>

Tick ==
  /\ pc[Heart] = "select"
  /\ Goto(Heart, "lock")
  /\ UNCHANGED <<holder, readers, conn, socket, cancelSet, cancelled, ready, sessionID>>

\* Defect: the heartbeat does not look at g.conn.
HeartLocksBlindly ==
  /\ pc[Heart] = "lock"
  /\ Lock(Heart)
  /\ Goto(Heart, "rlock")
  /\ UNCHANGED <<conn, socket, cancelSet, cancelled, ready, sessionID>>

HeartLocks ==
  /\ pc[Heart] = "lock"
  /\ Lock(Heart)
  /\ Goto(Heart, IF conn = "nil" THEN "quit" ELSE "rlock")
  /\ UNCHANGED <<conn, socket, cancelSet, cancelled, ready, sessionID>>

HeartQuits ==
  /\ pc[Heart] = "quit"
  /\ Unlock(Heart)
  /\ Goto(Heart, "done")
  /\ UNCHANGED <<conn, socket, cancelSet, cancelled, ready, sessionID>>

\* getSequence takes the read lock while the heartbeat holds the write lock:
\* the grant is RLocks below, shared with SessionID, and never comes.

-----------------------------------------------------------------------------
(* readLoop *)

ReaderStops ==
  /\ pc[Reader] = "select" /\ cancelled
  /\ Goto(Reader, "done")
  /\ UNCHANGED <<holder, readers, conn, socket, cancelSet, cancelled, ready, sessionID>>

ReaderGoesOn ==
  /\ pc[Reader] = "select" /\ ~cancelled
  /\ Goto(Reader, "load")
  /\ UNCHANGED <<holder, readers, conn, socket, cancelSet, cancelled, ready, sessionID>>

\* g.conn.ReadJSON: g.conn is loaded without the lock, and may be nil by now.
ReaderLoadsConn ==
  /\ pc[Reader] = "load"
  /\ Goto(Reader, IF conn = "nil" THEN "panicked" ELSE "read")
  /\ UNCHANGED <<holder, readers, conn, socket, cancelSet, cancelled, ready, sessionID>>

ReadFails ==
  /\ pc[Reader] = "read"
  /\ Goto(Reader, "done")
  /\ UNCHANGED <<holder, readers, conn, socket, cancelSet, cancelled, ready, sessionID>>

\* Dispatches carry a sequence number, and the first one is READY.
ReadDispatch ==
  /\ pc[Reader] = "read" /\ socket = "open"
  /\ Goto(Reader, "lockSequence")
  /\ ready' = TRUE
  /\ UNCHANGED <<holder, readers, conn, socket, cancelSet, cancelled, sessionID>>

\* HELLO, heartbeat acknowledgements: neither sequence nor session.
ReadOther ==
  /\ pc[Reader] = "read" /\ socket = "open"
  /\ Goto(Reader, "select")
  /\ UNCHANGED <<holder, readers, conn, socket, cancelSet, cancelled, ready, sessionID>>

\* Defect: the read loop does not take the lock.
ReaderSkipsLock ==
  /\ pc[Reader] \in {"lockSequence", "lockSession"}
  /\ Goto(Reader, IF pc[Reader] = "lockSequence" THEN "setSequence" ELSE "setSession")
  /\ UNCHANGED <<holder, readers, conn, socket, cancelSet, cancelled, ready, sessionID>>

ReaderLocks ==
  /\ pc[Reader] \in {"lockSequence", "lockSession"}
  /\ Lock(Reader)
  /\ Goto(Reader, IF pc[Reader] = "lockSequence" THEN "setSequence" ELSE "setSession")
  /\ UNCHANGED <<conn, socket, cancelSet, cancelled, ready, sessionID>>

ReaderSetsSequence ==
  /\ pc[Reader] = "setSequence"
  /\ Unlock(Reader)
  /\ \E isReady \in {~sessionID, FALSE} : Goto(Reader, IF isReady THEN "lockSession" ELSE "select")
  /\ UNCHANGED <<conn, socket, cancelSet, cancelled, ready, sessionID>>

\* Defect: the lock is not released.
ReaderKeepsLock ==
  /\ pc[Reader] = "setSession"
  /\ sessionID' = TRUE
  /\ Goto(Reader, "select")
  /\ UNCHANGED <<holder, readers, conn, socket, cancelSet, cancelled, ready>>

ReaderSetsSession ==
  /\ pc[Reader] = "setSession"
  /\ sessionID' = TRUE
  /\ Unlock(Reader)
  /\ Goto(Reader, "select")
  /\ UNCHANGED <<conn, socket, cancelSet, cancelled, ready>>

-----------------------------------------------------------------------------
(* The two reads under the read lock: getSequence and SessionID *)

\* Defect: the read does not wait for the writer.
RLocksAtOnce(p) ==
  /\ pc[p] = "rlock"
  /\ readers' = readers \cup {p}
  /\ Goto(p, "reading")
  /\ UNCHANGED <<holder, conn, socket, cancelSet, cancelled, ready, sessionID>>

RLocks(p) ==
  /\ pc[p] = "rlock"
  /\ RLock(p)
  /\ Goto(p, "reading")
  /\ UNCHANGED <<conn, socket, cancelSet, cancelled, ready, sessionID>>

\* SessionID returns.  A heartbeat whose sequence is read is written, and the
\* write lock released.
Reads(p) ==
  /\ pc[p] = "reading"
  /\ readers' = readers \ {p} /\ holder' = holder \ {p}
  /\ Goto(p, IF p = Heart THEN "select" ELSE "working")
  /\ UNCHANGED <<conn, socket, cancelSet, cancelled, ready, sessionID>>

-----------------------------------------------------------------------------
(* The engine *)

\* engine.go asks for the session id before every join attempt.
AskSession ==
  /\ pc[Engine] = "working"
  /\ Goto(Engine, "rlock")
  /\ UNCHANGED <<holder, readers, conn, socket, cancelSet, cancelled, ready, sessionID>>

\* Close, deferred by the search and resume commands.
Close ==
  /\ pc[Engine] = "working"
  /\ cancelled' = (cancelled \/ cancelSet)
  /\ Goto(Engine, "lock")
  /\ UNCHANGED <<holder, readers, conn, socket, cancelSet, ready, sessionID>>

CloseLocks ==
  /\ pc[Engine] = "lock"
  /\ Lock(Engine)
  /\ Goto(Engine, "closing")
  /\ UNCHANGED <<conn, socket, cancelSet, cancelled, ready, sessionID>>

CloseConn ==
  /\ pc[Engine] = "closing"
  /\ conn' = "nil"
  /\ socket' = IF conn = "set" THEN "closed" ELSE socket
  /\ Unlock(Engine)
  /\ Goto(Engine, "closed")
  /\ UNCHANGED <<cancelSet, cancelled, ready, sessionID>>

\* The command returns, and with it the process.
Exit ==
  /\ pc[Engine] = "closed"
  /\ Goto(Engine, "exited")
  /\ UNCHANGED <<holder, readers, conn, socket, cancelSet, cancelled, ready, sessionID>>

-----------------------------------------------------------------------------
ConnectorStep == DialFails \/ Dial \/ SetCancel \/ HandshakeFails \/ Handshake

HeartStep == HeartStops \/ Tick \/ HeartLocks \/ HeartQuits

ReaderStep ==
  \/ ReaderStops \/ ReaderGoesOn \/ ReaderLoadsConn \/ ReadFails \/ ReadDispatch \/ ReadOther
  \/ ReaderLocks \/ ReaderSetsSequence \/ ReaderSetsSession

ReadStep == \E p \in {Heart, Engine} : RLocks(p) \/ Reads(p)

EngineStep == AskSession \/ Close \/ CloseLocks \/ CloseConn \/ Exit

Next == ConnectorStep \/ HeartStep \/ ReaderStep \/ ReadStep \/ EngineStep

\* Goroutines are scheduled; sync.RWMutex lets every waiter in eventually if
\* the lock is released again and again.
Fairness ==
  /\ WF_vars(HeartQuits) /\ WF_vars(ReaderSetsSequence \/ ReaderSetsSession)
  /\ WF_vars(CloseConn \/ Exit)
  /\ SF_vars(HeartLocks) /\ SF_vars(ReaderLocks) /\ SF_vars(CloseLocks)
  /\ \A p \in {Heart, Engine} : SF_vars(RLocks(p)) /\ WF_vars(Reads(p))

Spec == Init /\ [][Next]_vars /\ Fairness

-----------------------------------------------------------------------------
(* Properties *)

\* Types, and the lock as the two loops and the engine use it: a reader and a
\* writer never hold it together, nor two writers.
GatewayTypeOK ==
  /\ pc \in [Procs -> {"dial", "dialed", "hello", "done", "notStarted", "select", "lock",
                       "quit", "rlock", "reading", "load", "read", "panicked", "lockSequence",
                       "lockSession", "setSequence", "setSession", "working", "closing",
                       "closed", "exited"}]
  /\ holder = {} \/ readers = {}
  /\ \A p, q \in holder : p = q
  /\ holder \cup readers \subseteq Procs
  /\ conn \in {"nil", "set"} /\ socket \in {"none", "open", "closed"}
  /\ {cancelSet, cancelled, ready, sessionID} \subseteq BOOLEAN

\* Nobody but Close takes g.conn away.  A heartbeat is never written to a
\* session that Close has torn down: the check of g.conn and the write happen
\* under one hold of the lock.  The read loop, which looks at g.conn without the
\* lock, meets nil only when Close has done its work and the process is to end.
NilConnOnlyAfterClose ==
  /\ pc[Heart] \in {"rlock", "reading"} => conn = "set"
  /\ pc[Reader] = "panicked" => pc[Engine] = "closed"

\* The session id the engine reads before a join is that of a READY event, and
\* the read loop is not about to write it while the engine reads it.
SessionIDIsReal ==
  /\ sessionID => ready
  /\ pc[Engine] = "reading" => pc[Reader] \notin {"setSession", "setSequence"}

\* As long as no heartbeat stays in getSequence, the engine's call to SessionID
\* returns and Close gets the lock, whatever the two loops do.
EngineNotHeldUp ==
  []<>(pc[Heart] # "rlock") =>
    /\ pc[Engine] = "rlock" ~> (pc[Engine] # "rlock" \/ ~Running)
    /\ pc[Engine] = "lock" ~> (pc[Engine] # "lock" \/ ~Running)

\* "runs background heartbeat and dispatch routines": a due heartbeat is sent,
\* unless the session ends.
DueHeartbeatIsSent == pc[Heart] = "lock" ~> (pc[Heart] \in {"reading", "done"} \/ ~Running)
=============================================================================
