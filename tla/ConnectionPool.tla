--------------------------- MODULE ConnectionPool ---------------------------
(***************************************************************************)
(* libtabula's ConnectionPool (cpool.h, cpool.cpp) with the threads that   *)
(* share it, the way ScopedConnection and the pool's callers use it.       *)
(*                                                                         *)
(* Every public operation of the pool runs under mutex_ from its first to  *)
(* its last line, so its body is one action that needs the mutex free.     *)
(* The exceptions are the ones that matter:                                *)
(*   - grab() calls the application's create() with the mutex held; it can *)
(*     take long and it can throw, so it is a step of its own;             *)
(*   - exchange() and safe_grab() are sequences of locked operations, and  *)
(*     ping() runs with the mutex free: other threads come in between.     *)
(*                                                                         *)
(* A member of Conns is the address of a Connection: once a connection is  *)
(* destroyed, the next create() may return the same address.               *)
(***************************************************************************)
EXTENDS Integers, FiniteSets, Functions

CONSTANTS Threads,  \* the threads that use the pool
          Conns,    \* the addresses create() can return
          None,     \* no thread, no connection
          Idle,     \* ConnectionLease's owner of a free connection
          Gone,     \* ... and of an address where none lives
          MaxIdle,  \* max_idle_time(), the application's policy
          MaxTime,  \* bound: the clock shows 0..MaxTime
          MaxHeld   \* bound: connections one thread keeps at a time

ASSUME PoolAssumption ==
  /\ None \notin Threads /\ None \notin Conns
  /\ Idle \notin Threads /\ Gone \notin Threads /\ Idle # Gone
  /\ MaxIdle \in Nat /\ MaxTime \in Nat /\ MaxHeld \in Nat

VARIABLES
  pool,   \* pool_: a ConnectionInfo for each connection in the pool
  lock,   \* mutex_: the thread in create() with the mutex held, or None
  now,    \* time(0)
  pc,     \* where each thread is
  op,     \* the operation it called
  cur,    \* the connection that operation works on
  held,   \* the connections each thread has borrowed
  up,     \* is the database server running?
  alive,  \* the connections the server still serves
  open    \* FALSE once the pool is destroyed

vars == <<pool, lock, now, pc, op, cur, held, up, alive, open>>
poolVars == <<pool, lock>>
callVars == <<pc, op, cur, held>>
world == <<now, up, open>>

Time == 0 .. MaxTime
ConnectionInfo == [last_used : Time, in_use : BOOLEAN]

live == DOMAIN pool
Free == {c \in live : ~pool[c].in_use}

(* "scan": about to lock in grab();  "create": in create(), mutex held;    *)
(* "ping": in safe_grab(), no mutex;  "remove", "release": about to lock.  *)
Steps == {"idle", "scan", "create", "ping", "remove", "release"}
Ops == {"none", "grab", "safe_grab", "exchange", "remove", "release"}

TypeOK ==
  /\ pool \in UNION {[S -> ConnectionInfo] : S \in SUBSET Conns}
  /\ lock \in Threads \cup {None}
  /\ now \in Time
  /\ pc \in [Threads -> Steps]
  /\ op \in [Threads -> Ops]
  /\ cur \in [Threads -> Conns \cup {None}]
  /\ held \in [Threads -> SUBSET Conns]
  /\ up \in BOOLEAN
  /\ alive \in SUBSET live
  /\ open \in BOOLEAN

Init ==
  /\ pool = [c \in {} |-> [last_used |-> 0, in_use |-> FALSE]]
  /\ lock = None
  /\ now = 0
  /\ pc = [t \in Threads |-> "idle"]
  /\ op = [t \in Threads |-> "none"]
  /\ cur = [t \in Threads |-> None]
  /\ held = [t \in Threads |-> {}]
  /\ up = TRUE
  /\ alive = {}
  /\ open = TRUE

-----------------------------------------------------------------------------
(* Helpers                                                                 *)

Goto(t, step, o, c) ==
  /\ pc' = [pc EXCEPT ![t] = step]
  /\ op' = [op EXCEPT ![t] = o]
  /\ cur' = [cur EXCEPT ![t] = c]

(* The operation ends, by returning or by an exception. *)
Done(t) == Goto(t, "idle", "none", None)

Unlocked == lock = None

(* Seeded bug: the whole list is cleared, not the connections of S.        *)
BugErase(S) == Restrict(pool, {})

(* pool_ without the connections of S: destroy() and erase(). *)
Erase(S) == Restrict(pool, live \ S)

(* Seeded bug: a connection is kept at exactly max_idle_time().            *)
BugTooOld(c) == ~pool[c].in_use /\ pool[c].last_used < now - MaxIdle

(* TooOld: not in use, and last used max_idle_time() or more ago. *)
TooOld(c) == ~pool[c].in_use /\ pool[c].last_used <= now - MaxIdle

(* Seeded bug: connections in use are reaped as well.                      *)
BugOld == {c \in live : pool[c].last_used <= now - MaxIdle}

Old == {c \in live : TooOld(c)}

(* The connections grab() can hand out, once remove_old_connections() is   *)
(* through: find_mru()'s candidates are the free ones used last.  Of those *)
(* released in the same second the code takes the first in its list; the   *)
(* model takes any.                                                        *)
Usable == Free \ Old

MRU == {c \in Usable : \A d \in Usable : pool[d].last_used <= pool[c].last_used}

-----------------------------------------------------------------------------
(* What a thread may call, and with what: it gives up or exchanges only a  *)
(* connection that it has.                                                 *)

CallGrab(t) ==
  /\ open /\ pc[t] = "idle"
  /\ Cardinality(held[t]) < MaxHeld
  /\ \E o \in {"grab", "safe_grab"} : Goto(t, "scan", o, None)
  /\ UNCHANGED <<poolVars, world, held, alive>>

CallWith(t) ==
  /\ open /\ pc[t] = "idle"
  /\ \E c \in held[t] :
       /\ held' = [held EXCEPT ![t] = @ \ {c}]
       /\ \/ Goto(t, "release", "release", c)
          \/ \E o \in {"remove", "exchange"} : Goto(t, "remove", o, c)
  /\ UNCHANGED <<poolVars, world, alive>>

(* grab() and exchange() end with connection c in the caller's hands;      *)
(* safe_grab() goes on to test it.                                         *)
Obtain(t, c) ==
  IF op[t] = "safe_grab"
  THEN Goto(t, "ping", op[t], c) /\ UNCHANGED held
  ELSE Done(t) /\ held' = [held EXCEPT ![t] = @ \cup {c}]

-----------------------------------------------------------------------------
(* The pool's operations                                                   *)

(* Seeded bug: find_mru() does not mark what it found.                     *)
BugGrabMRU(t) ==
  /\ pc[t] = "scan" /\ Unlocked
  /\ \E c \in MRU : pool' = Erase(Old) /\ Obtain(t, c)
  /\ alive' = alive \ Old
  /\ UNCHANGED <<lock, world>>

(* grab(), the case in which a free connection is left once the old ones   *)
(* are removed.                                                            *)
GrabMRU(t) ==
  /\ pc[t] = "scan" /\ Unlocked
  /\ \E c \in MRU :
       /\ pool' = [Erase(Old) EXCEPT ![c].in_use = TRUE]
       /\ Obtain(t, c)
  /\ alive' = alive \ Old
  /\ UNCHANGED <<lock, world>>

(* Seeded bug: the mutex is freed before create() is called.               *)
BugGrabNone(t) ==
  /\ pc[t] = "scan" /\ Unlocked
  /\ Usable = {}
  /\ pool' = Erase(Old)
  /\ alive' = alive \ Old
  /\ Goto(t, "create", op[t], None)
  /\ UNCHANGED <<lock, world, held>>

(* grab(), the other case: create() is called with the mutex held.         *)
GrabNone(t) ==
  /\ pc[t] = "scan" /\ Unlocked
  /\ Usable = {}
  /\ pool' = Erase(Old)
  /\ alive' = alive \ Old
  /\ lock' = t
  /\ Goto(t, "create", op[t], None)
  /\ UNCHANGED <<world, held>>

(* create() returns a connection at a fresh address.  With the server down *)
(* it has to be one that failed to connect, which an application that      *)
(* turned exceptions off gets.                                             *)
Create(t) ==
  /\ pc[t] = "create"
  /\ \E c \in Conns \ live :
       /\ pool' = [d \in live \cup {c} |->
                     IF d = c THEN [last_used |-> now, in_use |-> TRUE] ELSE pool[d]]
       /\ alive' = IF up THEN alive \cup {c} ELSE alive
       /\ Obtain(t, c)
  /\ lock' = None
  /\ UNCHANGED world

(* Seeded bug: the mutex stays locked when create() throws.                *)
BugCreateThrows(t) ==
  /\ pc[t] = "create"
  /\ Done(t)
  /\ UNCHANGED <<poolVars, world, held, alive>>

(* create() throws: ScopedLock's destructor frees the mutex.               *)
CreateThrows(t) ==
  /\ pc[t] = "create"
  /\ lock' = None
  /\ Done(t)
  /\ UNCHANGED <<pool, world, held, alive>>

(* Seeded bug: safe_grab() tries again without removing the dead one.      *)
BugPing(t) ==
  /\ pc[t] = "ping"
  /\ IF cur[t] \in alive
     THEN Done(t) /\ held' = [held EXCEPT ![t] = @ \cup {cur[t]}]
     ELSE Goto(t, "scan", op[t], None) /\ UNCHANGED held
  /\ UNCHANGED <<poolVars, world, alive>>

(* safe_grab()'s loop: ping() with no mutex, then return or try again.      *)
Ping(t) ==
  /\ pc[t] = "ping"
  /\ IF cur[t] \in alive
     THEN Done(t) /\ held' = [held EXCEPT ![t] = @ \cup {cur[t]}]
     ELSE Goto(t, "remove", op[t], cur[t]) /\ UNCHANGED held
  /\ UNCHANGED <<poolVars, world, alive>>

Release(t) ==
  /\ pc[t] = "release" /\ Unlocked
  /\ pool' = [pool EXCEPT ![cur[t]] = [last_used |-> now, in_use |-> FALSE]]
  /\ Done(t)
  /\ UNCHANGED <<lock, world, held, alive>>

(* Seeded bug: safe_grab() gives the dead connection back to the pool.     *)
BugRemove(t) ==
  /\ pc[t] = "remove" /\ Unlocked
  /\ pool' = IF op[t] = "safe_grab"
             THEN [pool EXCEPT ![cur[t]] = [last_used |-> now, in_use |-> FALSE]]
             ELSE Erase({cur[t]})
  /\ alive' = alive \ {cur[t]}
  /\ IF op[t] = "remove" THEN Done(t) ELSE Goto(t, "scan", op[t], None)
  /\ UNCHANGED <<lock, world, held>>

(* remove(pc), on its own or as the first half of exchange() and of        *)
(* safe_grab()'s retry, which go on to grab().                             *)
Remove(t) ==
  /\ pc[t] = "remove" /\ Unlocked
  /\ pool' = Erase({cur[t]})
  /\ alive' = alive \ {cur[t]}
  /\ IF op[t] = "remove" THEN Done(t) ELSE Goto(t, "scan", op[t], None)
  /\ UNCHANGED <<lock, world, held>>

(* Seeded bug: shrink() clears the whole pool.                             *)
BugCleared(all) == live

(* The connections that clear(all) destroys.                               *)
Cleared(all) == {c \in live : all \/ ~pool[c].in_use}

(* shrink() is clear(false): it keeps the connections in use.  It is one   *)
(* locked operation, so the call and its body are one step.                *)
Shrink(t) ==
  /\ open /\ pc[t] = "idle" /\ Unlocked
  /\ pool' = Erase(Cleared(FALSE))
  /\ alive' = alive \ Cleared(FALSE)
  /\ UNCHANGED <<lock, world, callVars>>

(* The subclass's destructor calls clear() when no call is under way.      *)
(* Connections that were never given back are destroyed as well, and the   *)
(* program no longer uses them.                                            *)
Drain ==
  /\ open /\ \A t \in Threads : pc[t] = "idle"
  /\ pool' = Erase(Cleared(TRUE))
  /\ alive' = alive \ Cleared(TRUE)
  /\ held' = [t \in Threads |-> {}]
  /\ open' = FALSE
  /\ UNCHANGED <<lock, now, pc, op, cur, up>>

-----------------------------------------------------------------------------
(* The world: the wall clock, which can be set back as well, and the       *)
(* database server, which can drop one connection or all of them.          *)

SetClock ==
  /\ open
  /\ now' \in Time \ {now}
  /\ UNCHANGED <<poolVars, callVars, up, alive, open>>

DropConnection ==
  /\ \E c \in alive : alive' = alive \ {c}
  /\ UNCHANGED <<poolVars, callVars, world>>

ServerStops ==
  /\ open /\ up
  /\ up' = FALSE /\ alive' = {}
  /\ UNCHANGED <<poolVars, callVars, now, open>>

ServerStarts ==
  /\ open /\ ~up
  /\ up' = TRUE
  /\ UNCHANGED <<poolVars, callVars, now, alive, open>>

Call(t) == CallGrab(t) \/ CallWith(t) \/ Shrink(t)

Run(t) ==
  \/ GrabMRU(t) \/ GrabNone(t) \/ Create(t) \/ CreateThrows(t)
  \/ Ping(t) \/ Release(t) \/ Remove(t)

World == SetClock \/ DropConnection \/ ServerStops \/ ServerStarts

Next == (\E t \in Threads : Call(t) \/ Run(t)) \/ Drain \/ World

Spec == Init /\ [][Next]_vars

(* A thread inside the pool keeps running.  It may wait for the mutex, and *)
(* it gets it if it is free again and again: what the system's mutex does  *)
(* for a waiting thread, and strong fairness on it says.  Nothing is       *)
(* assumed of the callers, the clock or the server.                        *)
FairSpec == Spec /\ \A t \in Threads : SF_vars(Run(t))

-----------------------------------------------------------------------------
(* Safety                                                                  *)

(* The connections that thread t has borrowed and not yet given back,      *)
(* those inside the pool's operations included.                            *)
Owned(t) == held[t] \cup ({cur[t]} \ {None})

(* What a thread borrowed is in the pool and marked in use: no operation   *)
(* of another thread (remove_old_connections, shrink, release or remove of *)
(* a recycled address) destroys it or offers it to others meanwhile.       *)
LeaseIsLive == \A t \in Threads : \A c \in Owned(t) : c \in live /\ pool[c].in_use

(* No two threads have the same connection, also while it is being tested  *)
(* by safe_grab() or on its way back.                                      *)
LeaseIsExclusive ==
  \A t, u \in Threads : t # u => Owned(t) \cap Owned(u) = {}

(* A connection marked in use is in somebody's hands.  If it is not, it    *)
(* stays in the pool for ever: only free ones are handed out or removed.   *)
NoneIsLost ==
  \A c \in live : pool[c].in_use => \E t \in Threads : c \in Owned(t)

(* The pool grows only when no connection is free, from the moment grab()  *)
(* looks to the moment create() returns: afterwards all of them are in     *)
(* use, so the pool never holds more connections than are needed at once.  *)
GrowsOnlyWhenExhausted ==
  [][live' \subseteq live \/ \A c \in live' : pool'[c].in_use]_vars

(* The reuse policy in cpool.h: a connection handed out again is the most  *)
(* recently used free one, and has been idle less than max_idle_time().    *)
HandsOutMostRecent ==
  [][\A c \in Free : c \in live' /\ pool'[c].in_use =>
       /\ pool[c].last_used > now - MaxIdle
       /\ \A d \in Free : pool[d].last_used <= pool[c].last_used]_vars

(* The owner of every connection, as ConnectionLease sees it.              *)
owner == [c \in Conns |->
            IF c \notin live THEN Gone
            ELSE IF pool[c].in_use THEN CHOOSE t \in Threads : c \in Owned(t)
            ELSE Idle]

Lease == INSTANCE ConnectionLease

(* Every step of the pool is a loan, a return, a removal by the borrower   *)
(* or a removal of idle connections: nobody's loan is touched by others.   *)
ImplementsLease == Lease!Spec

-----------------------------------------------------------------------------
(* Liveness                                                                *)

(* Every call but safe_grab() comes back: the mutex is freed on each way   *)
(* out, an exception from create() included.                               *)
CallsReturn ==
  \A t \in Threads : op[t] \notin {"none", "safe_grab"} ~> op[t] = "none"

(* From some moment on no connection is lost but by the pool's own doing.  *)
Steady == <>[]up /\ <>[][~DropConnection]_vars

(* safe_grab()'s loop ends when the server stays up: it removes each dead  *)
(* connection that it meets, and cannot meet the same one again.           *)
SafeGrabReturns ==
  Steady => \A t \in Threads : op[t] = "safe_grab" ~> op[t] = "none"
=============================================================================
