------------------------ MODULE ConnectionPoolProofs ------------------------
(***************************************************************************)
(* What is proved of ConnectionPool for any number of threads, addresses   *)
(* and seconds: its types, and that a lease is live, exclusive and never   *)
(* lost.                                                                   *)
(***************************************************************************)
EXTENDS ConnectionPool, TLAPS

(* The mutex is held exactly by the thread that is inside create().        *)
LockInv == \A t \in Threads : pc[t] = "create" <=> lock = t

(* A thread's operation has a connection exactly in the steps that use it, *)
(* and that connection is not also among those the thread keeps.           *)
CurInv == \A t \in Threads :
            /\ cur[t] # None <=> pc[t] \in {"ping", "remove", "release"}
            /\ cur[t] \notin held[t]

(* While create() runs nothing is free: the mutex keeps out a release.     *)
CreateInv == \A t \in Threads : pc[t] = "create" => Free = {}

IInv ==
  /\ TypeOK
  /\ LockInv
  /\ CurInv
  /\ CreateInv
  /\ LeaseIsLive
  /\ LeaseIsExclusive
  /\ NoneIsLost

-----------------------------------------------------------------------------
(* The pool maps the live addresses, and only those, to ConnectionInfos.   *)
LEMMA PoolType ==
  ASSUME TypeOK
  PROVE  live \in SUBSET Conns /\ pool \in [live -> ConnectionInfo]
<1>1. PICK S \in SUBSET Conns : pool \in [S -> ConnectionInfo]
  BY DEF TypeOK
<1>2. DOMAIN pool = S
  BY <1>1
<1> QED BY <1>1, <1>2 DEF live

LEMMA PoolTypeIntro ==
  ASSUME NEW S \in SUBSET Conns, NEW f \in [S -> ConnectionInfo]
  PROVE  f \in UNION {[R -> ConnectionInfo] : R \in SUBSET Conns}
OBVIOUS

LEMMA TypeInit == Init => TypeOK
<1> SUFFICES ASSUME Init PROVE TypeOK
  OBVIOUS
<1>1. pool \in [{} -> ConnectionInfo] /\ live = {}
  BY DEF Init, live
<1>2. now \in Time
  BY PoolAssumption DEF Init, Time
<1> QED BY <1>1, <1>2, PoolTypeIntro DEF Init, TypeOK, Steps, Ops

(* What removing connections leaves of the pool.                           *)
LEMMA EraseFacts ==
  ASSUME TypeOK, NEW S
  PROVE  /\ Erase(S) \in [live \ S -> ConnectionInfo]
         /\ DOMAIN Erase(S) = live \ S
         /\ \A c \in live \ S : Erase(S)[c] = pool[c]
<1>1. Erase(S) = [c \in live \ S |-> pool[c]]
  BY DEF Erase, Restrict
<1>2. \A c \in live \ S : pool[c] \in ConnectionInfo
  BY PoolType
<1> QED BY <1>1, <1>2

LEMMA EraseStep ==
  ASSUME TypeOK, NEW S, pool' = Erase(S)
  PROVE  live' = live \ S /\ \A c \in live' : pool'[c] = pool[c]
<1>1. live' = live \ S
  <2>1. DOMAIN Erase(S) = live \ S
    BY EraseFacts
  <2> QED BY <2>1 DEF live
<1>2. \A c \in live \ S : pool'[c] = pool[c]
  BY EraseFacts
<1> QED BY <1>1, <1>2

-----------------------------------------------------------------------------
(* One lemma per action: the invariant survives it.                        *)

LEMMA CallGrabInv == ASSUME IInv, NEW t \in Threads, CallGrab(t) PROVE IInv'
<1> USE DEF IInv, CallGrab, Goto, poolVars, world
<1>1. TypeOK'
  BY PoolAssumption DEF TypeOK, live, Steps, Ops, Time
<1>2. LockInv' /\ CurInv' /\ CreateInv'
  BY DEF TypeOK, LockInv, CurInv, CreateInv, Free, live
<1>3. \A u \in Threads : Owned(u)' = Owned(u)
  BY DEF TypeOK, Owned, CurInv
<1>4. LeaseIsLive' /\ LeaseIsExclusive' /\ NoneIsLost'
  BY <1>3 DEF LeaseIsLive, LeaseIsExclusive, NoneIsLost, live
<1> QED BY <1>1, <1>2, <1>4

LEMMA CallWithInv == ASSUME IInv, NEW t \in Threads, CallWith(t) PROVE IInv'
<1> USE DEF IInv, poolVars, world
<1>1. PICK c \in held[t] :
         /\ held' = [held EXCEPT ![t] = @ \ {c}]
         /\ \E s \in {"release", "remove"}, o \in Ops : Goto(t, s, o, c)
  BY DEF CallWith, Ops
<1>2. pc[t] = "idle" /\ UNCHANGED <<pool, lock, now, up, open, alive>>
  BY DEF CallWith
<1>3. c \in Conns /\ c # None
  BY <1>1, PoolAssumption DEF TypeOK
<1>4. TypeOK'
  BY <1>1, <1>2, <1>3 DEF TypeOK, live, Steps, Goto
<1>5. LockInv' /\ CurInv' /\ CreateInv'
  BY <1>1, <1>2, <1>3 DEF TypeOK, LockInv, CurInv, CreateInv, Free, live, Goto
<1>6. \A u \in Threads : Owned(u)' = Owned(u)
  BY <1>1, <1>2, <1>3 DEF TypeOK, Owned, CurInv, Goto
<1>7. LeaseIsLive' /\ LeaseIsExclusive' /\ NoneIsLost'
  BY <1>2, <1>6 DEF LeaseIsLive, LeaseIsExclusive, NoneIsLost, live
<1> QED BY <1>4, <1>5, <1>7

(* Obtain(t, c) puts c in t's hands and changes nobody else's loans.        *)
LEMMA ObtainFacts ==
  ASSUME TypeOK, CurInv, NEW t \in Threads, pc[t] \in {"scan", "create"},
         NEW c \in Conns, c \notin Owned(t), Obtain(t, c)
  PROVE  /\ pc' \in [Threads -> Steps] /\ op' \in [Threads -> Ops]
         /\ cur' \in [Threads -> Conns \cup {None}]
         /\ held' \in [Threads -> SUBSET Conns]
         /\ CurInv'
         /\ pc'[t] \in {"idle", "ping"}
         /\ \A u \in Threads \ {t} : pc'[u] = pc[u]
         /\ Owned(t)' = Owned(t) \cup {c}
         /\ \A u \in Threads \ {t} : Owned(u)' = Owned(u)
<1>1. cur[t] = None /\ c # None /\ c \notin held[t]
  BY PoolAssumption DEF CurInv, Owned
<1>2. CASE op[t] = "safe_grab"
  BY <1>1, <1>2 DEF TypeOK, CurInv, Obtain, Goto, Owned, Steps, Ops
<1>3. CASE op[t] # "safe_grab"
  BY <1>1, <1>3 DEF TypeOK, CurInv, Obtain, Goto, Done, Owned, Steps, Ops
<1> QED BY <1>2, <1>3

(* A free connection, or an address where none lives, is nobody's loan.    *)
LEMMA FreeIsUnowned ==
  ASSUME LeaseIsLive, NEW c, c \notin live \/ c \in Free, NEW t \in Threads
  PROVE  c \notin Owned(t)
  BY DEF LeaseIsLive, Free

(* What GrabMRU does to the pool and to the loans.                          *)
LEMMA GrabMRUEffect ==
  ASSUME IInv, NEW t \in Threads, GrabMRU(t)
  PROVE  \E c \in Free \ Old :
           /\ live' = live \ Old
           /\ pool' \in [live' -> ConnectionInfo]
           /\ pool'[c].in_use
           /\ \A d \in live' \ {c} : pool'[d] = pool[d]
           /\ \A u \in Threads : c \notin Owned(u) /\ Owned(u) \cap Old = {}
           /\ pc' \in [Threads -> Steps] /\ op' \in [Threads -> Ops]
           /\ cur' \in [Threads -> Conns \cup {None}] /\ held' \in [Threads -> SUBSET Conns]
           /\ CurInv' /\ pc'[t] \in {"idle", "ping"}
           /\ \A u \in Threads \ {t} : pc'[u] = pc[u]
           /\ Owned(t)' = Owned(t) \cup {c}
           /\ \A u \in Threads \ {t} : Owned(u)' = Owned(u)
<1> USE DEF IInv
<1>1. PICK c \in MRU : pool' = [Erase(Old) EXCEPT ![c].in_use = TRUE] /\ Obtain(t, c)
  BY DEF GrabMRU
<1>2. /\ pc[t] = "scan" /\ lock = None /\ alive' = alive \ Old
      /\ UNCHANGED <<lock, now, up, open>>
  BY DEF GrabMRU, world, Unlocked
<1>3. c \in Free /\ c \in live \ Old /\ c \in Conns
  BY PoolType DEF MRU, Usable, Free
<1>4. /\ live' = live \ Old
      /\ pool' \in [live' -> ConnectionInfo]
      /\ pool'[c].in_use
      /\ \A d \in live' \ {c} : pool'[d] = pool[d]
  <2> DEFINE f == Erase(Old)
             r == [f[c] EXCEPT !.in_use = TRUE]
  <2>1. /\ f \in [live \ Old -> ConnectionInfo] /\ DOMAIN f = live \ Old
        /\ \A d \in live \ Old : f[d] = pool[d]
    BY EraseFacts
  <2>2. pool' = [f EXCEPT ![c] = r]
    BY <1>1, <1>3, <2>1
  <2>3. f[c] \in ConnectionInfo
    BY <1>3, <2>1
  <2>4. r \in ConnectionInfo /\ r.in_use
    BY <2>3 DEF ConnectionInfo
  <2> HIDE DEF f, r
  <2> QED BY <1>3, <2>1, <2>2, <2>4 DEF live
<1>5. \A d \in Old : ~pool[d].in_use
  BY DEF Old, TooOld
<1>6. \A u \in Threads : c \notin Owned(u) /\ Owned(u) \cap Old = {}
  BY <1>3, <1>5, FreeIsUnowned DEF LeaseIsLive
<1>7. /\ pc' \in [Threads -> Steps] /\ op' \in [Threads -> Ops]
      /\ cur' \in [Threads -> Conns \cup {None}] /\ held' \in [Threads -> SUBSET Conns]
      /\ CurInv' /\ pc'[t] \in {"idle", "ping"}
      /\ \A u \in Threads \ {t} : pc'[u] = pc[u]
      /\ Owned(t)' = Owned(t) \cup {c}
      /\ \A u \in Threads \ {t} : Owned(u)' = Owned(u)
  BY <1>1, <1>2, <1>3, <1>6, ObtainFacts
<1> QED BY <1>3, <1>4, <1>6, <1>7

LEMMA GrabMRUInv == ASSUME IInv, NEW t \in Threads, GrabMRU(t) PROVE IInv'
<1> USE DEF IInv
<1>1. PICK c \in Free \ Old :
        /\ live' = live \ Old
        /\ pool' \in [live' -> ConnectionInfo]
        /\ pool'[c].in_use
        /\ \A d \in live' \ {c} : pool'[d] = pool[d]
        /\ \A u \in Threads : c \notin Owned(u) /\ Owned(u) \cap Old = {}
        /\ pc' \in [Threads -> Steps] /\ op' \in [Threads -> Ops]
        /\ cur' \in [Threads -> Conns \cup {None}] /\ held' \in [Threads -> SUBSET Conns]
        /\ CurInv' /\ pc'[t] \in {"idle", "ping"}
        /\ \A u \in Threads \ {t} : pc'[u] = pc[u]
        /\ Owned(t)' = Owned(t) \cup {c}
        /\ \A u \in Threads \ {t} : Owned(u)' = Owned(u)
  BY GrabMRUEffect
<1>2. /\ lock = None /\ alive' = alive \ Old /\ UNCHANGED <<lock, now, up, open>>
  BY DEF GrabMRU, world, Unlocked
<1>3. TypeOK'
  BY <1>1, <1>2, PoolType, PoolTypeIntro DEF TypeOK
<1>4. LockInv' /\ CreateInv'
  BY <1>1, <1>2, PoolAssumption DEF LockInv, CreateInv
<1>5. LeaseIsLive' /\ LeaseIsExclusive' /\ NoneIsLost'
  BY <1>1 DEF LeaseIsLive, LeaseIsExclusive, NoneIsLost, Free
<1> QED BY <1>1, <1>3, <1>4, <1>5

LEMMA GrabNoneInv == ASSUME IInv, NEW t \in Threads, GrabNone(t) PROVE IInv'
<1> USE DEF IInv
<1>1. /\ pc[t] = "scan" /\ lock = None /\ Usable = {}
      /\ pool' = Erase(Old) /\ alive' = alive \ Old /\ lock' = t
      /\ Goto(t, "create", op[t], None)
      /\ UNCHANGED <<now, up, open, held>>
  BY DEF GrabNone, world, Unlocked
<1>2. /\ live' = live \ Old
      /\ pool' \in [live' -> ConnectionInfo]
      /\ \A d \in live' : pool'[d] = pool[d]
  <2>1. pool' = Erase(Old)
    BY <1>1
  <2>2. live' = live \ Old /\ \A d \in live' : pool'[d] = pool[d]
    BY <2>1, EraseStep
  <2>3. Erase(Old) \in [live \ Old -> ConnectionInfo]
    BY EraseFacts
  <2> QED BY <2>1, <2>2, <2>3
<1>3. \A u \in Threads : Owned(u)' = Owned(u)
  BY <1>1 DEF TypeOK, Owned, Goto, CurInv
<1>4. TypeOK'
  <2>1. pool' \in UNION {[S -> ConnectionInfo] : S \in SUBSET Conns} /\ alive' \in SUBSET live'
    BY <1>1, <1>2, PoolType, PoolTypeIntro DEF TypeOK
  <2>2. /\ pc' \in [Threads -> Steps] /\ op' \in [Threads -> Ops]
        /\ cur' \in [Threads -> Conns \cup {None}]
    BY <1>1 DEF TypeOK, Goto, Steps
  <2> QED BY <1>1, <2>1, <2>2 DEF TypeOK
<1>5. LockInv' /\ CurInv'
  BY <1>1, PoolAssumption DEF TypeOK, LockInv, CurInv, Goto
<1>6. Old \cap {c \in live : pool[c].in_use} = {}
  BY DEF Old, TooOld
<1>8. CreateInv'
  BY <1>1, <1>2 DEF CreateInv, Usable, Free
<1>9. LeaseIsLive' /\ LeaseIsExclusive' /\ NoneIsLost'
  BY <1>2, <1>3, <1>6 DEF LeaseIsLive, LeaseIsExclusive, NoneIsLost
<1> QED BY <1>4, <1>5, <1>8, <1>9

LEMMA CreateEffect ==
  ASSUME IInv, NEW t \in Threads, Create(t)
  PROVE  \E c \in Conns \ live :
           /\ live' = live \cup {c}
           /\ pool' \in [live' -> ConnectionInfo]
           /\ pool'[c].in_use
           /\ \A d \in live : pool'[d] = pool[d]
           /\ alive' \in SUBSET live'
           /\ \A u \in Threads : c \notin Owned(u)
           /\ pc' \in [Threads -> Steps] /\ op' \in [Threads -> Ops]
           /\ cur' \in [Threads -> Conns \cup {None}] /\ held' \in [Threads -> SUBSET Conns]
           /\ CurInv' /\ pc'[t] \in {"idle", "ping"}
           /\ \A u \in Threads \ {t} : pc'[u] = pc[u]
           /\ Owned(t)' = Owned(t) \cup {c}
           /\ \A u \in Threads \ {t} : Owned(u)' = Owned(u)
<1> USE DEF IInv
<1>1. PICK c \in Conns \ live :
        /\ pool' = [d \in live \cup {c} |->
                     IF d = c THEN [last_used |-> now, in_use |-> TRUE] ELSE pool[d]]
        /\ alive' = IF up THEN alive \cup {c} ELSE alive
        /\ Obtain(t, c)
  BY DEF Create
<1>2. pc[t] = "create" /\ lock' = None /\ UNCHANGED <<now, up, open>>
  BY DEF Create, world
<1>3. /\ live' = live \cup {c}
      /\ pool' \in [live' -> ConnectionInfo]
      /\ pool'[c].in_use
      /\ \A d \in live : pool'[d] = pool[d]
  BY <1>1, PoolType DEF live, TypeOK, ConnectionInfo
<1>4. \A u \in Threads : c \notin Owned(u)
  BY <1>1, FreeIsUnowned
<1>5. /\ pc' \in [Threads -> Steps] /\ op' \in [Threads -> Ops]
      /\ cur' \in [Threads -> Conns \cup {None}] /\ held' \in [Threads -> SUBSET Conns]
      /\ CurInv' /\ pc'[t] \in {"idle", "ping"}
      /\ \A u \in Threads \ {t} : pc'[u] = pc[u]
      /\ Owned(t)' = Owned(t) \cup {c}
      /\ \A u \in Threads \ {t} : Owned(u)' = Owned(u)
  BY <1>1, <1>2, <1>4, ObtainFacts
<1>6. alive' \in SUBSET live'
  BY <1>1, <1>3 DEF TypeOK
<1> QED BY <1>3, <1>4, <1>5, <1>6

LEMMA CreateInvariant == ASSUME IInv, NEW t \in Threads, Create(t) PROVE IInv'
<1> USE DEF IInv
<1>1. PICK c \in Conns \ live :
           /\ live' = live \cup {c}
           /\ pool' \in [live' -> ConnectionInfo]
           /\ pool'[c].in_use
           /\ \A d \in live : pool'[d] = pool[d]
           /\ alive' \in SUBSET live'
           /\ \A u \in Threads : c \notin Owned(u)
           /\ pc' \in [Threads -> Steps] /\ op' \in [Threads -> Ops]
           /\ cur' \in [Threads -> Conns \cup {None}] /\ held' \in [Threads -> SUBSET Conns]
           /\ CurInv' /\ pc'[t] \in {"idle", "ping"}
           /\ \A u \in Threads \ {t} : pc'[u] = pc[u]
           /\ Owned(t)' = Owned(t) \cup {c}
           /\ \A u \in Threads \ {t} : Owned(u)' = Owned(u)
  BY CreateEffect
<1>2. pc[t] = "create" /\ lock' = None /\ UNCHANGED <<now, up, open>>
  BY DEF Create, world
<1>3. TypeOK'
  <2>1. live' \in SUBSET Conns
    BY <1>1, PoolType
  <2> QED BY <1>1, <1>2, <2>1, PoolTypeIntro DEF TypeOK
<1>4. LockInv' /\ CreateInv'
  BY <1>1, <1>2, PoolAssumption DEF LockInv, CreateInv
<1>5. LeaseIsLive' /\ LeaseIsExclusive' /\ NoneIsLost'
  BY <1>1 DEF LeaseIsLive, LeaseIsExclusive, NoneIsLost
<1> QED BY <1>1, <1>3, <1>4, <1>5

LEMMA CreateThrowsInv == ASSUME IInv, NEW t \in Threads, CreateThrows(t) PROVE IInv'
<1> USE DEF IInv, CreateThrows, Done, Goto, world
<1>1. TypeOK'
  BY DEF TypeOK, live, Steps, Ops
<1>2. LockInv' /\ CurInv' /\ CreateInv'
  BY PoolAssumption DEF TypeOK, LockInv, CurInv, CreateInv
<1>3. \A u \in Threads : Owned(u)' = Owned(u)
  BY DEF TypeOK, Owned, CurInv
<1>4. LeaseIsLive' /\ LeaseIsExclusive' /\ NoneIsLost'
  BY <1>3 DEF LeaseIsLive, LeaseIsExclusive, NoneIsLost, live
<1> QED BY <1>1, <1>2, <1>4

LEMMA PingInv == ASSUME IInv, NEW t \in Threads, Ping(t) PROVE IInv'
<1> USE DEF IInv, Done, Goto, poolVars, world
<1>1. pc[t] = "ping" /\ cur[t] \in Conns /\ UNCHANGED <<pool, lock, now, up, open, alive>>
  BY DEF Ping, TypeOK, CurInv
<1>2. TypeOK' /\ LockInv' /\ CurInv' /\ CreateInv'
  <2>1. CASE cur[t] \in alive
    BY <1>1, <2>1, PoolAssumption
    DEF Ping, TypeOK, LockInv, CurInv, CreateInv, Free, live, Steps, Ops
  <2>2. CASE cur[t] \notin alive
    BY <1>1, <2>2, PoolAssumption
    DEF Ping, TypeOK, LockInv, CurInv, CreateInv, Free, live, Steps, Ops
  <2> QED BY <2>1, <2>2
<1>3. \A u \in Threads : Owned(u)' = Owned(u)
  BY <1>1, PoolAssumption DEF Ping, TypeOK, Owned, CurInv
<1>4. LeaseIsLive' /\ LeaseIsExclusive' /\ NoneIsLost'
  BY <1>1, <1>3 DEF LeaseIsLive, LeaseIsExclusive, NoneIsLost, live
<1> QED BY <1>2, <1>4

LEMMA ReleaseEffect ==
  ASSUME IInv, NEW t \in Threads, Release(t), NEW c, c = cur[t]
  PROVE  /\ c \in Conns /\ c \in live /\ c \in Owned(t)
         /\ live' = live
         /\ pool' \in [live -> ConnectionInfo]
         /\ ~pool'[c].in_use
         /\ \A d \in live \ {c} : pool'[d] = pool[d]
         /\ Owned(t)' = Owned(t) \ {c}
         /\ \A u \in Threads \ {t} : Owned(u)' = Owned(u) /\ c \notin Owned(u)
<1> USE DEF IInv
<1>1. /\ pc[t] = "release" /\ c \in Conns /\ c \in Owned(t)
      /\ pool' = [pool EXCEPT ![c] = [last_used |-> now, in_use |-> FALSE]]
      /\ Done(t) /\ UNCHANGED held
  BY PoolAssumption DEF Release, TypeOK, CurInv, Owned
<1>2. c \in live
  BY <1>1 DEF LeaseIsLive
<1>3. /\ live' = live
      /\ pool' \in [live -> ConnectionInfo]
      /\ ~pool'[c].in_use
      /\ \A d \in live \ {c} : pool'[d] = pool[d]
  BY <1>1, <1>2, PoolType DEF live, TypeOK, ConnectionInfo
<1>4. /\ Owned(t)' = Owned(t) \ {c}
      /\ \A u \in Threads \ {t} : Owned(u)' = Owned(u) /\ c \notin Owned(u)
  BY <1>1, PoolAssumption DEF TypeOK, Owned, CurInv, Done, Goto, LeaseIsExclusive
<1> QED BY <1>1, <1>2, <1>3, <1>4

LEMMA ReleaseInv == ASSUME IInv, NEW t \in Threads, Release(t) PROVE IInv'
<1> USE DEF IInv
<1>1. /\ pc[t] = "release" /\ lock = None /\ Done(t)
      /\ UNCHANGED <<lock, now, up, open, held, alive>>
  BY DEF Release, Unlocked, world
<1>2. TypeOK'
  BY <1>1, ReleaseEffect, PoolType, PoolTypeIntro DEF TypeOK, Done, Goto, Steps, Ops
<1>3. LockInv' /\ CurInv' /\ CreateInv'
  BY <1>1, PoolAssumption DEF TypeOK, LockInv, CurInv, CreateInv, Done, Goto
<1>4. LeaseIsLive' /\ LeaseIsExclusive' /\ NoneIsLost'
  BY ReleaseEffect DEF LeaseIsLive, LeaseIsExclusive, NoneIsLost
<1> QED BY <1>2, <1>3, <1>4

LEMMA RemoveEffect ==
  ASSUME IInv, NEW t \in Threads, Remove(t), NEW c, c = cur[t]
  PROVE  /\ c \in Conns /\ c \in Owned(t)
         /\ live' = live \ {c}
         /\ pool' \in [live' -> ConnectionInfo]
         /\ \A d \in live' : pool'[d] = pool[d]
         /\ Owned(t)' = Owned(t) \ {c}
         /\ \A u \in Threads \ {t} : Owned(u)' = Owned(u) /\ c \notin Owned(u)
<1> USE DEF IInv
<1>1. /\ c \in Conns /\ c \in Owned(t) /\ pool' = Erase({c})
      /\ \E s \in {"idle", "scan"}, o \in Ops : Goto(t, s, o, None)
      /\ UNCHANGED held
  BY PoolAssumption DEF Remove, TypeOK, CurInv, Owned, Done, Ops
<1>2. /\ live' = live \ {c}
      /\ pool' \in [live' -> ConnectionInfo]
      /\ \A d \in live' : pool'[d] = pool[d]
  <2>1. Erase({c}) \in [live \ {c} -> ConnectionInfo]
    BY EraseFacts
  <2>2. live' = live \ {c} /\ \A d \in live' : pool'[d] = pool[d]
    BY <1>1, EraseStep
  <2> QED BY <1>1, <2>1, <2>2
<1>3. /\ Owned(t)' = Owned(t) \ {c}
      /\ \A u \in Threads \ {t} : Owned(u)' = Owned(u) /\ c \notin Owned(u)
  BY <1>1, PoolAssumption DEF TypeOK, Owned, CurInv, Goto, LeaseIsExclusive
<1> QED BY <1>1, <1>2, <1>3

LEMMA RemoveInv == ASSUME IInv, NEW t \in Threads, Remove(t) PROVE IInv'
<1> USE DEF IInv
<1>1. /\ pc[t] = "remove" /\ lock = None /\ alive' = alive \ {cur[t]}
      /\ \E s \in {"idle", "scan"}, o \in Ops : Goto(t, s, o, None)
      /\ UNCHANGED <<lock, now, up, open, held>>
  BY DEF Remove, Unlocked, world, TypeOK, Done, Ops
<1>2. TypeOK'
  BY <1>1, RemoveEffect, PoolType, PoolTypeIntro DEF TypeOK, Goto, Steps
<1>3. LockInv' /\ CurInv' /\ CreateInv'
  BY <1>1, PoolAssumption DEF TypeOK, LockInv, CurInv, CreateInv, Goto
<1>4. LeaseIsLive' /\ LeaseIsExclusive' /\ NoneIsLost'
  BY RemoveEffect DEF LeaseIsLive, LeaseIsExclusive, NoneIsLost
<1> QED BY <1>2, <1>3, <1>4

LEMMA ShrinkInv == ASSUME IInv, NEW t \in Threads, Shrink(t) PROVE IInv'
<1> USE DEF IInv
<1>1. /\ pool' = Erase(Free) /\ alive' = alive \ Free /\ lock = None
      /\ UNCHANGED <<lock, now, up, open, pc, op, cur, held>>
  BY DEF Shrink, Unlocked, world, callVars, Cleared, Free
<1>2. /\ live' = live \ Free
      /\ pool' \in [live' -> ConnectionInfo]
      /\ \A d \in live' : pool'[d] = pool[d]
  <2>1. pool' = Erase(Free)
    BY <1>1
  <2>2. live' = live \ Free /\ \A d \in live' : pool'[d] = pool[d]
    BY <2>1, EraseStep
  <2>3. Erase(Free) \in [live \ Free -> ConnectionInfo]
    BY EraseFacts
  <2> QED BY <2>1, <2>2, <2>3
<1>3. \A u \in Threads : Owned(u)' = Owned(u) /\ Owned(u) \cap Free = {}
  BY <1>1 DEF Owned, LeaseIsLive, Free
<1>4. TypeOK'
  BY <1>1, <1>2, PoolType, PoolTypeIntro DEF TypeOK
<1>5. LockInv' /\ CurInv' /\ CreateInv'
  BY <1>1, <1>2 DEF LockInv, CurInv, CreateInv, Free
<1>6. LeaseIsLive' /\ LeaseIsExclusive' /\ NoneIsLost'
  BY <1>2, <1>3 DEF LeaseIsLive, LeaseIsExclusive, NoneIsLost
<1> QED BY <1>4, <1>5, <1>6

LEMMA DrainInv == ASSUME IInv, Drain PROVE IInv'
<1> USE DEF IInv
<1>1. /\ \A t \in Threads : pc[t] = "idle" /\ cur[t] = None
      /\ pool' = Erase(live) /\ alive' = alive \ live
      /\ held' = [t \in Threads |-> {}] /\ open' = FALSE
      /\ UNCHANGED <<lock, now, pc, op, cur, up>>
  BY DEF Drain, Cleared, CurInv
<1>2. live' = {} /\ pool' \in [{} -> ConnectionInfo]
  <2>1. /\ Erase(live) \in [live \ live -> ConnectionInfo]
        /\ DOMAIN Erase(live) = live \ live
    BY EraseFacts
  <2> QED BY <1>1, <2>1 DEF live
<1>3. TypeOK' /\ LockInv' /\ CurInv' /\ CreateInv'
  BY <1>1, <1>2, PoolTypeIntro DEF TypeOK, LockInv, CurInv, CreateInv
<1>4. \A u \in Threads : Owned(u)' = {}
  BY <1>1 DEF Owned
<1>5. LeaseIsLive' /\ LeaseIsExclusive' /\ NoneIsLost'
  BY <1>2, <1>4 DEF LeaseIsLive, LeaseIsExclusive, NoneIsLost
<1> QED BY <1>3, <1>5

LEMMA WorldInv == ASSUME IInv, World \/ UNCHANGED vars PROVE IInv'
<1> USE DEF IInv
<1>1. /\ UNCHANGED <<pool, lock, pc, op, cur, held, open>>
      /\ now' \in Time /\ up' \in BOOLEAN /\ alive' \in SUBSET alive
  BY DEF World, SetClock, DropConnection, ServerStops, ServerStarts,
         vars, poolVars, callVars, world, TypeOK
<1>2. TypeOK' /\ LockInv' /\ CurInv' /\ CreateInv'
  BY <1>1 DEF TypeOK, LockInv, CurInv, CreateInv, Free, live
<1>3. LeaseIsLive' /\ LeaseIsExclusive' /\ NoneIsLost'
  BY <1>1 DEF LeaseIsLive, LeaseIsExclusive, NoneIsLost, live, Owned
<1> QED BY <1>2, <1>3

-----------------------------------------------------------------------------
LEMMA InitInv == Init => IInv
  BY TypeInit, PoolAssumption
  DEF Init, IInv, LockInv, CurInv, CreateInv, LeaseIsLive, LeaseIsExclusive,
      NoneIsLost, Owned, live

LEMMA NextInv == IInv /\ [Next]_vars => IInv'
<1> SUFFICES ASSUME IInv, [Next]_vars PROVE IInv'
  OBVIOUS
<1>1. CASE \E t \in Threads : Call(t)
  BY <1>1, CallGrabInv, CallWithInv, ShrinkInv DEF Call
<1>2. CASE \E t \in Threads : Run(t)
  BY <1>2, GrabMRUInv, GrabNoneInv, CreateInvariant, CreateThrowsInv, PingInv,
     ReleaseInv, RemoveInv DEF Run
<1>3. CASE Drain
  BY <1>3, DrainInv
<1>4. CASE World \/ UNCHANGED vars
  BY <1>4, WorldInv
<1> QED BY <1>1, <1>2, <1>3, <1>4 DEF Next

(* The pool's invariant: everything below follows from it.                 *)
THEOREM Invariance == Spec => []IInv
  BY InitInv, NextInv, PTL DEF Spec

(* Every variable keeps its type.                                          *)
THEOREM TypeCorrect == Spec => []TypeOK
  BY Invariance, PTL DEF IInv

(* A borrowed connection stays in the pool, marked in use, until its       *)
(* borrower gives it back: no operation of another thread destroys it or   *)
(* hands it to somebody else.                                              *)
THEOREM LeasesAreLive == Spec => []LeaseIsLive
  BY Invariance, PTL DEF IInv

(* No connection is ever with two threads.                                 *)
THEOREM LeasesAreExclusive == Spec => []LeaseIsExclusive
  BY Invariance, PTL DEF IInv

(* A connection marked in use is always in somebody's hands.               *)
THEOREM NoConnectionIsLost == Spec => []NoneIsLost
  BY Invariance, PTL DEF IInv

-----------------------------------------------------------------------------
(* Every step but the end of create() leaves the set of connections as it  *)
(* is or takes some away.                                                  *)
LEMMA OnlyCreateAdds ==
  ASSUME IInv, [Next]_vars, \A t \in Threads : ~Create(t)
  PROVE  live' \subseteq live
<1> USE DEF IInv
<1>1. CASE \E t \in Threads : Call(t)
  BY <1>1, EraseFacts DEF Call, CallGrab, CallWith, Shrink, poolVars, live
<1>2. CASE \E t \in Threads : Run(t)
  <2> SUFFICES ASSUME NEW t \in Threads, Run(t) PROVE live' \subseteq live
    BY <1>2
  <2>1. CASE GrabMRU(t)
    <3>1. PICK c \in MRU : pool' = [Erase(Old) EXCEPT ![c].in_use = TRUE]
      BY <2>1 DEF GrabMRU
    <3>2. DOMAIN Erase(Old) = live \ Old
      BY EraseFacts
    <3> QED BY <3>1, <3>2 DEF live
  <2>2. CASE GrabNone(t)
    BY <2>2, EraseFacts DEF GrabNone, live
  <2>3. CASE CreateThrows(t) \/ Ping(t)
    BY <2>3 DEF CreateThrows, Ping, poolVars, live
  <2>4. CASE Release(t)
    BY <2>4 DEF Release, live
  <2>5. CASE Remove(t)
    BY <2>5, EraseFacts DEF Remove, live
  <2> QED BY <2>1, <2>2, <2>3, <2>4, <2>5 DEF Run
<1>3. CASE Drain
  BY <1>3, EraseFacts DEF Drain, live
<1>4. CASE World \/ UNCHANGED vars
  BY <1>4 DEF World, SetClock, DropConnection, ServerStops, ServerStarts,
         vars, poolVars, live
<1> QED BY <1>1, <1>2, <1>3, <1>4 DEF Next

(* The pool grows only when no connection in it is free, whatever other    *)
(* threads do while create() runs.                                         *)
THEOREM GrowthIsNeeded == Spec => GrowsOnlyWhenExhausted
<1>1. ASSUME IInv, [Next]_vars
      PROVE  live' \subseteq live \/ \A c \in live' : pool'[c].in_use
  <2>1. CASE \E t \in Threads : Create(t)
    <3>1. PICK t \in Threads, c \in Conns \ live :
             pool' = [d \in live \cup {c} |->
                        IF d = c THEN [last_used |-> now, in_use |-> TRUE] ELSE pool[d]]
      BY <2>1 DEF Create
    <3>2. PICK u \in Threads : pc[u] = "create"
      BY <2>1 DEF Create
    <3>3. \A d \in live : pool[d].in_use
      BY <1>1, <3>2 DEF IInv, CreateInv, Free
    <3> QED BY <3>1, <3>3 DEF live
  <2> QED BY <1>1, <2>1, OnlyCreateAdds
<1>2. IInv /\ [Next]_vars =>
        [live' \subseteq live \/ \A c \in live' : pool'[c].in_use]_vars
  BY <1>1
<1> QED BY <1>2, Invariance, PTL DEF Spec, GrowsOnlyWhenExhausted

-----------------------------------------------------------------------------
(* Only the first half of grab() takes a free connection into use.         *)
LEMMA OnlyGrabMRUTakes ==
  ASSUME IInv, [Next]_vars, \A t \in Threads : ~GrabMRU(t),
         NEW c \in Free, c \in live'
  PROVE  ~pool'[c].in_use
<1> USE DEF IInv
<1>0. c \in live /\ ~pool[c].in_use
  BY DEF Free
<1>1. CASE \E t \in Threads : Call(t)
  BY <1>0, <1>1, EraseStep DEF Call, CallGrab, CallWith, Shrink, poolVars
<1>2. CASE \E t \in Threads : Run(t)
  <2>0. PICK t \in Threads : Run(t)
    BY <1>2
  <2>1. CASE Create(t)
    BY <2>1 DEF Create, CreateInv
  <2>2. CASE GrabNone(t)
    BY <1>0, <2>2, EraseStep DEF GrabNone
  <2>3. CASE CreateThrows(t) \/ Ping(t)
    BY <1>0, <2>3 DEF CreateThrows, Ping, poolVars, live
  <2>4. CASE Release(t)
    <3>1. cur[t] \in Owned(t)
      BY <2>4, PoolAssumption DEF Release, Owned, CurInv
    <3>2. cur[t] # c
      BY <1>0, <3>1 DEF LeaseIsLive
    <3> QED BY <1>0, <2>4, <3>2, PoolType DEF Release, live
  <2>5. CASE Remove(t)
    BY <1>0, <2>5, EraseStep DEF Remove
  <2> QED BY <2>0, <2>1, <2>2, <2>3, <2>4, <2>5 DEF Run
<1>3. CASE Drain
  BY <1>0, <1>3, EraseStep DEF Drain
<1>4. CASE World \/ UNCHANGED vars
  BY <1>0, <1>4 DEF World, SetClock, DropConnection, ServerStops, ServerStarts,
         vars, poolVars, live
<1> QED BY <1>1, <1>2, <1>3, <1>4 DEF Next

(* A connection handed out again is the most recently used free one, and   *)
(* was idle for less than max_idle_time().                                 *)
THEOREM ReusePolicy == Spec => HandsOutMostRecent
<1> DEFINE Policy ==
      \A c \in Free : c \in live' /\ pool'[c].in_use =>
         /\ pool[c].last_used > now - MaxIdle
         /\ \A d \in Free : pool[d].last_used <= pool[c].last_used
<1>1. ASSUME IInv, [Next]_vars PROVE Policy
  <2>1. CASE \E t \in Threads : GrabMRU(t)
    <3>1. PICK m \in MRU : pool' = [Erase(Old) EXCEPT ![m].in_use = TRUE]
      BY <2>1 DEF GrabMRU
    <3> SUFFICES ASSUME NEW c \in Free, c \in live', pool'[c].in_use
                 PROVE  /\ pool[c].last_used > now - MaxIdle
                        /\ \A d \in Free : pool[d].last_used <= pool[c].last_used
      OBVIOUS
    <3>2. TypeOK /\ ~pool[c].in_use /\ c \in live /\ m \in live
      BY <1>1 DEF Free, IInv, MRU, Usable
    <3>3. c = m
      <4> DEFINE f == Erase(Old)
      <4>1. DOMAIN f = live \ Old /\ \A d \in live \ Old : f[d] = pool[d]
        BY <3>2, EraseFacts
      <4>2. pool' = [f EXCEPT ![m].in_use = TRUE]
        BY <3>1
      <4> HIDE DEF f
      <4>3. c \in DOMAIN f /\ pool'[c].in_use
        BY <4>2 DEF live
      <4>4. SUFFICES ASSUME c # m PROVE FALSE
        OBVIOUS
      <4>5. pool'[c] = f[c]
        BY <4>2, <4>3, <4>4
      <4>6. f[c] = pool[c]
        BY <4>1, <4>3
      <4> QED BY <3>2, <4>3, <4>5, <4>6
    <3>4. \A d \in live : pool[d].last_used \in Int
      BY <3>2, PoolType, PoolAssumption DEF ConnectionInfo, Time
    <3>5. now \in Int /\ MaxIdle \in Int
      BY <3>2, PoolAssumption DEF TypeOK, Time
    <3>6. pool[c].last_used > now - MaxIdle
      BY <3>2, <3>3, <3>4, <3>5 DEF MRU, Usable, Old, TooOld
    <3>7. ASSUME NEW d \in Free PROVE pool[d].last_used <= pool[c].last_used
      <4>1. d \in live /\ ~pool[d].in_use
        BY DEF Free
      <4>2. CASE d \in Old
        BY <3>2, <3>4, <3>5, <3>6, <4>1, <4>2 DEF Old, TooOld
      <4>3. CASE d \notin Old
        BY <3>3, <4>3 DEF MRU, Usable
      <4> QED BY <4>2, <4>3
    <3> QED BY <3>6, <3>7
  <2> QED BY <1>1, <2>1, OnlyGrabMRUTakes
<1>2. IInv /\ [Next]_vars => [Policy]_vars
  BY <1>1
<1> QED BY <1>2, Invariance, PTL DEF Spec, HandsOutMostRecent

-----------------------------------------------------------------------------
(* The owner of a connection is read off the pool and the threads' loans.  *)
OwnerIs == \A c \in Conns :
  /\ owner[c] = Gone <=> c \notin live
  /\ owner[c] = Idle <=> c \in Free
  /\ \A t \in Threads : owner[c] = t <=> c \in Owned(t)

LEMMA OwnerFacts == IInv => OwnerIs
<1> SUFFICES ASSUME IInv, NEW c \in Conns
             PROVE  /\ owner[c] = Gone <=> c \notin live
                    /\ owner[c] = Idle <=> c \in Free
                    /\ \A t \in Threads : owner[c] = t <=> c \in Owned(t)
  BY DEF OwnerIs
<1>1. CASE c \in live /\ pool[c].in_use
  <2>1. PICK t \in Threads : c \in Owned(t)
    BY <1>1 DEF IInv, NoneIsLost
  <2>2. \A u \in Threads : c \in Owned(u) => u = t
    BY <2>1 DEF IInv, LeaseIsExclusive
  <2>3. owner[c] = t
    BY <1>1, <2>1, <2>2 DEF owner
  <2> QED BY <1>1, <2>1, <2>2, <2>3, PoolAssumption DEF Free
<1>2. CASE ~(c \in live /\ pool[c].in_use)
  <2>1. \A t \in Threads : c \notin Owned(t)
    BY <1>2 DEF IInv, LeaseIsLive
  <2>2. owner[c] = IF c \notin live THEN Gone ELSE Idle
    BY <1>2 DEF owner
  <2> QED BY <1>2, <2>1, <2>2, PoolAssumption DEF Free
<1> QED BY <1>1, <1>2

LEMMA OwnerFactsNext == IInv' => OwnerIs'
  BY OwnerFacts, PTL

OwnerTyped == owner \in [Conns -> Threads \cup {Idle, Gone}]

LEMMA OwnerType == IInv => OwnerTyped
<1> SUFFICES ASSUME IInv, NEW c \in Conns PROVE owner[c] \in Threads \cup {Idle, Gone}
  BY DEF OwnerTyped, owner
<1>1. CASE c \in live /\ pool[c].in_use
  BY <1>1, OwnerFacts DEF OwnerIs, IInv, NoneIsLost
<1>2. CASE ~(c \in live /\ pool[c].in_use)
  BY <1>2, OwnerFacts DEF OwnerIs, Free
<1> QED BY <1>1, <1>2

LEMMA OwnerTypeNext == IInv' => OwnerTyped'
  BY OwnerType, PTL

(* Two states with the same connections, free connections and loans have   *)
(* the same owners.                                                        *)
LEMMA OwnerSame ==
  ASSUME IInv, IInv', live' = live, Free' = Free,
         \A t \in Threads : Owned(t)' = Owned(t)
  PROVE  owner' = owner
<1>1. \A c \in Conns : owner'[c] = owner[c]
  BY OwnerFacts, OwnerFactsNext, OwnerType, OwnerTypeNext DEF OwnerIs, OwnerTyped
<1> QED BY <1>1, OwnerType, OwnerTypeNext DEF OwnerTyped

(* The steps that move no connection between the pool and the threads.     *)
LEMMA QuietSteps ==
  ASSUME IInv, IInv',
         \/ \E t \in Threads : CallGrab(t) \/ CallWith(t) \/ CreateThrows(t) \/ Ping(t)
         \/ World \/ UNCHANGED vars
  PROVE  owner' = owner
<1> USE DEF IInv
<1>1. pool' = pool
  BY DEF CallGrab, CallWith, CreateThrows, Ping, World, SetClock, DropConnection,
         ServerStops, ServerStarts, poolVars, vars
<1>2. \A u \in Threads : Owned(u)' = Owned(u)
  <2>1. CASE \E t \in Threads : CallGrab(t) \/ CreateThrows(t)
    BY <2>1 DEF CallGrab, CreateThrows, Done, Goto, TypeOK, Owned, CurInv
  <2>2. CASE \E t \in Threads : CallWith(t)
    BY <2>2, PoolAssumption DEF CallWith, Goto, TypeOK, Owned, CurInv
  <2>3. CASE \E t \in Threads : Ping(t)
    BY <2>3, PoolAssumption DEF Ping, Done, Goto, TypeOK, Owned, CurInv
  <2>4. CASE World \/ UNCHANGED vars
    BY <2>4 DEF World, SetClock, DropConnection, ServerStops, ServerStarts,
                callVars, vars, Owned
  <2> QED BY <2>1, <2>2, <2>3, <2>4
<1>3. live' = live /\ Free' = Free
  BY <1>1 DEF live, Free
<1> QED BY <1>2, <1>3, OwnerSame

(* Erasing free connections destroys idle ones, and leaves the loans alone. *)
LEMMA ReapSteps ==
  ASSUME IInv, IInv', NEW S \in SUBSET Free, pool' = Erase(S),
         \A u \in Threads : Owned(u)' = Owned(u)
  PROVE  Lease!Reap
<1>1. live' = live \ S /\ \A c \in live' : pool'[c] = pool[c]
  BY EraseStep DEF IInv
<1>2. S \in SUBSET Lease!IdleConns
  BY OwnerFacts, PoolType DEF IInv, OwnerIs, Free, Lease!IdleConns
<1>3. \A c \in Conns : owner'[c] = Lease!Without(S)[c]
  <2> SUFFICES ASSUME NEW c \in Conns
               PROVE  owner'[c] = IF c \in S THEN Gone ELSE owner[c]
    BY DEF Lease!Without
  <2>1. c \in live' <=> c \in live /\ c \notin S
    BY <1>1
  <2>2. c \in Free' <=> c \in Free /\ c \notin S
    BY <1>1 DEF Free
  <2> QED BY <2>1, <2>2, OwnerFacts, OwnerFactsNext, OwnerType, OwnerTypeNext
      DEF OwnerIs, OwnerTyped, Free
<1>4. owner' = Lease!Without(S)
  BY <1>3, OwnerType, OwnerTypeNext DEF OwnerTyped, Lease!Without
<1> QED BY <1>2, <1>4 DEF Lease!Reap

LEMMA LendSteps ==
  ASSUME IInv, IInv', NEW t \in Threads, GrabMRU(t) PROVE Lease!Lend(t)
<1>1. PICK c \in Free \ Old :
        /\ live' = live \ Old
        /\ pool'[c].in_use
        /\ \A d \in live' \ {c} : pool'[d] = pool[d]
        /\ \A u \in Threads : c \notin Owned(u) /\ Owned(u) \cap Old = {}
        /\ Owned(t)' = Owned(t) \cup {c}
        /\ \A u \in Threads \ {t} : Owned(u)' = Owned(u)
  BY GrabMRUEffect
<1>2. Old \in SUBSET Lease!IdleConns /\ c \in Lease!IdleConns \ Old
  BY OwnerFacts, PoolType DEF IInv, OwnerIs, Free, Old, TooOld, Lease!IdleConns
<1>3. ASSUME NEW d \in Conns
      PROVE  owner'[d] = IF d = c THEN t ELSE IF d \in Old THEN Gone ELSE owner[d]
  <2>1. d \in live' <=> d \in live /\ d \notin Old
    BY <1>1
  <2>2. d # c => (d \in Free' <=> d \in Free /\ d \notin Old)
    BY <1>1 DEF Free
  <2> QED BY <1>1, <2>1, <2>2, OwnerFacts, OwnerFactsNext, OwnerType, OwnerTypeNext
      DEF OwnerIs, OwnerTyped, Free
<1>4. owner' = [Lease!Without(Old) EXCEPT ![c] = t]
  BY <1>3, OwnerType, OwnerTypeNext DEF OwnerTyped, Lease!Without
<1> QED BY <1>2, <1>4 DEF Lease!Lend

LEMMA MakeSteps ==
  ASSUME IInv, IInv', NEW t \in Threads, Create(t) PROVE Lease!Make(t)
<1>1. PICK c \in Conns \ live :
        /\ live' = live \cup {c}
        /\ pool'[c].in_use
        /\ \A d \in live : pool'[d] = pool[d]
        /\ \A u \in Threads : c \notin Owned(u)
        /\ Owned(t)' = Owned(t) \cup {c}
        /\ \A u \in Threads \ {t} : Owned(u)' = Owned(u)
  BY CreateEffect
<1>2. owner[c] = Gone
  BY OwnerFacts DEF OwnerIs
<1>3. ASSUME NEW d \in Conns PROVE owner'[d] = IF d = c THEN t ELSE owner[d]
  <2>1. d # c => (d \in Free' <=> d \in Free)
    BY <1>1 DEF Free
  <2> QED BY <1>1, <2>1, OwnerFacts, OwnerFactsNext, OwnerType, OwnerTypeNext
      DEF OwnerIs, OwnerTyped
<1>4. owner' = [owner EXCEPT ![c] = t]
  BY <1>3, OwnerType, OwnerTypeNext DEF OwnerTyped
<1> QED BY <1>2, <1>4 DEF Lease!Make

LEMMA GiveBackSteps ==
  ASSUME IInv, IInv', NEW t \in Threads, Release(t) PROVE Lease!GiveBack(t)
<1> DEFINE c == cur[t]
<1> HIDE DEF c
<1>1. /\ c \in Conns /\ c \in live /\ c \in Owned(t)
      /\ live' = live
      /\ ~pool'[c].in_use
      /\ \A d \in live \ {c} : pool'[d] = pool[d]
      /\ Owned(t)' = Owned(t) \ {c}
      /\ \A u \in Threads \ {t} : Owned(u)' = Owned(u) /\ c \notin Owned(u)
  BY ReleaseEffect DEF c
<1>2. owner[c] = t
  BY <1>1, OwnerFacts DEF OwnerIs
<1>3. ASSUME NEW d \in Conns PROVE owner'[d] = IF d = c THEN Idle ELSE owner[d]
  <2>1. d # c => (d \in Free' <=> d \in Free)
    BY <1>1 DEF Free
  <2>2. c \in Free'
    BY <1>1 DEF Free
  <2> QED BY <1>1, <2>1, <2>2, OwnerFacts, OwnerFactsNext, OwnerType, OwnerTypeNext
      DEF OwnerIs, OwnerTyped
<1>4. owner' = [owner EXCEPT ![c] = Idle]
  BY <1>3, OwnerType, OwnerTypeNext DEF OwnerTyped
<1> QED BY <1>1, <1>2, <1>4 DEF Lease!GiveBack

LEMMA DiscardSteps ==
  ASSUME IInv, IInv', NEW t \in Threads, Remove(t) PROVE Lease!Discard(t)
<1> DEFINE c == cur[t]
<1> HIDE DEF c
<1>1. /\ c \in Conns /\ c \in Owned(t)
      /\ live' = live \ {c}
      /\ \A d \in live' : pool'[d] = pool[d]
      /\ Owned(t)' = Owned(t) \ {c}
      /\ \A u \in Threads \ {t} : Owned(u)' = Owned(u) /\ c \notin Owned(u)
  BY RemoveEffect DEF c
<1>2. owner[c] = t
  BY <1>1, OwnerFacts DEF OwnerIs
<1>3. ASSUME NEW d \in Conns PROVE owner'[d] = IF d = c THEN Gone ELSE owner[d]
  <2>1. d # c => (d \in Free' <=> d \in Free)
    BY <1>1 DEF Free
  <2> QED BY <1>1, <2>1, OwnerFacts, OwnerFactsNext, OwnerType, OwnerTypeNext
      DEF OwnerIs, OwnerTyped
<1>4. owner' = [owner EXCEPT ![c] = Gone]
  BY <1>3, OwnerType, OwnerTypeNext DEF OwnerTyped
<1> QED BY <1>1, <1>2, <1>4 DEF Lease!Discard

LEMMA CloseSteps == ASSUME IInv, IInv', Drain PROVE Lease!Close
<1>1. live' = {}
  <2>1. pool' = Erase(live)
    BY DEF Drain, Cleared
  <2> QED BY <2>1, EraseStep DEF IInv
<1>2. \A c \in Conns : owner'[c] = Gone
  BY <1>1, OwnerFactsNext DEF OwnerIs
<1> QED BY <1>2 DEF owner, Lease!Close

LEMMA LeaseStep == ASSUME IInv, IInv', [Next]_vars PROVE [Lease!Next]_owner
<1>1. ASSUME NEW t \in Threads, Call(t) PROVE [Lease!Next]_owner
  <2>1. CASE CallGrab(t) \/ CallWith(t)
    BY <2>1, QuietSteps
  <2>2. CASE Shrink(t)
    <3>1. pool' = Erase(Free) /\ \A u \in Threads : Owned(u)' = Owned(u)
      BY <2>2 DEF Shrink, Cleared, Free, callVars, Owned
    <3> QED BY <3>1, ReapSteps DEF Lease!Next
  <2> QED BY <1>1, <2>1, <2>2 DEF Call
<1>2. ASSUME NEW t \in Threads, Run(t) PROVE [Lease!Next]_owner
  <2>1. CASE CreateThrows(t) \/ Ping(t)
    BY <2>1, QuietSteps
  <2>2. CASE GrabNone(t)
    <3>1. pool' = Erase(Old) /\ Old \in SUBSET Free
      BY <2>2 DEF GrabNone, Old, TooOld, Free
    <3>2. \A u \in Threads : Owned(u)' = Owned(u)
      BY <2>2 DEF GrabNone, Goto, IInv, TypeOK, Owned, CurInv
    <3> QED BY <3>1, <3>2, ReapSteps DEF Lease!Next
  <2> QED BY <1>2, <2>1, <2>2, LendSteps, MakeSteps, GiveBackSteps, DiscardSteps
      DEF Run, Lease!Next
<1>3. CASE Drain
  BY <1>3, CloseSteps DEF Lease!Next
<1>4. CASE World \/ UNCHANGED vars
  BY <1>4, QuietSteps
<1> QED BY <1>1, <1>2, <1>3, <1>4 DEF Next

LEMMA LeaseInit == Init => Lease!Init
<1> SUFFICES ASSUME Init PROVE owner = [c \in Conns |-> Gone]
  BY DEF Lease!Init
<1>1. live = {}
  BY DEF Init, live
<1> QED BY <1>1 DEF owner

(* The pool implements the lease: to every thread it looks as if each      *)
(* connection had one owner at a time, whom only that owner's calls change *)
(* while it has the connection.                                            *)
THEOREM PoolImplementsLease == Spec => ImplementsLease
<1>1. IInv /\ IInv' /\ [Next]_vars => [Lease!Next]_owner
  BY LeaseStep
<1> QED BY <1>1, LeaseInit, Invariance, PTL DEF Spec, ImplementsLease, Lease!Spec
=============================================================================
