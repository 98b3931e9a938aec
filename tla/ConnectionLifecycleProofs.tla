----------------------- MODULE ConnectionLifecycleProofs -----------------------
(***************************************************************************)
(* What is proved of ConnectionLifecycle for any number of connections,    *)
(* drivers and options, and any versions of the client library: its types, *)
(* that everything on the heap has one owner, that a driver knows whether  *)
(* it is connected, and that connect() cannot return with a queued option. *)
(***************************************************************************)
EXTENDS ConnectionLifecycle, SequenceTheorems, TLAPS

(* The options that can be queued with a client library of version v.      *)
Queues(v, o) ==
  /\ OptionAt[o].class = "ReconnectOption"
  /\ Supported("ReconnectOption", v) /\ v < ReconnectFixed

Owned(f, d) == f[d].applied \cup Elements(f[d].pending)

(* Who owns the options on heap hp when the drivers are f: one driver each,*)
(* one list each, and only a queued one may be left over.                  *)
OptionsInv(v, f, hp) ==
  /\ \A d \in Drivers : Owned(f, d) \subseteq hp
  /\ \A d \in Drivers : f[d].applied \cap Elements(f[d].pending) = {}
  /\ \A d, e \in Drivers : d # e => Owned(f, d) \cap Owned(f, e) = {}
  /\ \A o \in hp : ~Queues(v, o) => \E d \in Drivers : o \in Owned(f, d)
  /\ \A d \in Drivers : \A o \in Elements(f[d].pending) : Queues(v, o)
  /\ \A d \in Drivers : ~f[d].live => f[d].applied = {} /\ f[d].pending = <<>>

(* Connections cn and the drivers that are alive belong together one to    *)
(* one.                                                                    *)
DriversInv(cn, f) ==
  /\ \A c \in Conns : cn[c].alive => cn[c].driver \in Drivers /\ f[cn[c].driver].live
  /\ \A c, e \in Conns : cn[c].alive /\ cn[e].alive /\ cn[c].driver = cn[e].driver => c = e
  /\ \A d \in Drivers : f[d].live => \E c \in Conns : cn[c].alive /\ cn[c].driver = d

(* Inside connect(): the driver is disconnected, and the loop goes over    *)
(* options that cannot be set in that state; it is not done while one is   *)
(* queued.                                                                 *)
ConnectInv ==
  /\ busy # None =>
       /\ conn[busy].alive /\ ~drv[D(busy)].is_connected
       /\ drv[D(busy)].pending # <<>> => it # None \/ todo # <<>>
  /\ it # None => busy # None /\ Queues(version, it)
  /\ \A o \in Elements(todo) : Queues(version, o)

IInv ==
  /\ TypeOK /\ ConnectInv
  /\ OptionsInv(version, drv, heap)
  /\ DriversInv(conn, drv)

-----------------------------------------------------------------------------
(* Sequences and options                                                   *)

LEMMA AppendElements ==
  ASSUME NEW s \in Seq(Options), NEW o \in Options
  PROVE  /\ Append(s, o) \in Seq(Options) /\ Append(s, o) # <<>>
         /\ Elements(Append(s, o)) = Elements(s) \cup {o}
<1>1. /\ Append(s, o) \in Seq(Options) /\ Len(Append(s, o)) = Len(s) + 1
      /\ \A i \in 1..Len(s) : Append(s, o)[i] = s[i]
      /\ Append(s, o)[Len(s) + 1] = o /\ Len(s) \in Nat
  OBVIOUS
<1>2. Append(s, o) # <<>>
  BY <1>1
<1>3. Elements(Append(s, o)) = {Append(s, o)[i] : i \in 1..Len(s) + 1}
  BY <1>1 DEF Elements
<1>4. 1..Len(s) + 1 = (1..Len(s)) \cup {Len(s) + 1}
  BY <1>1
<1> QED BY <1>1, <1>2, <1>3, <1>4 DEF Elements

LEMMA HeadTailElements ==
  ASSUME NEW s \in Seq(Options), s # <<>>
  PROVE  /\ Head(s) \in Elements(s) /\ Head(s) \in Options
         /\ Tail(s) \in Seq(Options) /\ Elements(Tail(s)) \subseteq Elements(s)
<1>1. /\ Len(s) \in Nat \ {0} /\ Head(s) = s[1] /\ Tail(s) \in Seq(Options)
      /\ Len(Tail(s)) = Len(s) - 1
      /\ \A i \in 1..Len(s) - 1 : Tail(s)[i] = s[i + 1]
  OBVIOUS
<1>2. \A i \in 1..Len(s) - 1 : i + 1 \in 1..Len(s)
  BY <1>1
<1> QED BY <1>1, <1>2 DEF Elements

LEMMA SeqElements ==
  ASSUME NEW s \in Seq(Options)
  PROVE  Elements(s) \subseteq Options /\ (Elements(s) = {} <=> s = <<>>)
BY DEF Elements

LEMMA NoElements == Elements(<<>>) = {}
BY DEF Elements

(* What setting an option can do: an option is queued only when it cannot  *)
(* be set now, and that is always so for one that was queued.              *)
LEMMA ClassesApart ==
  /\ "ReconnectOption" \notin ApiOptions \cup FlagOptions \cup ServerOptions
  /\ \A class \in ServerOptions : class \notin ApiOptions \cup FlagOptions
  /\ \A class \in FlagOptions : class \notin ApiOptions
BY DEF ApiOptions, FlagOptions, ServerOptions

LEMMA SetErrorsDisconnected ==
  ASSUME NEW class \in OptionClasses, NEW v \in Nat, NEW up \in BOOLEAN,
         "disconnected" \in SetErrors(class, v, up)
  PROVE  class = "ReconnectOption" /\ Supported(class, v) /\ v < ReconnectFixed /\ ~up
<1> DEFINE errors == SetErrors(class, v, up)
<1>1. CASE ~Supported(class, v)
  <2>1. errors = {"api_limit"}
    BY <1>1, Zenon DEF SetErrors
  <2> QED BY <2>1
<1>2. CASE Supported(class, v) /\ class = "ReconnectOption" /\ (up \/ v >= ReconnectFixed)
  <2>1. errors = {"NONE", "api_reject"}
    BY <1>2, ClassesApart, Zenon DEF SetErrors
  <2> QED BY <2>1
<1>3. CASE Supported(class, v) /\ class \in ServerOptions /\ up
  <2>1. class # "ReconnectOption"
    BY <1>3, ClassesApart
  <2>2. errors = {"NONE", "ignored"}
    BY <1>3, <2>1, ClassesApart, Zenon DEF SetErrors
  <2> QED BY <2>2
<1>4. CASE Supported(class, v) /\ class \in FlagOptions \cup ServerOptions /\ ~up
  <2>1. class # "ReconnectOption" /\ class \notin ApiOptions
    BY <1>4, ClassesApart
  <2>2. errors = {"NONE"} \/ errors = {"api_reject"}
    BY <1>4, <2>1, Zenon DEF SetErrors
  <2> QED BY <2>2
<1>5. CASE Supported(class, v) /\ class \in ApiOptions /\ ~up
  <2>1. class # "ReconnectOption" /\ class \notin FlagOptions \cup ServerOptions
    BY <1>5, ClassesApart
  <2>2. errors = {"NONE", "api_reject"}
    BY <1>5, <2>1, Zenon DEF SetErrors
  <2> QED BY <2>2
<1>6. CASE Supported(class, v) /\ class \in ApiOptions \cup FlagOptions /\ up
  <2>1. class # "ReconnectOption" /\ class \notin ServerOptions
    BY <1>6, ClassesApart
  <2>2. errors = {"connected"}
    BY <1>6, <2>1, Zenon DEF SetErrors
  <2> QED BY <2>2
<1>7. ReconnectFixed \in Nat
  BY DEF ReconnectFixed
<1> QED BY <1>1, <1>2, <1>3, <1>4, <1>5, <1>6, <1>7 DEF OptionClasses

LEMMA QueuedErrors ==
  ASSUME NEW v \in Nat, NEW o \in Options, Queues(v, o)
  PROVE  SetErrors(OptionAt[o].class, v, FALSE) = {"disconnected"}
<1> DEFINE class == OptionAt[o].class
<1>1. class = "ReconnectOption" /\ Supported(class, v) /\ ~(v >= ReconnectFixed)
  BY DEF Queues, ReconnectFixed
<1>2. class \notin ServerOptions /\ class \notin FlagOptions \cup ServerOptions
      /\ class \notin ApiOptions
  BY <1>1, ClassesApart
<1> HIDE DEF class
<1>3. SetErrors(class, v, FALSE) = {"disconnected"}
  BY <1>1, <1>2, Zenon DEF SetErrors
<1> QED BY <1>3 DEF class

(* The four outcomes of DBDriver::set_option().                            *)
LEMMA SetOptionCases ==
  ASSUME NEW d, NEW o, NEW err, SetOptionOn(d, o, err)
  PROVE  /\ heap' = IF Succeeds(err) THEN heap \cup {o} ELSE heap \ {o}
         /\ err = "NONE" => drv' = [drv EXCEPT ![d].applied = @ \cup {o},
                                              ![d].inForce = InForceWith(drv[d], o)]
         /\ err = "ignored" => drv' = [drv EXCEPT ![d].applied = @ \cup {o}]
         /\ err = "disconnected" => drv' = [drv EXCEPT ![d].pending = Append(@, o)]
         /\ ~Succeeds(err) => drv' = drv
<1>1. "NONE" # "ignored" /\ "NONE" # "disconnected" /\ "ignored" # "disconnected"
  OBVIOUS
<1>2. heap' = IF Succeeds(err) THEN heap \cup {o} ELSE heap \ {o}
  BY DEF SetOptionOn
<1>3. ASSUME err = "NONE"
      PROVE  drv' = [drv EXCEPT ![d].applied = @ \cup {o},
                                ![d].inForce = InForceWith(drv[d], o)]
  BY <1>1, <1>3, Zenon DEF SetOptionOn
<1>4. ASSUME err = "ignored" PROVE drv' = [drv EXCEPT ![d].applied = @ \cup {o}]
  BY <1>1, <1>4, Zenon DEF SetOptionOn
<1>5. ASSUME err = "disconnected" PROVE drv' = [drv EXCEPT ![d].pending = Append(@, o)]
  BY <1>1, <1>5, Zenon DEF SetOptionOn
<1>6. ASSUME ~Succeeds(err) PROVE drv' = drv
  <2>1. err # "NONE" /\ err # "ignored" /\ err # "disconnected"
    BY <1>6 DEF Succeeds
  <2> QED BY <2>1, Zenon DEF SetOptionOn
<1> QED BY <1>2, <1>3, <1>4, <1>5, <1>6

-----------------------------------------------------------------------------
(* Drivers                                                                 *)

ConnectionRecord == [alive : BOOLEAN, driver : Drivers \cup {None}, copacetic : BOOLEAN]

LEMMA NewDriverFacts ==
  /\ NewDriver \in Driver /\ NewDriver.live /\ ~NewDriver.is_connected /\ ~NewDriver.open
  /\ NewDriver.applied = {} /\ NewDriver.pending = <<>> /\ NewDriver.inForce = {}
<1>1. <<>> \in Seq(Options)
  OBVIOUS
<1> QED BY <1>1 DEF NewDriver, Driver

LEMMA DisconnectedFacts ==
  ASSUME NEW r \in Driver
  PROVE  /\ Disconnected(r) \in Driver /\ Disconnected(r).live = r.live
         /\ ~Disconnected(r).is_connected /\ Disconnected(r).inForce \in {r.inForce, {}}
         /\ Disconnected(r).applied = r.applied /\ Disconnected(r).pending = r.pending
         /\ Disconnected(r).open = IF r.is_connected THEN FALSE ELSE r.open
BY DEF Disconnected, Driver

(* At the address of a deleted driver nothing is left but, if the driver   *)
(* did not know of it, the session with the server.                        *)
LEMMA DeletedFacts ==
  ASSUME NEW f \in [Drivers -> Driver], NEW d \in Drivers
  PROVE  /\ Deleted(f, d) \in [Drivers -> Driver]
         /\ ~Deleted(f, d)[d].live /\ Deleted(f, d)[d].applied = {}
         /\ Deleted(f, d)[d].pending = <<>> /\ Deleted(f, d)[d].inForce = {}
         /\ Deleted(f, d)[d].open = IF f[d].is_connected THEN FALSE ELSE f[d].open
         /\ \A e \in Drivers : e # d => Deleted(f, d)[e] = f[e]
<1> DEFINE gone == [NoDriver EXCEPT !.open = Disconnected(f[d]).open]
<1>1. /\ NoDriver \in Driver /\ ~NoDriver.live /\ NoDriver.applied = {}
      /\ NoDriver.pending = <<>> /\ NoDriver.inForce = {}
  BY NewDriverFacts DEF NoDriver, Driver
<1>2. /\ Disconnected(f[d]).open = IF f[d].is_connected THEN FALSE ELSE f[d].open
      /\ Disconnected(f[d]).open \in BOOLEAN
  BY DisconnectedFacts DEF Driver
<1>3. /\ gone \in Driver /\ ~gone.live /\ gone.applied = {} /\ gone.pending = <<>>
      /\ gone.inForce = {} /\ gone.open = Disconnected(f[d]).open
  BY <1>1, <1>2 DEF Driver
<1>4. Deleted(f, d) = [f EXCEPT ![d] = gone]
  BY DEF Deleted
<1> HIDE DEF gone
<1> QED BY <1>2, <1>3, <1>4

(* A clone is a new driver.  At most the old one's session is opened.      *)
LEMMA ClonesFacts ==
  ASSUME NEW f \in [Drivers -> Driver], NEW d \in Drivers, NEW n \in Drivers, d # n,
         NEW g \in Clones(f, d, n)
  PROVE  /\ g \in [Drivers -> Driver]
         /\ g[n].live /\ g[n].applied = {} /\ g[n].pending = <<>> /\ g[n].inForce = {}
         /\ ~g[n].open /\ (~LocalServer => ~g[n].is_connected)
         /\ \A e \in Drivers \ {n} :
              /\ g[e].live = f[e].live /\ g[e].applied = f[e].applied
              /\ g[e].pending = f[e].pending
              /\ ~LocalServer => g[e] = f[e]
<1>1. CASE g = [f EXCEPT ![n] = NewDriver]
  BY <1>1, NewDriverFacts
<1>2. CASE /\ LocalServer
           /\ g = [f EXCEPT ![d].open = TRUE, ![n] = [NewDriver EXCEPT !.is_connected = TRUE]]
  <2> DEFINE new == [NewDriver EXCEPT !.is_connected = TRUE]
             opened == [f[d] EXCEPT !.open = TRUE]
  <2>1. /\ new \in Driver /\ new.live /\ ~new.open /\ new.applied = {} /\ new.pending = <<>>
        /\ new.inForce = {}
    BY NewDriverFacts DEF Driver
  <2>2. /\ opened \in Driver /\ opened.live = f[d].live /\ opened.applied = f[d].applied
        /\ opened.pending = f[d].pending
    BY DEF Driver
  <2>3. g = [f EXCEPT ![d] = opened, ![n] = new]
    BY <1>2
  <2> HIDE DEF new, opened
  <2> QED BY <1>2, <2>1, <2>2, <2>3
<1> QED BY <1>1, <1>2 DEF Clones

-----------------------------------------------------------------------------
(* Who owns the options                                                    *)

SameOptions(f, g) ==
  \A d \in Drivers : /\ g[d].applied = f[d].applied /\ g[d].pending = f[d].pending
                     /\ f[d].live => g[d].live

LEMMA OptionsStay ==
  ASSUME NEW v, NEW f, NEW g, NEW hp, OptionsInv(v, f, hp), SameOptions(f, g)
  PROVE  OptionsInv(v, g, hp)
<1>1. \A d \in Drivers : Owned(g, d) = Owned(f, d)
  BY DEF Owned, SameOptions
<1> QED BY <1>1 DEF OptionsInv, SameOptions

(* A driver takes its applied options with it, and only those.             *)
LEMMA OptionsDeleted ==
  ASSUME NEW v, NEW f \in [Drivers -> Driver], NEW hp, OptionsInv(v, f, hp), NEW d \in Drivers
  PROVE  OptionsInv(v, Deleted(f, d), hp \ f[d].applied)
<1> DEFINE g == Deleted(f, d)
           left == hp \ f[d].applied
<1>1. /\ ~g[d].live /\ g[d].applied = {} /\ g[d].pending = <<>>
      /\ \A e \in Drivers : e # d => g[e] = f[e]
  BY DeletedFacts
<1> HIDE DEF g
<1>2. Owned(g, d) = {} /\ Elements(g[d].pending) = {}
      /\ \A e \in Drivers : e # d => Owned(g, e) = Owned(f, e)
  BY <1>1, NoElements DEF Owned
<1>3. \A e \in Drivers : Owned(g, e) \subseteq left
  BY <1>2 DEF OptionsInv, Owned
<1>4. \A e \in Drivers : g[e].applied \cap Elements(g[e].pending) = {}
  BY <1>1, <1>2 DEF OptionsInv
<1>5. \A e, e2 \in Drivers : e # e2 => Owned(g, e) \cap Owned(g, e2) = {}
  BY <1>2 DEF OptionsInv
<1>6. ASSUME NEW o \in left, ~Queues(v, o) PROVE \E e \in Drivers : o \in Owned(g, e)
  <2>1. PICK e \in Drivers : o \in Owned(f, e)
    BY <1>6 DEF OptionsInv
  <2>2. e # d
    BY <1>6, <2>1 DEF OptionsInv, Owned
  <2> QED BY <1>2, <2>1, <2>2
<1>7. \A e \in Drivers : \A o \in Elements(g[e].pending) : Queues(v, o)
  BY <1>1, <1>2 DEF OptionsInv
<1>8. \A e \in Drivers : ~g[e].live => g[e].applied = {} /\ g[e].pending = <<>>
  BY <1>1 DEF OptionsInv
<1> HIDE DEF left
<1>9. OptionsInv(v, g, left)
  BY <1>3, <1>4, <1>5, <1>6, <1>7, <1>8 DEF OptionsInv
<1> QED BY <1>9 DEF g, left

(* An option that nobody owned gets an owner, in one of its lists.         *)
Gets(f, g, d, o) ==
  /\ \A e \in Drivers \ {d} : g[e] = f[e]
  /\ g[d].live = f[d].live
  /\ \/ g[d].applied = f[d].applied \cup {o} /\ g[d].pending = f[d].pending
     \/ g[d].applied = f[d].applied /\ Elements(g[d].pending) = Elements(f[d].pending) \cup {o}

LEMMA OptionGiven ==
  ASSUME NEW v, NEW f, NEW g, NEW hp, OptionsInv(v, f, hp),
         NEW d \in Drivers, f[d].live, NEW o, o \notin hp, Gets(f, g, d, o),
         o \in Elements(g[d].pending) => Queues(v, o)
  PROVE  OptionsInv(v, g, hp \cup {o})
<1>1. /\ Owned(g, d) = Owned(f, d) \cup {o}
      /\ \A e \in Drivers : e # d => Owned(g, e) = Owned(f, e) /\ g[e] = f[e]
  BY DEF Owned, Gets
<1>2. \A e \in Drivers : o \notin Owned(f, e)
  BY DEF OptionsInv
<1>3. \A e \in Drivers : Owned(g, e) \subseteq hp \cup {o}
  BY <1>1 DEF OptionsInv
<1>4. \A e \in Drivers : g[e].applied \cap Elements(g[e].pending) = {}
  <2>1. g[d].applied \cap Elements(g[d].pending) = {}
    BY <1>2 DEF OptionsInv, Owned, Gets
  <2> QED BY <1>1, <2>1 DEF OptionsInv
<1>5. \A e, e2 \in Drivers : e # e2 => Owned(g, e) \cap Owned(g, e2) = {}
  BY <1>1, <1>2 DEF OptionsInv
<1>6. \A p \in hp \cup {o} : ~Queues(v, p) => \E e \in Drivers : p \in Owned(g, e)
  <2>1. \A p \in hp : ~Queues(v, p) => \E e \in Drivers : p \in Owned(f, e)
    BY DEF OptionsInv
  <2>2. \A e \in Drivers : Owned(f, e) \subseteq Owned(g, e)
    BY <1>1
  <2> QED BY <1>1, <2>1, <2>2
<1>7. \A e \in Drivers : \A p \in Elements(g[e].pending) : Queues(v, p)
  <2>1. \A p \in Elements(g[d].pending) : p = o \/ p \in Elements(f[d].pending)
    BY DEF Gets
  <2> QED BY <1>1, <2>1 DEF OptionsInv
<1>8. \A e \in Drivers : ~g[e].live => g[e].applied = {} /\ g[e].pending = <<>>
  BY <1>1 DEF OptionsInv, Gets
<1> QED BY <1>3, <1>4, <1>5, <1>6, <1>7, <1>8 DEF OptionsInv

LEMMA InForceType ==
  ASSUME NEW r \in Driver, NEW o \in Options
  PROVE  InForceWith(r, o) \in SUBSET OptionClasses
<1>1. OptionAt[o].class \in OptionClasses
  BY LifecycleAssumption
<1>2. \A up : SettingOf(OptionAt[o].class, up) \in OptionClasses
  BY <1>1 DEF SettingOf, OptionClasses, ServerOptions
<1>3. r.inForce \subseteq OptionClasses
  BY DEF Driver
<1> QED BY <1>2, <1>3 DEF InForceWith

LEMMA OptionSet ==
  ASSUME TypeOK, OptionsInv(version, drv, heap), NEW d \in Drivers, drv[d].live,
         NEW o \in Options, o \notin heap, NEW err \in SetErrorsOf(o, d), SetOptionOn(d, o, err)
  PROVE  /\ drv' \in [Drivers -> Driver] /\ heap' \in SUBSET Options
         /\ \A e \in Drivers : drv'[e].live = drv[e].live
         /\ OptionsInv(version, drv', heap')
<1>1. /\ heap' = IF Succeeds(err) THEN heap \cup {o} ELSE heap \ {o}
      /\ err = "NONE" => drv' = [drv EXCEPT ![d].applied = @ \cup {o},
                                            ![d].inForce = InForceWith(drv[d], o)]
      /\ err = "ignored" => drv' = [drv EXCEPT ![d].applied = @ \cup {o}]
      /\ err = "disconnected" => drv' = [drv EXCEPT ![d].pending = Append(@, o)]
      /\ ~Succeeds(err) => drv' = drv
  BY SetOptionCases
<1>2. /\ drv \in [Drivers -> Driver] /\ heap \in SUBSET Options
      /\ drv[d].applied \in SUBSET Options /\ drv[d].pending \in Seq(Options)
  BY DEF TypeOK, Driver
<1>3. drv[d] \in Driver /\ o \notin Owned(drv, d)
  BY <1>2 DEF OptionsInv
<1>4. heap \cup {o} \in SUBSET Options
  BY <1>2
<1>5. ASSUME NEW r \in Driver, r.live = drv[d].live, drv' = [drv EXCEPT ![d] = r], Succeeds(err),
             \/ r.applied = drv[d].applied \cup {o} /\ r.pending = drv[d].pending
             \/ /\ r.applied = drv[d].applied
                /\ Elements(r.pending) = Elements(drv[d].pending) \cup {o} /\ Queues(version, o)
      PROVE  /\ drv' \in [Drivers -> Driver]
             /\ \A e \in Drivers : drv'[e].live = drv[e].live
             /\ OptionsInv(version, drv', heap')
  <2>1. drv' \in [Drivers -> Driver] /\ drv'[d] = r /\ \A e \in Drivers \ {d} : drv'[e] = drv[e]
    BY <1>2, <1>5
  <2>2. Gets(drv, drv', d, o)
    BY <1>5, <2>1 DEF Gets
  <2>3. o \in Elements(drv'[d].pending) => Queues(version, o)
    BY <1>3, <1>5, <2>1 DEF Owned
  <2>4. OptionsInv(version, drv', heap \cup {o})
    BY <2>2, <2>3, OptionGiven
  <2> QED BY <1>1, <1>5, <2>1, <2>4
<1>6. CASE err = "NONE"
  <2> DEFINE r == [drv[d] EXCEPT !.applied = @ \cup {o}, !.inForce = InForceWith(drv[d], o)]
  <2>1. r \in Driver /\ r.live = drv[d].live /\ r.applied = drv[d].applied \cup {o}
        /\ r.pending = drv[d].pending
    BY <1>2, <1>3, InForceType DEF Driver
  <2>2. drv' = [drv EXCEPT ![d] = r]
    BY <1>1, <1>2, <1>6
  <2> HIDE DEF r
  <2> QED BY <1>1, <1>4, <1>5, <1>6, <2>1, <2>2 DEF Succeeds
<1>7. CASE err = "ignored"
  <2> DEFINE r == [drv[d] EXCEPT !.applied = @ \cup {o}]
  <2>1. r \in Driver /\ r.live = drv[d].live /\ r.applied = drv[d].applied \cup {o}
        /\ r.pending = drv[d].pending
    BY <1>2, <1>3 DEF Driver
  <2>2. drv' = [drv EXCEPT ![d] = r]
    BY <1>1, <1>7
  <2> HIDE DEF r
  <2> QED BY <1>1, <1>4, <1>5, <1>7, <2>1, <2>2 DEF Succeeds
<1>8. CASE err = "disconnected"
  <2> DEFINE r == [drv[d] EXCEPT !.pending = Append(@, o)]
  <2>1. Append(drv[d].pending, o) \in Seq(Options)
        /\ Elements(Append(drv[d].pending, o)) = Elements(drv[d].pending) \cup {o}
    BY <1>2, AppendElements
  <2>2. r \in Driver /\ r.live = drv[d].live /\ r.applied = drv[d].applied
        /\ r.pending = Append(drv[d].pending, o)
    BY <1>3, <2>1 DEF Driver
  <2>3. Queues(version, o)
    <3>1. /\ OptionAt[o].class \in OptionClasses /\ version \in Nat
          /\ drv[d].is_connected \in BOOLEAN
      BY <1>3, LifecycleAssumption DEF TypeOK, Driver
    <3> QED BY <1>8, <3>1, SetErrorsDisconnected DEF SetErrorsOf, Queues
  <2>4. drv' = [drv EXCEPT ![d] = r]
    BY <1>1, <1>8
  <2> HIDE DEF r
  <2> QED BY <1>1, <1>4, <1>5, <1>8, <2>1, <2>2, <2>3, <2>4 DEF Succeeds
<1>9. CASE ~Succeeds(err)
  <2>1. drv' = drv /\ heap' = heap
    BY <1>1, <1>9
  <2> QED BY <1>2, <2>1
<1> QED BY <1>6, <1>7, <1>8, <1>9 DEF Succeeds

-----------------------------------------------------------------------------
(* Who owns the drivers                                                    *)

SameConns(cn, cn2) ==
  \A c \in Conns : cn2[c].alive = cn[c].alive /\ cn2[c].driver = cn[c].driver

LEMMA DriversStay ==
  ASSUME NEW cn, NEW cn2, NEW f, NEW g, DriversInv(cn, f), SameConns(cn, cn2),
         \A d \in Drivers : g[d].live = f[d].live
  PROVE  DriversInv(cn2, g)
BY DEF DriversInv, SameConns

(* Connection c is now alive with driver d.                                *)
Holds(cn, cn2, c, d) ==
  /\ cn2[c].alive /\ cn2[c].driver = d
  /\ \A e \in Conns \ {c} : cn2[e] = cn[e]

LEMMA DriverBorn ==
  ASSUME NEW cn, NEW cn2, NEW f, NEW g, DriversInv(cn, f),
         NEW c \in Conns, ~cn[c].alive, NEW n \in Drivers, ~f[n].live, Holds(cn, cn2, c, n),
         g[n].live, \A d \in Drivers \ {n} : g[d].live = f[d].live
  PROVE  DriversInv(cn2, g)
<1>1. \A e \in Conns : cn2[e].alive => cn2[e].driver \in Drivers /\ g[cn2[e].driver].live
  BY DEF DriversInv, Holds
<1>2. \A e, e2 \in Conns : cn2[e].alive /\ cn2[e2].alive /\ cn2[e].driver = cn2[e2].driver => e = e2
  BY DEF DriversInv, Holds
<1>3. \A d \in Drivers : g[d].live => \E e \in Conns : cn2[e].alive /\ cn2[e].driver = d
  BY DEF DriversInv, Holds
<1> QED BY <1>1, <1>2, <1>3 DEF DriversInv

LEMMA DriverGone ==
  ASSUME NEW cn, NEW cn2, NEW f, NEW g, DriversInv(cn, f),
         NEW c \in Conns, cn[c].alive, ~cn2[c].alive, \A e \in Conns \ {c} : cn2[e] = cn[e],
         NEW d \in Drivers, d = cn[c].driver, ~g[d].live,
         \A e \in Drivers \ {d} : g[e].live = f[e].live
  PROVE  DriversInv(cn2, g)
<1>1. \A e \in Conns : cn2[e].alive => cn2[e].driver \in Drivers /\ g[cn2[e].driver].live
  BY DEF DriversInv
<1>2. \A e, e2 \in Conns : cn2[e].alive /\ cn2[e2].alive /\ cn2[e].driver = cn2[e2].driver => e = e2
  BY DEF DriversInv
<1>3. \A e \in Drivers : g[e].live => \E e2 \in Conns : cn2[e2].alive /\ cn2[e2].driver = e
  BY DEF DriversInv
<1> QED BY <1>1, <1>2, <1>3 DEF DriversInv

-----------------------------------------------------------------------------
(* The calls                                                               *)

LEMMA Types ==
  ASSUME TypeOK
  PROVE  /\ conn \in [Conns -> ConnectionRecord] /\ drv \in [Drivers -> Driver]
         /\ heap \in SUBSET Options /\ version \in Nat
BY LifecycleAssumption DEF TypeOK, ConnectionRecord

LEMMA TypesBack ==
  ASSUME TypeOK, version' = version,
         conn' \in [Conns -> ConnectionRecord], drv' \in [Drivers -> Driver],
         heap' \in SUBSET Options, busy' \in Conns \cup {None},
         it' \in Options \cup {None}, todo' \in Seq(Options),
         ret' \in [call : Calls, ok : BOOLEAN]
  PROVE  TypeOK'
BY DEF TypeOK, ConnectionRecord

LEMMA ReturnsType ==
  ASSUME NEW call \in Calls, NEW ok \in BOOLEAN, Returns(call, ok)
  PROVE  ret' \in [call : Calls, ok : BOOLEAN]
BY DEF Returns

(* The calls of a program that is in none of them.                         *)
Outside == busy = None /\ UNCHANGED <<busy, it, todo, version>>

LEMMA OutsideStep ==
  ASSUME IInv, Outside,
         conn' \in [Conns -> ConnectionRecord], drv' \in [Drivers -> Driver],
         heap' \in SUBSET Options, ret' \in [call : Calls, ok : BOOLEAN],
         OptionsInv(version, drv', heap'), DriversInv(conn', drv')
  PROVE  IInv'
<1>1. TypeOK'
  BY TypesBack DEF IInv, Outside, TypeOK
<1>2. ConnectInv'
  BY DEF IInv, Outside, ConnectInv
<1>3. OptionsInv(version', drv', heap') /\ DriversInv(conn', drv')
  BY DEF Outside
<1> QED BY <1>1, <1>2, <1>3 DEF IInv

LEMMA AliveFacts ==
  ASSUME IInv, NEW c \in Conns, conn[c].alive
  PROVE  /\ D(c) \in Drivers /\ drv[D(c)].live /\ drv[D(c)] \in Driver
         /\ conn[c] \in ConnectionRecord /\ conn[c].driver = D(c)
BY Types DEF IInv, DriversInv, D

LEMMA BornStep ==
  ASSUME IInv, Outside, NEW c \in Conns, ~conn[c].alive, NEW n \in Drivers, ~drv[n].live,
         NEW ok \in BOOLEAN,
         conn' = [conn EXCEPT ![c] = [alive |-> TRUE, driver |-> n, copacetic |-> ok]],
         drv' \in [Drivers -> Driver], drv'[n].live, drv'[n].applied = {}, drv'[n].pending = <<>>,
         \A e \in Drivers \ {n} : /\ drv'[e].live = drv[e].live
                                  /\ drv'[e].applied = drv[e].applied
                                  /\ drv'[e].pending = drv[e].pending,
         heap' = heap, ret' \in [call : Calls, ok : BOOLEAN]
  PROVE  IInv'
<1> DEFINE new == [alive |-> TRUE, driver |-> n, copacetic |-> ok]
<1>1. /\ conn \in [Conns -> ConnectionRecord] /\ heap \in SUBSET Options
      /\ OptionsInv(version, drv, heap) /\ DriversInv(conn, drv)
  BY Types DEF IInv
<1>2. new \in ConnectionRecord /\ new.alive /\ new.driver = n
  BY DEF ConnectionRecord
<1>3. conn' \in [Conns -> ConnectionRecord] /\ Holds(conn, conn', c, n)
  <2> HIDE DEF new
  <2>1. conn' = [conn EXCEPT ![c] = new]
    BY DEF new
  <2> QED BY <1>1, <1>2, <2>1 DEF Holds
<1>4. DriversInv(conn', drv')
  BY <1>1, <1>3, DriverBorn
<1>5. SameOptions(drv, drv')
  BY <1>1 DEF SameOptions, OptionsInv
<1>6. OptionsInv(version, drv', heap')
  BY <1>1, <1>5, OptionsStay
<1> QED BY <1>1, <1>3, <1>4, <1>6, OutsideStep

LEMMA ConstructStep == ASSUME IInv, NEW c \in Conns, Construct(c) PROVE IInv'
<1>1. PICK d \in Drivers :
        /\ ~drv[d].live
        /\ drv' = [drv EXCEPT ![d] = NewDriver]
        /\ conn' = [conn EXCEPT ![c] = [alive |-> TRUE, driver |-> d, copacetic |-> TRUE]]
  BY DEF Construct, FreeAddress
<1>2. Outside /\ ~conn[c].alive /\ heap' = heap /\ ret' \in [call : Calls, ok : BOOLEAN]
  BY DEF Construct, Outside, Returns, Calls
<1>3. drv \in [Drivers -> Driver]
  BY Types DEF IInv
<1>4. /\ drv' \in [Drivers -> Driver] /\ drv'[d] = NewDriver
      /\ \A e \in Drivers \ {d} : drv'[e] = drv[e]
  BY <1>1, <1>3, NewDriverFacts
<1> QED BY <1>1, <1>2, <1>4, NewDriverFacts, BornStep

LEMMA ConstructConnectedStep == ASSUME IInv, NEW c \in Conns, ConstructConnected(c) PROVE IInv'
<1> DEFINE new == [NewDriver EXCEPT !.is_connected = TRUE, !.open = TRUE]
<1>1. /\ Outside /\ ~conn[c].alive /\ heap' = heap
      /\ conn \in [Conns -> ConnectionRecord] /\ drv \in [Drivers -> Driver]
      /\ heap \in SUBSET Options
  BY Types DEF ConstructConnected, Outside, IInv
<1>2. /\ new \in Driver /\ new.live /\ new.applied = {} /\ new.pending = <<>>
  BY NewDriverFacts DEF Driver
<1>3. CASE \E d \in Drivers :
             /\ FreeAddress(drv, d)
             /\ drv' = [drv EXCEPT ![d] = new]
             /\ conn' = [conn EXCEPT ![c] = [alive |-> TRUE, driver |-> d, copacetic |-> TRUE]]
             /\ Returns("connect", TRUE)
  <2>1. PICK d \in Drivers :
             /\ ~drv[d].live
             /\ drv' = [drv EXCEPT ![d] = new]
             /\ conn' = [conn EXCEPT ![c] = [alive |-> TRUE, driver |-> d, copacetic |-> TRUE]]
             /\ Returns("connect", TRUE)
    BY <1>3 DEF FreeAddress
  <2>2. ret' \in [call : Calls, ok : BOOLEAN]
    BY <2>1 DEF Returns, Calls
  <2> HIDE DEF new
  <2>3. /\ drv' \in [Drivers -> Driver] /\ drv'[d] = new
        /\ \A e \in Drivers \ {d} : drv'[e] = drv[e]
    BY <1>1, <1>2, <2>1
  <2> QED BY <1>1, <1>2, <2>1, <2>2, <2>3, BornStep
<1>4. CASE Returns("connect", FALSE) /\ UNCHANGED <<conn, drv>>
  <2>1. ret' \in [call : Calls, ok : BOOLEAN]
    BY <1>4 DEF Returns, Calls
  <2>2. OptionsInv(version, drv', heap') /\ DriversInv(conn', drv')
    BY <1>1, <1>4 DEF IInv
  <2> QED BY <1>1, <1>4, <2>1, <2>2, OutsideStep
<1> QED BY <1>3, <1>4 DEF ConstructConnected

(* The copy clones into an address, deletes that driver and clones again.  *)
LEMMA CopyStep == ASSUME IInv, NEW c \in Conns, NEW other \in Conns, Copy(c, other) PROVE IInv'
<1>1. /\ Outside /\ ~conn[c].alive /\ conn[other].alive /\ heap' = heap
      /\ ret' \in [call : Calls, ok : BOOLEAN] /\ drv \in [Drivers -> Driver]
  BY Types DEF Copy, Alive, Outside, IInv, Returns, Calls
<1>2. PICK n \in Drivers : /\ ~drv[n].live
                           /\ \E f \in Clones(drv, D(other), n) :
                                drv' \in Clones(Deleted(f, n), D(other), n)
                           /\ \E garbage \in BOOLEAN :
                                conn' = [conn EXCEPT ![c] =
                                  [alive |-> TRUE, driver |-> n, copacetic |-> garbage]]
  BY DEF Copy, FreeAddress
<1>3. PICK f \in Clones(drv, D(other), n) : drv' \in Clones(Deleted(f, n), D(other), n)
  BY <1>2
<1>4. PICK garbage \in BOOLEAN :
        conn' = [conn EXCEPT ![c] = [alive |-> TRUE, driver |-> n, copacetic |-> garbage]]
  BY <1>2
<1>5. D(other) \in Drivers /\ D(other) # n
  BY <1>1, <1>2, AliveFacts
<1>6. /\ f \in [Drivers -> Driver]
      /\ \A e \in Drivers \ {n} : /\ f[e].live = drv[e].live /\ f[e].applied = drv[e].applied
                                  /\ f[e].pending = drv[e].pending
  BY <1>1, <1>5, ClonesFacts
<1>7. /\ Deleted(f, n) \in [Drivers -> Driver]
      /\ \A e \in Drivers \ {n} : Deleted(f, n)[e] = f[e]
  BY <1>6, DeletedFacts
<1>8. /\ drv' \in [Drivers -> Driver]
      /\ drv'[n].live /\ drv'[n].applied = {} /\ drv'[n].pending = <<>>
      /\ \A e \in Drivers \ {n} : /\ drv'[e].live = drv[e].live /\ drv'[e].applied = drv[e].applied
                                  /\ drv'[e].pending = drv[e].pending
  BY <1>3, <1>5, <1>6, <1>7, ClonesFacts
<1> QED BY <1>1, <1>2, <1>4, <1>8, BornStep

LEMMA AssignStep == ASSUME IInv, NEW c \in Conns, NEW rhs \in Conns, Assign(c, rhs) PROVE IInv'
<1> DEFINE old == D(c)
           f == Deleted(drv, old)
           left == heap \ drv[old].applied
<1>1. /\ Outside /\ conn[c].alive /\ conn[rhs].alive /\ c # rhs /\ heap' = left
      /\ ret' \in [call : Calls, ok : BOOLEAN]
      /\ OptionsInv(version, drv, heap) /\ DriversInv(conn, drv)
      /\ conn \in [Conns -> ConnectionRecord] /\ drv \in [Drivers -> Driver]
      /\ heap \in SUBSET Options
  BY Types DEF Assign, Alive, Outside, IInv, Returns, Calls, OptionsOf
<1>2. PICK n \in Drivers : /\ ~f[n].live
                           /\ drv' \in Clones(f, D(rhs), n)
                           /\ conn' = [conn EXCEPT ![c].driver = n]
  BY DEF Assign, FreeAddress
<1>3. /\ old \in Drivers /\ D(rhs) \in Drivers /\ drv[D(rhs)].live /\ D(rhs) # old
      /\ conn[c].driver = old /\ conn[c] \in ConnectionRecord
  BY <1>1, AliveFacts DEF DriversInv, D
<1> HIDE DEF old, left
<1>4. /\ f \in [Drivers -> Driver] /\ ~f[old].live
      /\ \A e \in Drivers \ {old} : f[e] = drv[e]
  <2>1. drv \in [Drivers -> Driver] /\ old \in Drivers
    BY <1>1, <1>3
  <2>2. /\ f \in [Drivers -> Driver] /\ ~f[old].live
        /\ \A e \in Drivers : e # old => f[e] = drv[e]
    BY <2>1, DeletedFacts
  <2> QED BY <2>2
<1>5. OptionsInv(version, f, left)
  BY <1>1, <1>3, OptionsDeleted DEF left
<1>6. D(rhs) # n
  BY <1>2, <1>3, <1>4
<1> HIDE DEF f
<1>7. /\ drv' \in [Drivers -> Driver]
      /\ drv'[n].live /\ drv'[n].applied = {} /\ drv'[n].pending = <<>>
      /\ \A e \in Drivers \ {n} : /\ drv'[e].live = f[e].live /\ drv'[e].applied = f[e].applied
                                  /\ drv'[e].pending = f[e].pending
  BY <1>2, <1>3, <1>4, <1>6, ClonesFacts
<1>8. SameOptions(f, drv')
  BY <1>2, <1>5, <1>7 DEF SameOptions, OptionsInv
<1>9. OptionsInv(version, drv', heap')
  BY <1>1, <1>5, <1>8, OptionsStay
<1> DEFINE new == [conn[c] EXCEPT !.driver = n]
           gone == [conn EXCEPT ![c] = [conn[c] EXCEPT !.alive = FALSE]]
<1>10. new \in ConnectionRecord /\ new.alive /\ new.driver = n
  BY <1>1, <1>3 DEF ConnectionRecord
<1>11. conn' = [conn EXCEPT ![c] = new]
  BY <1>2
<1>12. ~gone[c].alive /\ \A e \in Conns \ {c} : gone[e] = conn[e]
  BY <1>1, <1>3 DEF ConnectionRecord
<1> HIDE DEF new, gone
<1>13. conn' \in [Conns -> ConnectionRecord] /\ Holds(gone, conn', c, n)
  BY <1>1, <1>10, <1>11, <1>12 DEF Holds
<1>14. DriversInv(gone, f)
  BY <1>1, <1>3, <1>4, <1>12, DriverGone
<1>15. DriversInv(conn', drv')
  BY <1>2, <1>7, <1>12, <1>13, <1>14, DriverBorn
<1>16. heap' \in SUBSET Options
  BY <1>1 DEF left
<1> QED BY <1>1, <1>7, <1>9, <1>13, <1>15, <1>16, OutsideStep

LEMMA GoneStep ==
  ASSUME IInv, Outside, NEW c \in Conns, conn[c].alive,
         drv' = Deleted(drv, D(c)), heap' = heap \ OptionsOf(D(c)),
         conn' \in [Conns -> ConnectionRecord],
         ~conn'[c].alive, \A e \in Conns \ {c} : conn'[e] = conn[e],
         ret' \in [call : Calls, ok : BOOLEAN]
  PROVE  IInv'
<1>1. /\ OptionsInv(version, drv, heap) /\ DriversInv(conn, drv)
      /\ drv \in [Drivers -> Driver] /\ heap \in SUBSET Options
  BY Types DEF IInv
<1>2. D(c) \in Drivers /\ conn[c].driver = D(c)
  BY AliveFacts
<1>3. drv' \in [Drivers -> Driver] /\ ~drv'[D(c)].live
      /\ \A e \in Drivers \ {D(c)} : drv'[e] = drv[e]
  <2>1. /\ Deleted(drv, D(c)) \in [Drivers -> Driver] /\ ~Deleted(drv, D(c))[D(c)].live
        /\ \A e \in Drivers : e # D(c) => Deleted(drv, D(c))[e] = drv[e]
    BY <1>1, <1>2, DeletedFacts
  <2> QED BY <2>1
<1>4. OptionsInv(version, drv', heap')
  BY <1>1, <1>2, OptionsDeleted DEF OptionsOf
<1>5. DriversInv(conn', drv')
  BY <1>1, <1>2, <1>3, DriverGone
<1>6. heap' \in SUBSET Options
  BY <1>1
<1> QED BY <1>3, <1>4, <1>5, <1>6, OutsideStep

LEMMA AssignSelfStep == ASSUME IInv, NEW c \in Conns, AssignSelf(c) PROVE IInv'
<1>1. /\ Outside /\ conn[c].alive /\ drv' = Deleted(drv, D(c)) /\ heap' = heap \ OptionsOf(D(c))
      /\ conn' = [conn EXCEPT ![c].alive = FALSE, ![c].driver = None]
      /\ ret' \in [call : Calls, ok : BOOLEAN]
      /\ conn \in [Conns -> ConnectionRecord]
  BY Types DEF AssignSelf, Alive, Outside, IInv, Returns, Calls
<1> DEFINE new == [conn[c] EXCEPT !.alive = FALSE, !.driver = None]
<1>2. new \in ConnectionRecord /\ ~new.alive
  BY <1>1 DEF ConnectionRecord
<1>3. conn' = [conn EXCEPT ![c] = new]
  BY <1>1
<1> HIDE DEF new
<1>4. /\ conn' \in [Conns -> ConnectionRecord] /\ ~conn'[c].alive
      /\ \A e \in Conns \ {c} : conn'[e] = conn[e]
  BY <1>1, <1>2, <1>3
<1> QED BY <1>1, <1>4, GoneStep

LEMMA DestroyStep == ASSUME IInv, NEW c \in Conns, Destroy(c) PROVE IInv'
<1> DEFINE new == [alive |-> FALSE, driver |-> None, copacetic |-> TRUE]
<1>1. /\ Outside /\ conn[c].alive /\ drv' = Deleted(drv, D(c)) /\ heap' = heap \ OptionsOf(D(c))
      /\ conn' = [conn EXCEPT ![c] = new]
      /\ ret' \in [call : Calls, ok : BOOLEAN]
      /\ conn \in [Conns -> ConnectionRecord]
  BY Types DEF Destroy, Alive, Outside, IInv, Returns, Calls
<1>2. new \in ConnectionRecord /\ ~new.alive
  BY DEF ConnectionRecord
<1> HIDE DEF new
<1>3. /\ conn' \in [Conns -> ConnectionRecord] /\ ~conn'[c].alive
      /\ \A e \in Conns \ {c} : conn'[e] = conn[e]
  BY <1>1, <1>2
<1> QED BY <1>1, <1>3, GoneStep

LEMMA ConnectBadAddressStep == ASSUME IInv, NEW c \in Conns, ConnectBadAddress(c) PROVE IInv'
<1> DEFINE new == [conn[c] EXCEPT !.copacetic = FALSE]
<1>1. /\ Outside /\ UNCHANGED <<drv, heap>> /\ conn' = [conn EXCEPT ![c] = new]
      /\ ret' \in [call : Calls, ok : BOOLEAN]
      /\ conn \in [Conns -> ConnectionRecord] /\ drv \in [Drivers -> Driver]
      /\ heap \in SUBSET Options
      /\ OptionsInv(version, drv, heap) /\ DriversInv(conn, drv)
  BY Types DEF ConnectBadAddress, Alive, Outside, IInv, Returns, Calls
<1>2. /\ new \in ConnectionRecord /\ new.alive = conn[c].alive /\ new.driver = conn[c].driver
  BY <1>1 DEF ConnectionRecord
<1> HIDE DEF new
<1>3. conn' \in [Conns -> ConnectionRecord] /\ SameConns(conn, conn')
  BY <1>1, <1>2 DEF SameConns
<1>4. DriversInv(conn', drv')
  BY <1>1, <1>3, DriversStay
<1> QED BY <1>1, <1>3, <1>4, OutsideStep

(* A driver that changes, and keeps what it owns.                          *)
LEMMA SameDriver ==
  ASSUME IInv, NEW d \in Drivers, NEW r \in Driver, drv' = [drv EXCEPT ![d] = r],
         r.live = drv[d].live, r.applied = drv[d].applied, r.pending = drv[d].pending,
         SameConns(conn, conn'), heap' = heap
  PROVE  /\ drv' \in [Drivers -> Driver]
         /\ OptionsInv(version, drv', heap') /\ DriversInv(conn', drv')
         /\ \A e \in Drivers : drv'[e] = IF e = d THEN r ELSE drv[e]
<1>1. /\ OptionsInv(version, drv, heap) /\ DriversInv(conn, drv) /\ drv \in [Drivers -> Driver]
  BY Types DEF IInv
<1>2. /\ drv' \in [Drivers -> Driver]
      /\ \A e \in Drivers : drv'[e] = IF e = d THEN r ELSE drv[e]
  BY <1>1
<1>3. SameOptions(drv, drv') /\ \A e \in Drivers : drv'[e].live = drv[e].live
  BY <1>2 DEF SameOptions
<1>4. OptionsInv(version, drv', heap')
  BY <1>1, <1>3, OptionsStay
<1>5. DriversInv(conn', drv')
  BY <1>1, <1>3, DriversStay
<1> QED BY <1>2, <1>4, <1>5

LEMMA DisconnectStep == ASSUME IInv, NEW c \in Conns, Disconnect(c) PROVE IInv'
<1>1. /\ Outside /\ UNCHANGED <<conn, heap>> /\ conn[c].alive
      /\ drv' = [drv EXCEPT ![D(c)] = Disconnected(drv[D(c)])]
      /\ ret' \in [call : Calls, ok : BOOLEAN]
      /\ conn \in [Conns -> ConnectionRecord] /\ heap \in SUBSET Options
  BY Types DEF Disconnect, Alive, Outside, IInv, Returns, Calls
<1>2. D(c) \in Drivers /\ drv[D(c)] \in Driver
  BY <1>1, AliveFacts
<1> DEFINE r == Disconnected(drv[D(c)])
<1>3. /\ r \in Driver /\ r.live = drv[D(c)].live /\ r.applied = drv[D(c)].applied
      /\ r.pending = drv[D(c)].pending
  BY <1>2, DisconnectedFacts
<1>4. SameConns(conn, conn')
  BY <1>1 DEF SameConns
<1>5. /\ drv' \in [Drivers -> Driver]
      /\ OptionsInv(version, drv', heap') /\ DriversInv(conn', drv')
  BY <1>1, <1>2, <1>3, <1>4, SameDriver
<1> QED BY <1>1, <1>5, OutsideStep

LEMMA AskStep == ASSUME IInv, NEW c \in Conns, Ask(c) PROVE IInv'
<1>1. /\ Outside /\ UNCHANGED <<conn, drv, heap>> /\ conn[c].alive
      /\ conn \in [Conns -> ConnectionRecord] /\ drv \in [Drivers -> Driver]
      /\ heap \in SUBSET Options
      /\ OptionsInv(version, drv, heap) /\ DriversInv(conn, drv)
  BY Types DEF Ask, Alive, Outside, IInv
<1>2. drv[D(c)].is_connected \in BOOLEAN
  BY <1>1, AliveFacts DEF Driver
<1>3. ret' \in [call : Calls, ok : BOOLEAN]
  <2>1. PICK ok \in {drv[D(c)].is_connected, FALSE} : ret' = [call |-> "ping", ok |-> ok]
    BY DEF Ask, Returns
  <2>2. ok \in BOOLEAN
    BY <1>2, <2>1
  <2> QED BY <2>1, <2>2 DEF Calls
<1> QED BY <1>1, <1>3, OutsideStep

LEMMA SettingStep ==
  ASSUME IInv, NEW c \in Conns, NEW o \in Options, Alive(c), o \notin heap,
         NEW call \in Calls, NEW err \in SetErrorsOf(o, D(c)),
         SetOptionOn(D(c), o, err), Returns(call, Succeeds(err)),
         UNCHANGED <<conn, busy, it, todo, version>>
  PROVE  IInv'
<1>1. /\ Outside /\ conn[c].alive /\ TypeOK
      /\ conn \in [Conns -> ConnectionRecord]
      /\ OptionsInv(version, drv, heap) /\ DriversInv(conn, drv)
  BY Types DEF Alive, Outside, IInv
<1>2. D(c) \in Drivers /\ drv[D(c)].live
  BY <1>1, AliveFacts
<1>3. /\ drv' \in [Drivers -> Driver] /\ heap' \in SUBSET Options
      /\ \A e \in Drivers : drv'[e].live = drv[e].live
      /\ OptionsInv(version, drv', heap')
  BY <1>1, <1>2, OptionSet
<1>4. SameConns(conn, conn')
  BY DEF SameConns
<1>5. DriversInv(conn', drv')
  BY <1>1, <1>3, <1>4, DriversStay
<1>6. ret' \in [call : Calls, ok : BOOLEAN]
  <2>1. Succeeds(err) \in BOOLEAN
    BY DEF Succeeds
  <2>2. ret' = [call |-> call, ok |-> Succeeds(err)]
    BY DEF Returns
  <2> DEFINE ok == Succeeds(err)
  <2> HIDE DEF ok
  <2>3. ok \in BOOLEAN /\ ret' = [call |-> call, ok |-> ok]
    BY <2>1, <2>2 DEF ok
  <2> QED BY <2>3
<1>7. conn' \in [Conns -> ConnectionRecord]
  BY <1>1
<1> QED BY <1>1, <1>3, <1>5, <1>6, <1>7, OutsideStep

LEMMA SetOptionStep ==
  ASSUME IInv, NEW c \in Conns, NEW o \in Options, SetOption(c, o) PROVE IInv'
<1>1. PICK err \in SetErrorsOf(o, D(c)) :
        SetOptionOn(D(c), o, err) /\ Returns("set_option", Succeeds(err))
  BY DEF SetOption
<1>2. Alive(c) /\ o \notin heap /\ UNCHANGED <<conn, busy, it, todo, version>>
  BY DEF SetOption
<1>3. "set_option" \in Calls
  BY DEF Calls
<1> QED BY <1>1, <1>2, <1>3, SettingStep

LEMMA SetOptionDefaultStep ==
  ASSUME IInv, NEW c \in Conns, NEW o \in Options, SetOptionDefault(c, o) PROVE IInv'
<1>1. Alive(c) /\ o \notin heap /\ UNCHANGED <<conn, busy, it, todo, version>>
  BY DEF SetOptionDefault
<1>2. CASE Returns("set_option_default", TRUE) /\ UNCHANGED <<drv, heap>>
  <2>1. /\ Outside /\ conn \in [Conns -> ConnectionRecord] /\ drv \in [Drivers -> Driver]
        /\ heap \in SUBSET Options
        /\ OptionsInv(version, drv, heap) /\ DriversInv(conn, drv)
    BY <1>1, Types DEF Alive, Outside, IInv
  <2>2. ret' \in [call : Calls, ok : BOOLEAN]
    BY <1>2 DEF Returns, Calls
  <2> QED BY <1>1, <1>2, <2>1, <2>2, OutsideStep
<1>3. CASE \E err \in SetErrorsOf(o, D(c)) :
             SetOptionOn(D(c), o, err) /\ Returns("set_option_default", Succeeds(err))
  <2>1. PICK err \in SetErrorsOf(o, D(c)) :
          SetOptionOn(D(c), o, err) /\ Returns("set_option_default", Succeeds(err))
    BY <1>3
  <2>2. "set_option_default" \in Calls
    BY DEF Calls
  <2> QED BY <1>1, <2>1, <2>2, SettingStep
<1> QED BY <1>2, <1>3 DEF SetOptionDefault

-----------------------------------------------------------------------------
(* connect()                                                               *)

LEMMA InsideFacts ==
  ASSUME IInv, busy # None
  PROVE  /\ busy \in Conns /\ conn[busy].alive
         /\ D(busy) \in Drivers /\ drv[D(busy)].live /\ drv[D(busy)] \in Driver
         /\ ~drv[D(busy)].is_connected
         /\ drv[D(busy)].pending # <<>> => it # None \/ todo # <<>>
<1>1. busy \in Conns /\ conn[busy].alive
  BY DEF IInv, TypeOK, ConnectInv
<1> QED BY <1>1, AliveFacts DEF IInv, ConnectInv

LEMMA ConnectStep == ASSUME IInv, NEW c \in Conns, Connect(c) PROVE IInv'
<1> DEFINE r == Disconnected(drv[D(c)])
<1>1. /\ TypeOK /\ ConnectInv /\ conn[c].alive /\ busy = None
      /\ drv' = [drv EXCEPT ![D(c)] = r]
      /\ busy' = c /\ todo' = drv[D(c)].pending
      /\ UNCHANGED <<conn, heap, it, version, ret>>
  BY DEF Connect, Alive, IInv
<1>2. D(c) \in Drivers /\ drv[D(c)] \in Driver /\ D(c) = conn[c].driver
  BY <1>1, AliveFacts
<1>3. /\ r \in Driver /\ r.live = drv[D(c)].live /\ r.applied = drv[D(c)].applied
      /\ r.pending = drv[D(c)].pending /\ ~r.is_connected
  BY <1>2, DisconnectedFacts
<1> HIDE DEF r
<1>4. SameConns(conn, conn')
  BY <1>1 DEF SameConns
<1>5. /\ drv' \in [Drivers -> Driver]
      /\ OptionsInv(version, drv', heap') /\ DriversInv(conn', drv')
      /\ drv'[D(c)] = r
  BY <1>1, <1>2, <1>3, <1>4, SameDriver
<1>6. it = None /\ \A o \in Elements(todo') : Queues(version, o)
  BY <1>1, <1>2 DEF ConnectInv, IInv, OptionsInv
<1>7. ConnectInv'
  BY <1>1, <1>2, <1>3, <1>5, <1>6 DEF ConnectInv, D
<1>8. TypeOK'
  <2>1. /\ conn' \in [Conns -> ConnectionRecord] /\ heap' \in SUBSET Options
        /\ todo' \in Seq(Options) /\ it' \in Options \cup {None}
        /\ ret' \in [call : Calls, ok : BOOLEAN] /\ busy' \in Conns \cup {None}
    BY <1>1, <1>2, Types DEF TypeOK, Driver
  <2> QED BY <1>1, <1>5, <2>1, TypesBack
<1>9. OptionsInv(version', drv', heap')
  BY <1>1, <1>5
<1> QED BY <1>5, <1>7, <1>8, <1>9 DEF IInv

LEMMA NextPendingStep == ASSUME IInv, NextPending PROVE IInv'
<1>1. /\ TypeOK /\ ConnectInv /\ OptionsInv(version, drv, heap) /\ DriversInv(conn, drv)
      /\ busy # None /\ todo # <<>> /\ it' = Head(todo) /\ todo' = Tail(todo)
      /\ UNCHANGED <<conn, drv, heap, busy, version, ret>> /\ todo \in Seq(Options)
  BY DEF NextPending, IInv, TypeOK
<1>2. /\ Head(todo) \in Elements(todo) /\ Head(todo) \in Options
      /\ Tail(todo) \in Seq(Options) /\ Elements(Tail(todo)) \subseteq Elements(todo)
  BY <1>1, HeadTailElements
<1>3. ConnectInv'
  BY <1>1, <1>2, LifecycleAssumption DEF ConnectInv, D
<1>4. TypeOK'
  BY <1>1, <1>2 DEF TypeOK
<1>5. OptionsInv(version', drv', heap') /\ DriversInv(conn', drv')
  BY <1>1
<1> QED BY <1>3, <1>4, <1>5 DEF IInv

(* An option that was queued is queued again.                              *)
LEMMA ApplyPendingKinds ==
  ASSUME IInv, ApplyPending
  PROVE  /\ todo' = Append(todo, it) /\ it \in Options /\ Queues(version, it)
         /\ UNCHANGED <<drv, heap>> /\ it' = None /\ busy # None
<1>1. it # None /\ busy # None /\ Queues(version, it) /\ it \in Options /\ version \in Nat
  BY LifecycleAssumption DEF ApplyPending, IInv, ConnectInv, TypeOK
<1>2. ~drv[D(busy)].is_connected /\ drv[D(busy)].is_connected \in BOOLEAN
  BY <1>1, InsideFacts DEF Driver
<1>3. drv[D(busy)].is_connected = FALSE
  BY <1>2
<1>4. SetErrorsOf(it, D(busy)) = {"disconnected"}
  BY <1>1, <1>3, QueuedErrors DEF SetErrorsOf
<1> QED BY <1>1, <1>4 DEF ApplyPending

LEMMA ApplyPendingStep == ASSUME IInv, ApplyPending PROVE IInv'
<1>1. /\ TypeOK /\ ConnectInv /\ OptionsInv(version, drv, heap) /\ DriversInv(conn, drv)
      /\ UNCHANGED <<conn, drv, heap, busy, version, ret>> /\ it' = None
      /\ todo' = Append(todo, it) /\ Queues(version, it) /\ it \in Options
      /\ todo \in Seq(Options)
  BY ApplyPendingKinds DEF ApplyPending, IInv, TypeOK
<1>2. /\ todo' \in Seq(Options) /\ todo' # <<>> /\ Elements(todo') = Elements(todo) \cup {it}
  BY <1>1, AppendElements
<1>3. ConnectInv'
  BY <1>1, <1>2 DEF ConnectInv, D
<1>4. TypeOK'
  BY <1>1, <1>2 DEF TypeOK
<1>5. OptionsInv(version', drv', heap') /\ DriversInv(conn', drv')
  BY <1>1
<1> QED BY <1>3, <1>4, <1>5 DEF IInv

LEMMA RealConnectStep == ASSUME IInv, RealConnect PROVE IInv'
<1> DEFINE d == D(busy)
           up == [drv[d] EXCEPT !.open = TRUE, !.is_connected = TRUE]
           new(ok) == [conn[busy] EXCEPT !.copacetic = ok]
<1>1. /\ TypeOK /\ ConnectInv /\ OptionsInv(version, drv, heap) /\ DriversInv(conn, drv)
      /\ busy # None /\ it = None /\ busy' = None /\ UNCHANGED <<heap, it, todo, version>>
      /\ conn \in [Conns -> ConnectionRecord] /\ drv \in [Drivers -> Driver]
      /\ heap \in SUBSET Options
  BY Types DEF RealConnect, IInv
<1>2. d \in Drivers /\ drv[d] \in Driver /\ busy \in Conns /\ drv[d].open \in BOOLEAN
  BY <1>1, InsideFacts DEF Driver
<1>3. PICK ok \in {~drv[d].open, ~Refusals /\ ~drv[d].open} :
        /\ drv' = IF ok THEN [drv EXCEPT ![d].open = TRUE, ![d].is_connected = TRUE] ELSE drv
        /\ conn' = [conn EXCEPT ![busy].copacetic = ok]
        /\ Returns("connect", ok)
  BY DEF RealConnect
<1>4. ok \in BOOLEAN
  BY <1>3, <1>2
<1>5. /\ up \in Driver /\ up.live = drv[d].live /\ up.applied = drv[d].applied
      /\ up.pending = drv[d].pending
  BY <1>2 DEF Driver
<1>6. /\ new(ok) \in ConnectionRecord /\ new(ok).alive = conn[busy].alive
      /\ new(ok).driver = conn[busy].driver
  BY <1>1, <1>2, <1>4 DEF ConnectionRecord
<1>7. conn' = [conn EXCEPT ![busy] = new(ok)] /\ (ok => drv' = [drv EXCEPT ![d] = up])
      /\ (~ok => drv' = drv)
  BY <1>3, <1>4
<1> HIDE DEF up, new
<1>8. conn' \in [Conns -> ConnectionRecord] /\ SameConns(conn, conn')
  BY <1>1, <1>2, <1>6, <1>7 DEF SameConns
<1>9. /\ drv' \in [Drivers -> Driver]
      /\ OptionsInv(version, drv', heap') /\ DriversInv(conn', drv')
  <2>1. CASE ok
    BY <1>1, <1>2, <1>5, <1>7, <1>8, <2>1, SameDriver
  <2>2. CASE ~ok
    BY <1>1, <1>7, <1>8, <2>2, DriversStay
  <2> QED BY <2>1, <2>2
<1>10. ret' \in [call : Calls, ok : BOOLEAN]
  BY <1>3, <1>4 DEF Returns, Calls
<1>11. ConnectInv'
  BY <1>1 DEF ConnectInv
<1>12. TypeOK'
  <2>1. /\ todo' \in Seq(Options) /\ it' \in Options \cup {None} /\ heap' \in SUBSET Options
        /\ busy' \in Conns \cup {None} /\ version' = version
    BY <1>1 DEF TypeOK
  <2> QED BY <1>1, <1>8, <1>9, <1>10, <2>1, TypesBack
<1>13. OptionsInv(version', drv', heap')
  BY <1>1, <1>9
<1> QED BY <1>9, <1>11, <1>12, <1>13 DEF IInv

-----------------------------------------------------------------------------
(* The theorems                                                            *)

LEMMA Start == Init => IInv
<1> SUFFICES ASSUME Init PROVE IInv
  OBVIOUS
<1> DEFINE dead == [alive |-> FALSE, driver |-> None, copacetic |-> TRUE]
<1>1. /\ NoDriver \in Driver /\ ~NoDriver.live /\ NoDriver.applied = {}
      /\ NoDriver.pending = <<>>
  BY NewDriverFacts DEF NoDriver, Driver
<1>2. dead \in ConnectionRecord /\ ~dead.alive
  BY DEF ConnectionRecord
<1>3. /\ conn = [c \in Conns |-> dead] /\ drv = [d \in Drivers |-> NoDriver]
      /\ heap = {} /\ busy = None /\ it = None /\ todo = <<>>
      /\ version \in Versions /\ ret = [call |-> "construct", ok |-> TRUE]
  BY DEF Init
<1> HIDE DEF dead
<1>4. TypeOK
  <2>1. conn \in [Conns -> ConnectionRecord] /\ drv \in [Drivers -> Driver]
    BY <1>1, <1>2, <1>3
  <2> QED BY <1>3, <2>1 DEF TypeOK, ConnectionRecord, Calls
<1>5. ConnectInv
  BY <1>3, NoElements DEF ConnectInv
<1>6. OptionsInv(version, drv, heap)
  <2>1. \A d \in Drivers : drv[d].applied = {} /\ drv[d].pending = <<>>
    BY <1>1, <1>3
  <2>2. \A d \in Drivers : Owned(drv, d) = {} /\ Elements(drv[d].pending) = {}
    BY <2>1, NoElements DEF Owned
  <2> QED BY <1>3, <2>1, <2>2 DEF OptionsInv
<1>7. DriversInv(conn, drv)
  BY <1>1, <1>2, <1>3 DEF DriversInv
<1> QED BY <1>4, <1>5, <1>6, <1>7 DEF IInv

LEMMA Step == IInv /\ [Next]_vars => IInv'
<1> SUFFICES ASSUME IInv, [Next]_vars PROVE IInv'
  OBVIOUS
<1>1. CASE UNCHANGED vars
  <2>1. UNCHANGED <<version, conn, drv, heap, busy, it, todo, ret>>
    BY <1>1 DEF vars
  <2>2. TypeOK' /\ ConnectInv'
    BY <2>1 DEF IInv, TypeOK, ConnectInv, D
  <2>3. OptionsInv(version', drv', heap') /\ DriversInv(conn', drv')
    BY <2>1 DEF IInv
  <2> QED BY <2>2, <2>3 DEF IInv
<1>2. CASE NextPending
  BY <1>2, NextPendingStep
<1>3. CASE ApplyPending
  BY <1>3, ApplyPendingStep
<1>4. CASE RealConnect
  BY <1>4, RealConnectStep
<1>5. ASSUME NEW c \in Conns, Use(c) PROVE IInv'
  <2>1. CASE Construct(c)
    BY <2>1, ConstructStep
  <2>2. CASE ConstructConnected(c)
    BY <2>2, ConstructConnectedStep
  <2>3. CASE Destroy(c)
    BY <2>3, DestroyStep
  <2>4. CASE ConnectBadAddress(c)
    BY <2>4, ConnectBadAddressStep
  <2>5. CASE Connect(c)
    BY <2>5, ConnectStep
  <2>6. CASE Disconnect(c)
    BY <2>6, DisconnectStep
  <2>7. CASE Ask(c)
    BY <2>7, AskStep
  <2>8. CASE AssignSelf(c)
    BY <2>8, AssignSelfStep
  <2>9. ASSUME NEW other \in Conns, Copy(c, other) \/ Assign(c, other) PROVE IInv'
    BY <2>9, CopyStep, AssignStep
  <2>10. ASSUME NEW o \in Options, SetOption(c, o) \/ SetOptionDefault(c, o) PROVE IInv'
    BY <2>10, SetOptionStep, SetOptionDefaultStep
  <2> QED BY <1>5, <2>1, <2>2, <2>3, <2>4, <2>5, <2>6, <2>7, <2>8, <2>9, <2>10 DEF Use
<1> QED BY <1>1, <1>2, <1>3, <1>4, <1>5 DEF Next

(* The inductive invariant: one owner for each option and one for each     *)
(* driver, and a loop in connect() that can only meet options which stay   *)
(* in the queue.                                                           *)
THEOREM Invariance == Spec => []IInv
BY Start, Step, PTL DEF Spec

(* Every variable keeps its type.                                          *)
THEOREM TypeCorrect == Spec => []TypeOK
<1>1. IInv => TypeOK
  BY DEF IInv
<1> QED BY <1>1, Invariance, PTL

(* Connections never share a driver or lose one, and an Option object that *)
(* was handed over is in one list of one driver, or is gone, or was left   *)
(* in the queue of a driver that is gone: whatever is copied, assigned and *)
(* destroyed, whether or not a server answers a clone, and with every      *)
(* version of the client library (Connection::copy(), DBDriver::           *)
(* set_option(), ~DBDriver()).                                             *)
THEOREM EverythingOwned == Spec => []OneOwner
<1>1. IInv => OneOwner
  <2> SUFFICES ASSUME IInv PROVE OneOwner
    OBVIOUS
  <2>1. /\ OptionsInv(version, drv, heap) /\ DriversInv(conn, drv) /\ version \in Nat
    BY Types DEF IInv
  <2>2. ASSUME NEW o \in heap,
               version >= ReconnectFixed \/ OptionAt[o].class # "ReconnectOption"
        PROVE  \E d \in Drivers :
                 /\ o \in drv[d].applied \cup Elements(drv[d].pending)
                 /\ \A e \in Drivers \ {d} : o \notin drv[e].applied \cup Elements(drv[e].pending)
    <3>1. ~Queues(version, o)
      BY <2>1, <2>2 DEF Queues, ReconnectFixed
    <3>2. PICK d \in Drivers : o \in Owned(drv, d)
      BY <2>1, <3>1 DEF OptionsInv
    <3>3. \A e \in Drivers \ {d} : o \notin Owned(drv, e)
      BY <2>1, <3>2 DEF OptionsInv
    <3> QED BY <3>2, <3>3 DEF Owned
  <2>3. \A d \in Drivers : /\ drv[d].applied \cup Elements(drv[d].pending) \subseteq heap
                           /\ drv[d].applied \cap Elements(drv[d].pending) = {}
    BY <2>1 DEF OptionsInv, Owned
  <2>4. OptionsOwned
    BY <2>2, <2>3 DEF OptionsOwned
  <2>5. \A c \in Conns : conn[c].alive => D(c) # None /\ drv[D(c)].live
    BY <2>1, LifecycleAssumption DEF DriversInv, D
  <2>6. DriversOwned
    BY <2>1, <2>5 DEF DriversInv, DriversOwned, D
  <2> QED BY <2>4, <2>6 DEF OneOwner
<1> QED BY <1>1, Invariance, PTL

(* A connect() that begins while an option is queued never gets as far as  *)
(* mysql_real_connect(): nothing but the loop over the queue can happen on *)
(* its thread any more, and it changes nothing. (DBDriver::                *)
(* apply_pending_options(), with a client library of 5.0.13 to 5.1.5 and a *)
(* ReconnectOption set before the connection is up.)                       *)
THEOREM QueuedForever ==
  Spec => [][busy # None /\ drv[D(busy)].pending # <<>> =>
               busy' = busy /\ drv' = drv /\ conn' = conn]_vars
<1>1. IInv /\ [Next]_vars =>
        [busy # None /\ drv[D(busy)].pending # <<>> =>
           busy' = busy /\ drv' = drv /\ conn' = conn]_vars
  <2> SUFFICES ASSUME IInv, Next, busy # None, drv[D(busy)].pending # <<>>
               PROVE  busy' = busy /\ drv' = drv /\ conn' = conn
    OBVIOUS
  <2>1. CASE NextPending
    BY <2>1 DEF NextPending
  <2>2. CASE ApplyPending
    BY <2>2, ApplyPendingKinds DEF ApplyPending
  <2>3. ~RealConnect
    BY InsideFacts DEF RealConnect
  <2>4. \A c \in Conns : ~Use(c)
    BY DEF Use, Construct, ConstructConnected, Destroy, ConnectBadAddress, Connect, Disconnect,
           Ask, AssignSelf, Copy, Assign, SetOption, SetOptionDefault, Alive
  <2> QED BY <2>1, <2>2, <2>3, <2>4 DEF Next
<1> QED BY <1>1, Invariance, PTL DEF Spec

-----------------------------------------------------------------------------
(* What a driver knows of its handle                                       *)

StandsFor(r, setting) ==
  \E o \in r.applied :
    OptionAt[o].on /\ setting \in {SettingOf(OptionAt[o].class, up) : up \in BOOLEAN}

Known(r) ==
  /\ IF r.live THEN r.is_connected <=> r.open ELSE ~r.open
  /\ \A setting \in r.inForce : StandsFor(r, setting)

LEMMA KnownFact == HandleKnown <=> \A d \in Drivers : Known(drv[d])
BY DEF HandleKnown, Known, StandsFor

LEMMA NewKnown == Known(NewDriver)
BY NewDriverFacts DEF Known

LEMMA ConnectedKnown ==
  ASSUME NEW r \in Driver, r.live, Known(r)
  PROVE  Known([r EXCEPT !.is_connected = TRUE, !.open = TRUE])
         /\ Known([r EXCEPT !.open = TRUE, !.is_connected = TRUE])
BY DEF Known, StandsFor, Driver

LEMMA DisconnectedKnown ==
  ASSUME NEW r \in Driver, Known(r) PROVE Known(Disconnected(r))
<1>1. Disconnected(r).open = IF r.is_connected THEN FALSE ELSE r.open
  BY DisconnectedFacts
<1>2. r.live \in BOOLEAN /\ r.is_connected \in BOOLEAN /\ r.open \in BOOLEAN
  BY DEF Driver
<1>3. IF Disconnected(r).live THEN Disconnected(r).is_connected <=> Disconnected(r).open
                              ELSE ~Disconnected(r).open
  BY <1>1, <1>2, DisconnectedFacts DEF Known
<1>4. \A setting \in Disconnected(r).inForce : StandsFor(Disconnected(r), setting)
  <2>1. Disconnected(r).inForce \subseteq r.inForce /\ Disconnected(r).applied = r.applied
    BY DisconnectedFacts
  <2> QED BY <2>1 DEF Known, StandsFor
<1> QED BY <1>3, <1>4 DEF Known

AllKnown(f) == \A d \in Drivers : Known(f[d])

LEMMA DeletedKnown ==
  ASSUME NEW f \in [Drivers -> Driver], AllKnown(f), NEW d \in Drivers
  PROVE  AllKnown(Deleted(f, d))
<1>1. /\ f[d].live \in BOOLEAN /\ f[d].is_connected \in BOOLEAN /\ f[d].open \in BOOLEAN
  BY DEF Driver
<1>2. ~Deleted(f, d)[d].open
  BY <1>1, DeletedFacts DEF AllKnown, Known
<1>3. Known(Deleted(f, d)[d])
  BY <1>2, DeletedFacts DEF Known
<1> QED BY <1>3, DeletedFacts DEF AllKnown

LEMMA ClonesKnown ==
  ASSUME ~LocalServer, NEW f \in [Drivers -> Driver], AllKnown(f),
         NEW d \in Drivers, NEW n \in Drivers, NEW g \in Clones(f, d, n)
  PROVE  AllKnown(g) /\ g \in [Drivers -> Driver]
<1>1. g = [f EXCEPT ![n] = NewDriver]
  BY DEF Clones
<1> QED BY <1>1, NewKnown, NewDriverFacts DEF AllKnown

LEMMA SettingKnown ==
  ASSUME NEW r \in Driver, Known(r), NEW o \in Options
  PROVE  /\ Known([r EXCEPT !.applied = @ \cup {o}, !.inForce = InForceWith(r, o)])
         /\ Known([r EXCEPT !.applied = @ \cup {o}])
<1>1. r.is_connected \in BOOLEAN
  BY DEF Driver
<1>2. \A setting \in InForceWith(r, o) :
        \/ setting \in r.inForce
        \/ OptionAt[o].on /\ setting = SettingOf(OptionAt[o].class, r.is_connected)
  BY DEF InForceWith
<1> DEFINE more == [r EXCEPT !.applied = @ \cup {o}]
           both == [r EXCEPT !.applied = @ \cup {o}, !.inForce = InForceWith(r, o)]
<1>3. /\ more.applied = r.applied \cup {o} /\ both.applied = r.applied \cup {o}
      /\ more.inForce = r.inForce /\ both.inForce = InForceWith(r, o)
      /\ more.live = r.live /\ both.live = r.live
      /\ more.open = r.open /\ both.open = r.open
      /\ more.is_connected = r.is_connected /\ both.is_connected = r.is_connected
  BY DEF Driver
<1> HIDE DEF more, both
<1>4. \A setting \in r.inForce : StandsFor(more, setting) /\ StandsFor(both, setting)
  BY <1>3 DEF Known, StandsFor
<1>5. OptionAt[o].on => StandsFor(both, SettingOf(OptionAt[o].class, r.is_connected))
  BY <1>1, <1>3 DEF StandsFor
<1>6. Known(more)
  BY <1>3, <1>4 DEF Known
<1>7. Known(both)
  BY <1>2, <1>3, <1>4, <1>5 DEF Known
<1> QED BY <1>6, <1>7 DEF more, both

LEMMA OptionSetKnown ==
  ASSUME drv \in [Drivers -> Driver], AllKnown(drv), NEW d \in Drivers, NEW o \in Options,
         NEW err, SetOptionOn(d, o, err)
  PROVE  AllKnown(drv')
<1>1. /\ heap' = IF Succeeds(err) THEN heap \cup {o} ELSE heap \ {o}
      /\ err = "NONE" => drv' = [drv EXCEPT ![d].applied = @ \cup {o},
                                            ![d].inForce = InForceWith(drv[d], o)]
      /\ err = "ignored" => drv' = [drv EXCEPT ![d].applied = @ \cup {o}]
      /\ err = "disconnected" => drv' = [drv EXCEPT ![d].pending = Append(@, o)]
      /\ ~Succeeds(err) => drv' = drv
  BY SetOptionCases
<1>2. drv[d] \in Driver /\ Known(drv[d])
  BY DEF AllKnown
<1>3. ASSUME NEW r, Known(r), drv' = [drv EXCEPT ![d] = r] PROVE AllKnown(drv')
  BY <1>3 DEF AllKnown
<1>4. CASE err = "NONE"
  <2> DEFINE r == [drv[d] EXCEPT !.applied = @ \cup {o}, !.inForce = InForceWith(drv[d], o)]
  <2>1. Known(r)
    BY <1>2, SettingKnown
  <2>2. drv' = [drv EXCEPT ![d] = r]
    BY <1>1, <1>4
  <2> HIDE DEF r
  <2> QED BY <1>3, <2>1, <2>2
<1>5. CASE err = "ignored"
  <2> DEFINE r == [drv[d] EXCEPT !.applied = @ \cup {o}]
  <2>1. Known(r)
    BY <1>2, SettingKnown
  <2>2. drv' = [drv EXCEPT ![d] = r]
    BY <1>1, <1>5
  <2> HIDE DEF r
  <2> QED BY <1>3, <2>1, <2>2
<1>6. CASE err = "disconnected"
  <2> DEFINE r == [drv[d] EXCEPT !.pending = Append(@, o)]
  <2>1. Known(r)
    BY <1>2 DEF Known, StandsFor, Driver
  <2>2. drv' = [drv EXCEPT ![d] = r]
    BY <1>1, <1>6
  <2> HIDE DEF r
  <2> QED BY <1>3, <2>1, <2>2
<1>7. CASE ~Succeeds(err)
  BY <1>1, <1>7
<1> QED BY <1>4, <1>5, <1>6, <1>7 DEF Succeeds

LEMMA OneKnown ==
  ASSUME drv \in [Drivers -> Driver], AllKnown(drv), NEW d, NEW r, Known(r),
         drv' = [drv EXCEPT ![d] = r]
  PROVE  AllKnown(drv')
BY DEF AllKnown

LEMMA KnownStep ==
  ASSUME ~LocalServer, IInv, AllKnown(drv), [Next]_vars
  PROVE  AllKnown(drv')
<1>1. drv \in [Drivers -> Driver]
  BY Types DEF IInv
<1>2. CASE drv' = drv
  BY <1>2
<1>3. CASE ApplyPending
  BY <1>3, ApplyPendingKinds
<1>4. CASE RealConnect
  <2> DEFINE r == [drv[D(busy)] EXCEPT !.open = TRUE, !.is_connected = TRUE]
  <2>1. D(busy) \in Drivers /\ drv[D(busy)] \in Driver /\ drv[D(busy)].live
    BY <1>4, InsideFacts DEF RealConnect
  <2>2. Known(r)
    BY <2>1, ConnectedKnown DEF AllKnown
  <2>3. drv' = drv \/ drv' = [drv EXCEPT ![D(busy)] = r]
    BY <1>4 DEF RealConnect
  <2> HIDE DEF r
  <2> QED BY <1>1, <2>2, <2>3, OneKnown
<1>5. ASSUME NEW c \in Conns, Construct(c) \/ ConstructConnected(c) PROVE AllKnown(drv')
  <2> DEFINE r == [NewDriver EXCEPT !.is_connected = TRUE, !.open = TRUE]
  <2>1. Known(NewDriver) /\ Known(r)
    BY NewKnown, NewDriverFacts, ConnectedKnown
  <2>2. drv' = drv \/ \E d \in Drivers : \/ drv' = [drv EXCEPT ![d] = NewDriver]
                                         \/ drv' = [drv EXCEPT ![d] = r]
    BY <1>5 DEF Construct, ConstructConnected
  <2> HIDE DEF r
  <2> QED BY <1>1, <2>1, <2>2, OneKnown
<1>6. ASSUME NEW c \in Conns, Connect(c) \/ Disconnect(c) PROVE AllKnown(drv')
  <2>1. conn[c].alive /\ drv' = [drv EXCEPT ![D(c)] = Disconnected(drv[D(c)])]
    BY <1>6 DEF Connect, Disconnect, Alive
  <2>2. D(c) \in Drivers /\ drv[D(c)] \in Driver
    BY <2>1, AliveFacts
  <2>3. Known(Disconnected(drv[D(c)]))
    BY <2>2, DisconnectedKnown DEF AllKnown
  <2> QED BY <1>1, <2>1, <2>3, OneKnown
<1>7. ASSUME NEW c \in Conns, Destroy(c) \/ AssignSelf(c) PROVE AllKnown(drv')
  <2>1. conn[c].alive /\ drv' = Deleted(drv, D(c))
    BY <1>7 DEF Destroy, AssignSelf, Alive
  <2>2. D(c) \in Drivers
    BY <2>1, AliveFacts
  <2> QED BY <1>1, <2>1, <2>2, DeletedKnown
<1>8. ASSUME NEW c \in Conns, NEW other \in Conns, Copy(c, other) PROVE AllKnown(drv')
  <2>1. PICK n \in Drivers : \E f \in Clones(drv, D(other), n) :
                               drv' \in Clones(Deleted(f, n), D(other), n)
    BY <1>8 DEF Copy
  <2>2. PICK f \in Clones(drv, D(other), n) : drv' \in Clones(Deleted(f, n), D(other), n)
    BY <2>1
  <2>3. D(other) \in Drivers
    BY <1>8, AliveFacts DEF Copy, Alive
  <2>4. AllKnown(f) /\ f \in [Drivers -> Driver]
    BY <1>1, <2>2, <2>3, ClonesKnown
  <2>5. AllKnown(Deleted(f, n)) /\ Deleted(f, n) \in [Drivers -> Driver]
    BY <2>4, DeletedKnown, DeletedFacts
  <2> QED BY <2>2, <2>3, <2>5, ClonesKnown
<1>9. ASSUME NEW c \in Conns, NEW rhs \in Conns, Assign(c, rhs) PROVE AllKnown(drv')
  <2>1. PICK n \in Drivers : drv' \in Clones(Deleted(drv, D(c)), D(rhs), n)
    BY <1>9 DEF Assign
  <2>2. D(c) \in Drivers /\ D(rhs) \in Drivers
    BY <1>9, AliveFacts DEF Assign, Alive
  <2>3. AllKnown(Deleted(drv, D(c))) /\ Deleted(drv, D(c)) \in [Drivers -> Driver]
    BY <1>1, <2>2, DeletedKnown, DeletedFacts
  <2> QED BY <2>1, <2>2, <2>3, ClonesKnown
<1>10. ASSUME NEW c \in Conns, NEW o \in Options, SetOption(c, o) \/ SetOptionDefault(c, o)
       PROVE  AllKnown(drv')
  <2>1. drv' = drv \/ \E err \in SetErrorsOf(o, D(c)) : SetOptionOn(D(c), o, err)
    BY <1>10 DEF SetOption, SetOptionDefault
  <2>2. D(c) \in Drivers
    BY <1>10, AliveFacts DEF SetOption, SetOptionDefault, Alive
  <2> QED BY <1>1, <2>1, <2>2, OptionSetKnown
<1>11. /\ NextPending => drv' = drv
       /\ UNCHANGED vars => drv' = drv
       /\ \A c \in Conns : ConnectBadAddress(c) \/ Ask(c) => drv' = drv
  BY DEF NextPending, ConnectBadAddress, Ask, vars
<1> QED BY <1>2, <1>3, <1>4, <1>5, <1>6, <1>7, <1>8, <1>9, <1>10, <1>11 DEF Next, Use

HandlesInv == AllKnown(drv)

(* Where no server answers at the C API's default address, so that clone() *)
(* cannot connect the handle it copies from, connected() is true of the    *)
(* handle, no session with a server outlives its driver, and no setting is *)
(* in force that no applied option stands for (MySQLDriver::connect(),     *)
(* disconnect(), ~MySQLDriver(), set_option_impl()).                       *)
THEOREM HandlesKnown == ASSUME ~LocalServer PROVE Spec => []HandleKnown
<1>1. Init => HandlesInv
  <2>1. Known(NoDriver)
    BY NewDriverFacts DEF NoDriver, Known, Driver
  <2> QED BY <2>1 DEF Init, HandlesInv, AllKnown
<1>2. IInv /\ HandlesInv /\ [Next]_vars => HandlesInv'
  BY KnownStep DEF HandlesInv
<1>3. HandlesInv => HandleKnown
  BY KnownFact DEF HandlesInv, AllKnown
<1>4. Spec => []HandlesInv
  BY <1>1, <1>2, Invariance, PTL DEF Spec
<1> QED BY <1>3, <1>4, PTL
=============================================================================
