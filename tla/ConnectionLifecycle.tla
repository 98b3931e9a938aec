------------------------ MODULE ConnectionLifecycle ------------------------
(***************************************************************************)
(* Connection objects, the MySQLDriver each of them owns, the C API handle *)
(* inside the driver, and the Option objects handed to set_option().       *)
(*                                                                         *)
(* Connection and driver are used by one thread, so the calls are atomic,  *)
(* except connect(), whose loop over the queued options is spelt out.      *)
(*                                                                         *)
(* What exceptions change here is only a constructor: the other calls      *)
(* leave the same state whether they throw or return false.                *)
(***************************************************************************)
EXTENDS DriverOptions, Sequences, FiniteSets

CONSTANTS
  Conns,        \* the program's Connection variables
  Drivers,      \* heap addresses of MySQLDriver objects
  Options,      \* heap addresses of Option objects
  OptionAt,     \* [Options -> [class, on]]: what is made at an address
  Versions,     \* values of MYSQL_VERSION_ID the library is built with
  Refusals,     \* the server may refuse a connection
  LocalServer,  \* a server answers at the C API's default address
  None          \* no driver, no connection

ASSUME LifecycleAssumption ==
  /\ OptionAt \in [Options -> [class : OptionClasses, on : BOOLEAN]]
  /\ Versions \subseteq Nat
  /\ Refusals \in BOOLEAN /\ LocalServer \in BOOLEAN
  /\ None \notin Conns \cup Drivers \cup Options

VARIABLES
  version, \* MYSQL_VERSION_ID of the build
  conn,   \* Connection objects: whether alive, driver_, copacetic_
  drv,    \* MySQLDriver objects
  heap,   \* the Option objects that are allocated
  busy,   \* the Connection inside connect(), or None
  it,     \* the option apply_pending_options() is at, or None
  todo,   \* those its loop has still to visit
  ret     \* the last call that returned, and its result

vars == <<version, conn, drv, heap, busy, it, todo, ret>>

Elements(s) == {s[i] : i \in 1..Len(s)}

Driver == [live : BOOLEAN,
           is_connected : BOOLEAN,
           open : BOOLEAN,            \* mysql_ holds a session with a server
           inForce : SUBSET OptionClasses, \* the settings that are in mysql_
           applied : SUBSET Options,  \* applied_options_
           pending : Seq(Options)]    \* pending_options_

NewDriver == [live |-> TRUE, is_connected |-> FALSE, open |-> FALSE,
              inForce |-> {}, applied |-> {}, pending |-> <<>>]
NoDriver == [NewDriver EXCEPT !.live = FALSE]

Calls == {"construct", "destroy", "connect", "disconnect", "copy", "assign", "ping",
          "set_option", "set_option_default"}

TypeOK ==
  /\ version \in Versions
  /\ conn \in [Conns -> [alive : BOOLEAN, driver : Drivers \cup {None}, copacetic : BOOLEAN]]
  /\ drv \in [Drivers -> Driver]
  /\ heap \subseteq Options
  /\ busy \in Conns \cup {None}
  /\ it \in Options \cup {None} /\ todo \in Seq(Options)
  /\ ret \in [call : Calls, ok : BOOLEAN]

Init ==
  /\ version \in Versions
  /\ conn = [c \in Conns |-> [alive |-> FALSE, driver |-> None, copacetic |-> TRUE]]
  /\ drv = [d \in Drivers |-> NoDriver]
  /\ heap = {}
  /\ busy = None /\ it = None /\ todo = <<>>
  /\ ret = [call |-> "construct", ok |-> TRUE]

D(c) == conn[c].driver
Alive(c) == conn[c].alive /\ busy = None
Returns(call, ok) == ret' = [call |-> call, ok |-> ok]
FreeAddress(f, d) == ~f[d].live

-----------------------------------------------------------------------------
(* MySQLDriver                                                             *)

(* MySQLDriver::disconnect(): the handle is closed and zeroed, and with it *)
(* the options it held.                                                    *)
Disconnected(r) ==
  IF r.is_connected
  THEN [r EXCEPT !.is_connected = FALSE, !.open = FALSE, !.inForce = {}]
  ELSE r

(* delete driver_: ~MySQLDriver() and ~DBDriver(), which deletes the       *)
(* applied options and not the queued ones.                                *)
Deleted(f, d) == [f EXCEPT ![d] = [NoDriver EXCEPT !.open = Disconnected(f[d]).open]]
OptionsOf(d) == drv[d].applied

(* MySQLDriver::clone(), into address n: the new driver's flag is set from *)
(* a mysql_real_connect() on the handle of the *old* driver, which the C   *)
(* API refuses when that handle is open already.  The set of what can come *)
(* of it.                                                                  *)
Clones(f, d, n) ==
  {[f EXCEPT ![n] = NewDriver]} \cup
  (IF f[d].open \/ ~LocalServer THEN {}
   ELSE {[f EXCEPT ![d].open = TRUE, ![n] = [NewDriver EXCEPT !.is_connected = TRUE]]})

(* o->set(driver): each class hands itself to the driver, which picks the  *)
(* set_option_impl() of that class.                                        *)
SetErrorsOf(o, d) == SetErrors(OptionAt[o].class, version, drv[d].is_connected)

Succeeds(err) == err \in {"NONE", "ignored", "disconnected"}

(* The settings in mysql_ after an option was set: one that is switched    *)
(* off clears its flag.                                                    *)
InForceWith(r, o) ==
  LET setting == SettingOf(OptionAt[o].class, r.is_connected)
  IN IF OptionAt[o].on THEN r.inForce \cup {setting} ELSE r.inForce \ {setting}

(* Seeded faults: the object recorded for its class, and a rejected option *)
(* remembered as an applied one.                                           *)
BugSetClass(d, o, err) ==
  /\ heap' = IF Succeeds(err) THEN heap \cup {o} ELSE heap \ {o}
  /\ drv' = IF err = "NONE" THEN [drv EXCEPT ![d].applied = @ \cup {o}, ![d].inForce = @ \cup {o}]
            ELSE drv
BugSetOption(d, o, err) ==
  /\ drv' = [drv EXCEPT ![d].applied = @ \cup {o}]
  /\ heap' = IF err = "NONE" THEN heap \cup {o} ELSE heap \ {o}

(* DBDriver::set_option(o) when option o->set() gives err: the object is   *)
(* kept as applied, queued, or deleted.                                    *)
SetOptionOn(d, o, err) ==
  /\ heap' = IF Succeeds(err) THEN heap \cup {o} ELSE heap \ {o}
  /\ drv' = CASE err = "NONE" -> [drv EXCEPT ![d].applied = @ \cup {o},
                                             ![d].inForce = InForceWith(drv[d], o)]
              [] err = "ignored" -> [drv EXCEPT ![d].applied = @ \cup {o}]
              [] err = "disconnected" -> [drv EXCEPT ![d].pending = Append(@, o)]
              [] OTHER -> drv

-----------------------------------------------------------------------------
(* Connection                                                              *)

(* Connection(te)                                                          *)
Construct(c) ==
  /\ busy = None /\ ~conn[c].alive
  /\ \E d \in Drivers :
       /\ FreeAddress(drv, d)
       /\ drv' = [drv EXCEPT ![d] = NewDriver]
       /\ conn' = [conn EXCEPT ![c] = [alive |-> TRUE, driver |-> d, copacetic |-> TRUE]]
  /\ Returns("construct", TRUE)
  /\ UNCHANGED <<heap, busy, it, todo, version>>

(* Connection(db, server, ...): if connect() throws there is no object,    *)
(* and the driver is deleted again.                                        *)
ConstructConnected(c) ==
  /\ busy = None /\ ~conn[c].alive
  /\ \/ \E d \in Drivers :
          /\ FreeAddress(drv, d)
          /\ drv' = [drv EXCEPT ![d] = [NewDriver EXCEPT !.is_connected = TRUE, !.open = TRUE]]
          /\ conn' = [conn EXCEPT ![c] = [alive |-> TRUE, driver |-> d, copacetic |-> TRUE]]
          /\ Returns("connect", TRUE)
     \/ /\ Refusals
        /\ Returns("connect", FALSE)
        /\ UNCHANGED <<conn, drv>>
  /\ UNCHANGED <<heap, busy, it, todo, version>>

(* Seeded fault: a copy constructor that shares the driver.                *)
BugCopy(c, other) ==
  /\ Alive(other) /\ ~conn[c].alive
  /\ conn' = [conn EXCEPT ![c] = conn[other]]
  /\ Returns("copy", TRUE)
  /\ UNCHANGED <<drv, heap, busy, it, todo, version>>

(* Connection(other): clone() in the initializer, then copy(), which       *)
(* deletes that driver and clones once more.  copacetic_ is left as it is  *)
(* in memory.                                                              *)
Copy(c, other) ==
  /\ Alive(other) /\ ~conn[c].alive
  /\ \E n \in Drivers :
       /\ FreeAddress(drv, n)
       /\ \E f \in Clones(drv, D(other), n) : drv' \in Clones(Deleted(f, n), D(other), n)
       /\ \E garbage \in BOOLEAN :
            conn' = [conn EXCEPT ![c] = [alive |-> TRUE, driver |-> n, copacetic |-> garbage]]
  /\ Returns("copy", TRUE)
  /\ UNCHANGED <<heap, busy, it, todo, version>>

(* operator=(rhs): copy() deletes the driver and clones that of rhs.  The  *)
(* address of the old driver is free for the new one.                      *)
Assign(c, rhs) ==
  /\ Alive(c) /\ Alive(rhs) /\ c # rhs
  /\ \E n \in Drivers :
       /\ FreeAddress(Deleted(drv, D(c)), n)
       /\ drv' \in Clones(Deleted(drv, D(c)), D(rhs), n)
       /\ conn' = [conn EXCEPT ![c].driver = n]
  /\ heap' = heap \ OptionsOf(D(c))
  /\ Returns("assign", TRUE)
  /\ UNCHANGED <<busy, it, todo, version>>

(* The same with rhs the object itself: the deleted driver is cloned, and  *)
(* the model does not follow the object any further.                       *)
AssignSelf(c) ==
  /\ Alive(c)
  /\ drv' = Deleted(drv, D(c))
  /\ heap' = heap \ OptionsOf(D(c))
  /\ conn' = [conn EXCEPT ![c].alive = FALSE, ![c].driver = None]
  /\ Returns("assign", FALSE)
  /\ UNCHANGED <<busy, it, todo, version>>

(* ~Connection()                                                           *)
Destroy(c) ==
  /\ Alive(c)
  /\ drv' = Deleted(drv, D(c))
  /\ heap' = heap \ OptionsOf(D(c))
  /\ conn' = [conn EXCEPT ![c] = [alive |-> FALSE, driver |-> None, copacetic |-> TRUE]]
  /\ Returns("destroy", TRUE)
  /\ UNCHANGED <<busy, it, todo, version>>

(* connect() with a server parameter that parse_ipc_method() rejects: the  *)
(* driver is not called at all.                                            *)
ConnectBadAddress(c) ==
  /\ Alive(c)
  /\ conn' = [conn EXCEPT ![c].copacetic = FALSE]
  /\ Returns("connect", FALSE)
  /\ UNCHANGED <<drv, heap, busy, it, todo, version>>

(* connect() with a good one: MySQLDriver::connect() drops the connection  *)
(* there is, and goes through the queued options.                          *)
Connect(c) ==
  /\ Alive(c)
  /\ drv' = [drv EXCEPT ![D(c)] = Disconnected(@)]
  /\ busy' = c
  /\ todo' = drv[D(c)].pending
  /\ UNCHANGED <<conn, heap, it, version, ret>>

(* apply_pending_options(): the loop takes the next option and sets it.    *)
(* One that cannot be set while disconnected is queued again, at the end   *)
(* of the list the loop is going through.  (Elements already visited are   *)
(* not looked at again, so pending is left as it was.)                     *)
NextPending ==
  /\ busy # None /\ it = None /\ todo # <<>>
  /\ it' = Head(todo) /\ todo' = Tail(todo)
  /\ UNCHANGED <<conn, drv, heap, busy, version, ret>>

ApplyPending ==
  /\ it # None
  /\ \E err \in SetErrorsOf(it, D(busy)) :
       IF err = "disconnected" THEN todo' = Append(todo, it) /\ UNCHANGED <<drv, heap>>
       ELSE SetOptionOn(D(busy), it, err) /\ UNCHANGED todo
  /\ it' = None
  /\ UNCHANGED <<conn, busy, version, ret>>

(* Seeded fault: the flag is set whatever the server said.                 *)
BugRealConnect ==
  /\ busy # None /\ it = None /\ todo = <<>>
  /\ \E ok \in {TRUE, ~Refusals} :
       /\ drv' = [drv EXCEPT ![D(busy)].open = ok, ![D(busy)].is_connected = TRUE]
       /\ conn' = [conn EXCEPT ![busy].copacetic = ok]
       /\ Returns("connect", ok)
  /\ busy' = None
  /\ UNCHANGED <<heap, it, todo, version>>

(* The rest of connect(): mysql_real_connect() and DBDriver::connect(),    *)
(* which finds nothing queued.                                             *)
RealConnect ==
  /\ busy # None /\ it = None /\ todo = <<>>
  /\ LET d == D(busy)
     IN \E ok \in {~drv[d].open, ~Refusals /\ ~drv[d].open} :
          /\ drv' = IF ok THEN [drv EXCEPT ![d].open = TRUE, ![d].is_connected = TRUE] ELSE drv
          /\ conn' = [conn EXCEPT ![busy].copacetic = ok]
          /\ Returns("connect", ok)
  /\ busy' = None
  /\ UNCHANGED <<heap, it, todo, version>>

(* disconnect()                                                            *)
Disconnect(c) ==
  /\ Alive(c)
  /\ drv' = [drv EXCEPT ![D(c)] = Disconnected(@)]
  /\ Returns("disconnect", TRUE)
  /\ UNCHANGED <<conn, heap, busy, it, todo, version>>

(* ping() and select_db() fail when disconnected, and when the server says *)
(* so.  Neither touches copacetic_.                                        *)
Ask(c) ==
  /\ Alive(c)
  /\ \E ok \in {drv[D(c)].is_connected, FALSE} : Returns("ping", ok)
  /\ UNCHANGED <<conn, drv, heap, busy, it, todo, version>>

(* set_option(new ...Option): the program allocates the object.            *)
SetOption(c, o) ==
  /\ Alive(c) /\ o \notin heap
  /\ \E err \in SetErrorsOf(o, D(c)) :
       /\ SetOptionOn(D(c), o, err)
       /\ Returns("set_option", Succeeds(err))
  /\ UNCHANGED <<conn, busy, it, todo, version>>

(* DBDriver::set_option_default(): the types it compares are those of two  *)
(* pointers to Option, always the same, so any option that was applied     *)
(* counts as one of this type.                                             *)
SetOptionDefault(c, o) ==
  /\ Alive(c) /\ o \notin heap
  /\ IF drv[D(c)].applied # {}
     THEN Returns("set_option_default", TRUE) /\ UNCHANGED <<drv, heap>>
     ELSE \E err \in SetErrorsOf(o, D(c)) :
            /\ SetOptionOn(D(c), o, err)
            /\ Returns("set_option_default", Succeeds(err))
  /\ UNCHANGED <<conn, busy, it, todo, version>>

Use(c) ==
  \/ Construct(c) \/ ConstructConnected(c) \/ Destroy(c)
  \/ ConnectBadAddress(c) \/ Connect(c) \/ Disconnect(c)
  \/ Ask(c)
  \/ AssignSelf(c)
  \/ \E other \in Conns : Copy(c, other) \/ Assign(c, other)
  \/ \E o \in Options : SetOption(c, o) \/ SetOptionDefault(c, o)

Next ==
  NextPending \/ ApplyPending \/ RealConnect \/ \E c \in Conns : Use(c)

Spec == Init /\ [][Next]_vars

-----------------------------------------------------------------------------
(* Properties                                                              *)

(* What a driver believes of its C API handle is true: connected() is,     *)
(* so that every session with a server is closed exactly once, whatever    *)
(* the order of connections, failures, copies and destructions; a deleted  *)
(* driver leaves none behind; and no setting is in force in the handle     *)
(* that an option on the list of the applied ones did not switch on        *)
(* (MySQLDriver::connect(), disconnect(), clone(), ~MySQLDriver(),         *)
(* set_option_impl(), DBDriver::set_option()).                             *)
HandleKnown ==
  \A d \in Drivers :
    /\ IF drv[d].live THEN drv[d].is_connected <=> drv[d].open ELSE ~drv[d].open
    /\ \A setting \in drv[d].inForce : \E o \in drv[d].applied :
         OptionAt[o].on /\ setting \in {SettingOf(OptionAt[o].class, up) : up \in BOOLEAN}

(* An Option object handed over has one owner, which will delete it once:  *)
(* it is in one list of one driver, or it was deleted at once.  Only one   *)
(* that was queued can be left over, as ~DBDriver() does not delete those  *)
(* (DBDriver::set_option(), ~DBDriver()).                                  *)
OptionsOwned ==
  /\ \A o \in {p \in heap : version >= ReconnectFixed \/ OptionAt[p].class # "ReconnectOption"} :
       \E d \in Drivers : /\ o \in drv[d].applied \cup Elements(drv[d].pending)
                         /\ \A e \in Drivers \ {d} :
                              o \notin drv[e].applied \cup Elements(drv[e].pending)
  /\ \A d \in Drivers : /\ drv[d].applied \cup Elements(drv[d].pending) \subseteq heap
                        /\ drv[d].applied \cap Elements(drv[d].pending) = {}

(* Copies and assignments never share a driver or lose one                 *)
(* (Connection::copy(), ~Connection()).                                    *)
DriversOwned ==
  /\ \A c \in Conns : conn[c].alive => D(c) # None /\ drv[D(c)].live
  /\ \A c, e \in Conns : conn[c].alive /\ conn[e].alive /\ D(c) = D(e) => c = e
  /\ \A d \in Drivers : drv[d].live => \E c \in Conns : conn[c].alive /\ D(c) = d

(* Nothing on the heap is shared, lost or deleted twice.                   *)
OneOwner == OptionsOwned /\ DriversOwned
=============================================================================
