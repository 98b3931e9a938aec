# Verification of libtabula

TLA+ models of libtabula (the C++ wrapper around MySQL's C API), the TLC
configurations that check them on small instances, and TLAPS proofs about them.
Paths without a directory are relative to `src/` of the repository.

## 1. The system

libtabula is a library; nothing in it runs by itself. A program makes
`Connection`s, asks them for `Query`s, builds statements in a query's stream
buffer, executes them, and reads result objects. Only the connection pool is
meant to be shared between threads; every other object belongs to one thread at
a time. What is hard is therefore

* **interleaving** in the pool, whose compound operations free the mutex between
  their parts;
* **protocol sequences**: the C API allows one statement at a time per
  connection, result objects share what they read from, a template query fills
  itself from inside its own calls, and connect, disconnect, copy and
  `set_option()` can come in any order;
* **partial failure**: the server can refuse any statement or go away at any of
  them, and each call reports failure in two ways (exception or return value),
  chosen by flags that several objects hold separately;
* **boundaries and conversions**: insert policies, parameter numbers, integer
  widths, quoting, texts that must read back as what they were made from.

| Component | State it keeps | Operations | Talks to | What makes it correct | Model |
|---|---|---|---|---|---|
| Connection pool (`cpool`, `scopedconnection`) | list of connections with `last_used`, `in_use`; a mutex | grab, safe_grab, exchange, release, remove, shrink, clear | program's `create()`, `destroy()`, `max_idle_time()`; `Connection::ping()` | a connection has one borrower and stays alive while borrowed; none is lost; grows only when it must; calls return | `ConnectionPool`, complete |
| Mutex (`beemutex`) | owner | lock, unlock, scoped lock | pool | released on every way out | in `ConnectionPool` |
| Bulk insert (`query.h` insertfrom, `insertpolicy.h`) | loop position, buffer, policy counter | insertfrom, replacefrom | query, policy, transaction | all rows or none, in order, in statements of the promised size; ends | `InsertFrom`, complete |
| Transaction (`transaction`) | `finished_` | two constructors, commit, rollback, destructor | query | never left open, never half done, at the level asked for | `Transaction`, complete |
| Exception flags (`noexceptions`) | one flag per object | scopes | all | a failure is reported the way its object was told to | `Transaction`; flags in `InsertFrom`, `QueryResults` |
| Connection, driver, options (`connection`, `dbdriver`, `options`, `mysql/driver`) | `driver_`, `is_connected_`, C API handle, applied and pending options | construct, copy, assign, connect, disconnect, ping, select_db, set_option | C API | no session leaked or believed in wrongly; drivers and options have one owner | `ConnectionLifecycle`, `DriverOptions` |
| Queries and results (`query`, `result`, `refcounted`) | buffer, `copacetic_`; result objects; counted `MYSQL_RES` | execute, store, use, store_next, fetch_row, copy, destroy | driver, C API | in step with the server; freed once; end of rows is the end | `QueryResults` |
| Template queries (`query`, `qparms`, `autoflag`) | parsed elements, names, defaults, `processing_` | parse, proc, str, calls with parameters, copy | C API escaping | the text is the template with its parameters, once | `TemplateQuery`, `TemplateGrammar`, `QueryValues` |
| TCP, socket, pipe connections | error text | parse the address, connect | connection | accepts exactly the documented forms | `ServerAddress` |
| Quoting, manipulators, value lists (`manip`, `sqlstream`, `vallist`) | none | insertion into streams and parameter lists | C API escaping | every value quoted once and as its type needs | `QueryValues`, `ValueLists`, `Sets` |
| Rows, fields, types (`row`, `field*`, `mysql/ft`) | filled once | look-ups, lists | results | a type fits the column it is for | `FieldTypes`, `ValueLists` |
| Value types (dates, nulls, strings, sets, adapters) | values | convert, compare, format | streams | exact or refused; total order; round trip | `ValueTypes`, `Strings`, `SqlValues`, `Sets` |
| SSQLS v1 (`ssqls.pl`) | fields, table names | compare, set, field lists, insert, update, replace | query, rows | lists select what was asked; order is an order | `Ssqls` |
| SSQLS v2 (`ssqls2`, `ssx/`) | parser position, include stack, parse result | translate definition files | files | a parse has every line; what it writes reads back; ends | `DefinitionFiles` |
| Command line, examples, tests, build | | read the options of a program | | what is written is what is read | `CommandLines`; the rest not modelled |

`PROJECT.json` lists the same components with their files, the hazards at their
lines, and the lines behind every definition.

## 2. Modules

| Module | Role |
|---|---|
| `ConnectionLease` | what a pool promises: an owner for each connection |
| `ConnectionPool` | the pool and its threads; implements `ConnectionLease` |
| `ConnectionPoolProofs` | its theorems |
| `AtomicInsert` | what a bulk insert promises |
| `ServerSession` | external: a server session with a transaction and a table |
| `InsertFrom` | `Query::insertfrom()`; implements `AtomicInsert` |
| `InsertFromProofs` | its theorems |
| `UnitsOfWork` | what transaction objects promise a program that keeps the rules |
| `Transaction` | transaction objects and `NoExceptions` scopes on a program's stack, over `ServerSession`; implements `UnitsOfWork` |
| `TransactionProofs` | its theorems |
| `DriverOptions` | the 28 option classes: call, version and moment of each |
| `ConnectionLifecycle` | connections, drivers, handles, options; uses `DriverOptions` |
| `ConnectionLifecycleProofs` | its theorems |
| `ClientProtocol` | external: the C API's protocol for statements and results |
| `QueryResults` | queries and result objects on one connection, over `ClientProtocol` |
| `QueryResultsProofs` | its theorems |
| `QueryValues` | SQL adapters, `pprepare()`, manipulators, escaping |
| `TemplateGrammar` | `Query::parse()` and `proc()` as folds over characters and elements |
| `TemplateQuery` | a query used as a template query, over both |
| `TemplateQueryProofs` | lemmas about recursive functions: what parsing, escaping and preparing return; escaped and quoted text read back; theorems about `TemplateQuery` |
| `FieldTypes`, `SqlValues` | the table of types and MySQL's columns; the adapters made from C++ values |
| `MachineIntegers` | integers of a fixed width: limits, conversion, bits (`Bitwise` is out of a proof's reach) |
| `Strings`, `ValueTypes`, `Sets` | `String` and its conversions; dates, times, `Null<>`, `tiny_int`; `Set<>` |
| `ValueLists`, `Ssqls` | rows, value, equal and sparse lists; SSQLS v1 structures and their statements |
| `ServerAddress`, `CommandLines` | the addresses of a server; `getopt()` and the command lines |
| `TextFunctions` | the cases over which these functions are checked |
| `TextFunctionsProofs` | its theorems |
| `DefinitionFiles` | the SSQLS v2 translator |
| `DefinitionFilesProofs` | its theorems |
| `MC...` | instances for TLC; each `.cfg` is one run |

In the modules, an operator whose name starts with `Bug` is a seeded fault: it
replaces the definition below it to show that a property notices.

### ConnectionPool

`pool` is `pool_`, a function from the addresses of connections to
`ConnectionInfo`; `lock` is the mutex, visible only while `create()` runs under
it, because every other critical section is one action. `pc`, `op`, `cur` say
where each thread is, `held` what it has borrowed. `GrabMRU` and `GrabNone` are
the locked part of `grab()`: removal of old connections, then `find_mru()`.
`Create` and `CreateThrows` are the ways out of `create()`. `exchange()` is
`Remove`, then `GrabMRU`/`GrabNone`; `safe_grab()` is the same with `Ping`
between, each a separate step as in the code. `Shrink` is `clear(false)`, `Drain`
the `clear()` of the subclass's destructor, which the documentation allows only
when no thread is in the pool. The clock may go back as well as forth, the server
may drop a connection, stop and start.

Abstracted: among connections released in the same second the code takes the
first in its list, the model any; a ping that reconnects by itself is a
connection that was never dropped; a thread gives back only what it borrowed.

### InsertFrom, with ServerSession and AtomicInsert

One action per control point of the loop: `Begin` (the access controller's
constructor), `AddRow`, `RowRefused`, `Flush`, `RetryRow`, `LoopEnds`, `ExecLast`,
`Finish` (commit or rollback), `Destroy` (the destructor, also during unwinding).
`call` fixes the policy and its limit, the controller, the exception flags of
query and connection, and the reconnect option. A row is its number and the length
of its value list, which is all the policies look at. `Outcomes` says what a
statement can meet: success, refusal with or without loss of the transaction,
loss of the connection before or after the server did the work. START
TRANSACTION, COMMIT and ROLLBACK are refused like the others. The ghost `refused`
remembers that the last COMMIT or ROLLBACK was refused by a session that lives on;
`NothingLeftOpen` and `GivenUp` name the two ways a call can fail unnoticed (see
section 5).

### Transaction

`scopes` is the program's stack of `Transaction` and `NoExceptions` objects, left
in reverse order by `Leave`, normally or while an exception unwinds to the depth
`unwind` (`Catch`). The isolation-level constructor is two actions, because it is
two statements on one `Query`: `ctor` remembers whether the SET was accepted, and
if it was not, and exceptions are off, `EndIsolation` sends both texts as one
statement, as the buffer then holds them. `session` adds the isolation levels to
the session of `ServerSession`. `throws` is the connection's flag. The ghost
`strict` is true as long as the program has followed the rules under which a
transaction promises anything: exceptions on, one transaction at a time, no
statement after a failure was caught inside it.

Every statement can be refused with the session alive, by the server or by the
client library, which sends nothing behind a `use()` that was not read to its end.
What a refused statement of a transaction object leaves behind is in the ghost
`refused`: a level set for the next transaction, if START TRANSACTION was refused;
an open transaction without an owner, if COMMIT or ROLLBACK was and its object
takes it for done (exceptions off) or is gone (the destructor swallows it).
`OpenMeansOwned` and `LevelAsAsked` name these exceptions. `strict` stays true
when a COMMIT is refused and throws, so that `AllOrNothing` covers it; it
forgets a program whose destructor has its ROLLBACK refused, or that opens a
transaction while a refused one's level is left.

`UnitsOfWork` says what the objects are for as long as `strict` holds: `made`, the
rows inserted for each object, becomes the table's one unit at a time, whole, and
only when `commit()` is called on the object. The ghosts `made` and `commits` and
the session's table are all it sees: what is staged, who is unfinished, the flags
and the stack are this module's own.

### ConnectionLifecycle, with DriverOptions

Heap addresses are model values that can be reused. `drv[d].open` is the truth
about the session in the C API handle, `is_connected` what the driver believes.
All calls are atomic except `connect()`, whose loop over the queued options
(`NextPending`, `ApplyPending`) changes the list it walks and is spelt out. The
version of the client library is chosen at the start. `DriverOptions` says for
each of the option classes which C API call it comes to, from which version on,
and whether it wants a connection to be up, down or either; an option object's
settings are compared with what the handle has in force.

### QueryResults, with ClientProtocol

`text` counts the statements in the buffer (two of them make nonsense), `good` is
`Query::copacetic_`, `session` the C API's state, `res` every `MYSQL_RES` with its
reference count and how much of it was read, `obj` the program's result
variables, `throws` the flags of the driver and of the query, which are separate
in the code. The answers of the server are sequences of result sets, as for
multi-statements and stored procedures. `for_each()`, `store_if()` and
`storein()` are sequences of `Use`, `FetchRow` and `Destroy`.

Bounds of the model: the connection is not closed and reopened while results are
alive; the query is no template.

### TemplateQuery, with TemplateGrammar and QueryValues

A template is a sequence of characters; `parse()` is a recursive function over it,
with the parameter's number cut to a signed char as in the code. `Write`,
`ParseText`, `SetDefault`, `SetNamed`, the calls (`CallDefault`, `CallParams`,
`CallOne`, `CallText`, `CallStorein`, `CallStoreinParams`), `Build` (`str()`),
`Reset`, `CopyQuery` and `AssignQuery` are the actions. A call is one action, and
unfolds the nested call the code makes of itself, with `processing_` set, or in
`storein()` not set, where the code does. A call with one argument is two: `CallOne`
is `execute(a)`, which makes `a` itself the lone parameter of a template; `CallText`
is `store(a)`, `use(a)` and `storein(c, a)`, which pass on only its characters and
make a string of them. Ghost fields of the query remember the text that was
parsed, how often, and whether a value marked as processed was copied (the mark
gets lost). `ParseText` leaves out one kind of template: those that name a
parameter whose number is negative as a signed char, because the code then indexes
a vector with it (`query.cpp:321`), which is undefined. `last` has what was sent, and what it should be: the template with
each value quoted and escaped once.

### TextFunctions

A state is one case: a family of inputs and one member of it. The run is a sweep
of the functions without state over all members, one property for each kind of
promise:

| Property | Families |
|---|---|
| `ReadsBack` | quoted and escaped texts, templates with literal percent signs, dates and times, addresses, command lines: what is written is read back as what it was |
| `FormsAgree` | the same value through a stream, a query, a template parameter and an adapter; lists of a structure against lists of a row |
| `ConversionExact` | `String` to integers of each width, `tiny_int` operators: exact, or refused; a typedef, the table of types and MySQL's column types: a value fits the column its type is created as |
| `OrdersAgree` | comparison of strings, of dates and times and of structures: the sign reversed with the operands; times as their texts sort; `Null<>`s equal exactly if neither is less; structures by their keys, field by field |
| `ListsSelect` | sparse and whole lists, SSQLS statements: each field once, those that were asked for, in order |

Where the code breaks such a promise, the family excludes exactly that case, the
definition's comment says so, and section 5 lists it.

### DefinitionFiles

`stack` holds the files being read, one frame for each, as the recursion of the
parser does; a file is a sequence of lines of words, any words besides the
`Keywords` of the language. `SkipLine`, `TakeLine`,
`TakeInclude` and `EndFile` are the parser's ways through a line, with the checks
of each directive in the code's order; `lastTable` is the static flag that
survives from one file to the next. `Generate` writes the file named by `-o`,
`NoOutput` ends without one, and `Start` runs the program, again too, also on its
own output. File systems are chosen at the start from all combinations of a few
lines, so that files include each other and themselves.

## 3. Runs

| Run | Instance | Shows |
|---|---|---|
| `pool_safety` | 2 threads, up to 2 connections each, 3 addresses, 3 clock values | `LeaseIsLive`, `LeaseIsExclusive`, `NoneIsLost`, `GrowsOnlyWhenExhausted`, `HandsOutMostRecent`, and that the pool implements `ConnectionLease` |
| `pool_liveness` | 2 threads, 2 addresses, 2 clock values | every call but `safe_grab()` returns; `safe_grab()` returns if the server stays up |
| `insert_safety` | 3 rows of unequal size, every policy, limits from "nothing" to "everything" | `ReturnMeansStored`, `RowsInOrder`, `StatementSizes`, `NothingLeftOpen`, `CallEnds`, implements `AtomicInsert` |
| `life_safety` | 2 connections, 3 driver addresses, 4 option objects, 3 library versions | `HandleKnown`, `OneOwner` |
| `results_safety` | 2 result variables, 7 answers of up to 3 results, up to 2 rows | `FreedWithTheLast`, `OnlyExecuteLeavesRows`, `EndMeansAll`, `ResetIffGood` |
| `transaction_safety` | 2 objects, depth 3, 2 rows for each object, 3 at the server, with and without reconnection | `AllOrNothing`, `OpenMeansOwned`, `LevelAsAsked`, and that it implements `UnitsOfWork` |
| `template_safety` | 5 templates, 3 values, 3 elements | `FilledOnce`, `NamesLead` |
| `text_functions` | texts of up to 4 characters, templates of up to 5, a `long` of 8 bits | the five properties above |
| `definition_files` | a main file of up to 3 lines, two files it may include, 4 open files, 2 runs | `ParsedWhole`, `RoundTrip`, `ProgramEnds` |

The first seven but `pool_liveness` also check their module's `TypeOK`.

Three runs state what a comment says, and find it violated by the code:

| Run | Statement | What the code does |
|---|---|---|
| `results_end_doc` | to come to the end of a result set is no error | the driver throws `ObjectNotInitialized`, from the constructor of `StoreQueryResult` too |
| `template_storein_doc` | the processing flag keeps a completed query from being completed again | `storein()` does not set it, and fills the filled template |
| `text_set_doc` | a `Set<>` is created from a comma-separated list | the first character behind each comma is lost |

### Bounds and why they are enough

*Pool.* Each hazard needs one thread between two locked steps of another, so two
threads; a third address is needed for growth while two are lent, and recycled
addresses come from `Create` choosing any free one. `MaxTime` 2 with `MaxIdle` 1
has connections younger than, exactly at and older than the limit. `MaxHeld`
bounds what one thread keeps. The proofs remove all these bounds.

*Insert.* Three rows give a first, a middle and a last statement; the limits
include 0 (no row fits), values at which one, two and three rows fit exactly,
and one above all. A policy object that was used before starts in mid-count.
The proofs remove these bounds for all but `CallEnds`.

*Transaction.* Two objects can be nested, follow each other, or be left by an
exception one after the other; with two rows each, half of a transaction is one
row, and `MaxTable` 3 leaves room for all of one and half of another. Depth 3 is
both objects and a `NoExceptions` scope around, between or inside them. One level
besides the default tells "asked for" from "found". The proofs remove these
bounds.

*Lifecycle.* Two connections cover source and target of a copy; the third
address lets a driver be made while two exist. The four options are one for each
way to be set and one that takes a setting back; the versions lie on both sides
of each threshold these options have. `LocalServer` is FALSE: with a server at
the C API's default address, copying an unconnected connection opens a session in
the handle of the source that nobody believes in, and `HandleKnown` fails; that
case is recorded below, not claimed, and is the hypothesis of the theorem. The
proofs remove the bounds, and `OneOwner` is proved whatever `LocalServer` is.

*Results.* Two variables are enough to share a stream and to hold a second
result meanwhile; the answers contain empty, single and multiple result sets,
statements without a result before and after others, and a refusal after a
result. `MaxText` 2 is one statement too many in the buffer. The proofs remove
these bounds: any answers that are sequences of at least one result.

*Templates.* The five texts are a named parameter, two with one name, one
parameter twice with an option, a number beyond a signed char, and no parameter;
the values are one to be quoted and escaped, one to be left alone, and NULL. Three
elements are the most these texts are parsed into, and two arguments or defaults
(`MaxArgs`) fill them all. The proofs remove these bounds: `Characters`, the
templates, values and names over them, and both numbers are any that
`TemplateAssumption` allows, which asks only that the characters include those the
code itself writes.

*Text functions.* Quoting looks at one character at a time and parsing at the next
few, with the state of one quote or one parameter, so that texts of four and templates of five
characters contain each transition. A `long` of 8 bits and types of 4 and 8 bits
put every boundary of a conversion within three digits; the widths are constants.

*Definition files.* Three lines are enough for a directive before, inside and
behind a table; three files that name each other for cycles, repeated includes
and a path relative to the including file. `MaxOpen` 4 is where a cycle ends (the
process runs out of descriptors), `MaxRuns` 2 a run on what the first one wrote.

Deadlock checking is off where the program may end: after `Drain`, when the
one bulk insert is done, when no transaction object can be made any more, when a
template query has as many elements as the bound allows, and when the translator
has run `MaxRuns` times.

### Fairness

`ConnectionPool!FairSpec`: strong fairness of each thread inside the pool. A
thread waiting for the mutex finds it free again and again, not for ever; the
operating system's mutex does not starve a waiter, and `create()` and `ping()`
end, by result, exception or timeout of the C API. Nothing is assumed of
callers, clock or server; `SafeGrabReturns` names its condition on the server.

`InsertFrom!FairSpec`: weak fairness of the whole next-state relation, that is,
a single thread keeps executing its call and every statement is answered or
fails. `DefinitionFiles!FairSpec`: weak fairness of `Proceed`, a program of one
thread that waits for nothing; starting it is left to the user. The other modules
make no liveness claim.

## 4. Proofs

`ConnectionPoolProofs`, for any sets of threads and addresses, any clock range,
idle time and bound on held connections, from `PoolAssumption` alone:

| Theorem | Property |
|---|---|
| `Invariance` | the inductive invariant `IInv` |
| `TypeCorrect` | `TypeOK` |
| `LeasesAreLive`, `LeasesAreExclusive`, `NoConnectionIsLost` | the three safety invariants |
| `GrowthIsNeeded`, `ReusePolicy` | the two action properties |
| `PoolImplementsLease` | the refinement |

The safety invariants are not inductive by themselves. `IInv` adds to them and to
`TypeOK`: `LockInv`, that the mutex is held exactly by the thread in `create()`;
`CurInv`, that an operation has a connection exactly in the steps that use one,
and that it is not among those the thread keeps; `CreateInv`, that while a thread is in `create()` no connection is free,
which is what makes the growth property hold at the moment `create()` returns.
`LeaseIsExclusive` cannot be kept without `LeaseIsLive`: it is because lent
connections are marked in use that a second thread's `grab()` finds others.
There is one lemma for each action, and one step in it for each conjunct the
action disturbs. The refinement uses the invariant to show that the owner read
off by `CHOOSE` is unique, so that each step moves one connection in
`ConnectionLease` or none.

`TransactionProofs`, for any number of objects, depth, rows and levels, with or
without reconnection, lost connections and deadlocks, from
`TransactionAssumption` alone:

| Theorem | Property |
|---|---|
| `Invariance` | the inductive invariant `IInv` |
| `TypeCorrect` | `TypeOK` |
| `OpenIsOwned` | `OpenMeansOwned` |
| `LevelsAreKept` | `LevelAsAsked` |
| `RowsAllOrNothing` | `AllOrNothing` |
| `TransactionsAreUnits` | the refinement `ImplementsUnits` |

`IInv` adds to `TypeOK` and `OpenMeansOwned`: `SessionInv`, that a session which
is gone has no transaction, that a level is left for the next transaction
only between the two statements of a constructor or by a START TRANSACTION that
was refused, and that a strict program has left no transaction behind; `CtorInv`, that nothing else
happens meanwhile; `IdInv`, that the objects on the stack have numbers that were
given out; `AskedInv`, that the level START TRANSACTION will find is the one
asked for; and `LevelInv`, which is `LevelAsAsked` without its restriction to
complete constructors. `LevelAsAsked` alone is not kept by `EndIsolation`: it
says nothing of what the SET before it has left. The lemmas come in three layers:
what a statement does to the session, what a push, a pop or `finished_` does to
the stack, and one for each action.

`AllOrNothing` is proved on top of that invariant. `AtomicInv` says, of a program that is
`strict`: every failure is thrown, one object at most is unfinished, and a handler
is outside of that object's block (`StrictInv`); outside a transaction nothing is
staged (`RowsInv`); inside one, the staged rows are the unfinished object's, all
of them and no others, and none is in the table yet (`StagedInv`). `AllOrNothing`
alone is not kept by `Commit`, which needs to know what is staged. That COMMIT
adds all rows of one object and leaves the others' as they are is a count over a
sequence: `CountOwn` and `CountOthers` give it from the interval of the appended
positions, without induction. The implicit commit of START TRANSACTION adds
nothing, because with nothing unfinished nothing is staged (`ConstructAtomic`). An
INSERT that is refused with the whole transaction is where `StrictInv` counts: its
exception leaves the block, so that no later commit() can store the rest.

The refinement needs one more invariant: `LastInv`, that while the program is
strict the unfinished object, if any, is the last one made. Every step
that keeps the program strict is then one of four kinds (an object is made, a row
inserted, `commit()` is called and works or not, nothing visible happens), shown
action by action, and each kind is a step of `UnitsOfWork` or none.
`AllOrNothing` speaks of the states, `ImplementsUnits` also of how they
follow each other: no later failure takes back a unit that was stored, and none is
stored before or without its `commit()`.

`InsertFromProofs`, for any container, row sizes, policies and limits, from
`InsertAssumption` alone:

| Theorem | Property |
|---|---|
| `Invariance` | the inductive invariant `IInv` |
| `TypeCorrect` | `TypeOK` |
| `ReturnIsStored`, `RowsStayInOrder`, `NoTransactionStays`, `SizesAreKept` | `ReturnMeansStored`, `RowsInOrder`, `NothingLeftOpen`, `StatementSizes` |
| `InsertIsAtomic` | the refinement `ImplementsAtomic` |

`IInv` adds to `TypeOK`: `ControlInv`, what the local variables are at each point
of the loop; `FlagsInv`, that without an exception the local `success` agrees with
what the caller can see, the `Query`'s truth, but for a policy that was given up;
`SessionInv`, that rows are staged only in a transaction, and one is open only
while a `Transaction` object will end it or if the live session has refused to;
`AtomicInv`, that with a
transaction and exceptions on the table is empty until the commit; `RowsInv`,
which extends `RowsInOrder` past the loop, to the commit and the destructor; and
`SizeInv`, which ties the policy's counter to the buffer: `StatementSizes` speaks
only of the moments a statement is sent, and is not inductive without the count of
the rows before. The refinement has one lemma for each action: the commit, or its
failure, is the one visible step.

`QueryResultsProofs`, for any number of variables, addresses and rows, and any
answers of the server, from `QueryAssumption` alone:

| Theorem | Property |
|---|---|
| `Invariance` | the inductive invariant `IInv` |
| `TypeCorrect` | `TypeOK` |
| `LastOneFrees` | `FreedWithTheLast` |
| `NobodyElseLeavesRows`, `TheEndIsTheEnd`, `EmptiedIffGood` | the action properties `OnlyExecuteLeavesRows`, `EndMeansAll`, `ResetIffGood` |

`IInv` adds to `TypeOK` the type of the C API's session, `FreeInv` (an address
without references holds nothing, so that it can be given out again), `CountInv`
(the reference count is the number of objects, and only `UseQueryResult`s share)
and `OpenInv` (one result set at most is open, exactly while the session reads
it). The counts are cardinalities: `Retain` and `Release` are cited in every action
that copies, assigns or destroys, as lemmas on adding and removing one element. The
action properties then follow from `IInv` and the kinds of answers each call can
leave.

`ConnectionLifecycleProofs`, for any number of connections, drivers and options
and any set of library versions, from the module's assumptions:

| Theorem | Property |
|---|---|
| `Invariance` | the inductive invariant `IInv` |
| `TypeCorrect` | `TypeOK` |
| `EverythingOwned` | `OneOwner` |
| `HandlesKnown` | `HandleKnown`, if `LocalServer` is FALSE |
| `QueuedForever` | a `connect()` that began with an option queued changes nothing any more |

`IInv` is `TypeOK` with `DriversInv` (live connections and live drivers belong
together one to one), `OptionsInv` (each option on the heap is in one list of one
driver, unless it can only be queued) and `ConnectInv` (the loop over the queue
meets only options that will be queued again). What can be queued at all is decided
by a case analysis over `DriverOptions` (`SetErrorsDisconnected`): the
`ReconnectOption` of the libraries 5.0.13 to 5.1.5 and nothing else. From this come
both the exception in `OneOwner` and `QueuedForever`, which says that the endless
loop of section 5 is endless for every queue. `HandlesKnown` has an invariant of
its own, and needs its hypothesis: `clone()` connects the handle it copies from
when a server answers at the C API's default address.

`TemplateQueryProofs`, for any characters, templates, values and names, and any
number of elements and arguments, from `TemplateAssumption` alone:

| Theorem | Property |
|---|---|
| `Invariance` | the inductive invariant `Inv` |
| `TypeCorrect` | `TypeOK` |
| `FillsOnce` | `FilledOnce` |
| `NamesAlwaysLead` | `NamesLead` |

`Inv` adds to `FilledOnce` and `NamesLead`: `Typed`, the types of all fields;
`TemplateKept`, that a Query parsed once has the elements of its template; and
`DefaultsKept`, that as long as no processed value was copied, each default is the
value the program gave or what an element with its number has made of it. The last
one is what `FilledOnce` lacks: `proc()` changes the defaults it uses in place, so
that the second statement depends on how the first one left them. `Prepared()`
does nothing to a value it has processed and shows it as it was (`PreparedOnce`),
and elements with one number have one option (`OneOption`); so a default is shown
as it was given however often the template is filled (`ShownAsGiven`), and the
statement is the sequence of the elements' contributions (`ProcMeant`).

`parse()`, `proc()` and the escaping are recursive functions, so these proofs need
induction, which the library offers only in theorems with an operator as a
parameter. The proofs here do without them: `LeastNumber` is proved from
the well-founded order on finite sets, and `Upwards` and `Downwards` say, of a
given *set* of numbers, that it has all numbers up to a bound if it has each one
after those before (or behind) it. With these, each recursive function is shown
to exist, to satisfy its equation, and to return what its type says (`ParseType`,
`NumberType`, `FlattenType`, `EscapedType`, `ProcSteps`).

The same module proves, for a text of any length over any characters, that the
server reads an escaped and quoted text back as it was (`QuotedReadsBack`), and so
each string of a template query, whether given with the call or prepared before as
a default (`StringReadsBack`). The reader is the recursive function `Read`, whose
equation is `ReadSteps`; `FlattenPlaces` says where each character's piece stands in
the joined text; and the induction goes from the end of the text, where the
closing mark is, to its beginning. A string with the null adapter's flag, or one
that another Query's option has processed, is not covered: `Shown` sends those as
they are. `ReadsBack` of `TextFunctions` runs the same functions on short texts.

`DefinitionFilesProofs`, for any files, words, command lines, word sizes and
number of runs and of open files, from `SizeAssumption` and `FilesAssumption`:

| Theorem | Property |
|---|---|
| `DefinitionsReadBack` | `RoundTrip` |
| `DefinitionsParsedWhole` | `ParsedWhole` |

Both rest on `Inv`: the types (`TypeInv`), that every open file exists and is read
no further than its end (`StackInv`), and that a field stands only behind a table
or a field (`OrderInv`), in what was parsed, in each open file and in what was
written. `OrderInv` is where the static flag `last_tld_was_table` has to be right:
without it, a file that was written could be refused when it is read.

`RoundTrip` compares what a run has parsed with what an earlier one wrote, and is
kept by no step before the last. `TripInv` adds that each written file still has
the text its lines are written as (`DumpInv`), and that a run on such a file has
read, line by line, the beginning of what was written, without opening another
file (`BackInv`). That a written line is parsed as the line it was is a case
analysis over the directives.

`ParsedWhole` compares the program's loop over a stack with the meaning of a tree
of files, `Expanded`, which is two recursive functions: `UpTo`, over the lines of a
file, and `Expanded`, over the depth of inclusion. Both are first shown to exist and
to satisfy their equations, by the induction of `TemplateQueryProofs`, whose three lemmas are repeated here. `WholeInv`
then says that there is a trace of the open files: the search path each one
started with, such that what is in its frame is the meaning of its lines up to
the one being read, and that the line being read includes the file above it with
the path that one started with. The trace is existential because the program
forgets those paths; the meaning of a file depends on them. `MaxOpen` is the depth
at which both stop, so that a cycle of includes is no exception.

`TextFunctionsProofs`, for any strings as values and operands, any texts as
addresses, any services, dates and times, and keys of any number of fields and of
integers of any width, from `AddressesAreTexts`, `SortTextsAreTexts` (the texts are
made of the characters of `Code`, without a NUL), `KeysAreIntegers` and `TimesFit`
(a year below 10000, and below 100 everything else: more digits than the format has
do not sort like numbers):

| Theorem | Property |
|---|---|
| `OneMeaning` | `FormsAgree` |
| `ComparisonsAreOrders` | `OrdersAgree` |

The invariant is only that a case is one of its family; the theorems are about the
functions.

*`OneMeaning`.* A value with a manipulator and with the option of the same meaning
become the same text if what is escaped or quoted, but not both, has nothing to
escape (`AdaptedText`). For that, the table of field types must give no string the
type of a DateTime, whose NOW() is not quoted (`StringsAreTexts`), and must have no
entry for `char` (`NoCharType`), which is read off its 56 lines one by one. Of
addresses, what `parse_address()` takes for a host is parsed again as itself
(`HostText`, `HostAgain`).

*`ComparisonsAreOrders`.* What `strncmp()` and `sql_compare` return is decided at
the first difference, which is the least number of a set (`LeastNumber`); that the
one finds the same place from both sides, and the other reads the sign of a
difference cut to its width, are `ComparedSign` and `SqlCmpSign`. That a `DateTime`
sorts like its text takes the recursive function `Figures` to be unfolded for
numbers of up to four digits (`FiguresOf`), and then goes from digits to numbers
to fields by one lemma: a text in two parts sorts as its front, or as its rear if
the fronts are the same (`SortsBehind`).

Only model-checked are:

* liveness, for which the prover has no rule: `CallsReturn` and
  `SafeGrabReturns` of the pool, `CallEnds` of the bulk insert, `ProgramEnds` of the
  translator;
* `ReadsBack`, `ConversionExact` and `ListsSelect` of
  `TextFunctions`: sweeps over recursive functions with fixed sizes of their inputs. What
  `ReadsBack` says of quoted text is proved over `TemplateGrammar`, as described
  above;
* the three statements of comments that the code violates, which are false.

## 5. Divergences seen and not stated as runs

*Connections, driver, options.*

* The port in a server address overrides the `port` parameter of `connect()`;
  `connection.h:104` says the opposite.
* `connect()` with a bad address fails and keeps the old session; `connection.h`
  says it is dropped.
* `clone()` connects through the source's handle, so the copy of a connected
  `Connection` is not connected; of an unconnected one, it opens a session in
  the source's handle if a local server answers. Self-assignment uses a deleted
  driver.
* `Connection` still converts to true after a failed `ping()` or `select_db()`.
* `set_option()` returns true when the server refuses to switch multi-statements;
  `MultiResultsOption` on a live connection makes that same call.
* `set_option_default()` gives way to any queued option, not to one of its type:
  it compares the types of pointers (`dbdriver.h:282`).
* `disconnect()` zeroes the handle and keeps the list of applied options.
* With a client library of 5.0.13 to 5.1.5 and `ReconnectOption`, the loop over
  queued options never ends. Its list of failed options is made with a size and
  then appended to, so it begins with null pointers; no path reaches them.
* `TCPConnection::connect()` never throws for an address that does not parse. It
  takes `[v6]:port` apart and hands the rest to `Connection::connect()`, which
  parses it again: IPv6 addresses are always refused. On Windows `.:1` becomes a
  named pipe. A socket's path is tested twice.

*Queries, results, templates.*

* `exchange()` of the pool destroys its argument; `cpool.h:101` says it is
  returned.
* `store_next()` never changes the truth value of the `Query`.
* `store()` of a successful statement without a result set returns a false
  object, which `result.h` calls a sign of failure.
* A copied `StoreQueryResult` has no driver-level result (`impl()`), and an
  assigned one keeps the one it had.
* `store()` whose result is lost on the way leaves the executed statement in the
  buffer.
* A parameter used twice with two options keeps the first one's quoting; parsing
  twice says the template twice; processed defaults that are copied are quoted
  again; a copy's defaults still resolve names through the other `Query`; a
  single argument for a template without exactly one parameter is the statement;
  parameter numbers of 128 and more are lost (`query.h:136` allows 256), and with a
  name they index a vector with a negative number (`query.cpp:321`).
* The lone argument of `store(a)`, `use(a)` and `storein(c, a)` loses its type and
  its null flag (`query.h:435`, `query.h:499`, `query.cpp:494`, `query.cpp:607`):
  option `q` quotes a number, and NULL becomes the string `'NULL'`; `execute(a)`
  keeps both (`query.cpp:168`).
* `quote` and `do_nothing` on a list of parameters mark a value as processed that
  is then copied, and the mark is lost (`manip.h:381`).

*Bulk insert and transactions.*

* `MaxPacketInsertPolicy` does not count the statement's header
  (`insertpolicy.h:191` against `:173`).
* `insertfrom()` with exceptions off and a policy that is too strict leaves the
  `Query` true (`query.h:1104`): nothing tells the caller that rows are missing.
* A COMMIT or ROLLBACK that the live session refuses sets `finished_` all the same
  if the connection does not throw (`transaction.cpp:107`, `transaction.cpp:117`), and
  `~Transaction()` swallows the refusal of its ROLLBACK (`transaction.cpp:91`). The
  transaction then stays open without an owner until the next START TRANSACTION
  commits it, also across calls of `insertfrom()`.
* A START TRANSACTION that is refused leaves the level its constructor has set to
  the next one.
* A START TRANSACTION that fails with exceptions off goes unnoticed, and what
  follows is not rolled back. In the isolation-level constructor, a SET that is
  refused without exceptions stays in front of it (`transaction.cpp:71`).
* A `Transaction` inside another commits the outer one.

*Values and lists.*

* `quote << Set` quotes but does not escape (`manip.h:139`).
* `field_list(d, quote)` puts the manipulator before the backquote;
  `Row::field_list(flags)` quotes names and `field_list()` does not.
* `ignore` has no stream overload. A leading delimiter stands in a sparse list
  whose first item is left out (`vallist.h:366`). Unknown names in
  `value_list(names...)` and rows of more than 13 columns write past a vector.
* An infinity is 0 in a stream and NULL in a template; NaN and a negative
  infinity are written as they are (`stadapter.cpp:264`); `Null<char>` that is
  not null throws `TypeLookupFailed`.
* `String::conv()` narrows and saturates without notice; `mystring.h:122` promises
  a result for a text on which it throws. `SQLTypeAdapter::at()` allows the
  position behind the end, and `compare()` looks at its own length only.
* `Time` with hours from 100 to 255 does not read back. A `DateTime` that is NOW()
  equals one of zeros.
* MEDIUMINT NOT NULL is entered as unsigned, TIMESTAMP NULL without its flag;
  `ft_boolean` has no entry; flags from `1<<8` on are dropped by the type's id.
* SSQLS v1: comparison subtracts and truncates, and the tolerance for floating
  point is not transitive; `set()` forgets the object's own table name;
  `WHERE key = NULL` in an UPDATE matches nothing; `insert(first, last)` takes the
  table of the first object; custom lists own a raw pointer with the default
  copy.

*Programs.*

* The fallback `getopt()` never recognizes `--`: its test is where it cannot hold.
* `ParseV2` appends the lines of fields to the one flat list (`parsev2.cpp:84`).
  `parsev2.h:619` says of that list that it "does not contain Line sub-classes for
  subdirectives", which are to be found in a list inside the top-level directive:
  no directive has one. `ParsedWhole` states what the code does; `generate_ssqls2()`
  relies on it, as it writes tables and fields out of that one list.
* `ssqlsxlat`: an unknown directive is reported as a file error on line 0; a line
  of 100 characters or more silently ends the file; `-o` may write lines too long
  to be read back; an include cycle runs until no file can be opened; the search
  path gets the directory of the name, not of the file that was found; odd
  trailing words are ignored; without `-o` the exit status is 2; `point` is read
  as `mediumint`.

### Hazards the properties see only in part

The hazards of `PROJECT.json` carry a note where what is listed above is the
failing case itself. No property sees: a late `release()` or `remove()` with a
pointer given back before (threads give back only what they hold); an option that
is on the list of the applied ones but, after `disconnect()`, no longer in force
(`HandleKnown` asks the other direction); the old session that stays up after a bad
address; an error number left by another call (the model's is always that of the
call). Excluded by name are: statements of one row above the packet limit in
`StatementSizes`; a COMMIT or ROLLBACK refused with the session alive in
`OpenMeansOwned` and `NothingLeftOpen`; copied processed defaults in `FilledOnce`,
and nothing follows `parent_`; what stands behind a line that is too long in
`RoundTrip`; row lists without the first field in `ListsSelect`; infinities and
IPv6 addresses in `FormsAgree`; differences that do not fit in `OrdersAgree`; the flag of
MEDIUMINT NOT NULL in `ConversionExact`.

## 6. Not modelled

* `RefCountedPointer::assign(T*)` with a pointer that is already managed: the
  library never does it. Members a constructor leaves uninitialized and nobody
  reads (`ResultBase::driver_`); options still queued when a driver dies.
* Results that outlive their connection: what the C API does with a stream whose
  session is closed and whose handle is opened again is not documented.
* Conversion to floating point, the clock behind `now()`, the members of
  `String`, `Row` and `SQLBuffer` that forward to a standard container.
* The database operations of SSQLS v2 (`SsqlsBase`): stubs that return false.
* The Perl programs themselves (`ssqls.pl`, `querydef.pl`): what they write is
  modelled, or forwards to what is.
* Error texts, server statistics, `shutdown()`, `kill()`, thread start and end:
  one C API call each, no state of the library.
* Build system and examples; the command line they share is in `CommandLines`.

## 7. Plan

1. An abstract specification of `QueryResults` (a reader that owns the connection
   or not), with a refinement checked and proved from the invariant of section 4.
2. The round trips of `ReadsBack` of `TextFunctions`, by the induction that
   `QuotedReadsBack` is proved by; of dates and times, from `FiguresOf`.
