# A formal model of YCSB-C-L4

YCSB-C-L4 is a C++ port of the Yahoo! Cloud Serving Benchmark to the L4Re
operating system. A benchmark process runs a workload from several threads
against a database. The interesting databases are two servers in a process of
their own, both wrapping SQLite: one is reached by synchronous IPC, the other
by busy-waiting on shared memory. This directory holds TLA+ models of the
driver, of both back ends and of the interface they share, configurations to
check them with TLC, and proofs checked by TLAPS. The back ends that work inside
the benchmark process, the library and the hash table, are modelled too, and so
is the serializer that the two servers use.

Paths below are relative to `src/server/`.

## 1. The system

| Part | State it keeps | Operations | Correct if |
| --- | --- | --- | --- |
| Driver (`ycsbc-l4/ycsbc-l4.cc`, `include/utils.h`) | phase, futures, sum of successes, CPU list | `main`, `DelegateClient`, `select_cpus`, `migrate` | the loading phase is over before a transaction starts; the reported numbers are those of the run; threads are placed as the options say; the benchmark ends |
| Workload and client (`core/core_workload.*`, `core/client.h`) | two record counters, generators | `NextSequenceKey`, `NextTransactionKey`, `NextOperation`, one method per transaction | no record number is used twice; transactions meet existing records |
| Generators (`core/*_generator.h`) | counters, last values, zeta constants | `Next`, `Last`, `Set` | values stay in the range asked for |
| Database interface (`include/db.h`) | one context per thread | `CreateSchema`, `Init`, `Close`, `Read`, `Scan`, `Update`, `Insert`, `Delete` | every call happens once, between its start and its return |
| SQLite library back end (`lib/sqlite-lib-db`) | database handle, statement cache per context | the same | results and effects are those of the table; no cached statement is met dirty; locked statements are retried and get through; the in-memory database outlives its loaders |
| IPC back end (`ycsbc-l4/db/sqlite_ipc_db.cc`, `sqlite-ipc-srv/ipc.cc`) | two dataspaces and a gate per thread; receive slots and stack frame of the server's main thread; one worker per thread | `schema`, `spawn`, five operations, `close`, `terminate` | a thread gets its own worker and windows; nothing is used after it is gone; it implements the interface |
| Shared-memory back end (`ycsbc-l4/db/sqlite_shm_db.cc`, `sqlite-shm-srv/shm.cc`) | two windows per thread with a notification byte each; one spinning server thread | `schema`, `spawn`, five operations and `c`(lose) as opcodes | the spin handshake has no race and loses nothing; windows are not used after deletion; it implements the interface |
| Serializer (`lib/serializer`) | a cursor into a window | `<<`, `>>` | what does not fit is refused, nothing else is, and the reader gets what was written |
| Hash table back end (`ycsbc-l4/db/hashtable_db.cc`, `lock_stl_db.h`, `ycsbc-l4/lib/*`) | two levels of hash maps, strings on the heap, one mutex | the interface | a call is one instant; every string has one owner |
| `BasicDB`, factory, properties, timer, build and workload files | none to speak of | | |

How they interact: `main` creates the schema, then starts one thread per
future, for loading, and again for transactions. Each thread opens a context
(`Init`), makes its share of calls through `Client` and closes the context.
All threads share the workload object: an atomic counter and generators behind
mutexes. A context of a server back end owns two dataspaces. With IPC the
thread blocks in the kernel until its worker replies; with shared memory both
sides spin on one byte each, and the rest of the window is copied with plain
loads and stores.

What is hard here:

- **Order of single stores.** The shared-memory handshake is right only because
  of the order of four stores to two bytes, two of which are plain.
- **Lifetime.** Windows are deleted by the client while the server may still
  have them mapped; the IPC worker reads and writes a stack frame of another
  thread; two receive slots serve all connections.
- **Partial failure.** Every kernel call may fail, a message may not fit,
  either process may die. An exception that nobody catches ends the server, and
  the shared-memory client cannot notice.
- **Sharing between the phases.** The record counters are set once, advanced by
  different operations and compared with each other.
- **State that outlives a call.** Prepared statements are cached and used again;
  a query holds a table lock between its steps; the in-memory database lives
  only as long as a connection to it; strings change hands between tables.
- **Boundaries.** Totals are divided by the number of threads, CPUs are taken
  modulo their number, the end of a buffer is computed with wrap-around.

`PROJECT.json` lists the hazards one by one, each at its line, with the
properties that cover it.

## 2. Modules

| Module | Models | Rests on |
| --- | --- | --- |
| `KVStore` | a table: what a request returns and changes (`Result`, `Effect`), when it succeeds | - |
| `DBService` | the interface: `Invoke`, `Apply`, `Return`, `Throw` per thread | `KVStore` |
| `SqliteLib` | the library back end | `KVStore`; implements `DBService` |
| `SqliteShm` | client and server of the shared-memory back end | `KVStore`; implements `DBService` |
| `SqliteIpc` | client, main thread and workers of the IPC back end | `KVStore`; implements `DBService` |
| `HashRecords` | records of the hash tables: what a call answers and changes | - |
| `HashService` | what the hash table back end promises | `HashRecords` |
| `HashtableStore` | the hash table back end | `HashRecords`; implements `HashService` |
| `Serializer` | `Serializer` and `Deserializer` over one window | - |
| `Ycsbc` | driver, workload, generators, choice of CPUs | a database call is one step, as in `DBService` |
| `MCSqliteLib`, `MCSqliteShm`, `MCSqliteIpc`, `MCHashtableStore`, `MCSerializer`, `MCYcsbc` | small instances for TLC | |
| `KVStoreProof` | lemmas about the table | `KVStore` |
| `SqliteShmProof`, `SqliteShmRefinement`, `SqliteIpcProof`, `SqliteLibProof`, `HashtableStoreProof`, `SerializerProof`, `YcsbcProof` | theorems, section 6 | the modules they are named after |

### KVStore and DBService

A table is a function from keys to records; `NoRow` stands for no record. Keys
are numbers in the order in which SQLite sorts their names, and field values
are opaque. `Request` is the set of calls of `db.h`; `NoList` is the null pointer
in place of a list of fields, which a client of a server turns into an empty
list (`Serialized`) and which makes a scan pad its rows differently (`Padding`).
`Outcome`, `Conflicts` and `Succeeds` follow the status checks of
`sqlite_lib_db.cc` (a missed record, a primary key that exists), `Written` and
`Effect` its statements, `Result` the rows it copies out. A query selects every
column and filters afterwards, so one that asks for a column that does not exist
finds its record and brings no pair of it. `DBService` is the contract: a
call takes effect at one instant between its invocation and its return and
returns the result of that instant, or ends in an exception, with at most one
effect.

### SqliteLib

`stmt[c][t]` is the state of the statement with text `t` in the cache of thread
`c`, `bound[c][t]` what is bound to it, `got` the result vector of the call,
`open` the connections to the in-memory database.

| Code | Actions |
| --- | --- |
| `CreateSchema` (keeps `schema_database` open), `Init` | `CreateSchema`, `InitConn` |
| head of each operation: look up or prepare, then bind | `BeginOp` |
| `Read`, `Scan`: the calls of `sqlite3_step` | `ReadRow`, `ScanNext`, `QueryDone` |
| `Update`, `Insert`, `Delete`: the calls of `sqlite3_step` | `StepWrite`, `StepLocked` (retry), `StepThrows` |
| tail of each operation: clear bindings, reset | `Return` |
| destructor of the context | `Close`, which may throw |

One `sqlite3_step` is one step of the model. A query is locked open from its
first row to its reset, and a writer of another thread meanwhile gets
`SQLITE_LOCKED`, with which `Update` and `Insert` try again and `Delete` throws.

### SqliteShm

One element of `Clients` is one `DelegateClient` call and the server thread
started for it. `pc` and `spc` are the control states of the two threads; a
state is a place between two accesses to shared memory or two kernel calls.
`inByte`, `inMsg`, `outByte`, `outMsg` are the two windows. A message is the
request or the result itself, `Blank` or `Torn`; `Parse` and `Received` say
what a reader makes of it.

| Code | Actions |
| --- | --- |
| `CreateSchema`, `op_schema` | `CreateSchema`, `SchemaFails` |
| `Init`, `op_spawn`, constructor | `InitConn`, `InitFails`, `OpSpawn`, `SpawnRefused`, `SpawnThrows` |
| `Read`, `Scan`, `Update`, `Insert`, `Delete` | `BeginOp` (serialise), `BeginOpThrows`, then `call` |
| `IpcCltCtx::call` | `Notify`, `SeeResponse`, `ResetOut`, then `Return` |
| `Close` | `BeginClose`, `DetachIn`, `DetachOut`, `DetachFails`, `ReleaseWindows` |
| `BenchServer::loop` | `ServerStart`, `Poll`, `Parse`, `Exec`, `ExecThrows`, `WriteResult`, `WriteThrows`, `ClearIn`, `Signal`, `AckClose` |
| `BenchServer::close` | `ServerDetachIn`, `ServerDetachOut`, `ServerFaults` |
| process exit through `future::get` | `ClientDies` |

`SeeResponse` and `Poll` are the iterations that leave the spin loops; those
that stay change nothing and are stuttering.

### SqliteIpc

`mpc`, `slots`, `frame` and `gate` are the server's main thread: its receive
slots and the stack frame of `op_spawn` whose address the worker gets. `wpc`
and the variables behind it are the workers. Spawning takes the steps
`OpSpawn`, `CopyArgs`, `Construct` (which moves the capabilities out of the
slots), `Publish` (the gate), `Rendezvous` (the empty message) and
`ReplySpawn`. A call is `BeginOp`, then `Receive`, `Parse`, `Exec`,
`WriteResult` and `Reply` in the worker whose gate the client holds, or
`RpcFails`, and `Return`. The model never uses that a worker and its client
carry the same name: who meets whom follows from the slots and gates passed.

### HashtableStore, HashRecords and HashService

The hash table back end is not `DBService`: it makes a record that an update
misses, stops an insertion at the first field that exists and keeps the fields
before it, and scans in the order of a hash table. `HashRecords` says what each
call answers and leaves behind, `HashService` that it does so at one instant.

`lock` is the mutex of `LockStlDB`, `table` the table of records with
the block of each field, `heap` the strings. `hand[t]` is the string that the
code holds in a local variable, `doomed[t]` the record that it has removed.

| Code | Actions |
| --- | --- |
| `lock_guard` in the operations of `lock_stl_db.h` | `Call`, `Lock`, `Return` |
| `Read`, `Scan` (`Entries`, then the copies) | `Read`, `Scan`, `CopyOut` |
| `Update`, `Insert`: find or make the record | `FindRecord` |
| their loops: `CopyString`, `Update` or `Insert` of the field table, `DeleteString` | `CopyString`, `Put`, `Exchange`, `Conflict`, `DropHand`, `AllStored` |
| `Delete`: `Remove`, then `DeleteFieldHashtable` | `Remove`, `FreeRecord` |

### Serializer

`mem` is the address space, `window` the buffer, `buf` the cursor, first of the
writer and then of the reader. Addresses are words of `WordBytes` bytes and
wrap around. `Unfold` is one overload of `operator<<`, `Copy` and `Overflow`
the private `serialize`, `Send` the hand-over, `ReadInt`, `ReadString`,
`ReadBytes`, `ReadVector` and `ReadPair` the overloads of `operator>>`. A
value is a number, a string, a vector or a pair of these, which is what the
messages of both back ends are made of. The constant `Typed` pairs each value
that occurs, at any depth, with the type a receiver names for it; `HasType` is
what the overloads on both sides agree on, and `TypedAssumption` requires it of
every pair. The models of the back ends use only
the result: a message arrives whole, or does not fit and leaves the window torn.

### Ycsbc

`mpc`, `wave`, `idx`, `sum`, `loaded` are `main`; `tpc`, `left`, `oks`, `cur`
are the threads of the current wave; `keyGen` is `key_generator_`, `keySeq` is
`insert_key_sequence_`. `ClaimKey` is `NextSequenceKey`, one atomic
`fetch_add`. `ChooseOperation`, `PickKey`, `AcceptKey` and `RejectKey` are
`NextOperation` and the loop of `NextTransactionKey`. `Insert`, `Lookup`,
`LookupThrows`, `ReadToModify` and `Update` are the database calls. `Spawn`
places a thread (`SelectCpus`), `Join`, `JoinThrows` are `future::get`.

A generator is the set of numbers that it can return: `UniformRange`,
`ZipfianRange` (whose first two ranks come without the lower bound),
`ScrambledRange`, `LatestRange`; `Choosable` and `ScanLength` say which of them
`CoreWorkload::Init` installs. `Requested` are the names of the fields that the
client asks for. `BackEnd` chooses what a missed record is: a status with the
library (`MissReturns`), an exception of the client over IPC (`MissThrows`). With
shared memory it is neither, see `shm_miss` below: the thread takes no further
step, nor does one that inserts a key that exists. That the other threads of the
benchmark hang too is left out, which only gives the safety properties more
behaviours to hold in; the runs over shared memory meet no missed record.

## 3. Assumptions about what is outside

- Fresh memory of `mem_alloc` is zero.
- The server loop catches `L4::Runtime_error` only; any other exception ends
  the server process, and with it its threads and mappings. An RPC to a thread
  that is gone returns an error.
- An exception of a benchmark thread reaches `main` through `future::get` and
  ends the process without unwinding.
- SQLite, as `SqliteLib` uses it: a step of a writing statement takes effect at
  once or not at all; a query holds the table from its first row to its end or
  reset, against writers of other connections; a statement that is not reset
  cannot be bound; finalizing or resetting one whose last step failed returns
  that error; an in-memory database goes with its last connection. In
  `SqliteShm` and `SqliteIpc` a database call of the server is one step, which
  is what `SqliteLibProof` proves of the library; that a `Delete` may find the
  table locked is kept there as `LockedOut`.
- Accesses to the two bytes are taken to be sequentially consistent. The
  property `NoDataRace` is what makes that adequate for the plain accesses: a
  program without races cannot tell the difference as far as these bytes are
  used. The release/acquire pairs themselves are not modelled.
- The allocator never runs out, and `std::mutex` gives no order to its waiters.
- A request to the hash table back end names each field once
  (`HashAssumption`), as `BuildValues` and `BuildUpdate` do.
- Record numbers hash to distinct keys within one run.
- A message is read with the types it was written with (`TypedAssumption`), as
  the two ends of both protocols do, and no string or vector is longer than a
  `size_t` can say.
- A buffer does not wrap around the address space, though it may end at the
  last address.

## 4. Runs

| Run | Instance | Properties | Distinct states |
| --- | --- | --- | --- |
| `shm_calls` | 2 threads of a phase, 2 calls each of all five kinds, every fault, requests and results larger than a window | `TypeOK`, `NoDataRace`, `ServesCurrentRequest`, `NoStrayAccess`, `IInv`, `ShmServiceSpec` | 672178 |
| `shm_live` | a loading and a transaction thread, 1 insert each, every fault, fair | `CallsAnswered`, `ServerLetsGo`, `ThreadsReturn` | 1931 |
| `shm_miss` | 1 thread that looks up an empty table, fair | `CallsReturn`, violated | counterexample |
| `ipc_calls` | as `shm_calls` | `TypeOK`, `OwnConnection`, `WorkerServesItsClient`, `DeleteAfterDetach`, `FrameLive`, `WindowsLive`, `IpcServiceSpec` | 354309 |
| `ipc_live` | 2 threads, 1 insert each, every fault, fair | `RpcsReturn`, `WorkersEnd` | 7695 |
| `lib` | a loader with 2 inserts, then 2 threads with 3 calls each, fair | `TypeOK`, `StatementsClean`, `DataSurvives`, `ScansAreStable`, `LibServiceSpec`, `WritersGetThrough` | 28383 |
| `hash` | 2 threads, 2 calls each of all five kinds, 4 strings, fair | `TypeOK`, `BlocksOwned`, `HashServiceSpec`, `OperationsReturn` | 206553 |
| `serializer` | every buffer of a 16 byte address space, 5 shapes of messages | `TypeOK`, `WindowOnly`, `RefusedOnlyWhenFull`, `RoundTrip` | 6587 |
| `ycsbc_even` | 2 threads, 4 records, 4 transactions, 3 of 4 CPUs | `TypeOK`, `InsertsFresh`, `PickedKeysInserted`, `ThreadsDispersed`, `BootCpuAvoided`, `LookupsSucceed` | 74909 |
| `ycsbc_live` | 2 threads, 3 records, lookups that miss throw, fair | `LoadReported`, `BenchmarkEnds` | 7426 |
| `ycsbc_uneven` | 2 threads, 3 records | `PickedKeysInserted`, violated | counterexample |
| `ycsbc_one_field` | 2 threads, `readallfields=false`, shared memory | `LookupsSucceed`, violated | counterexample |

The properties are stated and explained where they are defined.

**Bounds and why they are enough.** In the server back ends `Clients` has two
elements: connections share only the store, the process and, with IPC, the
receive slots and the main thread, so two are enough for one to overtake or
overwrite the other. `NumOps` is two: the first call finds fresh windows, the
second what the first has left. There are two keys, one value column and two
values, so that a scan can have more than one record, be cut off, and tell old
from new values. The requests contain an insert that does not fit and scans that
overflow a window of `MaxRows = 1` record; reads of a column that does not exist
find the record and bring nothing back. The liveness runs use one call each
because liveness of a call does not depend on how many came before (the
invariant of section 6 says that the handshake is back in the same state).
Symmetry is used in `shm_calls` and `ipc_calls`, where no temporal operator but
the action form `[][A]_v` is checked and the two threads are interchangeable.

`lib` has a loader because the question of `DataSurvives` is who keeps the
records between the phases; after it one thread mostly reads and one mostly
writes, three calls each, so that a cached statement is used again after a
success and after a miss, and a scan over both records is met by an update, an
insert and a delete; the lists of fields are absent, empty, or name a column.
`hash` has updates that make a record of one field and insertions of two: they
store one pair and meet the other. Four strings are one more than a record of
two fields and one of one field hold. `serializer` has words of two 2-bit bytes:
every start and length is an initial state, the buffers that end at the last
address included, and the messages are a scan call, an insertion, the rows of a
scan and a schema, with empty strings and vectors. In `Ycsbc` two threads share
four records and four transactions, or three records of which one is left over;
`Hashed` scatters the keys so that the order of keys is not that of the numbers;
three CPUs make a pair wrap around the end of the list.

**Deadlock** is checked in all runs. A specification ends in an explicit
stuttering action that is enabled only in its final states.

**Fairness.** Each thread has weak fairness of its next step: benchmark and
server threads have CPUs of their own or share one with time slices, and all
loops poll. There is none on `ClientDies`, since `main` waits for the futures in
order and may never get to the one that threw; none on any fault. No lock is
assumed to be handed out in order: in `lib` and `hash` every thread makes a
bounded number of calls, and who is overtaken for ever would need infinitely
many. So `WritersGetThrough` and `OperationsReturn` say that a lock is always
given back and that nothing waits for itself, and do not say that a thread
cannot be overtaken. The driver needs strong fairness of picking an existing
record: a generator asked again and again for a number returns one below the
limit at last.

## 5. What the runs show about the program

Positive: see the table. All four real back ends do what their interface says,
the two servers with every fault: a call that returned has happened exactly
once, and the answer that is parsed belongs to it. The close protocol of the
shared-memory back end is safe although the client does not wait for the server
to detach, because the server touches no window after its acknowledgement. An
insertion into the hash tables that stops half-way leaks none of the values,
and nobody sees the record in between.

Three disagreements between code and comments, each with a run that shows it:

1. `shm_miss`: `db.h:75` promises an error code for a record that is missed.
   The shared-memory server throws on any status but `kOK`, its process ends,
   and the client spins for ever.
2. `ycsbc_uneven`: `core_workload.cc:149` says that keys not inserted yet are
   ignored. Loading truncates `recordcount / threads`, the limit does not, so
   transactions are made on records that were never loaded. With IPC such a
   lookup throws, with shared memory it is case 1. (The limit is also never
   advanced, so records inserted by transactions are never chosen.)
3. `ycsbc_one_field`: `core_workload.h:60` offers to read one field. The client
   puts `field` before a name that already begins with it, so that the column
   does not exist and the record that was found has nothing to bring back; over
   both servers that is a miss.

Two more observations. A scan length drawn from the Zipfian generator can be 0,
because its first two ranks come without the lower bound; such a scan finds
nothing, and over IPC it throws (`ycsbc_live` contains it, and the benchmark
still ends). With a single CPU to use, `-disperse` gives a thread and its
database thread the same one: theorem `Dispersal` needs two.

## 6. Proofs

All theorems hold for every value of the constants that satisfies the named
assumptions of the modules. TLC evaluates these assumptions in every run.
Each safety proof has the same layout: an inductive invariant as a conjunction
of named parts, one lemma per action, and the theorem that combines them.
`KVStoreProof` supplies what the inductions need of the table: results of any
request are well formed and effects keep the type of the table.

| Module | Theorems |
| --- | --- |
| `SqliteShmProof` | `HandshakeHolds`, `TypeCorrect`, `RaceFree`, `AccessSafe`, `ServesCurrent` |
| `SqliteShmRefinement` | `Implements`: `Spec => ShmServiceSpec` |
| `SqliteIpcProof` | `TypeCorrect`, `FramesLive`, `ConnectionsSeparate`, `AccessesSafe`, `ServesCurrent`, `DeletedAfterDetach`, `Implements` |
| `SqliteLibProof` | `TypeCorrect`, `CacheClean`, `DatabaseStays`, `ScansStable`, `Implements` |
| `HashtableStoreProof` | `TypeCorrect`, `StringsOwned`, `Implements` |
| `SerializerProof` | `TypesKept`, `WritesStayInside`, `RefusalsAreNeeded`, `MessagesArrive` |
| `YcsbcProof` | `TypesKept`, `FreshInserts`, `LoadedReported`, `LoadedFound`, `PickedFound`, `LookupsCounted`, `Dispersal`, `BootAvoidance` |

**Shared memory** (`SqliteShmProof`). `HandshakeHolds` is `Spec => []IInv`.
`IInv` is the conjunction, for each connection, of

- `Handshake`: the control states of the two threads and the two notification
  bytes determine each other. When the client is outside a call, the request
  byte is clear, the response byte is clear and the server polls. When it
  waits, either the request byte holds its opcode and the server is on its way,
  or the response byte is set;
- `Delivered`: the window holds the client's arguments from `BeginOp` to its
  response;
- `Dispatched`: what the server has read is that opcode and those arguments;
- `Mapped`: which windows exist and are mapped on which side in which state.

None of the safety properties is inductive alone: `NoDataRace` speaks about
pairs of control states, and which pairs are reachable depends on the bytes;
the bytes depend on who wrote them last; that the server is not still polling
windows that are gone depends on what it has dispatched. `SqliteShmRefinement`
adds `Answered`, where the answer of an executed call is (the server's result
vector, then the window), and shows action by action that `Exec` is the
`Apply` of `DBService`, `Return` its `Return`, and the rest stutters or throws.

**IPC** (`SqliteIpcProof`). The invariant follows what passes through the main
thread. `InFrame` and `Started`: the receive slots and the frame of `op_spawn`
belong to one connection from its RPC to the reply. `Connected`: so the worker
comes to hold its own windows and the client its own worker. `Asked`, `Busy`,
`Answered`, `Mapped`: from then on a call involves nobody else. Most of it is
claimed only while the server process is alive; when it is gone, what is left
is what the client does by itself.

**Library** (`SqliteLibProof`). `Prepared` (the cache), `Holding` (who keeps the
table locked) and `Gathered`: what a scan has fetched so far is a part of what
it has to return, row by row as the table holds it now. That the last one
survives the steps of other threads is where the lock is used (`WriterAlone`).
The step that finds nothing more is the instant of the call.

**Hash table** (`HashtableStoreProof`). `Mutex`, what a thread may hold outside
the tables (`Loose`), and `Owned`, the conjunction of no dangling, no shared and
no lost string. For the refinement a write takes effect where it finds its
record; `StoredNext` and `InsertableNext` say that storing one pair and then the
rest is storing the list, so the later steps of the call change nothing that
another thread could see. These are facts about lists of any length, and need
no induction: `InsertableFacts` takes the first conflict from the
well-foundedness of the natural numbers.

**Serializer** (`SerializerProof`). `SpaceLeft` is the arithmetic: in a buffer
that does not wrap around, `end - buf` modulo the number of addresses is the
space that remains, also when `end` is 0. `WritingInv` ties the cursor to the
number of bytes written.

`MessagesArrive` says that every message is read back as it was written, of
whatever values and at whatever depth. It looks like an induction over data and
is made one over steps: while the message is written, `ReadingInv` keeps the
*way* of the reader that will come, a set of configurations (`Configs`: how many
bytes it has taken, which types it still wants, what it has heard) in which each
but the last reads the next one from the bytes now in the buffer (`Way`,
`Reads`). The last one keeps up with the writer: between two values the items
still to be written match, one by one, the types still wanted (`Between`);
inside a value the one or two copies that it comes down to are what the reader
takes next (`LastCopy`, `SizeCopy`). `Unfolds` is one lemma per
overload of `operator<<`; `CopyWrites` says that a copy changes no byte the
reader relies on; `ReaderStep` that an overload of `operator>>` makes the step
foreseen. That a number is known from its bytes (`LittleOneToOne`) is proved
for words of any size: two numbers with the same bytes have the same quotients
by every power, by descent to the least byte where they differ. Of powers it
uses only that `^` multiplies (`PowerAssumption`, which the prover's backends
do not know and TLC evaluates).

**Driver** (`YcsbcProof`). Nothing about the driver is inductive alone, since
the phases share the counter, the table and the threads. `BenchInv` is

- `Control`: what `main` and the threads hold in each phase (`Types`, `Waves`,
  `Calls`);
- `Draws`: the number that the counter stands at, plus the iterations that may
  still draw one, stays within the totals. The iterations are counted as a set
  of pairs of a thread and a round (`Remaining`), so that no sum over the
  threads is needed;
- `Claims`: each number drawn is in the call of exactly one thread or in the
  table, and below the counter;
- `Loaded` and `NoneLost`: when the loading phase is over, every number it
  drew is in the table;
- `Counts`: the sum of the futures collected, plus the insertions not yet
  collected, is the number of records.

`TypesKept` and `FreshInserts` follow without a condition; the counter can not
leave the numbers whose keys are assumed to be distinct. `LoadedReported` and
`LoadedFound` hold for every thread count. `PickedFound` and `LookupsCounted`
are the complements of two findings: `PickedKeysInserted` holds if the first
number is 0 and the thread count divides the record count, and `ycsbc_uneven`
shows what happens if it does not divide it; `LookupsSucceed` holds if whole
records are read, or the library is used, and scan lengths are uniform, and
`ycsbc_one_field` shows it violated when one field is read over a server.

`Dispersal`: two CPUs to use are enough for `-disperse`; the core is that
neighbouring slots differ modulo any number above one. `BootAvoidance`: with a
second CPU the boot CPU is never used if it is to be avoided.

**Only model-checked.** All liveness: TLAPS cannot reason about fairness and
`ENABLED`. `CallsAnswered`, `ServerLetsGo`, `ThreadsReturn`, `RpcsReturn`,
`WorkersEnd`, `WritersGetThrough`, `OperationsReturn` and `BenchmarkEnds` are
therefore checked on the instances of section 4 only. Every invariant and action
property that a passing run checks, and every refinement, is also a theorem;
those that hold for some options only (`PickedKeysInserted`, `LookupsSucceed`,
`ThreadsDispersed`) with that condition.

## 7. Not modelled

- `BasicDB`, which prints its calls and keeps no state, and the factory, a table
  of names.
- Parsing of the command line and of property files, text output, the clock and
  the throughput that is computed from it, build and workload files.
- The probabilities of the generators, and the rounding of the discrete one:
  the models have the set of what can be returned.
- Values of fields, and the byte layout of the messages in the models of the
  back ends (the latter is in `Serializer`).
- The destructors that the driver never runs (`SqliteLibDB`, `HashtableDB`), the
  key strings of the hash tables (those of a refused insertion and the field
  names of a deleted record are leaked), and the inside of the hash table.
- Weak memory: see section 3.
- SQLite and L4Re, beyond how this code uses them.

## 8. Plan

Done, in this order: `KVStore`, `DBService`, `SqliteShm` and its proof,
`SqliteIpc`, `Ycsbc` and its proof; `SqliteLib`, `HashtableStore`, `Serializer`,
the generators in `Ycsbc`; the proofs that all four back ends implement their
interface, and the invariants of `SqliteIpc`; the driver's counting invariants
and the round trip of every message. What would come next:

1. The composition of `Ycsbc` with `SqliteShm`, so that a missed lookup hangs
   the benchmark in one model.
2. A release/acquire model of the stores to the two bytes, to replace sequential
   consistency.
