-------------------------------- MODULE Ycsbc --------------------------------
(***************************************************************************)
(* The benchmark process: main() and its DelegateClient threads, the key   *)
(* and CPU choices they share, and which records exist.  main starts the   *)
(* loading threads, collects their futures in order, starts the            *)
(* transaction threads and collects those.  All threads share one          *)
(* CoreWorkload: the counter that numbers new records and the generator    *)
(* that chooses records for transactions.                                  *)
(*                                                                         *)
(* A database call is one step here: that is what DBService promises and   *)
(* what SqliteShm and SqliteIpc are checked to implement.                  *)
(***************************************************************************)
EXTENDS Integers, Sequences, FiniteSets

CONSTANTS
    NumThreads,       \* -threads
    RecordCount,      \* recordcount
    InsertStart,      \* insertstart: the first record number
    OperationCount,   \* operationcount
    Mix,              \* operations with a positive proportion
    Distribution,     \* requestdistribution
    NewKeys,          \* new_keys of the zipfian key space
    BuildKeyName(_),  \* key of a record number, as its place in key order
    BackEnd,          \* "lib", "ipc" or "shm"
    FieldCount,       \* fieldcount
    ReadAllFields,    \* readallfields
    MaxScanLength,    \* maxscanlength
    ScanLengths,      \* scanlengthdistribution
    MayFail,          \* whether migration or Init may throw
    OnlineCpus,       \* online_cpus()
    AvoidBootCpu, MigrateRR, Disperse

KeyNums == InsertStart .. InsertStart + RecordCount + OperationCount

ASSUME YcsbcAssumption ==
    /\ NumThreads \in Nat \ {0}
    /\ RecordCount \in Nat \ {0}
    /\ InsertStart \in Nat
    /\ OperationCount \in Nat
    /\ Mix \subseteq {"READ", "UPDATE", "INSERT", "SCAN", "READMODIFYWRITE"}
    /\ Distribution \in {"uniform", "zipfian", "latest"}
    /\ NewKeys \in Nat
    /\ \A k \in KeyNums : BuildKeyName(k) \in Nat
    /\ \A j, k \in KeyNums : BuildKeyName(j) = BuildKeyName(k) => j = k
    /\ BackEnd \in {"lib", "ipc", "shm"}
    /\ FieldCount \in Nat \ {0}
    /\ MaxScanLength \in Nat \ {0, 1}
    /\ ScanLengths \in {"uniform", "zipfian"}
    /\ {ReadAllFields, MayFail, AvoidBootCpu, MigrateRR, Disperse} \subseteq BOOLEAN
    /\ Disperse => MigrateRR
    /\ OnlineCpus \in Seq(Nat) \ {<<>>}
    /\ \A m, n \in DOMAIN OnlineCpus : OnlineCpus[m] = OnlineCpus[n] => m = n

VARIABLES
    mpc,       \* control state of main
    wave,      \* "load" or "run"
    idx,       \* main's loop variable: the thread to start or to collect
    sum,       \* main's sum of the futures
    loaded,    \* the number reported as "# Loading records"
    keyGen,    \* key_generator_
    keySeq,    \* insert_key_sequence_
    present,   \* keys of the records in the database
    tpc,       \* tpc[i]: control state of thread i of this wave
    left,      \* left[i]: iterations it has still to make
    oks,       \* oks[i]: its calls that returned kOK
    cur,       \* cur[i]: operation and record number of its current call
    place      \* place[i]: CPUs of the thread and of its database thread

wvars == <<keyGen, keySeq, present>>
mvars == <<mpc, wave, idx, sum, loaded, place>>
tvars == <<tpc, left, oks, cur>>
vars == <<wvars, mvars, tvars>>

Threads == 1 .. NumThreads
Operations == {"READ", "UPDATE", "INSERT", "SCAN", "READMODIFYWRITE"}
NoCall == [op |-> "none", key |-> 0]
Unplaced == [bench |-> 0, db |-> 0]

-----------------------------------------------------------------------------
(* CPU selection. *)

UsableDropsLast ==
    IF AvoidBootCpu /\ Len(OnlineCpus) > 1
    THEN SubSeq(OnlineCpus, 1, Len(OnlineCpus) - 1) ELSE OnlineCpus
Usable ==
    IF AvoidBootCpu /\ Len(OnlineCpus) > 1 THEN Tail(OnlineCpus) ELSE OnlineCpus

Cpus == IF MigrateRR THEN Usable ELSE <<Usable[1]>>

Cpu(n) == Cpus[(n % Len(Cpus)) + 1]

\* Slots of the i-th pair with -disperse, the threads counted from zero.
DispersedSameSlot(i) == [bench |-> Cpu(2 * i), db |-> Cpu(2 * i)]
Dispersed(i) == [bench |-> Cpu(2 * i), db |-> Cpu(2 * i + 1)]

SelectCpus(i) ==
    IF Disperse THEN Dispersed(i) ELSE [bench |-> Cpu(i), db |-> Cpu(i)]

-----------------------------------------------------------------------------
Init ==
    /\ mpc = "schema"
    /\ wave = "load"
    /\ idx = 1
    /\ sum = 0
    /\ loaded = 0
    /\ keyGen = InsertStart
    /\ keySeq = RecordCount
    /\ present = {}
    /\ tpc = [i \in Threads |-> "none"]
    /\ left = [i \in Threads |-> 0]
    /\ oks = [i \in Threads |-> 0]
    /\ cur = [i \in Threads |-> NoCall]
    /\ place = [i \in Threads |-> Unplaced]

-----------------------------------------------------------------------------
(* main. *)

CreateSchema ==
    /\ mpc = "schema"
    /\ mpc' = "spawn"
    /\ UNCHANGED <<wave, idx, sum, loaded, place, wvars, tvars>>

\* num_ops of each thread: total_ops / num_threads.
Quota == (IF wave = "load" THEN RecordCount ELSE OperationCount) \div NumThreads

SpawnedAllButOne(i) == i >= NumThreads - 1
SpawnedAllLate(i) == i > NumThreads
SpawnedAll(i) == i >= NumThreads

\* std::async: the thread runs at once.
Spawn ==
    /\ mpc = "spawn"
    /\ tpc' = [tpc EXCEPT ![idx] = "start"]
    /\ left' = [left EXCEPT ![idx] = Quota]
    /\ oks' = [oks EXCEPT ![idx] = 0]
    /\ place' = [place EXCEPT ![idx] = SelectCpus(idx - 1)]
    /\ \/ SpawnedAll(idx) /\ mpc' = "join" /\ idx' = 1
       \/ ~SpawnedAll(idx) /\ mpc' = mpc /\ idx' = idx + 1
    /\ UNCHANGED <<wave, sum, loaded, cur, wvars>>

SumForgetful(s, n) == n
SumUp(s, n) == s + n

\* future.get() of the next thread in order.
Join ==
    /\ mpc = "join"
    /\ tpc[idx] = "returned"
    /\ sum' = SumUp(sum, oks[idx])
    /\ \/ idx = NumThreads /\ mpc' = "report" /\ idx' = 1
       \/ idx < NumThreads /\ mpc' = mpc /\ idx' = idx + 1
    /\ UNCHANGED <<wave, loaded, place, wvars, tvars>>

\* get() rethrows what the thread threw and the process ends.
JoinThrows ==
    /\ mpc = "join"
    /\ tpc[idx] = "threw"
    /\ mpc' = "dead"
    /\ UNCHANGED <<wave, idx, sum, loaded, place, wvars, tvars>>

ReportLoading ==
    /\ mpc = "report"
    /\ wave = "load"
    /\ loaded' = sum
    /\ sum' = 0
    /\ wave' = "run"
    /\ mpc' = "spawn"
    /\ UNCHANGED <<idx, place, wvars, tvars>>

ReportThroughput ==
    /\ mpc = "report"
    /\ wave = "run"
    /\ mpc' = "done"
    /\ UNCHANGED <<wave, idx, sum, loaded, place, wvars, tvars>>

-----------------------------------------------------------------------------
(* DelegateClient. *)

Thread(i, from, to) ==
    /\ mpc # "dead"
    /\ tpc[i] = from
    /\ tpc' = [tpc EXCEPT ![i] = to]

\* migrate and db->Init.
Start(i) ==
    /\ Thread(i, "start", "loop")
    /\ UNCHANGED <<left, oks, cur, mvars, wvars>>

StartFails(i) ==
    /\ MayFail
    /\ Thread(i, "start", "threw")
    /\ UNCHANGED <<left, oks, cur, mvars, wvars>>

FetchAddLost(n) == n
FetchAdd(n) == n + 1

\* NextSequenceKey: every iteration of the loading phase, and the INSERTs.
ClaimKey(i) ==
    /\ left[i] > 0
    /\ wave = "load" \/ "INSERT" \in Mix
    /\ Thread(i, "loop", "call")
    /\ cur' = [cur EXCEPT ![i] = [op |-> "INSERT", key |-> keyGen]]
    /\ keyGen' = FetchAdd(keyGen)
    /\ left' = [left EXCEPT ![i] = @ - 1]
    /\ UNCHANGED <<oks, keySeq, present, mvars>>

\* NextOperation: any other operation of the mix.
ChooseOperation(i) ==
    /\ left[i] > 0
    /\ wave = "run"
    /\ Thread(i, "loop", "pick")
    /\ \E op \in Mix \ {"INSERT"} :
            cur' = [cur EXCEPT ![i] = [op |-> op, key |-> 0]]
    /\ left' = [left EXCEPT ![i] = @ - 1]
    /\ UNCHANGED <<oks, wvars, mvars>>

\* insert_key_sequence_.Last()
LastOffByOne == keySeq
Last == keySeq - 1

\* What the generators may return.  The zipfian one returns its first two ranks,
\* 0 and 1, without adding the lower bound that it was given.
UniformRangeFromZero(min, max) == 0 .. max - min
UniformRange(min, max) == min .. max

ZipfianRange(min, max) == {0, 1} \cup min .. max

\* Scrambled: a hash of the rank, modulo the number of items.
ScrambledRange(items) == 0 .. items - 1

\* Skewed towards the latest: Last() minus a rank below Last().
LatestRange == {Last - rank : rank \in 0 .. Last - 1}

\* key_chooser_
Choosable ==
    IF Distribution = "uniform" THEN UniformRange(0, RecordCount - 1)
    ELSE IF Distribution = "zipfian" THEN ScrambledRange(RecordCount + NewKeys)
    ELSE LatestRange

\* scan_len_chooser_
ScanLength ==
    IF ScanLengths = "uniform" THEN UniformRange(1, MaxScanLength)
    ELSE ZipfianRange(1, MaxScanLength)

\* NextTransactionKey: pick a number until it is not beyond Last().
PickKey(i) ==
    /\ Thread(i, "pick", "picked")
    /\ \E k \in Choosable : cur' = [cur EXCEPT ![i].key = k]
    /\ UNCHANGED <<left, oks, wvars, mvars>>

AcceptKey(i) ==
    /\ cur[i].key <= Last
    /\ Thread(i, "picked", "call")
    /\ UNCHANGED <<left, oks, cur, wvars, mvars>>

RejectKey(i) ==
    /\ cur[i].key > Last
    /\ Thread(i, "picked", "pick")
    /\ UNCHANGED <<left, oks, cur, wvars, mvars>>

-----------------------------------------------------------------------------
(* The database call. *)

Name(i) == BuildKeyName(cur[i].key)

\* What a lookup finds: the record itself, or for a scan any from there on.
Finds(i, len) ==
    IF cur[i].op = "SCAN" THEN len > 0 /\ \E name \in present : name >= Name(i)
    ELSE Name(i) \in present

\* A missed record is kErrorNoData in the library and an exception over IPC.
\* Over shared memory it is neither: the server ends and its client spins, so
\* the thread takes no further step.
MissReturns == BackEnd = "lib"
MissThrows == BackEnd = "ipc"

\* A field name is "field" and a number.  The client puts another "field" before
\* the name that the workload chose.
Columns == {<<"field", n>> : n \in 0 .. FieldCount - 1}
NextFieldName == Columns
Requested == {<<"field">> \o name : name \in NextFieldName}

\* Whether a record that is found counts as kOK.  A record read without one
\* column does in the library; the stubs take the empty result for a miss.  The
\* records of a scan are padded and never empty.
Brings(i) ==
    \/ ReadAllFields
    \/ \E name \in Requested : name \in Columns
    \/ BackEnd = "lib"
    \/ cur[i].op = "SCAN"

Finish(i, ok) == oks' = [oks EXCEPT ![i] = IF ok THEN @ + 1 ELSE @]

\* The primary key constraint of SQLite throws on a key that is already there:
\* in the thread with the library and over IPC, in the server, for which the
\* client then spins, over shared memory.
Insert(i) ==
    /\ cur[i].op = "INSERT"
    /\ Name(i) \in present => BackEnd # "shm"
    /\ Thread(i, "call", IF Name(i) \in present THEN "threw" ELSE "loop")
    /\ present' = present \cup {Name(i)}
    /\ Finish(i, Name(i) \notin present)
    /\ UNCHANGED <<left, cur, keyGen, keySeq, mvars>>

Lookup(i) ==
    /\ cur[i].op \in {"READ", "SCAN"}
    /\ Thread(i, "call", "loop")
    /\ \E len \in ScanLength :
        /\ Finds(i, len) \/ MissReturns
        /\ Finish(i, Finds(i, len) /\ Brings(i))
    /\ UNCHANGED <<left, cur, wvars, mvars>>

\* The status of the read is ignored.
ReadToModify(i) ==
    /\ cur[i].op = "READMODIFYWRITE"
    /\ Finds(i, 1) \/ MissReturns
    /\ Thread(i, "call", "modify")
    /\ UNCHANGED <<left, oks, cur, wvars, mvars>>

LookupThrows(i) ==
    /\ cur[i].op \in {"READ", "SCAN", "READMODIFYWRITE"}
    /\ MissThrows
    /\ \E len \in ScanLength : ~Finds(i, len)
    /\ Thread(i, "call", "threw")
    /\ UNCHANGED <<left, oks, cur, wvars, mvars>>

\* UPDATE returns kOK whether or not there is a record.
Update(i) ==
    /\ \/ cur[i].op = "UPDATE" /\ Thread(i, "call", "loop")
       \/ Thread(i, "modify", "loop")
    /\ Finish(i, TRUE)
    /\ UNCHANGED <<left, cur, wvars, mvars>>

\* db->Close and the return value of the thread.
Return(i) ==
    /\ left[i] = 0
    /\ Thread(i, "loop", "returned")
    /\ UNCHANGED <<left, oks, cur, wvars, mvars>>

-----------------------------------------------------------------------------
Main == CreateSchema \/ Spawn \/ Join \/ JoinThrows \/ ReportLoading \/ ReportThroughput

ThreadStep(i) ==
    \/ Start(i) \/ StartFails(i)
    \/ ClaimKey(i) \/ ChooseOperation(i) \/ PickKey(i) \/ AcceptKey(i) \/ RejectKey(i)
    \/ Insert(i) \/ Lookup(i) \/ LookupThrows(i)
    \/ ReadToModify(i) \/ Update(i)
    \/ Return(i)

Terminating == mpc \in {"done", "dead"} /\ UNCHANGED vars

Next == Main \/ (\E i \in Threads : ThreadStep(i)) \/ Terminating

Spec == Init /\ [][Next]_vars

PickGoodKey(i) == PickKey(i) /\ cur'[i].key <= Last

\* Threads keep being scheduled, calls of the database return, and a generator
\* that is asked again and again returns an existing number at last.
FairSpec ==
    /\ Spec
    /\ WF_vars(Main)
    /\ \A i \in Threads : WF_vars(ThreadStep(i)) /\ SF_vars(PickGoodKey(i))

-----------------------------------------------------------------------------
(* Safety. *)

\* Every variable keeps its type; the record numbers stay below the bound for
\* which their keys are distinct.
TypeOK ==
    /\ mpc \in {"schema", "spawn", "join", "report", "done", "dead"}
    /\ wave \in {"load", "run"}
    /\ idx \in Threads
    /\ sum \in Nat
    /\ loaded \in Nat
    /\ keyGen \in KeyNums
    /\ keySeq = RecordCount
    /\ present \subseteq Nat
    /\ tpc \in [Threads -> {"none", "start", "loop", "pick", "picked", "call", "modify",
                            "returned", "threw"}]
    /\ left \in [Threads -> Nat]
    /\ oks \in [Threads -> Nat]
    /\ cur \in [Threads -> [op : Operations \cup {"none"}, key : Nat]]
    /\ DOMAIN place = Threads

InCall(i) == tpc[i] \in {"call", "modify"}

\* However the threads of both phases interleave on the shared counter, a
\* record that is about to be inserted is not there yet and is nobody else's:
\* no thread runs into the primary key constraint, which would end the process.
InsertsFresh ==
    \A i \in Threads : InCall(i) /\ cur[i].op = "INSERT" =>
        /\ Name(i) \notin present
        /\ \A j \in Threads \ {i} :
                InCall(j) /\ cur[j].op = "INSERT" => cur[j].key # cur[i].key

\* "If the generator picks a key that is not inserted yet, we just ignore it
\* and pick another key": a transaction is only ever made on a record that the
\* loading phase has finished to insert.
PickedKeysInserted ==
    \A i \in Threads : InCall(i) /\ cur[i].op # "INSERT" => Name(i) \in present

\* What main reports as the number of loaded records is the number of records
\* that the transaction threads find.
LoadReported ==
    wave = "run" /\ mpc = "spawn" /\ idx = 1 =>
        loaded = Cardinality(present)

\* "whether to read one field (false) or all fields (true) of a record"
\* (core_workload.h): either way, a lookup of a record that is there brings
\* something back, counts as a success, and does not throw.
LookupsSucceed ==
    [][\A i \in Threads :
        /\ tpc[i] = "call" /\ tpc'[i] # "call"
        /\ cur[i].op \in {"READ", "SCAN"} /\ Name(i) \in present
        => tpc'[i] = "loop" /\ oks'[i] = oks[i] + 1]_vars

\* "assign communicating ycsb and db threads to different CPUs"
ThreadsDispersed ==
    \A i \in Threads : Disperse /\ tpc[i] # "none" => place[i].bench # place[i].db

\* "do not migrate threads to the boot CPU", if there is another one.
BootCpuAvoided ==
    \A i \in Threads : AvoidBootCpu /\ Len(OnlineCpus) > 1 /\ tpc[i] # "none" =>
        OnlineCpus[1] \notin {place[i].bench, place[i].db}

-----------------------------------------------------------------------------
(* Liveness. *)

\* The benchmark ends: every thread gets through its operations, main collects
\* them all, or an exception of a thread ends the process.
BenchmarkEnds == <>(mpc \in {"done", "dead"})
=============================================================================
