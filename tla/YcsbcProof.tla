------------------------------ MODULE YcsbcProof ------------------------------
(***************************************************************************)
(* Proofs about the benchmark process, for any number of threads, records  *)
(* and operations: the record numbers drawn from the counter that all      *)
(* threads of both phases share, what becomes of them, what main reports,  *)
(* what the transactions find, and the CPUs of dispersed threads.          *)
(***************************************************************************)
EXTENDS Ycsbc, FiniteSetTheorems, TLAPS

Inserting(i) == InCall(i) /\ cur[i].op = "INSERT"

\* The types the argument needs.
KeyTypes ==
    /\ keyGen \in Nat
    /\ InsertStart <= keyGen
    /\ keySeq \in Nat
    /\ tpc \in [Threads -> {"none", "start", "loop", "pick", "picked", "call", "modify",
                            "returned", "threw"}]
    /\ cur \in [Threads -> [op : Operations \cup {"none"}, key : Nat]]

\* A thread that chooses a record is not about to insert one.
ChoosesOther ==
    \A i \in Threads : tpc[i] \in {"pick", "picked", "modify"} => cur[i].op # "INSERT"

\* A number drawn from the counter is in the insert of one thread, which is the
\* only one that has it, or in the database.
Claims ==
    /\ \A i \in Threads : Inserting(i) =>
        /\ cur[i].key \in InsertStart .. keyGen - 1
        /\ Name(i) \notin present
        /\ \A j \in Threads \ {i} : Inserting(j) => cur[j].key # cur[i].key
    /\ \A name \in present :
        \E k \in InsertStart .. keyGen - 1 : name = BuildKeyName(k)

\* The keys are known to be distinct for the numbers of KeyNums only.
ClaimInv == KeyTypes /\ ChoosesOther /\ (keyGen \in KeyNums => Claims)

USE DEF Operations, wvars, mvars, tvars, KeyTypes, ChoosesOther, Inserting, InCall, Threads

\* Before the first thread starts nothing is claimed.
LEMMA ClaimInit == Init => ClaimInv
  <1> SUFFICES ASSUME Init PROVE ClaimInv
    OBVIOUS
  <1>1. KeyTypes /\ ChoosesOther
    BY YcsbcAssumption DEF Init, NoCall
  <1>2. Claims
    BY DEF Init, Claims
  <1> QED  BY <1>1, <1>2 DEF ClaimInv

\* A step that leaves the counter and the table alone and starts no insert.
LEMMA NoClaim ==
    ASSUME ClaimInv, UNCHANGED wvars, KeyTypes', ChoosesOther',
           \A i \in Threads : Inserting(i)' => Inserting(i) /\ cur'[i] = cur[i]
    PROVE  ClaimInv'
  <1>1. ASSUME Claims PROVE Claims'
    BY <1>1 DEF Claims, Name
  <1> QED  BY <1>1 DEF ClaimInv, KeyNums

\* Drawing a number: it is above every number in a call or in the table.
LEMMA ClaimKeyInv ==
    ASSUME ClaimInv, NEW i \in Threads, ClaimKey(i) PROVE ClaimInv'
  <1> USE DEF ClaimKey, Thread, FetchAdd, ClaimInv
  <1>1. KeyTypes' /\ ChoosesOther'
    BY YcsbcAssumption
  <1>2. ASSUME keyGen' \in KeyNums PROVE Claims'
    <2>1. keyGen \in KeyNums /\ Claims
      BY <1>2, YcsbcAssumption DEF KeyNums
    <2>2. BuildKeyName(keyGen) \notin present
      <3> SUFFICES ASSUME BuildKeyName(keyGen) \in present PROVE FALSE
        OBVIOUS
      <3>1. PICK k \in InsertStart .. keyGen - 1 : BuildKeyName(keyGen) = BuildKeyName(k)
        BY <2>1 DEF Claims
      <3>2. k \in KeyNums
        BY <2>1, YcsbcAssumption DEF KeyNums
      <3>3. k = keyGen
        BY <2>1, <3>1, <3>2, YcsbcAssumption
      <3> QED  BY <3>3, YcsbcAssumption
    <2>3. \A name \in present' : \E k \in InsertStart .. keyGen' - 1 : name = BuildKeyName(k)
      BY <2>1, YcsbcAssumption DEF Claims
    <2>4. ASSUME NEW j \in Threads, Inserting(j)'
          PROVE  /\ cur'[j].key \in InsertStart .. keyGen' - 1
                 /\ BuildKeyName(cur'[j].key) \notin present'
                 /\ \A l \in Threads \ {j} : Inserting(l)' => cur'[l].key # cur'[j].key
      <3>1. CASE j = i
        BY <2>1, <2>2, <2>4, <3>1, YcsbcAssumption DEF Claims, Name
      <3>2. CASE j # i
        BY <2>1, <2>4, <3>2, YcsbcAssumption DEF Claims, Name
      <3> QED  BY <3>1, <3>2
    <2> QED  BY <2>3, <2>4 DEF Claims, Name
  <1> QED  BY <1>1, <1>2

\* An insert that ends moves its number from the call into the table.
LEMMA InsertInv ==
    ASSUME ClaimInv, NEW i \in Threads, Insert(i) PROVE ClaimInv'
  <1> USE DEF Insert, Thread, Finish, ClaimInv
  <1>1. KeyTypes' /\ ChoosesOther'
    OBVIOUS
  <1>2. ASSUME keyGen' \in KeyNums PROVE Claims'
    <2>1. keyGen \in KeyNums /\ Claims
      BY <1>2
    <2>2. Inserting(i) /\ ~Inserting(i)'
      OBVIOUS
    <2>3. cur[i].key \in InsertStart .. keyGen - 1
      BY <2>1, <2>2 DEF Claims
    <2>4. ASSUME NEW j \in Threads, Inserting(j)'
          PROVE  /\ cur[j].key \in InsertStart .. keyGen - 1
                 /\ Name(j) \notin present'
                 /\ \A l \in Threads \ {j} : Inserting(l)' => cur[l].key # cur[j].key
      <3>1. j # i /\ Inserting(j)
        BY <2>2, <2>4
      <3>2. \A l \in Threads : Inserting(l)' => Inserting(l)
        BY <2>2
      <3>3. /\ cur[j].key \in InsertStart .. keyGen - 1
            /\ Name(j) \notin present
            /\ cur[j].key # cur[i].key
            /\ \A l \in Threads \ {j} : Inserting(l) => cur[l].key # cur[j].key
        BY <2>1, <2>2, <3>1 DEF Claims
      <3>4. cur[i].key \in KeyNums /\ cur[j].key \in KeyNums
        BY <2>1, <2>3, <3>3, YcsbcAssumption DEF KeyNums
      <3>5. Name(j) # Name(i)
        BY <3>3, <3>4, YcsbcAssumption DEF Name
      <3> QED  BY <3>2, <3>3, <3>5
    <2>5. \A name \in present' : \E k \in InsertStart .. keyGen' - 1 : name = BuildKeyName(k)
      BY <2>1, <2>3 DEF Claims, Name
    <2> QED  BY <2>4, <2>5 DEF Claims, Name
  <1> QED  BY <1>1, <1>2

\* Every step keeps the invariant.
LEMMA ClaimStep == ClaimInv /\ [Next]_vars => ClaimInv'
  <1> SUFFICES ASSUME ClaimInv, [Next]_vars PROVE ClaimInv'
    OBVIOUS
  <1> USE DEF ClaimInv
  <1>1. CASE Main
    <2>1. CASE Spawn
      BY <2>1, NoClaim DEF Spawn
    <2>2. CASE CreateSchema \/ Join \/ JoinThrows \/ ReportLoading \/ ReportThroughput
      <3>1. UNCHANGED <<wvars, tvars>>
        BY <2>2 DEF CreateSchema, Join, JoinThrows, ReportLoading, ReportThroughput
      <3> QED  BY <3>1, NoClaim
    <2> QED  BY <1>1, <2>1, <2>2 DEF Main
  <1>2. ASSUME NEW i \in Threads, ThreadStep(i) PROVE ClaimInv'
    <2>1. CASE Start(i) \/ StartFails(i) \/ AcceptKey(i) \/ RejectKey(i)
      BY <2>1, NoClaim DEF Start, StartFails, AcceptKey, RejectKey, Thread
    <2>2. CASE ClaimKey(i)
      BY <2>2, ClaimKeyInv
    <2>3. CASE ChooseOperation(i)
      BY <2>3, NoClaim, YcsbcAssumption DEF ChooseOperation, Thread
    <2>4. CASE PickKey(i)
      <3>1. LatestRange \subseteq Nat
        BY DEF LatestRange, Last
      <3>2. Choosable \subseteq Nat
        BY <3>1, YcsbcAssumption DEF Choosable, UniformRange, ScrambledRange
      <3> QED  BY <2>4, <3>2, NoClaim DEF PickKey, Thread
    <2>5. CASE Insert(i)
      BY <2>5, InsertInv
    <2>6. CASE Lookup(i) \/ LookupThrows(i) \/ ReadToModify(i)
      BY <2>6, NoClaim DEF Lookup, LookupThrows, ReadToModify, Thread
    <2>7. CASE Update(i) \/ Return(i)
      BY <2>7, NoClaim DEF Update, Return, Thread
    <2> QED  BY <1>2, <2>1, <2>2, <2>3, <2>4, <2>5, <2>6, <2>7 DEF ThreadStep
  <1>3. CASE UNCHANGED vars
    BY <1>3, NoClaim DEF vars
  <1> QED  BY <1>1, <1>2, <1>3 DEF Next, Terminating

-----------------------------------------------------------------------------
\* Neighbouring slots of a list of two or more CPUs are distinct, wherever the
\* list starts over.
LEMMA Neighbours ==
    ASSUME NEW n \in Nat, n >= 2, NEW a \in Nat
    PROVE  a % n # (a + 1) % n
  <1> SUFFICES ASSUME a % n = (a + 1) % n PROVE FALSE
    OBVIOUS
  <1>1. PICK q \in Int : a = n * q + (a % n)
    <2>1. a \div n \in Int /\ a = n * (a \div n) + (a % n)
      OBVIOUS
    <2> QED  BY <2>1
  <1>2. PICK p \in Int : a + 1 = n * p + ((a + 1) % n)
    <2>1. (a + 1) \div n \in Int /\ a + 1 = n * ((a + 1) \div n) + ((a + 1) % n)
      OBVIOUS
    <2> QED  BY <2>1
  <1>3. a % n \in Int
    OBVIOUS
  <1>4. n * p - n * q = 1
    BY <1>1, <1>2, <1>3
  <1>5. n * (p - q) = 1
    BY <1>4
  <1>6. PICK d \in Int : n * d = 1
    BY <1>5
  <1>7. CASE d >= 1
    BY <1>6, <1>7
  <1>8. CASE d <= 0
    BY <1>6, <1>8
  <1> QED  BY <1>7, <1>8

\* The CPUs in use are a non-empty list without repetitions, and without the
\* boot CPU if that is avoided and there is another one.
LEMMA UsableFacts ==
    /\ Usable \in Seq(Nat) \ {<<>>}
    /\ \A m, n \in DOMAIN Usable : Usable[m] = Usable[n] => m = n
    /\ AvoidBootCpu /\ Len(OnlineCpus) > 1 =>
            \A m \in DOMAIN Usable : Usable[m] # OnlineCpus[1]
  <1>1. CASE AvoidBootCpu /\ Len(OnlineCpus) > 1
    <2>1. Usable = Tail(OnlineCpus)
      BY <1>1 DEF Usable
    <2>2. /\ Usable \in Seq(Nat)
          /\ Len(Usable) = Len(OnlineCpus) - 1
          /\ \A m \in 1 .. Len(Usable) : Usable[m] = OnlineCpus[m + 1]
      BY <1>1, <2>1, YcsbcAssumption
    <2>3. Len(OnlineCpus) \in Nat /\ DOMAIN OnlineCpus = 1 .. Len(OnlineCpus)
      BY YcsbcAssumption
    <2>4. DOMAIN Usable = 1 .. Len(Usable)
      BY <2>2
    <2>5. Usable # <<>>
      BY <1>1, <2>2, <2>3
    <2>6. \A m \in DOMAIN Usable :
            m + 1 \in DOMAIN OnlineCpus /\ m + 1 # 1 /\ Usable[m] = OnlineCpus[m + 1]
      BY <1>1, <2>2, <2>3, <2>4
    <2>7. \A m, n \in DOMAIN Usable : Usable[m] = Usable[n] => m = n
      <3> SUFFICES ASSUME NEW m \in DOMAIN Usable, NEW n \in DOMAIN Usable, Usable[m] = Usable[n]
                   PROVE  m = n
        OBVIOUS
      <3>1. m + 1 = n + 1
        BY <2>6, YcsbcAssumption
      <3> QED  BY <2>2, <2>4, <3>1
    <2>8. 1 \in DOMAIN OnlineCpus
      BY <1>1, <2>3
    <2>9. \A m \in DOMAIN Usable : Usable[m] # OnlineCpus[1]
      BY <2>6, <2>8, YcsbcAssumption
    <2> QED  BY <2>2, <2>5, <2>7, <2>9
  <1>2. CASE ~(AvoidBootCpu /\ Len(OnlineCpus) > 1)
    BY <1>2, YcsbcAssumption DEF Usable
  <1> QED  BY <1>1, <1>2

\* Slot n of the list of CPUs, counted round.
LEMMA CpuFacts ==
    ASSUME NEW n \in Nat
    PROVE  /\ \E m \in DOMAIN Usable : Cpu(n) = Usable[m]
           /\ MigrateRR => /\ (n % Len(Usable)) + 1 \in DOMAIN Usable
                           /\ Cpu(n) = Usable[(n % Len(Usable)) + 1]
  <1>1. /\ Usable \in Seq(Nat) /\ Len(Usable) \in Nat \ {0}
        /\ DOMAIN Usable = 1 .. Len(Usable)
    BY UsableFacts
  <1>2. CASE MigrateRR
    <2>1. n % Len(Usable) \in 0 .. Len(Usable) - 1
      BY <1>1
    <2> QED  BY <1>1, <1>2, <2>1 DEF Cpu, Cpus
  <1>3. CASE ~MigrateRR
    <2>1. n % 1 = 0
      OBVIOUS
    <2>2. Cpus = <<Usable[1]>>
      BY <1>3 DEF Cpus
    <2>3. Cpu(n) = Usable[1]
      BY <2>1, <2>2 DEF Cpu
    <2> QED  BY <1>1, <1>3, <2>3
  <1> QED  BY <1>2, <1>3, YcsbcAssumption

\* A thread that has been started is on the CPUs of one of the slots.
Placed ==
    /\ idx \in Nat \ {0}
    /\ DOMAIN tpc = Threads
    /\ DOMAIN place = Threads
    /\ \A i \in Threads : tpc[i] # "none" => \E n \in Nat : place[i] = SelectCpus(n)

LEMMA PlacedInit == Init => Placed
  BY DEF Init, Placed

LEMMA PlacedStep == Placed /\ [Next]_vars => Placed'
  <1> SUFFICES ASSUME Placed, [Next]_vars PROVE Placed'
    OBVIOUS
  <1> USE DEF Placed
  <1>1. CASE Spawn
    <2>1. idx - 1 \in Nat /\ idx' \in Nat \ {0}
      BY <1>1 DEF Spawn
    <2> QED  BY <1>1, <2>1 DEF Spawn
  <1>2. CASE CreateSchema \/ Join \/ JoinThrows \/ ReportLoading \/ ReportThroughput
    <2>1. UNCHANGED <<tpc, place>>
      BY <1>2 DEF CreateSchema, Join, JoinThrows, ReportLoading, ReportThroughput
    <2>2. idx' \in {idx, idx + 1, 1}
      BY <1>2 DEF CreateSchema, Join, JoinThrows, ReportLoading, ReportThroughput
    <2> QED  BY <2>1, <2>2
  <1>3. ASSUME NEW i \in Threads, ThreadStep(i) PROVE Placed'
    <2>1. /\ UNCHANGED <<idx, place>>
          /\ tpc[i] # "none"
          /\ \E to : tpc' = [tpc EXCEPT ![i] = to]
      BY <1>3 DEF ThreadStep, Thread, Start, StartFails, ClaimKey, ChooseOperation, PickKey,
                 AcceptKey, RejectKey, Insert, Lookup, LookupThrows, ReadToModify, Update, Return
    <2> QED  BY <2>1
  <1>4. CASE UNCHANGED vars
    BY <1>4 DEF vars
  <1> QED  BY <1>1, <1>2, <1>3, <1>4 DEF Next, Main, Terminating

\* Two CPUs to use are enough for -disperse to keep every benchmark thread
\* apart from its database thread, for any number of threads and CPUs.
THEOREM Dispersal == Len(Usable) >= 2 => (Spec => []ThreadsDispersed)
  <1> SUFFICES ASSUME Len(Usable) >= 2 PROVE Spec => []ThreadsDispersed
    OBVIOUS
  <1>1. Placed => ThreadsDispersed
    <2> SUFFICES ASSUME Placed, NEW i \in Threads, Disperse, tpc[i] # "none"
                 PROVE  place[i].bench # place[i].db
      BY DEF ThreadsDispersed
    <2>1. PICK n \in Nat : place[i] = Dispersed(n)
      BY DEF Placed, SelectCpus
    <2>2. 2 * n \in Nat /\ 2 * n + 1 \in Nat /\ Len(Usable) \in Nat
      BY UsableFacts
    <2>3. (2 * n) % Len(Usable) # (2 * n + 1) % Len(Usable)
      BY <2>2, Neighbours
    <2>4. MigrateRR
      BY YcsbcAssumption
    <2> DEFINE Slot(k) == (k % Len(Usable)) + 1
    <2>5. /\ Slot(2 * n) \in DOMAIN Usable /\ Cpu(2 * n) = Usable[Slot(2 * n)]
          /\ Slot(2 * n + 1) \in DOMAIN Usable /\ Cpu(2 * n + 1) = Usable[Slot(2 * n + 1)]
      BY <2>2, <2>4, CpuFacts
    <2>6. Slot(2 * n) # Slot(2 * n + 1)
      BY <2>2, <2>3
    <2>7. Cpu(2 * n) # Cpu(2 * n + 1)
      BY <2>5, <2>6, UsableFacts
    <2> QED  BY <2>1, <2>7 DEF Dispersed
  <1> QED  BY PlacedInit, PlacedStep, <1>1, PTL DEF Spec

\* With -avoid-boot-cpu and a second CPU no thread, of the benchmark or of the
\* database, is placed on the boot CPU, however often the list starts over.
THEOREM BootAvoidance == Spec => []BootCpuAvoided
  <1>1. Placed => BootCpuAvoided
    <2> SUFFICES ASSUME Placed, NEW i \in Threads, AvoidBootCpu, Len(OnlineCpus) > 1,
                        tpc[i] # "none"
                 PROVE  OnlineCpus[1] \notin {place[i].bench, place[i].db}
      BY DEF BootCpuAvoided
    <2>1. PICK n \in Nat : place[i] = SelectCpus(n)
      BY DEF Placed
    <2>2. \A k \in Nat : Cpu(k) # OnlineCpus[1]
      BY CpuFacts, UsableFacts
    <2>3. 2 * n \in Nat /\ 2 * n + 1 \in Nat
      OBVIOUS
    <2> QED  BY <2>1, <2>2, <2>3 DEF SelectCpus, Dispersed
  <1> QED  BY PlacedInit, PlacedStep, <1>1, PTL DEF Spec
-----------------------------------------------------------------------------
(* The benchmark as a whole.  Main's control state tells how far the threads *)
(* of the wave are; what is still to be drawn or collected is counted in     *)
(* sets of pairs, a thread and one of its iterations or successes.           *)

\* A thread of this wave has been started; main has collected its result.
Started(i) == mpc \in {"join", "report", "done", "dead"} \/ (mpc = "spawn" /\ i < idx)
Joined(i) == mpc = "report" \/ (mpc = "join" /\ i < idx)

\* The types of TypeOK, apart from the bound of the counter and the table.
Types ==
    /\ mpc \in {"schema", "spawn", "join", "report", "done", "dead"}
    /\ wave \in {"load", "run"}
    /\ idx \in Threads
    /\ sum \in Nat
    /\ loaded \in Nat
    /\ keyGen \in Nat
    /\ keySeq = RecordCount
    /\ tpc \in [Threads -> {"none", "start", "loop", "pick", "picked", "call", "modify",
                            "returned", "threw"}]
    /\ left \in [Threads -> Nat]
    /\ oks \in [Threads -> Nat]
    /\ cur \in [Threads -> [op : Operations \cup {"none"}, key : Nat]]
    /\ DOMAIN place = Threads

\* Where main is says how far the threads of the wave are.
Waves ==
    /\ mpc = "schema" => wave = "load" /\ idx = 1
    /\ mpc = "report" => idx = 1
    /\ \A i \in Threads :
        /\ ~Started(i) => tpc[i] = IF wave = "load" THEN "none" ELSE "returned"
        /\ ~Started(i) /\ wave = "load" => oks[i] = 0
        /\ Joined(i) => tpc[i] = "returned"
        /\ tpc[i] \in {"none", "returned"} => left[i] = 0

\* The loading threads only insert, and a transaction is on a number that
\* NextTransactionKey has accepted.
Calls ==
    \A i \in Threads :
        /\ wave = "load" => tpc[i] \notin {"pick", "picked", "modify"}
        /\ wave = "load" /\ tpc[i] = "call" => cur[i].op = "INSERT"
        /\ cur[i].op \in Mix \cup {"INSERT", "none"}
        /\ InCall(i) /\ cur[i].op # "INSERT" => cur[i].key \in 0 .. RecordCount - 1

\* The draws from the counter that the threads of this wave may still make, one
\* pair for each iteration.
Remaining ==
    {p \in Threads \X Nat : p[2] \in 1 .. IF Started(p[1]) THEN left[p[1]] ELSE Quota}

LoadQuota == RecordCount \div NumThreads
RunQuota == OperationCount \div NumThreads
LoadTotal == NumThreads * LoadQuota
RunTotal == NumThreads * RunQuota

\* A loading thread draws in every iteration, a transaction thread at most once.
Draws ==
    /\ IsFiniteSet(Remaining)
    /\ wave = "load" =>
        keyGen + Cardinality(Remaining) = InsertStart + LoadTotal
    /\ wave = "run" =>
        keyGen + Cardinality(Remaining) <= InsertStart + LoadTotal + RunTotal

\* A number that was drawn is in the table or in the insert of a thread.
NoneLost ==
    \A k \in InsertStart .. keyGen - 1 :
        \/ BuildKeyName(k) \in present
        \/ \E i \in Threads : Inserting(i) /\ cur[i].key = k

Loaded ==
    wave = "run" =>
        \A k \in InsertStart .. InsertStart + LoadTotal - 1 :
            BuildKeyName(k) \in present

\* The inserts that returned kOK in threads not collected yet.
Uncollected == {p \in Threads \X Nat : p[2] \in 1 .. oks[p[1]] /\ ~Joined(p[1])}

Counts ==
    /\ IsFiniteSet(present)
    /\ wave = "load" /\ mpc # "dead" =>
        /\ IsFiniteSet(Uncollected)
        /\ sum + Cardinality(Uncollected) = Cardinality(present)
    /\ LoadReported

Control == Types /\ Waves /\ Calls

LEMMA ControlInit == Init => Control
  BY YcsbcAssumption DEF Init, NoCall, Control, Types, Waves, Calls, Started, Joined

\* What every step of a thread has in common.
LEMMA ThreadLocal ==
    ASSUME Types, NEW i \in Threads, ThreadStep(i)
    PROVE  /\ mpc # "dead" /\ UNCHANGED mvars /\ keySeq' = keySeq
           /\ tpc[i] \in {"start", "loop", "pick", "picked", "call", "modify"}
           /\ tpc'[i] \in {"loop", "pick", "picked", "call", "modify", "returned", "threw"}
           /\ tpc'[i] = "returned" => left'[i] = 0
           /\ left'[i] \in Nat /\ oks'[i] \in Nat
           /\ tpc' = [tpc EXCEPT ![i] = tpc'[i]]
           /\ left' = [left EXCEPT ![i] = left'[i]]
           /\ oks' = [oks EXCEPT ![i] = oks'[i]]
           /\ cur' = [cur EXCEPT ![i] = cur'[i]]
  <1>1. CASE \/ Start(i) \/ StartFails(i) \/ AcceptKey(i) \/ RejectKey(i)
             \/ LookupThrows(i) \/ ReadToModify(i) \/ Return(i)
    BY <1>1 DEF Types, Start, StartFails, AcceptKey, RejectKey, LookupThrows, ReadToModify,
                Return, Thread
  <1>2. CASE ClaimKey(i)
    BY <1>2 DEF Types, ClaimKey, Thread
  <1>3. CASE ChooseOperation(i)
    <2>1. PICK op \in Mix : cur' = [cur EXCEPT ![i] = [op |-> op, key |-> 0]]
      BY <1>3 DEF ChooseOperation
    <2> QED  BY <1>3, <2>1 DEF Types, ChooseOperation, Thread
  <1>4. CASE PickKey(i)
    <2>1. PICK k \in Choosable : cur' = [cur EXCEPT ![i].key = k]
      BY <1>4 DEF PickKey
    <2> QED  BY <1>4, <2>1 DEF Types, PickKey, Thread
  <1>5. CASE Insert(i)
    BY <1>5 DEF Types, Insert, Finish, Thread
  <1>6. CASE Lookup(i) \/ Update(i)
    <2>1. PICK ok \in BOOLEAN : oks' = [oks EXCEPT ![i] = IF ok THEN @ + 1 ELSE @]
      <3>1. CASE Lookup(i)
        <4>1. PICK len \in ScanLength : Finish(i, Finds(i, len) /\ Brings(i))
          BY <3>1 DEF Lookup
        <4> QED  BY <4>1 DEF Finish
      <3>2. CASE Update(i)
        BY <3>2 DEF Update, Finish
      <3> QED  BY <1>6, <3>1, <3>2
    <2>2. oks'[i] \in Nat /\ oks' = [oks EXCEPT ![i] = oks'[i]]
      BY <2>1 DEF Types
    <2>3. /\ mpc # "dead" /\ tpc[i] \in {"call", "modify"}
          /\ tpc' = [tpc EXCEPT ![i] = "loop"]
          /\ UNCHANGED <<left, cur, wvars, mvars>>
      BY <1>6 DEF Lookup, Update, Thread
    <2> QED  BY <2>2, <2>3 DEF Types
  <1> QED  BY <1>1, <1>2, <1>3, <1>4, <1>5, <1>6 DEF ThreadStep

\* A step of a thread leaves the others alone.
LEMMA OthersStay ==
    ASSUME Types, NEW i \in Threads, ThreadStep(i), NEW j \in Threads, j # i
    PROVE  /\ tpc'[j] = tpc[j] /\ left'[j] = left[j]
           /\ oks'[j] = oks[j] /\ cur'[j] = cur[j]
  <1>1. PICK to : tpc' = [tpc EXCEPT ![i] = to]
    BY ThreadLocal
  <1>2. PICK n : left' = [left EXCEPT ![i] = n]
    BY ThreadLocal
  <1>3. PICK ok : oks' = [oks EXCEPT ![i] = ok]
    BY ThreadLocal
  <1>4. PICK call : cur' = [cur EXCEPT ![i] = call]
    BY ThreadLocal
  <1> QED  BY <1>1, <1>2, <1>3, <1>4 DEF Types

\* The current call of a thread, after its step.
LEMMA CallAfter ==
    ASSUME Types, Calls, NEW i \in Threads, ThreadStep(i)
    PROVE  /\ cur'[i] \in [op : Operations \cup {"none"}, key : Nat]
           /\ wave = "load" => tpc'[i] \notin {"pick", "picked", "modify"}
           /\ wave = "load" /\ tpc'[i] = "call" => cur'[i].op = "INSERT"
           /\ cur'[i].op \in Mix \cup {"INSERT", "none"}
           /\ InCall(i)' /\ cur'[i].op # "INSERT" => cur'[i].key \in 0 .. RecordCount - 1
  <1>1. CASE \/ Start(i) \/ StartFails(i) \/ RejectKey(i) \/ LookupThrows(i) \/ ReadToModify(i)
             \/ Return(i) \/ Insert(i) \/ Lookup(i) \/ Update(i)
    BY <1>1 DEF Types, Calls, Start, StartFails, RejectKey, LookupThrows, ReadToModify,
                Return, Insert, Lookup, Update, Thread
  <1>2. CASE ClaimKey(i)
    BY <1>2 DEF Types, Calls, ClaimKey, Thread
  <1>3. CASE ChooseOperation(i)
    BY <1>3, YcsbcAssumption DEF Types, Calls, ChooseOperation, Thread
  <1>4. CASE PickKey(i)
    <2>1. LatestRange \subseteq Nat
      BY YcsbcAssumption DEF LatestRange, Last, Types
    <2>2. Choosable \subseteq Nat
      BY <2>1, YcsbcAssumption DEF Choosable, UniformRange, ScrambledRange
    <2> QED  BY <1>4, <2>2 DEF Types, Calls, PickKey, Thread
  <1>5. CASE AcceptKey(i)
    BY <1>5, YcsbcAssumption DEF Types, Calls, AcceptKey, Thread, Last
  <1> QED  BY <1>1, <1>2, <1>3, <1>4, <1>5 DEF ThreadStep

LEMMA ControlThread ==
    ASSUME Control, NEW i \in Threads, ThreadStep(i)
    PROVE  Control'
  <1> USE DEF Control
  <1>1. Types'
    <2>1. keyGen' \in Nat
      <3>1. CASE ClaimKey(i)
        BY <3>1 DEF Types, ClaimKey, FetchAdd
      <3>2. CASE ~ClaimKey(i)
        <4>1. keyGen' = keyGen
          BY <3>2 DEF ThreadStep, Start, StartFails, ChooseOperation, PickKey, AcceptKey,
                      RejectKey, Insert, Lookup, LookupThrows, ReadToModify, Update, Return
        <4> QED  BY <4>1 DEF Types
      <3> QED  BY <3>1, <3>2
    <2>2. UNCHANGED <<mpc, wave, idx, sum, loaded, keySeq, place>>
      BY ThreadLocal
    <2>3. tpc' \in [Threads -> {"none", "start", "loop", "pick", "picked", "call", "modify",
                                "returned", "threw"}]
      BY ThreadLocal DEF Types
    <2>4. left' \in [Threads -> Nat] /\ oks' \in [Threads -> Nat]
      BY ThreadLocal DEF Types
    <2>5. cur' \in [Threads -> [op : Operations \cup {"none"}, key : Nat]]
      BY ThreadLocal, CallAfter DEF Types
    <2> QED  BY <2>1, <2>2, <2>3, <2>4, <2>5 DEF Types
  <1>2. Waves'
    <2>1. UNCHANGED <<mpc, wave, idx>> /\ mpc # "schema"
      BY ThreadLocal DEF Waves, Started
    <2>2. ASSUME NEW j \in Threads
          PROVE  /\ ~Started(j) => tpc'[j] = IF wave = "load" THEN "none" ELSE "returned"
                 /\ ~Started(j) /\ wave = "load" => oks'[j] = 0
                 /\ Joined(j) => tpc'[j] = "returned"
                 /\ tpc'[j] \in {"none", "returned"} => left'[j] = 0
      <3>1. CASE j = i
        BY <3>1, ThreadLocal DEF Waves
      <3>2. CASE j # i
        <4>1. tpc'[j] = tpc[j] /\ oks'[j] = oks[j] /\ left'[j] = left[j]
          BY <3>2, OthersStay
        <4> QED  BY <4>1 DEF Waves
      <3> QED  BY <3>1, <3>2
    <2> QED  BY <2>1, <2>2 DEF Waves, Started, Joined
  <1>3. Calls'
    <2>1. wave' = wave
      BY ThreadLocal
    <2>2. ASSUME NEW j \in Threads, j # i
          PROVE  cur'[j] = cur[j] /\ tpc'[j] = tpc[j]
      BY <2>2, OthersStay
    <2> QED  BY <2>1, <2>2, CallAfter DEF Calls
  <1> QED  BY <1>1, <1>2, <1>3

\* Which threads have been started after a step of main.
LEMMA SpawnStarts ==
    ASSUME Types, Spawn, NEW i \in Threads
    PROVE  /\ Started(i)' <=> Started(i) \/ i = idx
           /\ ~Started(idx) /\ idx' \in Threads /\ mpc' \in {"spawn", "join"}
           /\ ~Joined(i) /\ ~Joined(i)'
  <1>1. mpc = "spawn" /\ idx \in 1 .. NumThreads /\ i \in 1 .. NumThreads /\ NumThreads \in Nat
    BY YcsbcAssumption DEF Types, Spawn
  <1>2. CASE idx >= NumThreads
    <2>1. mpc' = "join" /\ idx' = 1 /\ idx = NumThreads
      BY <1>1, <1>2 DEF Spawn, SpawnedAll
    <2> QED  BY <1>1, <2>1 DEF Started, Joined
  <1>3. CASE ~(idx >= NumThreads)
    <2>1. mpc' = "spawn" /\ idx' = idx + 1
      BY <1>1, <1>3 DEF Spawn, SpawnedAll
    <2> QED  BY <1>1, <1>3, <2>1 DEF Started, Joined
  <1> QED  BY <1>2, <1>3

\* Number of iterations of a thread.
LEMMA QuotaFacts ==
    /\ LoadQuota \in Nat /\ RunQuota \in Nat
    /\ wave = "load" => Quota = LoadQuota
    /\ wave = "run" => Quota = RunQuota
  BY YcsbcAssumption DEF Quota, LoadQuota, RunQuota

LEMMA ControlMain ==
    ASSUME Control, Main
    PROVE  Control'
  <1> USE DEF Control
  <1>1. CASE CreateSchema
    <2>1. Types' /\ Calls'
      BY <1>1 DEF CreateSchema, Types, Calls
    <2>2. Waves'
      BY <1>1 DEF CreateSchema, Types, Waves, Started, Joined
    <2> QED  BY <2>1, <2>2
  <1>2. CASE Spawn
    <2>1. Quota \in Nat
      BY QuotaFacts DEF Types
    <2>2. idx' \in Threads /\ mpc' \in {"spawn", "join"}
      <3>1. idx \in Threads
        BY DEF Types
      <3> QED  BY <1>2, <3>1, SpawnStarts
    <2>3. /\ idx \in Threads
          /\ tpc' = [tpc EXCEPT ![idx] = "start"] /\ oks' = [oks EXCEPT ![idx] = 0]
          /\ left' = [left EXCEPT ![idx] = Quota]
          /\ UNCHANGED <<wave, cur>>
          /\ mpc = "spawn" /\ mpc' \in {"spawn", "join"}
      BY <1>2 DEF Spawn, Types
    <2>4. Types'
      BY <1>2, <2>1, <2>2 DEF Spawn, Types
    <2>5. Waves'
      <3>1. \A i \in Threads :
                /\ Started(i)' <=> Started(i) \/ i = idx
                /\ ~Joined(i) /\ ~Joined(i)'
        BY <1>2, SpawnStarts
      <3> QED  BY <2>3, <3>1 DEF Types, Waves
    <2>6. Calls'
      BY <2>3 DEF Calls, Types
    <2> QED  BY <2>4, <2>5, <2>6
  <1>3. CASE Join
    <2>1. Types'
      <3>1. idx \in Threads /\ oks[idx] \in Nat /\ sum \in Nat /\ 1 \in Threads
        BY YcsbcAssumption DEF Types
      <3>2. sum' \in Nat
        BY <1>3, <3>1 DEF Join, SumUp
      <3>3. idx' \in Threads /\ mpc' \in {"join", "report"}
        BY <1>3, <3>1, YcsbcAssumption DEF Join
      <3> QED  BY <1>3, <3>2, <3>3 DEF Join, Types
    <2>2. Waves'
      <3>1. UNCHANGED <<tpc, left, oks, wave>> /\ mpc = "join" /\ mpc' \in {"join", "report"}
            /\ tpc[idx] = "returned" /\ (mpc' = "report" => idx' = 1)
        BY <1>3 DEF Join
      <3>2. \A i \in Threads : Started(i) /\ Started(i)'
        BY <3>1 DEF Started
      <3>3. \A i \in Threads : Joined(i)' => Joined(i) \/ i = idx
        <4>1. CASE idx = NumThreads
          BY <3>1, <4>1, YcsbcAssumption DEF Joined
        <4>2. CASE idx < NumThreads /\ mpc' = mpc /\ idx' = idx + 1
          BY <3>1, <4>2, YcsbcAssumption DEF Joined, Types
        <4> QED  BY <1>3, <4>1, <4>2 DEF Join
      <3> QED  BY <3>1, <3>2, <3>3 DEF Waves
    <2>3. Calls'
      BY <1>3 DEF Join, Calls
    <2> QED  BY <2>1, <2>2, <2>3
  <1>4. CASE JoinThrows \/ ReportThroughput
    <2>1. /\ UNCHANGED <<wave, idx, sum, loaded, place, wvars, tvars>>
          /\ mpc \in {"join", "report"} /\ mpc' \in {"dead", "done"}
      BY <1>4 DEF JoinThrows, ReportThroughput
    <2>2. Types'
      BY <2>1 DEF Types
    <2>3. Waves'
      BY <2>1 DEF Waves, Started, Joined
    <2>4. Calls'
      BY <2>1 DEF Calls
    <2> QED  BY <2>2, <2>3, <2>4
  <1>5. CASE ReportLoading
    <2>1. Types' /\ Calls'
      BY <1>5 DEF ReportLoading, Types, Waves, Calls, Started, Joined
    <2>2. Waves'
      BY <1>5 DEF ReportLoading, Types, Waves, Started, Joined
    <2> QED  BY <2>1, <2>2
  <1> QED  BY <1>1, <1>2, <1>3, <1>4, <1>5 DEF Main

\* Every step keeps main and the threads in step.
LEMMA ControlStep == Control /\ [Next]_vars => Control'
  <1> SUFFICES ASSUME Control, [Next]_vars PROVE Control'
    OBVIOUS
  <1>1. CASE UNCHANGED vars
    BY <1>1 DEF vars, Control, Types, Waves, Calls, Started, Joined
  <1> QED  BY <1>1, ControlMain, ControlThread DEF Next, Terminating

-----------------------------------------------------------------------------
(* The counter of record numbers. *)

\* The rounded quota of each thread, times the threads, is at most the total.
LEMMA WholeQuota ==
    ASSUME NEW total \in Nat
    PROVE  /\ NumThreads * (total \div NumThreads) \in Nat
           /\ NumThreads * (total \div NumThreads) <= total
           /\ total % NumThreads = 0 => NumThreads * (total \div NumThreads) = total
  <1>1. NumThreads \in Nat /\ NumThreads > 0
    BY YcsbcAssumption
  <1>2. PICK q \in Nat : q = total \div NumThreads
    BY <1>1
  <1>3. PICK r \in 0 .. NumThreads - 1 : r = total % NumThreads
    BY <1>1
  <1>4. total = NumThreads * q + r
    BY <1>1, <1>2, <1>3
  <1>5. PICK m \in Int : m = NumThreads * q
    BY <1>1
  <1>6. m >= 0
    BY <1>1, <1>5
  <1>7. m <= total /\ (r = 0 => m = total)
    BY <1>3, <1>4, <1>5
  <1>8. NumThreads * (total \div NumThreads) = m
    BY <1>2, <1>5
  <1> QED  BY <1>3, <1>5, <1>6, <1>7, <1>8

\* What all threads of a wave draw.
LEMMA Totals ==
    /\ LoadTotal \in Nat /\ LoadTotal <= RecordCount
    /\ RunTotal \in Nat /\ RunTotal <= OperationCount
    /\ RecordCount % NumThreads = 0 => LoadTotal = RecordCount
  BY WholeQuota, YcsbcAssumption DEF LoadTotal, LoadQuota, RunTotal, RunQuota

LEMMA UpTo ==
    ASSUME NEW n \in Nat
    PROVE  IsFiniteSet(1 .. n) /\ Cardinality(1 .. n) = n
  BY FS_Interval

\* One pair for each iteration of each thread.
LEMMA Iterations ==
    ASSUME NEW n \in Nat
    PROVE  /\ IsFiniteSet(Threads \X (1 .. n))
           /\ Cardinality(Threads \X (1 .. n)) = NumThreads * n
  <1>1. IsFiniteSet(Threads) /\ Cardinality(Threads) = NumThreads
    BY FS_Interval, YcsbcAssumption
  <1>2. IsFiniteSet(1 .. n) /\ Cardinality(1 .. n) = n
    BY UpTo
  <1>3. /\ IsFiniteSet(Threads \X (1 .. n))
        /\ Cardinality(Threads \X (1 .. n)) = Cardinality(Threads) * Cardinality(1 .. n)
    BY <1>1, <1>2, FS_Product
  <1> QED  BY <1>1, <1>2, <1>3, Zenon

\* Before a wave starts all its iterations remain.
LEMMA NoneStarted ==
    ASSUME \A i \in Threads : ~Started(i)
    PROVE  Remaining = Threads \X (1 .. Quota)
  BY DEF Remaining

LEMMA DrawsInit == Init => Draws
  <1> SUFFICES ASSUME Init PROVE Draws
    OBVIOUS
  <1>1. Remaining = Threads \X (1 .. LoadQuota)
    BY NoneStarted, QuotaFacts DEF Init, Started
  <1>2. IsFiniteSet(Remaining) /\ Cardinality(Remaining) = LoadTotal
    BY <1>1, Iterations, QuotaFacts DEF LoadTotal
  <1> QED  BY <1>2 DEF Init, Draws

\* A step that neither draws nor takes an iteration.
LEMMA DrawsStay ==
    ASSUME Draws, Remaining' = Remaining, UNCHANGED <<keyGen, wave>>
    PROVE  Draws'
  BY DEF Draws

\* An iteration begins, and may draw a number.
LEMMA DrawsOne ==
    ASSUME Control, Draws, NEW i \in Threads, ThreadStep(i), left[i] > 0,
           left' = [left EXCEPT ![i] = @ - 1],
           keyGen' \in {keyGen, keyGen + 1}, wave = "load" => keyGen' = keyGen + 1
    PROVE  Draws'
  <1> USE DEF Control
  <1>1. /\ UNCHANGED <<mpc, idx, wave>> /\ Started(i)
        /\ left \in [Threads -> Nat] /\ wave \in {"load", "run"} /\ keyGen \in Nat
    BY ThreadLocal DEF Types, Waves
  <1>2. \A j \in Threads : Started(j)' <=> Started(j)
    BY <1>1 DEF Started
  <1>3. Quota' = Quota
    BY <1>1 DEF Quota
  <1>4. \A j \in Threads : left'[j] = IF j = i THEN left[j] - 1 ELSE left[j]
    BY <1>1
  <1>5. <<i, left[i]>> \in Remaining
    BY <1>1 DEF Remaining
  <1>6. Remaining' = Remaining \ {<<i, left[i]>>}
    <2>1. ASSUME NEW p \in Threads \X Nat
          PROVE  p \in Remaining' <=> p \in Remaining /\ p # <<i, left[i]>>
      <3>1. CASE p[1] = i
        <4>1. p[2] \in Nat /\ left[i] \in Nat /\ p = <<i, p[2]>> /\ left'[i] = left[i] - 1
          BY <1>1, <1>4, <3>1
        <4>2. p \in Remaining' <=> p[2] \in 1 .. left[i] - 1
          BY <1>1, <1>2, <3>1, <4>1 DEF Remaining
        <4>3. p \in Remaining <=> p[2] \in 1 .. left[i]
          BY <1>1, <3>1 DEF Remaining
        <4>4. p # <<i, left[i]>> <=> p[2] # left[i]
          BY <4>1
        <4> QED  BY <1>1, <4>1, <4>2, <4>3, <4>4
      <3>2. CASE p[1] # i
        <4>1. left'[p[1]] = left[p[1]] /\ p # <<i, left[i]>>
          BY <1>4, <3>2
        <4> QED  BY <1>2, <1>3, <4>1 DEF Remaining
      <3> QED  BY <3>1, <3>2
    <2>2. Remaining \subseteq Threads \X Nat /\ Remaining' \subseteq Threads \X Nat
      BY DEF Remaining
    <2> QED  BY <2>1, <2>2
  <1>7. /\ IsFiniteSet(Remaining) /\ IsFiniteSet(Remaining')
        /\ Cardinality(Remaining') = Cardinality(Remaining) - 1
    BY <1>5, <1>6, FS_RemoveElement DEF Draws
  <1>8. Cardinality(Remaining) \in Nat
    BY <1>7, FS_CardinalityType
  <1>9. CASE wave = "load"
    <2>1. keyGen + Cardinality(Remaining) = InsertStart + LoadTotal
      BY <1>9 DEF Draws
    <2>2. keyGen' + Cardinality(Remaining') = keyGen + Cardinality(Remaining)
      BY <1>1, <1>7, <1>8, <1>9
    <2> QED  BY <1>1, <1>7, <1>9, <2>1, <2>2 DEF Draws
  <1>10. CASE wave = "run"
    <2>1. keyGen + Cardinality(Remaining) <= InsertStart + LoadTotal + RunTotal
      BY <1>10 DEF Draws
    <2>2. keyGen' + Cardinality(Remaining') <= keyGen + Cardinality(Remaining)
      BY <1>1, <1>7, <1>8
    <2>3. keyGen' + Cardinality(Remaining') <= InsertStart + LoadTotal + RunTotal
      BY <1>1, <1>7, <1>8, <2>1, <2>2, Totals, YcsbcAssumption
    <2> QED  BY <1>1, <1>7, <1>10, <2>3 DEF Draws
  <1> QED  BY <1>1, <1>9, <1>10

LEMMA DrawsThread ==
    ASSUME Control, Draws, NEW i \in Threads, ThreadStep(i)
    PROVE  Draws'
  <1>1. CASE ClaimKey(i)
    BY <1>1, DrawsOne DEF ClaimKey, FetchAdd
  <1>2. CASE ChooseOperation(i)
    BY <1>2, DrawsOne DEF ChooseOperation
  <1>3. CASE ~ClaimKey(i) /\ ~ChooseOperation(i)
    <2>1. UNCHANGED <<left, keyGen>>
      BY <1>3 DEF ThreadStep, Start, StartFails, PickKey, AcceptKey, RejectKey, Insert, Lookup,
                  LookupThrows, ReadToModify, Update, Return
    <2>2. UNCHANGED <<mpc, idx, wave>>
      BY ThreadLocal DEF Control
    <2> QED  BY <2>1, <2>2, DrawsStay DEF Remaining, Started, Quota
  <1> QED  BY <1>1, <1>2, <1>3

\* All threads of the wave have been collected.
LEMMA WaveOver ==
    ASSUME Control, mpc = "report"
    PROVE  \A i \in Threads : Started(i) /\ tpc[i] = "returned" /\ left[i] = 0
  BY DEF Control, Waves, Started, Joined

LEMMA DrawsMain ==
    ASSUME Control, Draws, Main
    PROVE  Draws'
  <1> USE DEF Control
  <1>1. CASE CreateSchema
    <2>1. \A i \in Threads : ~Started(i) /\ ~Started(i)'
      BY <1>1 DEF CreateSchema, Waves, Started
    <2> QED  BY <1>1, <2>1, DrawsStay DEF CreateSchema, Remaining, Quota
  <1>2. CASE Spawn
    <2>1. /\ left' = [left EXCEPT ![idx] = Quota] /\ left \in [Threads -> Nat]
          /\ UNCHANGED <<wave, keyGen>>
      BY <1>2 DEF Spawn, Types
    <2>2. \A i \in Threads : (Started(i)' <=> Started(i) \/ i = idx) /\ ~Started(idx)
      BY <1>2, SpawnStarts
    <2>3. Quota' = Quota
      BY <2>1 DEF Quota
    <2>4. \A i \in Threads : (IF Started(i)' THEN left'[i] ELSE Quota')
                                = IF Started(i) THEN left[i] ELSE Quota
      BY <2>1, <2>2, <2>3
    <2>5. Remaining' = Remaining
      BY <2>4 DEF Remaining
    <2> QED  BY <2>1, <2>5, DrawsStay
  <1>3. CASE Join \/ JoinThrows \/ ReportThroughput
    <2>1. UNCHANGED <<left, keyGen, wave>>
      BY <1>3 DEF Join, JoinThrows, ReportThroughput
    <2>2. \A i \in Threads : Started(i) /\ Started(i)'
      BY <1>3 DEF Join, JoinThrows, ReportThroughput, Started
    <2> QED  BY <2>1, <2>2, DrawsStay DEF Remaining, Quota
  <1>4. CASE ReportLoading
    <2>1. mpc = "report" /\ wave = "load" /\ wave' = "run" /\ keyGen' = keyGen
          /\ mpc' = "spawn" /\ idx' = 1
      BY <1>4 DEF ReportLoading, Waves
    <2>2. Remaining = {}
      BY <2>1, WaveOver DEF Remaining
    <2>3. keyGen = InsertStart + LoadTotal
      <3>1. Cardinality(Remaining) = 0
        BY <2>2, FS_EmptySet
      <3> QED  BY <2>1, <3>1 DEF Draws, Types
    <2>4. Quota' = RunQuota
      BY <2>1 DEF Quota, RunQuota
    <2>5. \A i \in Threads : ~Started(i)'
      BY <2>1 DEF Started
    <2>6. Remaining' = Threads \X (1 .. RunQuota)
      BY <2>4, <2>5 DEF Remaining
    <2>7. IsFiniteSet(Remaining') /\ Cardinality(Remaining') = RunTotal
      BY <2>6, Iterations, QuotaFacts DEF RunTotal
    <2> QED  BY <2>1, <2>3, <2>7, Totals, YcsbcAssumption DEF Draws
  <1> QED  BY <1>1, <1>2, <1>3, <1>4 DEF Main

\* Every step keeps the account of the numbers drawn.
LEMMA DrawsStep == Control /\ Draws /\ [Next]_vars => Draws'
  <1> SUFFICES ASSUME Control, Draws, [Next]_vars PROVE Draws'
    OBVIOUS
  <1>1. CASE UNCHANGED vars
    BY <1>1, DrawsStay DEF vars, Remaining, Started, Quota
  <1> QED  BY <1>1, DrawsMain, DrawsThread DEF Next, Terminating

\* The counter stays within the numbers whose keys are distinct.
LEMMA DrawsBound == KeyTypes /\ Control /\ Draws => keyGen \in KeyNums
  <1> SUFFICES ASSUME KeyTypes, Control, Draws PROVE keyGen \in KeyNums
    OBVIOUS
  <1>1. Cardinality(Remaining) \in Nat
    BY FS_CardinalityType DEF Draws
  <1>2. keyGen <= InsertStart + RecordCount + OperationCount
    BY <1>1, Totals, YcsbcAssumption DEF Draws, Control, Types
  <1> QED  BY <1>2, YcsbcAssumption DEF KeyNums

\* All records of the loading phase have been numbered when it is over.
LEMMA LoadingDrawn ==
    ASSUME Control, Draws, mpc = "report", wave = "load"
    PROVE  keyGen = InsertStart + LoadTotal
  <1>1. Remaining = {}
    BY WaveOver DEF Remaining
  <1>2. Cardinality(Remaining) = 0
    BY <1>1, FS_EmptySet
  <1> QED  BY <1>2 DEF Draws, Control, Types

-----------------------------------------------------------------------------
(* What becomes of the numbers drawn. *)

\* An insert goes on until it has written its record.
LEMMA InsertGoesOn ==
    ASSUME Control, ChoosesOther, [Next]_vars, NEW j \in Threads, Inserting(j), ~Insert(j)
    PROVE  Inserting(j)' /\ cur'[j] = cur[j]
  <1> USE DEF Control
  <1>1. CASE Main
    <2>1. cur' = cur
      BY <1>1 DEF Main, CreateSchema, Spawn, Join, JoinThrows, ReportLoading, ReportThroughput
    <2>2. tpc'[j] = tpc[j]
      <3>1. CASE Spawn
        <4>1. j # idx
          BY <3>1, SpawnStarts DEF Waves, Types, Spawn
        <4> QED  BY <3>1, <4>1 DEF Spawn, Types
      <3>2. CASE ~Spawn
        BY <1>1, <3>2 DEF Main, CreateSchema, Join, JoinThrows, ReportLoading, ReportThroughput
      <3> QED  BY <3>1, <3>2
    <2> QED  BY <2>1, <2>2
  <1>2. ASSUME NEW i \in Threads, ThreadStep(i) PROVE Inserting(j)' /\ cur'[j] = cur[j]
    <2>1. CASE i # j
      BY <1>2, <2>1, OthersStay
    <2>2. CASE i = j
      <3>1. tpc[i] \in {"call", "modify"} /\ cur[i].op = "INSERT" /\ tpc[i] # "modify" /\ ~Insert(i)
        BY <2>2
      <3> QED  BY <1>2, <3>1 DEF ThreadStep, Thread, Start, StartFails, ClaimKey, ChooseOperation,
                  PickKey, AcceptKey, RejectKey, Lookup, LookupThrows, ReadToModify, Update, Return
    <2> QED  BY <2>1, <2>2
  <1>3. CASE UNCHANGED vars
    BY <1>3 DEF vars
  <1> QED  BY <1>1, <1>2, <1>3 DEF Next, Terminating

\* Records only come, and only by inserts; numbers are only drawn by ClaimKey.
LEMMA TableGrows ==
    ASSUME [Next]_vars
    PROVE  /\ present \subseteq present'
           /\ \/ present' = present
              \/ \E i \in Threads : Insert(i)
           /\ \/ keyGen' = keyGen
              \/ \E i \in Threads : ClaimKey(i)
  <1>1. CASE Main
    BY <1>1 DEF Main, CreateSchema, Spawn, Join, JoinThrows, ReportLoading, ReportThroughput
  <1>2. ASSUME NEW i \in Threads, ThreadStep(i), ~Insert(i), ~ClaimKey(i)
        PROVE  UNCHANGED <<keyGen, present>>
    BY <1>2 DEF ThreadStep, Start, StartFails, ChooseOperation, PickKey, AcceptKey, RejectKey,
                Lookup, LookupThrows, ReadToModify, Update, Return
  <1>3. ASSUME NEW i \in Threads, Insert(i)
        PROVE  present \subseteq present' /\ keyGen' = keyGen
    BY <1>3 DEF Insert
  <1>4. ASSUME NEW i \in Threads, ClaimKey(i)
        PROVE  present' = present
    BY <1>4 DEF ClaimKey
  <1>5. CASE UNCHANGED vars
    BY <1>5 DEF vars
  <1> QED  BY <1>1, <1>2, <1>3, <1>4, <1>5 DEF Next, Terminating

LEMMA NoneLostInit == Init => NoneLost
  BY YcsbcAssumption DEF Init, NoneLost

\* No number is lost between the counter and the table.
LEMMA NoneLostStep == ClaimInv /\ Control /\ NoneLost /\ [Next]_vars => NoneLost'
  <1> SUFFICES ASSUME ClaimInv, Control, NoneLost, [Next]_vars,
                      NEW k \in InsertStart .. keyGen' - 1, BuildKeyName(k) \notin present'
               PROVE  \E i \in Threads : Inserting(i)' /\ cur'[i].key = k
    BY DEF NoneLost
  <1>1. BuildKeyName(k) \notin present /\ KeyTypes /\ ChoosesOther
    BY TableGrows DEF ClaimInv
  <1>2. CASE k \in InsertStart .. keyGen - 1
    <2>1. PICK j \in Threads : Inserting(j) /\ cur[j].key = k
      BY <1>1, <1>2 DEF NoneLost
    <2>2. ~Insert(j)
      BY <2>1 DEF Insert, Name
    <2> QED  BY <1>1, <2>1, <2>2, InsertGoesOn
  <1>3. CASE k \notin InsertStart .. keyGen - 1
    <2>1. PICK i \in Threads : ClaimKey(i)
      BY <1>3, TableGrows
    <2>2. k = keyGen
      BY <1>1, <1>3, <2>1, YcsbcAssumption DEF ClaimKey, FetchAdd
    <2>3. Inserting(i)' /\ cur'[i].key = keyGen
      BY <1>1, <2>1 DEF ClaimKey, Thread
    <2> QED  BY <2>2, <2>3
  <1> QED  BY <1>2, <1>3

LEMMA LoadedInit == Init => Loaded
  BY DEF Init, Loaded

\* The loading phase has inserted all that it numbered before it is reported.
LEMMA LoadedStep == Control /\ Draws /\ NoneLost /\ Loaded /\ [Next]_vars => Loaded'
  <1> SUFFICES ASSUME Control, Draws, NoneLost, Loaded, [Next]_vars, wave' = "run",
                      NEW k \in InsertStart .. InsertStart + LoadTotal - 1
               PROVE  BuildKeyName(k) \in present'
    BY DEF Loaded
  <1>1. CASE wave = "run"
    BY <1>1, TableGrows DEF Loaded
  <1>2. CASE wave # "run"
    <2>1. ReportLoading
      <3>1. wave' # wave
        BY <1>2
      <3>2. \A i \in Threads : ~ThreadStep(i)
        BY <3>1, ThreadLocal DEF Control
      <3> QED  BY <3>1, <3>2 DEF Next, Main, Terminating, vars, CreateSchema, Spawn, Join,
                                JoinThrows, ReportThroughput
    <2>2. mpc = "report" /\ wave = "load" /\ present' = present
      BY <2>1 DEF ReportLoading
    <2>3. keyGen = InsertStart + LoadTotal
      BY <2>2, LoadingDrawn
    <2>4. \A i \in Threads : ~Inserting(i)
      BY <2>2, WaveOver
    <2>5. k \in InsertStart .. keyGen - 1
      BY <2>3, Totals, YcsbcAssumption
    <2>6. \/ BuildKeyName(k) \in present
          \/ \E i \in Threads : Inserting(i) /\ cur[i].key = k
      BY <2>5 DEF NoneLost
    <2> QED  BY <2>2, <2>4, <2>6
  <1> QED  BY <1>1, <1>2

-----------------------------------------------------------------------------
(* What main reports. *)

LEMMA CountsInit == Init => Counts
  <1> SUFFICES ASSUME Init PROVE Counts
    OBVIOUS
  <1>1. Uncollected = {}
    BY DEF Init, Uncollected
  <1> QED  BY <1>1, FS_EmptySet DEF Init, Counts, LoadReported

\* A step that neither inserts, counts nor collects.
LEMMA CountsStay ==
    ASSUME Counts, UNCHANGED <<present, sum, wave>>, Uncollected' = Uncollected,
           mpc = "dead" => mpc' = "dead", LoadReported'
    PROVE  Counts'
  BY DEF Counts

\* The transactions start with nobody started.
LEMMA ReportStays ==
    ASSUME Control, NEW i \in Threads, ThreadStep(i)
    PROVE  LoadReported'
  <1>1. UNCHANGED <<mpc, wave, idx>> /\ Started(i)
    BY ThreadLocal DEF Control, Waves
  <1> QED  BY <1>1, YcsbcAssumption DEF LoadReported, Started

\* An insert counts in the table and in the thread, or in neither.
LEMMA CountsInsert ==
    ASSUME Control, Counts, NEW i \in Threads, ThreadStep(i), Insert(i)
    PROVE  Counts'
  <1> USE DEF Control
  <1>1. IsFiniteSet(present')
    BY FS_AddElement DEF Counts, Insert
  <1>2. ASSUME wave' = "load", mpc' # "dead"
        PROVE  /\ IsFiniteSet(Uncollected')
               /\ sum' + Cardinality(Uncollected') = Cardinality(present')
    <2>1. /\ UNCHANGED <<mpc, wave, idx, sum>> /\ ~Joined(i)
          /\ oks \in [Threads -> Nat]
      BY ThreadLocal DEF Types, Waves
    <2>2. \A j \in Threads : Joined(j)' <=> Joined(j)
      BY <2>1 DEF Joined
    <2>3. /\ IsFiniteSet(present) /\ IsFiniteSet(Uncollected)
          /\ sum + Cardinality(Uncollected) = Cardinality(present)
      BY <1>2, <2>1 DEF Counts
    <2>4. CASE Name(i) \in present
      <3>1. present' = present /\ oks' = oks
        BY <2>1, <2>4 DEF Insert, Finish
      <3>2. Uncollected' = Uncollected
        BY <2>2, <3>1 DEF Uncollected
      <3> QED  BY <2>1, <2>3, <3>1, <3>2
    <2>5. CASE Name(i) \notin present
      <3>1. /\ present' = present \cup {Name(i)}
            /\ \A j \in Threads : oks'[j] = IF j = i THEN oks[i] + 1 ELSE oks[j]
        BY <2>1, <2>5 DEF Insert, Finish
      <3>2. Uncollected' = Uncollected \cup {<<i, oks[i] + 1>>}
        <4>1. ASSUME NEW p \in Threads \X Nat
              PROVE  p \in Uncollected' <=> p \in Uncollected \/ p = <<i, oks[i] + 1>>
          <5>1. CASE p[1] = i
            <6>1. p[2] \in Nat /\ oks[i] \in Nat /\ p = <<i, p[2]>>
              BY <2>1, <5>1
            <6>2. p \in Uncollected' <=> p[2] \in 1 .. oks[i] + 1
              BY <2>1, <2>2, <3>1, <5>1 DEF Uncollected
            <6>3. p \in Uncollected <=> p[2] \in 1 .. oks[i]
              BY <2>1, <5>1 DEF Uncollected
            <6>4. p = <<i, oks[i] + 1>> <=> p[2] = oks[i] + 1
              BY <6>1
            <6> QED  BY <6>1, <6>2, <6>3, <6>4
          <5>2. CASE p[1] # i
            <6>1. p # <<i, oks[i] + 1>>
              BY <5>2
            <6> QED  BY <2>2, <3>1, <5>2, <6>1 DEF Uncollected
          <5> QED  BY <5>1, <5>2
        <4>2. <<i, oks[i] + 1>> \in Threads \X Nat
          BY <2>1
        <4>3. Uncollected \subseteq Threads \X Nat /\ Uncollected' \subseteq Threads \X Nat
          BY DEF Uncollected
        <4> QED  BY <4>1, <4>2, <4>3
      <3>3. <<i, oks[i] + 1>> \notin Uncollected
        <4>1. oks[i] \in Nat
          BY <2>1
        <4> QED  BY <4>1 DEF Uncollected
      <3>4. /\ IsFiniteSet(Uncollected')
            /\ Cardinality(Uncollected') = Cardinality(Uncollected) + 1
        BY <2>3, <3>2, <3>3, FS_AddElement
      <3>5. Cardinality(present') = Cardinality(present) + 1
        BY <2>3, <2>5, <3>1, FS_AddElement
      <3>6. Cardinality(present) \in Nat /\ Cardinality(Uncollected) \in Nat /\ sum \in Nat
        BY <2>3, FS_CardinalityType DEF Types
      <3> QED  BY <2>1, <2>3, <3>4, <3>5, <3>6
    <2> QED  BY <2>4, <2>5
  <1> QED  BY <1>1, <1>2, ReportStays DEF Counts

LEMMA CountsThread ==
    ASSUME Control, Counts, NEW i \in Threads, ThreadStep(i)
    PROVE  Counts'
  <1> USE DEF Control
  <1>1. CASE Insert(i)
    BY <1>1, CountsInsert
  <1>2. CASE ~Insert(i)
    <2>1. present' = present
      BY <1>2 DEF ThreadStep, Start, StartFails, ClaimKey, ChooseOperation, PickKey, AcceptKey,
                  RejectKey, Lookup, LookupThrows, ReadToModify, Update, Return
    <2>2. UNCHANGED <<mpc, wave, idx, sum>>
      BY ThreadLocal
    <2>3. CASE wave = "load"
      <3>1. ~Lookup(i) /\ ~Update(i)
        BY <2>3 DEF Calls, Lookup, Update, Thread
      <3>2. oks' = oks
        BY <1>2, <3>1 DEF ThreadStep, Start, StartFails, ClaimKey, ChooseOperation, PickKey,
                  AcceptKey, RejectKey, LookupThrows, ReadToModify, Return
      <3> QED  BY <2>1, <2>2, <3>2, CountsStay, ReportStays DEF Uncollected, Joined
    <2>4. CASE wave # "load"
      BY <2>1, <2>2, <2>4, ReportStays DEF Counts
    <2> QED  BY <2>3, <2>4
  <1> QED  BY <1>1, <1>2

\* Main collects the successes of one thread.
LEMMA CountsJoin ==
    ASSUME Control, Counts, Join
    PROVE  Counts'
  <1> USE DEF Control
  <1>1. /\ idx \in Threads /\ mpc = "join" /\ mpc' \in {"join", "report"}
        /\ UNCHANGED <<wave, present, oks>> /\ oks \in [Threads -> Nat]
        /\ sum \in Nat /\ sum' = sum + oks[idx]
    BY DEF Types, Join, SumUp
  <1>2. LoadReported'
    BY <1>1 DEF LoadReported
  <1>3. ASSUME wave' = "load"
        PROVE  /\ IsFiniteSet(Uncollected')
               /\ sum' + Cardinality(Uncollected') = Cardinality(present')
    <2>1. \A j \in Threads : Joined(j)' <=> Joined(j) \/ j = idx
      BY <1>1, YcsbcAssumption DEF Join, Joined
    <2>2. ~Joined(idx)
      BY <1>1, YcsbcAssumption DEF Joined
    <2> DEFINE own == {idx} \X (1 .. oks[idx])
    <2>3. /\ IsFiniteSet(Uncollected)
          /\ sum + Cardinality(Uncollected) = Cardinality(present)
      BY <1>1, <1>3 DEF Counts
    <2>4. Uncollected' = Uncollected \ own
      BY <1>1, <2>1 DEF Uncollected
    <2>5. own \subseteq Uncollected
      BY <1>1, <2>2 DEF Uncollected
    <2>6. Cardinality(own) = oks[idx]
      <3>1. IsFiniteSet({idx}) /\ Cardinality({idx}) = 1
        BY FS_Singleton
      <3>2. IsFiniteSet(1 .. oks[idx]) /\ Cardinality(1 .. oks[idx]) = oks[idx]
        BY <1>1, UpTo
      <3>3. Cardinality(own) = Cardinality({idx}) * Cardinality(1 .. oks[idx])
        BY <3>1, <3>2, FS_Product
      <3> QED  BY <1>1, <3>1, <3>2, <3>3
    <2>7. Uncollected \cap own = own
      BY <2>5
    <2>8. /\ IsFiniteSet(Uncollected')
          /\ Cardinality(Uncollected') = Cardinality(Uncollected) - oks[idx]
      <3>1. /\ IsFiniteSet(Uncollected \ own)
            /\ Cardinality(Uncollected \ own)
                = Cardinality(Uncollected) - Cardinality(Uncollected \cap own)
        BY <2>3, FS_Difference
      <3> QED  BY <2>4, <2>6, <2>7, <3>1
    <2>9. Cardinality(Uncollected) \in Nat /\ oks[idx] \in Nat
      BY <1>1, <2>3, FS_CardinalityType
    <2> QED  BY <1>1, <2>3, <2>8, <2>9
  <1> QED  BY <1>1, <1>2, <1>3 DEF Counts

LEMMA CountsMain ==
    ASSUME Control, Counts, Main
    PROVE  Counts'
  <1> USE DEF Control
  <1>1. CASE CreateSchema
    BY <1>1, CountsStay DEF CreateSchema, Waves, Uncollected, Joined, LoadReported
  <1>2. CASE Spawn
    <2>1. /\ idx \in Threads /\ UNCHANGED <<wave, present, sum>>
          /\ oks' = [oks EXCEPT ![idx] = 0] /\ oks \in [Threads -> Nat]
          /\ mpc = "spawn" /\ mpc' \in {"spawn", "join"} /\ (mpc' = "spawn" => idx' = idx + 1)
      BY <1>2 DEF Types, Spawn
    <2>2. LoadReported'
      BY <2>1, YcsbcAssumption DEF LoadReported
    <2>3. CASE wave = "load"
      <3>1. oks[idx] = 0
        BY <1>2, <2>1, <2>3, SpawnStarts DEF Waves
      <3>2. oks' = oks
        BY <2>1, <3>1
      <3>3. \A j \in Threads : ~Joined(j) /\ ~Joined(j)'
        BY <1>2, SpawnStarts
      <3> QED  BY <2>1, <2>2, <3>2, <3>3, CountsStay DEF Uncollected
    <2>4. CASE wave # "load"
      BY <2>1, <2>2, <2>4 DEF Counts
    <2> QED  BY <2>3, <2>4
  <1>3. CASE Join
    BY <1>3, CountsJoin
  <1>4. CASE JoinThrows
    BY <1>4 DEF JoinThrows, Counts, LoadReported
  <1>5. CASE ReportLoading
    <2>1. mpc = "report" /\ wave = "load" /\ wave' = "run" /\ loaded' = sum /\ present' = present
      BY <1>5 DEF ReportLoading
    <2>2. Uncollected = {}
      BY <2>1 DEF Uncollected, Joined
    <2>3. Cardinality(Uncollected) = 0
      BY <2>2, FS_EmptySet
    <2>4. loaded' = Cardinality(present)
      BY <2>1, <2>3 DEF Counts, Types
    <2> QED  BY <2>1, <2>4 DEF Counts, LoadReported
  <1>6. CASE ReportThroughput
    BY <1>6 DEF ReportThroughput, Counts, LoadReported
  <1> QED  BY <1>1, <1>2, <1>3, <1>4, <1>5, <1>6 DEF Main

LEMMA CountsStep == Control /\ Counts /\ [Next]_vars => Counts'
  <1> SUFFICES ASSUME Control, Counts, [Next]_vars PROVE Counts'
    OBVIOUS
  <1>1. CASE UNCHANGED vars
    BY <1>1 DEF vars, Counts, Uncollected, Joined, LoadReported
  <1> QED  BY <1>1, CountsMain, CountsThread DEF Next, Terminating

-----------------------------------------------------------------------------
(* The theorems. *)

\* The invariant of the whole benchmark.
BenchInv == ClaimInv /\ Control /\ Draws /\ NoneLost /\ Loaded /\ Counts

LEMMA BenchInit == Init => BenchInv
  BY ClaimInit, ControlInit, DrawsInit, NoneLostInit, LoadedInit, CountsInit DEF BenchInv

LEMMA BenchStep == BenchInv /\ [Next]_vars => BenchInv'
  BY ClaimStep, ControlStep, DrawsStep, NoneLostStep, LoadedStep, CountsStep DEF BenchInv

LEMMA BenchAlways == Spec => []BenchInv
  BY BenchInit, BenchStep, PTL DEF Spec

\* The counter stays in bounds, so what was claimed is claimed for good.
LEMMA ClaimsHold == BenchInv => keyGen \in KeyNums /\ Claims
  BY DrawsBound DEF BenchInv, ClaimInv

\* For any number of threads, records and operations every variable keeps its
\* type; above all, the two phases together never draw more record numbers from
\* the counter than recordcount and operationcount allow for.
THEOREM TypesKept == Spec => []TypeOK
  <1>1. BenchInv => TypeOK
    <2> SUFFICES ASSUME BenchInv PROVE TypeOK
      OBVIOUS
    <2>1. keyGen \in KeyNums /\ Claims /\ Types
      BY ClaimsHold DEF BenchInv, Control
    <2>2. InsertStart .. keyGen - 1 \subseteq KeyNums
      BY <2>1, YcsbcAssumption DEF KeyNums
    <2>3. present \subseteq Nat
      BY <2>1, <2>2, YcsbcAssumption DEF Claims
    <2> QED  BY <2>1, <2>3 DEF TypeOK, Types
  <1> QED  BY BenchAlways, <1>1, PTL

\* No thread of either phase is ever about to insert a record that is there or
\* that another thread is inserting, whatever the interleaving: the primary key
\* constraint never ends the process.
THEOREM FreshInserts == Spec => []InsertsFresh
  <1>1. BenchInv => InsertsFresh
    BY ClaimsHold DEF Claims, InsertsFresh
  <1> QED  BY BenchAlways, <1>1, PTL

\* What main prints as "# Loading records" is the number of records in the
\* table, for any number of threads, also when the quotas were rounded down.
THEOREM LoadedReported == Spec => []LoadReported
  <1>1. BenchInv => LoadReported
    BY DEF BenchInv, Counts
  <1> QED  BY BenchAlways, <1>1, PTL

\* A transaction on one of the numbers that the loading phase shared out finds
\* its record, whichever generator chose the number.
LoadedNumbersFound ==
    \A i \in Threads :
        /\ InCall(i) /\ cur[i].op # "INSERT"
        /\ cur[i].key \in InsertStart .. InsertStart + LoadTotal - 1
        => Name(i) \in present

THEOREM LoadedFound == Spec => []LoadedNumbersFound
  <1>1. BenchInv => LoadedNumbersFound
    <2> SUFFICES ASSUME BenchInv, NEW i \in Threads, InCall(i), cur[i].op # "INSERT",
                        cur[i].key \in InsertStart .. InsertStart + LoadTotal - 1
                 PROVE  Name(i) \in present
      BY DEF LoadedNumbersFound
    <2>1. wave = "run"
      BY DEF BenchInv, Control, Calls, Types
    <2> QED  BY <2>1 DEF BenchInv, Loaded, Name
  <1> QED  BY BenchAlways, <1>1, PTL

\* When the first record has number 0 and the threads share out all records, a
\* transaction is only ever made on a record that the loading phase inserted.
THEOREM PickedFound ==
    InsertStart = 0 /\ RecordCount % NumThreads = 0 => (Spec => []PickedKeysInserted)
  <1> SUFFICES ASSUME InsertStart = 0, RecordCount % NumThreads = 0
               PROVE  Spec => []PickedKeysInserted
    OBVIOUS
  <1>1. BenchInv => PickedKeysInserted
    <2> SUFFICES ASSUME BenchInv, NEW i \in Threads, InCall(i), cur[i].op # "INSERT"
                 PROVE  Name(i) \in present
      BY DEF PickedKeysInserted
    <2>1. wave = "run" /\ cur[i].key \in 0 .. RecordCount - 1
      BY DEF BenchInv, Control, Calls, Types
    <2>2. LoadTotal = RecordCount
      BY Totals
    <2>3. cur[i].key \in InsertStart .. InsertStart + LoadTotal - 1
      BY <2>1, <2>2, YcsbcAssumption
    <2> QED  BY <2>1, <2>3 DEF BenchInv, Loaded, Name
  <1> QED  BY BenchAlways, <1>1, PTL

\* Reads of whole records and scans of uniform length that are made on a record
\* that is there succeed and are counted.
THEOREM LookupsCounted ==
    /\ ReadAllFields \/ BackEnd = "lib" \/ "READ" \notin Mix
    /\ ScanLengths = "uniform" \/ "SCAN" \notin Mix
    => (Spec => LookupsSucceed)
  <1> SUFFICES ASSUME ReadAllFields \/ BackEnd = "lib" \/ "READ" \notin Mix,
                      ScanLengths = "uniform" \/ "SCAN" \notin Mix
               PROVE  Spec => LookupsSucceed
    OBVIOUS
  <1> DEFINE Succeeded ==
        \A i \in Threads :
            /\ tpc[i] = "call" /\ tpc'[i] # "call"
            /\ cur[i].op \in {"READ", "SCAN"} /\ Name(i) \in present
            => tpc'[i] = "loop" /\ oks'[i] = oks[i] + 1
  <1>1. BenchInv /\ [Next]_vars => [Succeeded]_vars
    <2> SUFFICES ASSUME BenchInv, Next, NEW i \in Threads,
                        tpc[i] = "call", tpc'[i] # "call",
                        cur[i].op \in {"READ", "SCAN"}, Name(i) \in present
                 PROVE  tpc'[i] = "loop" /\ oks'[i] = oks[i] + 1
      OBVIOUS
    <2>1. Types /\ Waves /\ Calls
      BY DEF BenchInv, Control
    <2>2. Name(i) \in Nat
      <3>1. keyGen \in KeyNums /\ Claims
        BY ClaimsHold
      <3>2. InsertStart .. keyGen - 1 \subseteq KeyNums
        BY <3>1, YcsbcAssumption DEF KeyNums
      <3> QED  BY <3>1, <3>2, YcsbcAssumption DEF Claims
    <2>3. \A len \in ScanLength : Finds(i, len) /\ Brings(i)
      <3>1. CASE cur[i].op = "READ"
        <4>1. "READ" \in Mix
          BY <2>1, <3>1 DEF Calls
        <4> QED  BY <3>1, <4>1 DEF Finds, Brings
      <3>2. CASE cur[i].op = "SCAN"
        <4>1. "SCAN" \in Mix
          BY <2>1, <3>2 DEF Calls
        <4>2. ScanLength \subseteq 1 .. MaxScanLength
          BY <4>1 DEF ScanLength, UniformRange
        <4>3. \A len \in ScanLength : len > 0
          BY <4>2, YcsbcAssumption
        <4> QED  BY <2>2, <3>2, <4>3 DEF Finds, Brings
      <3> QED  BY <3>1, <3>2
    <2>4. ThreadStep(i)
      <3>1. ~Main
        <4>1. CASE Spawn
          <5>1. tpc[idx] \in {"none", "returned"} /\ idx \in Threads
            BY <2>1, <4>1, SpawnStarts DEF Waves, Types
          <5> QED  BY <2>1, <4>1, <5>1 DEF Spawn, Types
        <4>2. CASE ~Spawn
          BY <4>2 DEF Main, CreateSchema, Join, JoinThrows, ReportLoading, ReportThroughput
        <4> QED  BY <4>1, <4>2
      <3>2. \A j \in Threads : ThreadStep(j) => j = i
        BY <2>1, OthersStay
      <3> QED  BY <3>1, <3>2 DEF Next, Terminating, vars
    <2>5. Lookup(i)
      <3>1. ~LookupThrows(i)
        BY <2>3 DEF LookupThrows
      <3> QED  BY <2>4, <3>1 DEF ThreadStep, Start, StartFails, ClaimKey, ChooseOperation,
                  PickKey, AcceptKey, RejectKey, Insert, ReadToModify, Update, Return, Thread
    <2>6. oks' = [oks EXCEPT ![i] = @ + 1] /\ tpc' = [tpc EXCEPT ![i] = "loop"]
      BY <2>3, <2>5 DEF Lookup, Finish, Thread
    <2> QED  BY <2>1, <2>6 DEF Types
  <1> QED  BY BenchAlways, <1>1, PTL DEF Spec, LookupsSucceed
=============================================================================
