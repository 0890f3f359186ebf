---------------------------- MODULE HashtableStore ----------------------------
(***************************************************************************)
(* LockStlDB: the hash table back end.  One mutex is held for the whole of *)
(* a call.  Under it the call works on two levels of tables: a table of    *)
(* records, and one of fields per record, whose values are C strings on    *)
(* the heap.  CopyString allocates them, DeleteString frees them, and      *)
(* nothing but the code of HashtableDB keeps track of who owns which.      *)
(***************************************************************************)
EXTENDS HashRecords

CONSTANTS
    Threads,     \* benchmark threads
    Fields, Vals,
    Requests,    \* the calls that are made
    NumOps,      \* calls per thread
    Blocks,      \* heap blocks
    Nobody,      \* the mutex is free
    Free,        \* contents of a block that is not allocated
    NoBlock      \* a null pointer

ASSUME HashAssumption ==
    /\ NumOps \in Nat
    /\ Nobody \notin Threads
    /\ NoBlock \notin Blocks
    /\ Free \notin Vals
    /\ NoRecord \notin UNION {[F -> Blocks \cup Vals] : F \in SUBSET Fields}
    /\ \A r \in Requests :
        /\ r.op \in {"r", "s", "i", "u", "d"} /\ r.key \in Keys
        /\ r.op \in {"i", "u"} =>
            /\ r.values \in Seq([f : Fields, v : Vals])
            /\ \A i, j \in DOMAIN r.values : r.values[i].f = r.values[j].f => i = j

VARIABLES
    lock,      \* who holds lock_
    table,     \* table[k]: NoRecord, or the block of each field of the record
    heap,      \* heap[b]: the string in block b
    pc,        \* pc[t]: control state of thread t
    left,      \* left[t]: calls it has still to make
    req,       \* req[t]: the call it is in
    pos,       \* pos[t]: next pair of the list that it stores
    hand,      \* hand[t]: a block that it holds outside the tables
    doomed,    \* doomed[t]: a record it has taken out of the table
    seen,      \* seen[t]: the records that a scan has still to copy
    ans        \* ans[t]: what the call returns

calls == <<left, req>>
private == <<pos, hand, doomed, seen, ans>>
vars == <<lock, table, heap, pc, calls, private>>

EmptyRecord == [f \in {} |-> NoBlock]

Init ==
    /\ lock = Nobody
    /\ table = [k \in Keys |-> NoRecord]
    /\ heap = [b \in Blocks |-> Free]
    /\ pc = [t \in Threads |-> "idle"]
    /\ left = [t \in Threads |-> NumOps]
    /\ req = [t \in Threads |-> NoCall]
    /\ pos = [t \in Threads |-> 1]
    /\ hand = [t \in Threads |-> NoBlock]
    /\ doomed = [t \in Threads |-> EmptyRecord]
    /\ seen = [t \in Threads |-> {}]
    /\ ans = [t \in Threads |-> NoAnswer]

-----------------------------------------------------------------------------
Goto(t, from, to) == pc[t] = from /\ pc' = [pc EXCEPT ![t] = to]

Answered(t, a) == ans' = [ans EXCEPT ![t] = a]

MoreCallsOffByOne(t) == left[t] >= 0
MoreCalls(t) == left[t] > 0

Call(t) ==
    /\ MoreCalls(t)
    /\ Goto(t, "idle", "wait")
    /\ req' \in {[req EXCEPT ![t] = r] : r \in Requests}
    /\ left' = [left EXCEPT ![t] = @ - 1]
    /\ UNCHANGED <<lock, table, heap, private>>

MayLockReads(op) == op = "r" \/ lock = Nobody
MayLock(op) == lock = Nobody

\* lock_guard.
Lock(t) ==
    /\ MayLock(req[t].op)
    /\ Goto(t, "wait", "find")
    /\ lock' = t
    /\ UNCHANGED <<table, heap, calls, private>>

\* The destructor of the lock_guard, and the return.
Return(t) ==
    /\ Goto(t, "done", "idle")
    /\ lock' = Nobody
    /\ req' = [req EXCEPT ![t] = NoCall]
    /\ pos' = [pos EXCEPT ![t] = 1]
    /\ Answered(t, NoAnswer)
    /\ UNCHANGED <<table, heap, left, hand, doomed, seen>>

-----------------------------------------------------------------------------
(* Queries. *)

\* The record under k, with the strings that its fields point to.
Contents(k) ==
    IF table[k] = NoRecord THEN NoRecord
    ELSE [f \in DOMAIN table[k] |-> heap[table[k][f]]]

\* The pairs that are copied out of it.
Pairs(k, fields) == Selected(Contents(k), fields)

Read(t) ==
    /\ req[t].op = "r"
    /\ Goto(t, "find", "done")
    /\ Answered(t, IF req[t].key \in Present(table)
                   THEN [status |-> "kOK", row |-> Pairs(req[t].key, req[t].fields)]
                   ELSE [status |-> "kErrorNoData"])
    /\ UNCHANGED <<lock, table, heap, calls, pos, hand, doomed, seen>>

\* Entries(key, n): records from the one under the key on, in the order of the
\* hash table.
EntriesOffByOne(key, n) ==
    IF key \in Present(table)
    THEN {S \in SUBSET Present(table) : key \in S /\ Cardinality(S) <= n + 1} ELSE {{}}
Entries(key, n) ==
    IF key \in Present(table) /\ n > 0
    THEN {S \in SUBSET Present(table) : key \in S /\ Cardinality(S) <= n} ELSE {{}}

Scan(t) ==
    /\ req[t].op = "s"
    /\ Goto(t, "find", "copyout")
    /\ seen' \in {[seen EXCEPT ![t] = S] : S \in Entries(req[t].key, req[t].len)}
    /\ UNCHANGED <<lock, table, heap, calls, pos, hand, doomed, ans>>

CopyOut(t) ==
    /\ Goto(t, "copyout", "done")
    /\ Answered(t, [status |-> "kOK",
                    rows |-> [k \in seen[t] |-> Pairs(k, req[t].fields)]])
    /\ seen' = [seen EXCEPT ![t] = {}]
    /\ UNCHANGED <<lock, table, heap, calls, pos, hand, doomed>>

-----------------------------------------------------------------------------
(* Writes. *)

\* Insert and Update: find the record, or make an empty one.
FindRecord(t) ==
    /\ req[t].op \in {"i", "u"}
    /\ Goto(t, "find", "store")
    /\ table' = [table EXCEPT ![req[t].key] = IF @ = NoRecord THEN EmptyRecord ELSE @]
    /\ UNCHANGED <<lock, heap, calls, private>>

\* The pairs that are not yet stored.
Rest(t) == SubSeq(req[t].values, pos[t], Len(req[t].values))

\* CopyString: the next value goes to the heap.
CopyString(t) ==
    /\ Goto(t, "store", "put")
    /\ Rest(t) # <<>>
    /\ \E b \in Blocks :
        /\ heap[b] = Free
        /\ heap' = [heap EXCEPT ![b] = Head(Rest(t)).v]
        /\ hand' = [hand EXCEPT ![t] = b]
    /\ UNCHANGED <<lock, table, calls, pos, doomed, seen, ans>>

Exists(t) == Head(Rest(t)).f \in DOMAIN table[req[t].key]

NextPairStays(p) == p
NextPair(p) == p + 1

\* The block in hand becomes the value of its field.
Place(t) ==
    /\ table' = [table EXCEPT ![req[t].key] =
                    [f \in DOMAIN @ \cup {Head(Rest(t)).f} |->
                        IF f = Head(Rest(t)).f THEN hand[t] ELSE @[f]]]
    /\ pos' = [pos EXCEPT ![t] = NextPair(@)]

Put(t) ==
    /\ Goto(t, "put", "store")
    /\ ~Exists(t)
    /\ Place(t)
    /\ hand' = [hand EXCEPT ![t] = NoBlock]
    /\ UNCHANGED <<lock, heap, calls, doomed, seen, ans>>

\* Update: the old block comes back.
Exchange(t) ==
    /\ Goto(t, "put", "drop")
    /\ Exists(t) /\ req[t].op = "u"
    /\ Place(t)
    /\ hand' = [hand EXCEPT ![t] = table[req[t].key][Head(Rest(t)).f]]
    /\ UNCHANGED <<lock, heap, calls, doomed, seen, ans>>

RefusedPlaces(t) == Place(t)
Refused(t) == UNCHANGED <<table, pos>>

\* Insert: the table keeps what it has.
Conflict(t) ==
    /\ Goto(t, "put", "drop")
    /\ Exists(t) /\ req[t].op = "i"
    /\ Refused(t)
    /\ Answered(t, [status |-> "kErrorConflict"])
    /\ UNCHANGED <<lock, heap, calls, hand, doomed, seen>>

\* DeleteString.
DeletedNone(B) == heap
Deleted(B) == [b \in Blocks |-> IF b \in B THEN Free ELSE heap[b]]

DropHand(t) ==
    /\ Goto(t, "drop", IF ans[t] = NoAnswer THEN "store" ELSE "done")
    /\ heap' = Deleted({hand[t]})
    /\ hand' = [hand EXCEPT ![t] = NoBlock]
    /\ UNCHANGED <<lock, table, calls, pos, doomed, seen, ans>>

AllStored(t) ==
    /\ Goto(t, "store", "done")
    /\ Rest(t) = <<>>
    /\ Answered(t, [status |-> "kOK"])
    /\ UNCHANGED <<lock, table, heap, calls, pos, hand, doomed, seen>>

RemovedKept(k) == table
Removed(k) == [table EXCEPT ![k] = NoRecord]

\* Remove takes the record out of the table.
Remove(t) ==
    /\ req[t].op = "d"
    /\ LET k == req[t].key IN
        /\ Goto(t, "find", IF k \in Present(table) THEN "free" ELSE "done")
        /\ table' = Removed(k)
        /\ doomed' = [doomed EXCEPT ![t] = IF k \in Present(table) THEN table[k] ELSE @]
        /\ Answered(t, [status |-> IF k \in Present(table) THEN "kOK" ELSE "kErrorNoData"])
    /\ UNCHANGED <<lock, heap, calls, pos, hand, seen>>

Strings(rec) == {rec[f] : f \in DOMAIN rec}

\* DeleteFieldHashtable.
FreeRecord(t) ==
    /\ Goto(t, "free", "done")
    /\ heap' = Deleted(Strings(doomed[t]))
    /\ doomed' = [doomed EXCEPT ![t] = EmptyRecord]
    /\ UNCHANGED <<lock, table, calls, pos, hand, seen, ans>>

-----------------------------------------------------------------------------
Finished == \A t \in Threads : pc[t] = "idle" /\ ~MoreCalls(t)

Terminating == Finished /\ UNCHANGED vars

Step(t) ==
    \/ Call(t) \/ Lock(t) \/ Return(t)
    \/ Read(t) \/ Scan(t) \/ CopyOut(t)
    \/ FindRecord(t) \/ CopyString(t) \/ Put(t) \/ Exchange(t) \/ Conflict(t)
    \/ DropHand(t) \/ AllStored(t)
    \/ Remove(t) \/ FreeRecord(t)

Next == (\E t \in Threads : Step(t)) \/ Terminating

Spec == Init /\ [][Next]_vars

\* Every thread keeps running.  std::mutex promises no order, and none is assumed.
FairSpec == Spec /\ \A t \in Threads : WF_vars(Step(t))

-----------------------------------------------------------------------------
(* Properties. *)

Record == UNION {[F -> Blocks] : F \in SUBSET Fields}

TypeOK ==
    /\ lock \in Threads \cup {Nobody}
    /\ table \in [Keys -> Record \cup {NoRecord}]
    /\ heap \in [Blocks -> Vals \cup {Free}]
    /\ pc \in [Threads -> {"idle", "wait", "find", "copyout", "store", "put",
                           "drop", "free", "done"}]
    /\ left \in [Threads -> Nat]
    /\ req \in [Threads -> Requests \cup {NoCall}]
    /\ pos \in [Threads -> Nat \ {0}]
    /\ hand \in [Threads -> Blocks \cup {NoBlock}]
    /\ doomed \in [Threads -> Record]
    /\ seen \in [Threads -> SUBSET Keys]

\* The places that can hold a pointer to a string.
Places ==
    {<<"field", k, f>> : k \in Keys, f \in Fields}
    \cup {<<"doomed", t, f>> : t \in Threads, f \in Fields}
    \cup {<<"hand", t>> : t \in Threads}

Field(rec, f) == IF rec # NoRecord /\ f \in DOMAIN rec THEN rec[f] ELSE NoBlock

At(p) ==
    IF p[1] = "field" THEN Field(table[p[2]], p[3])
    ELSE IF p[1] = "doomed" THEN Field(doomed[p[2]], p[3])
    ELSE hand[p[2]]

\* Every string has exactly one owner: none is leaked, none is freed while a
\* field still points to it, and none would be freed twice.  (The key strings of
\* the tables are not part of this: those of a failed insertion are leaked.)
BlocksOwned ==
    /\ \A p \in Places : At(p) # NoBlock => heap[At(p)] # Free
    /\ \A p, q \in Places : At(p) = At(q) /\ p # q => At(p) = NoBlock
    /\ \A b \in Blocks : heap[b] # Free => \E p \in Places : At(p) = b

-----------------------------------------------------------------------------
(* Refinement.  A write takes effect where it finds its record: nobody can *)
(* see the pairs that are still to be stored.                              *)

Filling(t) ==
    \/ pc[t] \in {"store", "put"}
    \/ pc[t] = "drop" /\ ans[t] = NoAnswer

\* The record under k when thread t will have stored the rest of its pairs.
Completed(k, t) ==
    IF req[t].op = "i"
    THEN Stored(Contents(k), Rest(t), Insertable(Contents(k), Rest(t)))
    ELSE Stored(Contents(k), Rest(t), Len(Rest(t)))

\* Only the holder of the lock can be at work on a record.
AbsStore ==
    [k \in Keys |->
        IF lock # Nobody /\ Filling(lock) /\ req[lock].key = k
        THEN Completed(k, lock)
        ELSE Contents(k)]

AbsPhase ==
    [t \in Threads |->
        IF pc[t] = "idle" THEN "idle"
        ELSE IF pc[t] \in {"wait", "find", "copyout"} THEN "pending" ELSE "done"]

AbsAnswer ==
    [t \in Threads |->
        IF ~Filling(t) THEN ans[t]
        ELSE [status |->
                IF \/ req[t].op = "u"
                   \/ Insertable(Contents(req[t].key), Rest(t)) = Len(Rest(t))
                THEN "kOK" ELSE "kErrorConflict"]]

Service == INSTANCE HashService
    WITH store <- AbsStore, phase <- AbsPhase, call <- req, answer <- AbsAnswer

\* Each call of the back end happens at one instant, also one that works through
\* a list of fields or records and may stop half-way.
HashServiceSpec == Service!Spec

\* Every call returns.
OperationsReturn == \A t \in Threads : pc[t] = "wait" ~> pc[t] = "idle"
=============================================================================
