------------------------- MODULE HashtableStoreProof -------------------------
(***************************************************************************)
(* HashtableStore, for any number of threads, requests and heap blocks:    *)
(* its variables keep their types, every string on the heap has one owner, *)
(* and it implements HashService.                                          *)
(*                                                                         *)
(* The argument for the first two is the mutex: only its holder is inside  *)
(* a call, so that there is at most one block in a hand and at most one    *)
(* record on its way to be freed, and the holder's step is the only one    *)
(* that moves them (IInv).                                                 *)
(*                                                                         *)
(* Insert and Update take effect where they find the record; what is left  *)
(* to do is a function of the record and the rest of the list.  Storing    *)
(* one pair and then the rest leaves the same record as storing the list   *)
(* (StoredNext), and the number of pairs that can be inserted goes down by *)
(* one (InsertableNext), so no later step of the call is visible.          *)
(***************************************************************************)
EXTENDS HashtableStore, SequenceTheorems, WellFoundedInduction, TLAPS

Inside(t) == pc[t] \notin {"idle", "wait"}

\* The threads inside a call: the one that holds the lock, or none.
Mutex == \A t \in Threads : Inside(t) <=> lock = t

\* What a thread has outside the tables.
Loose(t) ==
    /\ hand[t] # NoBlock <=> pc[t] \in {"put", "drop"}
    /\ pc[t] # "free" => doomed[t] = EmptyRecord

\* A thread that stores pairs has found its record, and there is a pair to put.
Storing(t) ==
    /\ pc[t] # "idle" => req[t] \in Requests
    /\ pc[t] \in {"store", "put", "drop"} =>
            req[t].op \in {"i", "u"} /\ table[req[t].key] # NoRecord
    /\ pc[t] = "put" => Rest(t) # <<>>

\* The three kinds of owners: fields, the record to be freed, the hand.
Kept(k, f) == Field(table[k], f)
Leaving(t, f) == Field(doomed[t], f)

Live ==
    /\ \A k \in Keys, f \in Fields : Kept(k, f) # NoBlock => heap[Kept(k, f)] # Free
    /\ \A t \in Threads, f \in Fields : Leaving(t, f) # NoBlock => heap[Leaving(t, f)] # Free
    /\ \A t \in Threads : hand[t] # NoBlock => heap[hand[t]] # Free

\* No block has two owners.
Apart ==
    /\ \A k, l \in Keys, f, g \in Fields :
        Kept(k, f) = Kept(l, g) /\ Kept(k, f) # NoBlock => k = l /\ f = g
    /\ \A t \in Threads, f, g \in Fields :
        Leaving(t, f) = Leaving(t, g) /\ Leaving(t, f) # NoBlock => f = g
    /\ \A t \in Threads, k \in Keys, f, g \in Fields :
        Leaving(t, g) # NoBlock => Leaving(t, g) # Kept(k, f)
    /\ \A t \in Threads, k \in Keys, f \in Fields :
        hand[t] # NoBlock => hand[t] # Kept(k, f)

\* No block has lost its owner.
NoneLost ==
    \A b \in Blocks : heap[b] # Free =>
        \/ \E k \in Keys, f \in Fields : Kept(k, f) = b
        \/ \E t \in Threads, f \in Fields : Leaving(t, f) = b
        \/ \E t \in Threads : hand[t] = b

Owned == Live /\ Apart /\ NoneLost

IInv ==
    /\ TypeOK
    /\ Mutex
    /\ \A t \in Threads : Loose(t) /\ Storing(t)
    /\ Owned

-----------------------------------------------------------------------------
(* Records and lists of pairs. *)

LEMMA EmptyIsRecord == EmptyRecord \in Record /\ \A f : Field(EmptyRecord, f) = NoBlock
  <1>1. EmptyRecord \in [{} -> Blocks] /\ {} \in SUBSET Fields /\ DOMAIN EmptyRecord = {}
    BY DEF EmptyRecord
  <1> QED  BY <1>1 DEF Record, Field

LEMMA RecordFacts ==
    ASSUME NEW rec \in Record
    PROVE  /\ rec # NoRecord
           /\ DOMAIN rec \subseteq Fields
           /\ \A f \in DOMAIN rec : rec[f] \in Blocks
           /\ rec = [f \in DOMAIN rec |-> rec[f]]
  <1>1. PICK F \in SUBSET Fields : rec \in [F -> Blocks]
    BY DEF Record
  <1>2. rec # NoRecord
    BY HashAssumption DEF Record
  <1> QED  BY <1>1, <1>2

LEMMA RecordMade ==
    ASSUME NEW rec, NEW F \in SUBSET Fields, rec \in [F -> Blocks]
    PROVE  rec \in Record
  BY DEF Record

LEMMA FieldValue ==
    ASSUME NEW rec \in Record \cup {NoRecord}, NEW f
    PROVE  /\ Field(rec, f) \in Blocks \cup {NoBlock}
           /\ Field(rec, f) # NoBlock <=> rec # NoRecord /\ f \in DOMAIN rec
           /\ rec # NoRecord /\ f \in DOMAIN rec => Field(rec, f) = rec[f]
  BY RecordFacts, HashAssumption DEF Field

LEMMA NextPairFacts ==
    ASSUME NEW t \in Threads, TypeOK, req[t] \in Requests, req[t].op \in {"i", "u"},
           Rest(t) # <<>>
    PROVE  Head(Rest(t)) \in [f : Fields, v : Vals]
  <1>1. req[t].values \in Seq([f : Fields, v : Vals]) /\ pos[t] \in Nat \ {0}
    BY HashAssumption DEF TypeOK
  <1>2. ASSUME NEW i \in pos[t] .. Len(req[t].values)
        PROVE  req[t].values[i] \in [f : Fields, v : Vals]
    <2>1. Len(req[t].values) \in Nat
      BY <1>1
    <2>2. i \in 1 .. Len(req[t].values)
      BY <1>1
    <2> QED  BY <1>1, <2>2, ElementOfSeq
  <1>3. Rest(t) \in Seq([f : Fields, v : Vals])
    BY <1>1, <1>2 DEF Rest
  <1> QED  BY <1>3, HeadTailProperties

-----------------------------------------------------------------------------
(* One lemma per action. *)

LEMMA InitInv == Init => IInv
  <1> SUFFICES ASSUME Init PROVE IInv
    OBVIOUS
  <1>1. TypeOK
    BY EmptyIsRecord, HashAssumption DEF Init, TypeOK
  <1>2. Mutex /\ \A t \in Threads : Loose(t) /\ Storing(t)
    BY HashAssumption DEF Init, Mutex, Inside, Loose, Storing
  <1>3. /\ \A k \in Keys, f \in Fields : Kept(k, f) = NoBlock
        /\ \A t \in Threads, f \in Fields : Leaving(t, f) = NoBlock
        /\ \A t \in Threads : hand[t] = NoBlock
        /\ \A b \in Blocks : heap[b] = Free
    BY EmptyIsRecord DEF Init, Kept, Leaving, Field
  <1>4. Owned
    BY <1>3 DEF Owned, Live, Apart, NoneLost
  <1> QED  BY <1>1, <1>2, <1>4 DEF IInv

\* The tables, the heap and the blocks in hand are left alone.
LEMMA OwnedStays ==
    ASSUME Owned, UNCHANGED <<table, heap, hand, doomed>>
    PROVE  Owned'
  BY DEF Owned, Live, Apart, NoneLost, Kept, Leaving

LEMMA CallInv == ASSUME IInv, NEW t \in Threads, Call(t) PROVE IInv'
  <1>1. TypeOK'
    BY DEF IInv, TypeOK, Call, Goto, MoreCalls, private
  <1>2. Mutex' /\ \A s \in Threads : Loose(s)' /\ Storing(s)'
    BY DEF IInv, TypeOK, Mutex, Inside, Loose, Storing, Rest, Call, Goto, private
  <1>3. Owned'
    BY OwnedStays DEF IInv, Call, private
  <1> QED  BY <1>1, <1>2, <1>3 DEF IInv

LEMMA LockInv == ASSUME IInv, NEW t \in Threads, Lock(t) PROVE IInv'
  <1>1. TypeOK'
    BY DEF IInv, TypeOK, Lock, Goto, calls, private
  <1>2. Mutex' /\ \A s \in Threads : Loose(s)' /\ Storing(s)'
    BY HashAssumption DEF IInv, TypeOK, Mutex, Inside, Loose, Storing, Lock, MayLock, Goto, calls,
       private
  <1>3. Owned'
    BY OwnedStays DEF IInv, Lock, private
  <1> QED  BY <1>1, <1>2, <1>3 DEF IInv

LEMMA ReturnInv == ASSUME IInv, NEW t \in Threads, Return(t) PROVE IInv'
  <1>1. TypeOK'
    BY DEF IInv, TypeOK, Return, Goto
  <1>2. Mutex' /\ \A s \in Threads : Loose(s)' /\ Storing(s)'
    BY HashAssumption DEF IInv, TypeOK, Mutex, Inside, Loose, Storing, Return, Goto
  <1>3. Owned'
    BY OwnedStays DEF IInv, Return
  <1> QED  BY <1>1, <1>2, <1>3 DEF IInv

LEMMA ReadInv == ASSUME IInv, NEW t \in Threads, Read(t) PROVE IInv'
  <1>1. TypeOK'
    BY DEF IInv, TypeOK, Read, Goto, calls
  <1>2. Mutex' /\ \A s \in Threads : Loose(s)' /\ Storing(s)'
    BY DEF IInv, Mutex, Inside, Loose, Storing, Read, Goto, calls
  <1>3. Owned'
    BY OwnedStays DEF IInv, Read
  <1> QED  BY <1>1, <1>2, <1>3 DEF IInv

LEMMA ScanInv == ASSUME IInv, NEW t \in Threads, Scan(t) PROVE IInv'
  <1>1. TypeOK'
    <2>1. \A S \in Entries(req[t].key, req[t].len) : S \in SUBSET Keys
      BY DEF Entries, Present
    <2> QED  BY <2>1 DEF IInv, TypeOK, Scan, Goto, calls
  <1>2. Mutex' /\ \A s \in Threads : Loose(s)' /\ Storing(s)'
    BY DEF IInv, Mutex, Inside, Loose, Storing, Scan, Goto, calls
  <1>3. Owned'
    BY OwnedStays DEF IInv, Scan
  <1> QED  BY <1>1, <1>2, <1>3 DEF IInv

LEMMA CopyOutInv == ASSUME IInv, NEW t \in Threads, CopyOut(t) PROVE IInv'
  <1>1. TypeOK'
    BY DEF IInv, TypeOK, CopyOut, Goto, calls
  <1>2. Mutex' /\ \A s \in Threads : Loose(s)' /\ Storing(s)'
    BY DEF IInv, Mutex, Inside, Loose, Storing, CopyOut, Goto, calls
  <1>3. Owned'
    BY OwnedStays DEF IInv, CopyOut
  <1> QED  BY <1>1, <1>2, <1>3 DEF IInv

LEMMA FindRecordInv == ASSUME IInv, NEW t \in Threads, FindRecord(t) PROVE IInv'
  <1>1. TypeOK'
    BY EmptyIsRecord DEF IInv, TypeOK, FindRecord, Goto, calls, private
  <1>2. EmptyRecord # NoRecord
    BY EmptyIsRecord, RecordFacts
  <1>3. Mutex' /\ \A s \in Threads : Loose(s)' /\ Storing(s)'
    BY <1>2, HashAssumption DEF IInv, TypeOK, Mutex, Inside, Loose, Storing, FindRecord, Goto,
       calls, private
  <1>4. \A k \in Keys, f \in Fields : Kept(k, f)' = Kept(k, f)
    BY EmptyIsRecord DEF FindRecord, Kept, Field
  <1>5. UNCHANGED <<heap, hand, doomed>>
    BY DEF FindRecord, private
  <1>6. Owned'
    BY <1>4, <1>5 DEF IInv, Owned, Live, Apart, NoneLost, Leaving
  <1> QED  BY <1>1, <1>3, <1>6 DEF IInv

LEMMA CopyStringInv == ASSUME IInv, NEW t \in Threads, CopyString(t) PROVE IInv'
  <1>1. PICK b \in Blocks : /\ heap[b] = Free
                            /\ heap' = [heap EXCEPT ![b] = Head(Rest(t)).v]
                            /\ hand' = [hand EXCEPT ![t] = b]
    BY DEF CopyString
  <1>2. pc[t] = "store" /\ pc' = [pc EXCEPT ![t] = "put"] /\ Rest(t) # <<>>
    BY DEF CopyString, Goto
  <1>3. Head(Rest(t)).v \in Vals /\ Head(Rest(t)).v # Free
    BY <1>2, NextPairFacts, HashAssumption DEF IInv, Storing
  <1>4. UNCHANGED <<lock, table, calls, pos, doomed, seen, ans>>
    BY DEF CopyString
  <1>5. TypeOK'
    BY <1>1, <1>2, <1>3, <1>4 DEF IInv, TypeOK, calls
  <1>6. Mutex' /\ \A s \in Threads : Loose(s)' /\ Storing(s)'
    BY <1>1, <1>2, <1>4, HashAssumption DEF IInv, TypeOK, Mutex, Inside, Loose, Storing, Rest, calls
  <1>7. /\ \A k \in Keys, f \in Fields : Kept(k, f)' = Kept(k, f)
        /\ \A s \in Threads, f \in Fields : Leaving(s, f)' = Leaving(s, f)
        /\ \A s \in Threads : s # t => hand'[s] = hand[s]
        /\ hand[t] = NoBlock /\ hand'[t] = b
        /\ \A a \in Blocks : heap'[a] # Free <=> heap[a] # Free \/ a = b
    BY <1>1, <1>2, <1>3, <1>4 DEF IInv, TypeOK, Loose, Kept, Leaving
  <1>8. /\ \A k \in Keys, f \in Fields : Kept(k, f) \in Blocks \cup {NoBlock}
        /\ \A s \in Threads, f \in Fields : Leaving(s, f) \in Blocks \cup {NoBlock}
        /\ \A s \in Threads : hand[s] \in Blocks \cup {NoBlock}
        /\ NoBlock \notin Blocks
    BY FieldValue, HashAssumption DEF IInv, TypeOK, Kept, Leaving
  <1>9. Live'
    BY <1>7, <1>8 DEF IInv, Owned, Live
  <1>10. Apart'
    BY <1>1, <1>7 DEF IInv, Owned, Live, Apart
  <1>11. NoneLost'
    BY <1>7, <1>8 DEF IInv, Owned, NoneLost
  <1> QED  BY <1>5, <1>6, <1>9, <1>10, <1>11 DEF IInv, Owned

LEMMA AllStoredInv == ASSUME IInv, NEW t \in Threads, AllStored(t) PROVE IInv'
  <1>1. TypeOK'
    BY DEF IInv, TypeOK, AllStored, Goto, calls
  <1>2. Mutex' /\ \A s \in Threads : Loose(s)' /\ Storing(s)'
    BY DEF IInv, Mutex, Inside, Loose, Storing, AllStored, Goto, calls
  <1>3. Owned'
    BY OwnedStays DEF IInv, AllStored
  <1> QED  BY <1>1, <1>2, <1>3 DEF IInv

LEMMA ConflictInv == ASSUME IInv, NEW t \in Threads, Conflict(t) PROVE IInv'
  <1>1. TypeOK'
    BY DEF IInv, TypeOK, Conflict, Refused, Goto, calls
  <1>2. Mutex' /\ \A s \in Threads : Loose(s)' /\ Storing(s)'
    BY DEF IInv, Mutex, Inside, Loose, Storing, Rest, Conflict, Refused, Goto, calls
  <1>3. Owned'
    BY OwnedStays DEF IInv, Conflict, Refused
  <1> QED  BY <1>1, <1>2, <1>3 DEF IInv

-----------------------------------------------------------------------------
(* The actions that move blocks. *)

\* What Place does to the fields.
LEMMA PlaceFacts ==
    ASSUME IInv, NEW t \in Threads, pc[t] = "put", Place(t),
           NEW k, k = req[t].key, NEW f, f = Head(Rest(t)).f
    PROVE  /\ k \in Keys /\ f \in Fields
           /\ hand[t] \in Blocks
           /\ table' \in [Keys -> Record \cup {NoRecord}]
           /\ \A l \in Keys : table[l] # NoRecord => table'[l] # NoRecord
           /\ Kept(k, f)' = hand[t]
           /\ \A l \in Keys, g \in Fields : l # k \/ g # f => Kept(l, g)' = Kept(l, g)
           /\ Exists(t) => Kept(k, f) = table[k][f] /\ Kept(k, f) \in Blocks
           /\ ~Exists(t) => Kept(k, f) = NoBlock
           /\ pos'[t] \in Nat \ {0} /\ pos' = [pos EXCEPT ![t] = pos'[t]]
  <1>1. /\ req[t] \in Requests /\ req[t].op \in {"i", "u"} /\ Rest(t) # <<>>
        /\ table[k] # NoRecord
        /\ hand[t] \in Blocks
    BY DEF IInv, TypeOK, Storing, Loose
  <1>2. k \in Keys /\ f \in Fields
    BY <1>1, NextPairFacts, HashAssumption DEF IInv
  <1>3. table[k] \in Record
    BY <1>1, <1>2 DEF IInv, TypeOK
  <1> DEFINE new == [g \in DOMAIN table[k] \cup {f} |-> IF g = f THEN hand[t] ELSE table[k][g]]
  <1>4. table' = [table EXCEPT ![k] = new]
    BY DEF Place
  <1>5. new \in Record
    <2>1. DOMAIN table[k] \cup {f} \in SUBSET Fields
      BY <1>2, <1>3, RecordFacts
    <2>2. new \in [DOMAIN table[k] \cup {f} -> Blocks]
      BY <1>1, <1>3, RecordFacts
    <2> QED  BY <2>1, <2>2, RecordMade
  <1>6. table' \in [Keys -> Record \cup {NoRecord}]
    BY <1>4, <1>5 DEF IInv, TypeOK
  <1>7. new # NoRecord /\ table'[k] = new /\ \A l \in Keys : l # k => table'[l] = table[l]
    BY <1>2, <1>4, <1>5, RecordFacts DEF IInv, TypeOK
  <1>8. \A l \in Keys : table[l] # NoRecord => table'[l] # NoRecord
    BY <1>7
  <1>9. Kept(k, f)' = hand[t]
    BY <1>7 DEF Kept, Field
  <1>10. \A l \in Keys, g \in Fields : l # k \/ g # f => Kept(l, g)' = Kept(l, g)
    <2>1. ASSUME NEW l \in Keys, NEW g \in Fields, l # k PROVE Kept(l, g)' = Kept(l, g)
      BY <1>7, <2>1 DEF Kept
    <2>2. ASSUME NEW g \in Fields, g # f PROVE Kept(k, g)' = Kept(k, g)
      <3>1. /\ g \in DOMAIN new <=> g \in DOMAIN table[k]
            /\ g \in DOMAIN table[k] => new[g] = table[k][g]
        BY <2>2
      <3> QED  BY <1>1, <1>7, <3>1 DEF Kept, Field
    <2> QED  BY <2>1, <2>2
  <1>11. Exists(t) <=> f \in DOMAIN table[k]
    BY DEF Exists
  <1>12. /\ Exists(t) => Kept(k, f) = table[k][f] /\ Kept(k, f) \in Blocks
         /\ ~Exists(t) => Kept(k, f) = NoBlock
    BY <1>3, <1>11, RecordFacts DEF Kept, Field
  <1>13. pos'[t] \in Nat \ {0} /\ pos' = [pos EXCEPT ![t] = pos'[t]]
    BY DEF Place, NextPair, IInv, TypeOK
  <1> QED  BY <1>1, <1>2, <1>6, <1>8, <1>9, <1>10, <1>12, <1>13

\* Where owners can point.
LEMMA OwnerTypes ==
    IInv => /\ \A k \in Keys, f \in Fields : Kept(k, f) \in Blocks \cup {NoBlock}
            /\ \A s \in Threads, f \in Fields : Leaving(s, f) \in Blocks \cup {NoBlock}
            /\ \A s \in Threads : hand[s] \in Blocks \cup {NoBlock}
            /\ NoBlock \notin Blocks
  BY FieldValue, HashAssumption DEF IInv, TypeOK, Kept, Leaving

\* Only the holder of the lock has anything outside the tables.
LEMMA OnlyHolder ==
    ASSUME IInv, NEW t \in Threads, Inside(t), NEW s \in Threads, s # t
    PROVE  hand[s] = NoBlock /\ pc[s] \in {"idle", "wait"} /\ \A f : Leaving(s, f) = NoBlock
  BY EmptyIsRecord DEF IInv, Mutex, Inside, Loose, Leaving

LEMMA PutInv == ASSUME IInv, NEW t \in Threads, Put(t) PROVE IInv'
  <1>1. PICK k, f : k = req[t].key /\ f = Head(Rest(t)).f
    OBVIOUS
  <1>2. /\ pc[t] = "put" /\ pc' = [pc EXCEPT ![t] = "store"] /\ ~Exists(t)
        /\ hand' = [hand EXCEPT ![t] = NoBlock]
        /\ UNCHANGED <<lock, heap, calls, doomed, seen, ans>>
        /\ Place(t)
    BY DEF Put, Goto
  <1>3. /\ k \in Keys /\ f \in Fields /\ hand[t] \in Blocks
        /\ table' \in [Keys -> Record \cup {NoRecord}]
        /\ \A l \in Keys : table[l] # NoRecord => table'[l] # NoRecord
        /\ Kept(k, f)' = hand[t] /\ Kept(k, f) = NoBlock
        /\ \A l \in Keys, g \in Fields : l # k \/ g # f => Kept(l, g)' = Kept(l, g)
        /\ pos'[t] \in Nat \ {0} /\ pos' = [pos EXCEPT ![t] = pos'[t]]
    BY <1>1, <1>2, PlaceFacts
  <1>4. TypeOK'
    BY <1>2, <1>3 DEF IInv, TypeOK, calls
  <1>5. Mutex' /\ \A s \in Threads : Loose(s)' /\ Storing(s)'
    BY <1>2, <1>3, HashAssumption DEF IInv, TypeOK, Mutex, Inside, Loose, Storing, calls
  <1>6. /\ \A s \in Threads, g \in Fields : Leaving(s, g)' = Leaving(s, g)
        /\ \A s \in Threads : s # t => hand'[s] = hand[s]
        /\ hand'[t] = NoBlock /\ heap' = heap
    BY <1>2 DEF IInv, TypeOK, Leaving
  <1>7. Live'
    BY <1>3, <1>6 DEF IInv, Owned, Live
  <1>8. \A s \in Threads, g \in Fields : Leaving(s, g) = NoBlock
    BY <1>2, OnlyHolder, EmptyIsRecord DEF IInv, Inside, Loose, Leaving
  <1>9. Apart'
    BY <1>2, <1>3, <1>6, <1>8, OnlyHolder DEF IInv, Owned, Apart, Inside
  <1>10. NoneLost'
    BY <1>3, <1>6 DEF IInv, Owned, NoneLost
  <1> QED  BY <1>4, <1>5, <1>7, <1>9, <1>10 DEF IInv, Owned

LEMMA ExchangeInv == ASSUME IInv, NEW t \in Threads, Exchange(t) PROVE IInv'
  <1>1. PICK k, f : k = req[t].key /\ f = Head(Rest(t)).f
    OBVIOUS
  <1>2. /\ pc[t] = "put" /\ pc' = [pc EXCEPT ![t] = "drop"] /\ Exists(t)
        /\ hand' = [hand EXCEPT ![t] = table[k][f]]
        /\ UNCHANGED <<lock, heap, calls, doomed, seen, ans>>
        /\ Place(t)
    BY <1>1 DEF Exchange, Goto
  <1>3. /\ k \in Keys /\ f \in Fields /\ hand[t] \in Blocks
        /\ table' \in [Keys -> Record \cup {NoRecord}]
        /\ \A l \in Keys : table[l] # NoRecord => table'[l] # NoRecord
        /\ Kept(k, f)' = hand[t] /\ Kept(k, f) = table[k][f] /\ table[k][f] \in Blocks
        /\ \A l \in Keys, g \in Fields : l # k \/ g # f => Kept(l, g)' = Kept(l, g)
        /\ pos'[t] \in Nat \ {0} /\ pos' = [pos EXCEPT ![t] = pos'[t]]
    BY <1>1, <1>2, PlaceFacts
  <1>4. TypeOK'
    BY <1>2, <1>3 DEF IInv, TypeOK, calls
  <1>5. Mutex' /\ \A s \in Threads : Loose(s)' /\ Storing(s)'
    BY <1>2, <1>3, HashAssumption DEF IInv, TypeOK, Mutex, Inside, Loose, Storing, calls
  <1>6. /\ \A s \in Threads, g \in Fields : Leaving(s, g)' = Leaving(s, g)
        /\ \A s \in Threads : s # t => hand'[s] = hand[s]
        /\ hand'[t] = Kept(k, f) /\ heap' = heap
    BY <1>2, <1>3 DEF IInv, TypeOK, Leaving
  <1>7. Live'
    BY <1>3, <1>6 DEF IInv, Owned, Live
  <1>8. \A s \in Threads, g \in Fields : Leaving(s, g) = NoBlock
    BY <1>2, OnlyHolder, EmptyIsRecord DEF IInv, Inside, Loose, Leaving
  <1>9. Apart'
    BY <1>2, <1>3, <1>6, <1>8, OnlyHolder DEF IInv, Owned, Apart, Inside
  <1>10. NoneLost'
    BY <1>3, <1>6 DEF IInv, Owned, NoneLost
  <1> QED  BY <1>4, <1>5, <1>7, <1>9, <1>10 DEF IInv, Owned

LEMMA DropHandInv == ASSUME IInv, NEW t \in Threads, DropHand(t) PROVE IInv'
  <1>1. /\ pc[t] = "drop" /\ pc'[t] \in {"store", "done"} /\ pc' = [pc EXCEPT ![t] = pc'[t]]
        /\ hand' = [hand EXCEPT ![t] = NoBlock]
        /\ heap' = [b \in Blocks |-> IF b \in {hand[t]} THEN Free ELSE heap[b]]
        /\ UNCHANGED <<lock, table, calls, pos, doomed, seen, ans>>
    BY DEF IInv, TypeOK, DropHand, Goto, Deleted
  <1>2. hand[t] \in Blocks
    BY <1>1, OwnerTypes DEF IInv, Loose
  <1>3. TypeOK'
    BY <1>1 DEF IInv, TypeOK, calls
  <1>4. Mutex' /\ \A s \in Threads : Loose(s)' /\ Storing(s)'
    BY <1>1 DEF IInv, TypeOK, Mutex, Inside, Loose, Storing, calls
  <1>5. /\ \A k \in Keys, f \in Fields : Kept(k, f)' = Kept(k, f)
        /\ \A s \in Threads, g \in Fields : Leaving(s, g)' = Leaving(s, g)
        /\ \A s \in Threads : s # t => hand'[s] = hand[s]
        /\ hand'[t] = NoBlock
        /\ \A b \in Blocks : heap'[b] # Free <=> heap[b] # Free /\ b # hand[t]
    BY <1>1 DEF IInv, TypeOK, Kept, Leaving
  <1>6. /\ \A s \in Threads, g \in Fields : Leaving(s, g) = NoBlock
        /\ \A s \in Threads : s # t => hand[s] = NoBlock
    BY <1>1, OnlyHolder, EmptyIsRecord DEF IInv, Inside, Loose, Leaving
  <1>7. \A k \in Keys, f \in Fields : Kept(k, f) # hand[t]
    BY <1>2, OwnerTypes DEF IInv, Owned, Apart
  <1>8. Live'
    BY <1>5, <1>6, <1>7, OwnerTypes DEF IInv, Owned, Live
  <1>9. Apart'
    BY <1>5 DEF IInv, Owned, Apart
  <1>10. NoneLost'
    BY <1>5 DEF IInv, Owned, NoneLost
  <1> QED  BY <1>3, <1>4, <1>8, <1>9, <1>10 DEF IInv, Owned

LEMMA RemoveInv == ASSUME IInv, NEW t \in Threads, Remove(t) PROVE IInv'
  <1>1. PICK k : k = req[t].key
    OBVIOUS
  <1>2. /\ pc[t] = "find" /\ pc' = [pc EXCEPT ![t] = IF k \in Present(table) THEN "free" ELSE "done"]
        /\ table' = [table EXCEPT ![k] = NoRecord]
        /\ doomed' = [doomed EXCEPT ![t] = IF k \in Present(table) THEN table[k] ELSE @]
        /\ UNCHANGED <<lock, heap, calls, pos, hand, seen>>
    BY <1>1 DEF Remove, Goto, Removed
  <1>3. k \in Keys
    BY <1>1, <1>2, HashAssumption DEF IInv, Storing
  <1>4. k \in Present(table) <=> table[k] # NoRecord
    BY <1>3 DEF Present
  <1>5. TypeOK'
    BY <1>2, <1>3, <1>4 DEF IInv, TypeOK, calls
  <1>6. Mutex' /\ \A s \in Threads : Loose(s)' /\ Storing(s)'
    BY <1>2 DEF IInv, TypeOK, Mutex, Inside, Loose, Storing, calls
  <1>7. /\ \A l \in Keys, f \in Fields : Kept(l, f)' = IF l = k THEN NoBlock ELSE Kept(l, f)
        /\ \A s \in Threads, f \in Fields : s # t => Leaving(s, f)' = Leaving(s, f)
    BY <1>2 DEF IInv, TypeOK, Kept, Leaving, Field
  <1>8. \A s \in Threads, f \in Fields : Leaving(s, f) = NoBlock
    BY <1>2, OnlyHolder, EmptyIsRecord DEF IInv, Inside, Loose, Leaving
  <1>9. \A f \in Fields : Leaving(t, f)' = Kept(k, f)
    <2>1. CASE table[k] # NoRecord
      BY <1>2, <1>4, <2>1 DEF IInv, TypeOK, Kept, Leaving
    <2>2. CASE table[k] = NoRecord
      <3>1. \A f \in Fields : Kept(k, f) = NoBlock
        BY <2>2 DEF Kept, Field
      <3>2. \A f \in Fields : Leaving(t, f)' = Leaving(t, f)
        BY <1>2, <1>4, <2>2 DEF Leaving
      <3> QED  BY <1>8, <3>1, <3>2
    <2> QED  BY <2>1, <2>2
  <1>10. \A s \in Threads : hand[s] = NoBlock /\ hand'[s] = NoBlock
    BY <1>2, OnlyHolder DEF IInv, Inside, Loose
  <1>11. heap' = heap
    BY <1>2
  <1>12. Live'
    BY <1>3, <1>7, <1>9, <1>10, <1>11 DEF IInv, Owned, Live
  <1>13. Apart'
    BY <1>3, <1>7, <1>9, <1>10 DEF IInv, Owned, Apart
  <1>14. NoneLost'
    BY <1>7, <1>8, <1>9, <1>10, <1>11 DEF IInv, Owned, NoneLost
  <1> QED  BY <1>5, <1>6, <1>12, <1>13, <1>14 DEF IInv, Owned

LEMMA FreeRecordInv == ASSUME IInv, NEW t \in Threads, FreeRecord(t) PROVE IInv'
  <1>1. /\ pc[t] = "free" /\ pc' = [pc EXCEPT ![t] = "done"]
        /\ heap' = [b \in Blocks |-> IF b \in Strings(doomed[t]) THEN Free ELSE heap[b]]
        /\ doomed' = [doomed EXCEPT ![t] = EmptyRecord]
        /\ UNCHANGED <<lock, table, calls, pos, hand, seen, ans>>
    BY DEF FreeRecord, Goto, Deleted
  <1>2. TypeOK'
    BY <1>1, EmptyIsRecord DEF IInv, TypeOK, calls
  <1>3. Mutex' /\ \A s \in Threads : Loose(s)' /\ Storing(s)'
    BY <1>1 DEF IInv, TypeOK, Mutex, Inside, Loose, Storing, calls
  <1>4. \A b \in Blocks : b \in Strings(doomed[t]) <=> \E f \in Fields : Leaving(t, f) = b
    <2>1. doomed[t] \in Record
      BY DEF IInv, TypeOK
    <2> QED  BY <2>1, RecordFacts, HashAssumption DEF Strings, Leaving, Field
  <1>5. /\ \A k \in Keys, f \in Fields : Kept(k, f)' = Kept(k, f)
        /\ \A s \in Threads, f \in Fields : Leaving(s, f)' = NoBlock
        /\ \A s \in Threads, f \in Fields : s # t => Leaving(s, f) = NoBlock
        /\ \A s \in Threads : hand[s] = NoBlock /\ hand'[s] = NoBlock
    BY <1>1, OnlyHolder, EmptyIsRecord DEF IInv, TypeOK, Inside, Loose, Kept, Leaving
  <1>6. \A b \in Blocks : heap'[b] # Free <=> heap[b] # Free /\ ~\E f \in Fields : Leaving(t, f) = b
    BY <1>1, <1>4
  <1>7. Live'
    BY <1>5, <1>6, OwnerTypes DEF IInv, Owned, Live, Apart
  <1>8. Apart'
    BY <1>5 DEF IInv, Owned, Apart
  <1>9. NoneLost'
    BY <1>5, <1>6 DEF IInv, Owned, NoneLost
  <1> QED  BY <1>2, <1>3, <1>7, <1>8, <1>9 DEF IInv, Owned

LEMMA NextInv == IInv /\ [Next]_vars => IInv'
  <1> SUFFICES ASSUME IInv, [Next]_vars PROVE IInv'
    OBVIOUS
  <1>1. CASE Terminating \/ UNCHANGED vars
    <2>1. UNCHANGED vars
      BY <1>1 DEF Terminating
    <2>2. TypeOK' /\ Mutex' /\ \A t \in Threads : Loose(t)' /\ Storing(t)'
      BY <2>1 DEF IInv, TypeOK, Mutex, Inside, Loose, Storing, Rest, vars, calls, private
    <2>3. Owned'
      BY <2>1, OwnedStays DEF IInv, vars, private
    <2> QED  BY <2>2, <2>3 DEF IInv
  <1>2. ASSUME NEW t \in Threads, Step(t) PROVE IInv'
    BY <1>2, CallInv, LockInv, ReturnInv, ReadInv, ScanInv, CopyOutInv, FindRecordInv,
       CopyStringInv, PutInv, ExchangeInv, ConflictInv, DropHandInv, AllStoredInv, RemoveInv,
       FreeRecordInv DEF Step
  <1> QED  BY <1>1, <1>2 DEF Next

LEMMA Invariant == Spec => []IInv
  BY InitInv, NextInv, PTL DEF Spec

-----------------------------------------------------------------------------
(* What is stored of a list of pairs. *)

Pair == [f : Fields, v : Vals]

\* A list of pairs of different fields.
IsList(R) ==
    /\ R \in Seq(Pair)
    /\ \A i, j \in 1 .. Len(R) : R[i].f = R[j].f => i = j

\* Q is what is left of R behind its first pair.
IsRest(Q, R) ==
    /\ Len(R) # 0 /\ Len(Q) = Len(R) - 1
    /\ \A i \in 1 .. Len(Q) : Q[i] = R[i + 1]

LEMMA StoredFacts ==
    ASSUME NEW R, IsList(R), NEW n \in 0 .. Len(R), NEW rec
    PROVE  /\ \A f : f \in DOMAIN Stored(rec, R, n) <=>
                    f \in DOMAIN rec \/ \E i \in 1 .. n : R[i].f = f
           /\ \A i \in 1 .. n : Stored(rec, R, n)[R[i].f] = R[i].v
           /\ \A f \in DOMAIN rec :
                (\A i \in 1 .. n : R[i].f # f) => Stored(rec, R, n)[f] = rec[f]
           /\ Stored(rec, R, n) = [f \in DOMAIN Stored(rec, R, n) |-> Stored(rec, R, n)[f]]
  <1>1. Len(R) \in Nat
    BY DEF IsList
  <1>2. ASSUME NEW i \in 1 .. n
        PROVE  Stored(rec, R, n)[R[i].f] = R[i].v
    <2>1. i \in 1 .. Len(R)
      BY <1>1
    <2>2. PICK j \in 1 .. n : R[j].f = R[i].f /\ Stored(rec, R, n)[R[i].f] = R[j].v
      BY DEF Stored
    <2>3. j \in 1 .. Len(R)
      BY <1>1
    <2>4. j = i
      BY <2>2 DEF IsList
    <2> QED  BY <2>2, <2>4
  <1>3. \A f : f \in DOMAIN Stored(rec, R, n) <=>
                f \in DOMAIN rec \/ \E i \in 1 .. n : R[i].f = f
    BY DEF Stored
  <1>4. ASSUME NEW f \in DOMAIN rec, \A i \in 1 .. n : R[i].f # f
        PROVE  Stored(rec, R, n)[f] = rec[f]
    BY <1>4 DEF Stored
  <1>5. Stored(rec, R, n) = [f \in DOMAIN Stored(rec, R, n) |-> Stored(rec, R, n)[f]]
    BY DEF Stored
  <1> QED  BY <1>2, <1>3, <1>4, <1>5

LEMMA StoredNone ==
    ASSUME NEW R, NEW rec, rec = [f \in DOMAIN rec |-> rec[f]]
    PROVE  Stored(rec, R, 0) = rec
  <1>1. 1 .. 0 = {}
    OBVIOUS
  <1>2. Stored(rec, R, 0) = [f \in DOMAIN rec |-> rec[f]]
    BY DEF Stored
  <1> QED  BY <1>2

\* one is rec with the first pair of R; storing the rest in it is the same.
Began(one, rec, R) ==
    /\ rec = [f \in DOMAIN rec |-> rec[f]]
    /\ one = [f \in DOMAIN one |-> one[f]]
    /\ DOMAIN one = DOMAIN rec \cup {R[1].f}
    /\ one[R[1].f] = R[1].v
    /\ \A f \in DOMAIN rec : f # R[1].f => one[f] = rec[f]

LEMMA StoredNext ==
    ASSUME NEW R, IsList(R), NEW Q, IsList(Q), IsRest(Q, R),
           NEW rec, NEW one, Began(one, rec, R), NEW n \in 1 .. Len(R)
    PROVE  Stored(one, Q, n - 1) = Stored(rec, R, n)
  <1> DEFINE a == Stored(one, Q, n - 1)
             b == Stored(rec, R, n)
  <1>1. Len(R) \in Nat /\ Len(Q) = Len(R) - 1 /\ n - 1 \in 0 .. Len(Q) /\ n \in 0 .. Len(R)
    BY DEF IsRest
  <1>2. /\ \A f : f \in DOMAIN a <=> f \in DOMAIN one \/ \E i \in 1 .. n - 1 : Q[i].f = f
        /\ \A i \in 1 .. n - 1 : a[Q[i].f] = Q[i].v
        /\ \A f \in DOMAIN one : (\A i \in 1 .. n - 1 : Q[i].f # f) => a[f] = one[f]
        /\ a = [f \in DOMAIN a |-> a[f]]
    BY <1>1, StoredFacts
  <1>3. /\ \A f : f \in DOMAIN b <=> f \in DOMAIN rec \/ \E i \in 1 .. n : R[i].f = f
        /\ \A i \in 1 .. n : b[R[i].f] = R[i].v
        /\ \A f \in DOMAIN rec : (\A i \in 1 .. n : R[i].f # f) => b[f] = rec[f]
        /\ b = [f \in DOMAIN b |-> b[f]]
    BY StoredFacts
  <1>4. \A i \in 1 .. n - 1 : Q[i] = R[i + 1] /\ i + 1 \in 1 .. n
    BY DEF IsRest
  <1>5. \A i \in 2 .. n : R[i] = Q[i - 1] /\ i - 1 \in 1 .. n - 1
    BY <1>4
  <1>6. ASSUME NEW f
        PROVE  (\E i \in 1 .. n : R[i].f = f) <=> R[1].f = f \/ \E i \in 1 .. n - 1 : Q[i].f = f
    <2>1. \A i \in 1 .. n : i = 1 \/ i \in 2 .. n
      BY <1>1
    <2>2. 1 \in 1 .. n
      BY <1>1
    <2> QED  BY <1>4, <1>5, <2>1, <2>2
  <1>7. DOMAIN a = DOMAIN b
    <2>1. ASSUME NEW f PROVE f \in DOMAIN a <=> f \in DOMAIN b
      BY <1>2, <1>3, <1>6 DEF Began
    <2> QED  BY <2>1
  <1>8. ASSUME NEW f \in DOMAIN b PROVE a[f] = b[f]
    <2>1. CASE \E i \in 2 .. n : R[i].f = f
      <3>1. PICK i \in 2 .. n : R[i].f = f
        BY <2>1
      <3>2. b[f] = R[i].v
        BY <1>3, <3>1
      <3>3. a[f] = Q[i - 1].v
        BY <1>2, <1>5, <3>1
      <3> QED  BY <1>5, <3>2, <3>3
    <2>2. CASE f = R[1].f
      <3>1. \A i \in 1 .. n - 1 : Q[i].f # f
        <4>1. \A i \in 1 .. n - 1 : i + 1 \in 1 .. Len(R) /\ 1 \in 1 .. Len(R) /\ i + 1 # 1
          BY <1>1
        <4> QED  BY <1>4, <2>2 DEF IsList
      <3>2. a[f] = R[1].v
        BY <1>2, <2>2, <3>1 DEF Began
      <3> QED  BY <1>3, <2>2, <3>2
    <2>3. CASE f # R[1].f /\ ~\E i \in 2 .. n : R[i].f = f
      <3>1. \A i \in 1 .. n : R[i].f # f
        BY <2>3
      <3>2. f \in DOMAIN rec /\ b[f] = rec[f]
        BY <1>3, <3>1
      <3>3. \A i \in 1 .. n - 1 : Q[i].f # f
        BY <1>4, <3>1
      <3>4. f \in DOMAIN one /\ a[f] = one[f]
        BY <1>2, <3>2, <3>3 DEF Began
      <3> QED  BY <2>3, <3>2, <3>4 DEF Began
    <2> QED  BY <2>1, <2>2, <2>3
  <1>9. a = b
    BY <1>2, <1>3, <1>7, <1>8
  <1> QED  BY <1>9

\* The first pair whose field exists, if there is one.
LEMMA FirstConflict ==
    ASSUME NEW T \in SUBSET Nat, T # {}
    PROVE  \E m \in T : \A k \in T : m <= k
  <1>1. PICK m \in T : \A k \in T : <<k, m>> \notin OpToRel(<, Nat)
    BY NatLessThanWellFounded, WFMin
  <1>2. ASSUME NEW k \in T PROVE m <= k
    <2>1. ~(k < m)
      BY <1>1 DEF OpToRel
    <2> QED  BY <2>1
  <1> QED  BY <1>2

Fits(rec, R, n) ==
    /\ \A i \in 1 .. n : R[i].f \notin DOMAIN rec
    /\ n < Len(R) => R[n + 1].f \in DOMAIN rec

LEMMA InsertableFacts ==
    ASSUME NEW R, IsList(R), NEW rec
    PROVE  /\ Insertable(rec, R) \in 0 .. Len(R)
           /\ Fits(rec, R, Insertable(rec, R))
           /\ \A n \in 0 .. Len(R) : Fits(rec, R, n) => n = Insertable(rec, R)
  <1> DEFINE T == {i \in Nat : i + 1 \in 1 .. Len(R) /\ R[i + 1].f \in DOMAIN rec}
  <1>1. Len(R) \in Nat
    BY DEF IsList
  <1>2. \E n \in 0 .. Len(R) : Fits(rec, R, n)
    <2>1. CASE T = {}
      <3>1. ASSUME NEW i \in 1 .. Len(R) PROVE R[i].f \notin DOMAIN rec
        <4>1. i - 1 \in Nat /\ (i - 1) + 1 = i
          BY <1>1
        <4>2. i - 1 \notin T
          BY <2>1
        <4> QED  BY <4>2
      <3>2. Fits(rec, R, Len(R))
        BY <3>1 DEF Fits
      <3> QED  BY <3>2
    <2>2. CASE T # {}
      <3>1. PICK m \in T : \A k \in T : m <= k
        BY <2>2, FirstConflict
      <3>2. ASSUME NEW i \in 1 .. m PROVE R[i].f \notin DOMAIN rec
        <4>1. i - 1 \in Nat /\ (i - 1) + 1 = i /\ i - 1 < m /\ i \in 1 .. Len(R)
          OBVIOUS
        <4>2. i - 1 \notin T
          BY <3>1
        <4> QED  BY <4>2
      <3>3. Fits(rec, R, m)
        BY <3>2 DEF Fits
      <3> QED  BY <3>3
    <2> QED  BY <2>1, <2>2
  <1>3. Insertable(rec, R) \in 0 .. Len(R) /\ Fits(rec, R, Insertable(rec, R))
    BY <1>2 DEF Insertable, Fits
  <1>4. ASSUME NEW m \in 0 .. Len(R), NEW n \in 0 .. Len(R), Fits(rec, R, m), Fits(rec, R, n),
               m < n
        PROVE  FALSE
    <2>1. R[m + 1].f \in DOMAIN rec
      BY <1>4 DEF Fits
    <2>2. m + 1 \in 1 .. n
      BY <1>4
    <2> QED  BY <1>4 DEF Fits
  <1>5. ASSUME NEW n \in 0 .. Len(R), Fits(rec, R, n) PROVE n = Insertable(rec, R)
    <2>1. ~(n < Insertable(rec, R)) /\ ~(Insertable(rec, R) < n)
      BY <1>3, <1>4, <1>5
    <2> QED  BY <1>3, <2>1
  <1> QED  BY <1>3, <1>5

LEMMA InsertableNext ==
    ASSUME NEW R, IsList(R), NEW Q, IsList(Q), IsRest(Q, R),
           NEW rec, NEW one, Began(one, rec, R), R[1].f \notin DOMAIN rec
    PROVE  /\ Insertable(rec, R) \in 1 .. Len(R)
           /\ Insertable(one, Q) = Insertable(rec, R) - 1
  <1> DEFINE n == Insertable(rec, R)
  <1>1. Len(R) \in Nat /\ Len(R) # 0 /\ Len(Q) = Len(R) - 1
    BY DEF IsRest
  <1>2. n \in 0 .. Len(R) /\ Fits(rec, R, n)
    BY InsertableFacts
  <1>3. n # 0
    BY <1>1, <1>2 DEF Fits
  <1>4. n \in 1 .. Len(R) /\ n - 1 \in 0 .. Len(Q)
    BY <1>1, <1>2, <1>3
  <1>5. ASSUME NEW i \in 1 .. Len(Q)
        PROVE  Q[i] = R[i + 1] /\ i + 1 \in 1 .. Len(R) /\ R[i + 1].f # R[1].f
    <2>1. i + 1 \in 1 .. Len(R) /\ 1 \in 1 .. Len(R) /\ i + 1 # 1
      BY <1>1
    <2> QED  BY DEF IsList, IsRest
  <1>6. ASSUME NEW i \in 1 .. n - 1 PROVE Q[i].f \notin DOMAIN one
    <2>1. i \in 1 .. Len(Q) /\ i + 1 \in 1 .. n
      BY <1>4
    <2>2. R[i + 1].f \notin DOMAIN rec
      BY <1>2 DEF Fits
    <2> QED  BY <1>5, <2>1, <2>2 DEF Began
  <1>7. ASSUME n - 1 < Len(Q) PROVE Q[(n - 1) + 1].f \in DOMAIN one
    <2>1. n < Len(R) /\ (n - 1) + 1 = n /\ n \in 1 .. Len(Q)
      BY <1>1, <1>4, <1>7
    <2>2. R[n + 1].f \in DOMAIN rec
      BY <1>2, <2>1 DEF Fits
    <2> QED  BY <1>5, <2>1, <2>2 DEF Began
  <1>8. Fits(one, Q, n - 1)
    BY <1>6, <1>7 DEF Fits
  <1>9. n - 1 = Insertable(one, Q)
    BY <1>4, <1>8, InsertableFacts
  <1> QED  BY <1>4, <1>9

\* The arguments of a request, and what is still to be stored of them.
LEMMA RestFacts ==
    ASSUME NEW t \in Threads, TypeOK, req[t] \in Requests, req[t].op \in {"i", "u"}
    PROVE  /\ IsList(Rest(t))
           /\ pos[t] = 1 => Rest(t) = req[t].values
           /\ Rest(t) # <<>> =>
                /\ Len(Rest(t)) # 0
                /\ Head(Rest(t)) = Rest(t)[1]
                /\ IsList(SubSeq(req[t].values, pos[t] + 1, Len(req[t].values)))
                /\ IsRest(SubSeq(req[t].values, pos[t] + 1, Len(req[t].values)), Rest(t))
  <1> DEFINE Sub(p) == SubSeq(req[t].values, p, Len(req[t].values))
  <1>1. /\ req[t].values \in Seq(Pair) /\ pos[t] \in Nat \ {0}
        /\ \A i, j \in 1 .. Len(req[t].values) : req[t].values[i].f = req[t].values[j].f => i = j
        /\ Len(req[t].values) \in Nat
    <2>1. req[t].values \in Seq(Pair) /\ pos[t] \in Nat \ {0}
      BY HashAssumption DEF TypeOK, Pair
    <2>2. Len(req[t].values) \in Nat /\ DOMAIN req[t].values = 1 .. Len(req[t].values)
      OBVIOUS
    <2> QED  BY <2>1, HashAssumption
  <1>2. ASSUME NEW p \in Nat \ {0}
        PROVE  /\ IsList(Sub(p))
               /\ Len(Sub(p)) = IF p <= Len(req[t].values) THEN Len(req[t].values) - p + 1 ELSE 0
               /\ \A i \in 1 .. Len(Sub(p)) : Sub(p)[i] = req[t].values[p + i - 1]
    <2>1. \A i \in p .. Len(req[t].values) : req[t].values[i] \in Pair
      <3>1. \A i \in p .. Len(req[t].values) : i \in 1 .. Len(req[t].values)
        BY <1>1
      <3> QED  BY <1>1
    <2>2. /\ Sub(p) \in Seq(Pair)
          /\ Len(Sub(p)) = IF p <= Len(req[t].values) THEN Len(req[t].values) - p + 1 ELSE 0
          /\ \A i \in 1 .. Len(req[t].values) - p + 1 : Sub(p)[i] = req[t].values[p + i - 1]
      BY <2>1
    <2>3. \A i \in 1 .. Len(Sub(p)) :
            /\ Sub(p)[i] = req[t].values[p + i - 1]
            /\ p + i - 1 \in 1 .. Len(req[t].values)
      OBVIOUS
    <2>4. ASSUME NEW i \in 1 .. Len(Sub(p)), NEW j \in 1 .. Len(Sub(p)), Sub(p)[i].f = Sub(p)[j].f
          PROVE  i = j
      <3>1. p + i - 1 = p + j - 1
        <4>1. req[t].values[p + i - 1].f = req[t].values[p + j - 1].f
          BY <2>4
        <4> QED  BY <1>1, <4>1
      <3>2. i \in Int /\ j \in Int
        OBVIOUS
      <3> QED  BY <3>1
    <2> QED  BY <2>2, <2>3, <2>4 DEF IsList
  <1>3. IsList(Rest(t))
    BY <1>1, <1>2 DEF Rest
  <1>4. ASSUME pos[t] = 1 PROVE Rest(t) = req[t].values
    <2>1. SubSeq(req[t].values, 1, Len(req[t].values)) = req[t].values
      BY <1>1
    <2> QED  BY <1>4, <2>1 DEF Rest
  <1>5. ASSUME Rest(t) # <<>>
        PROVE  /\ Len(Rest(t)) # 0
               /\ Head(Rest(t)) = Rest(t)[1]
               /\ IsList(Sub(pos[t] + 1))
               /\ IsRest(Sub(pos[t] + 1), Rest(t))
    <2>1. Len(Rest(t)) # 0 /\ Head(Rest(t)) = Rest(t)[1]
      <3>1. Rest(t) \in Seq(Pair)
        BY <1>3 DEF IsList
      <3> QED  BY <1>5
    <2>2. pos[t] + 1 \in Nat \ {0}
      BY <1>1
    <2>3. /\ Len(Rest(t)) = Len(req[t].values) - pos[t] + 1
          /\ Len(Sub(pos[t] + 1)) = Len(req[t].values) - pos[t]
      BY <1>1, <2>1 DEF Rest
    <2>4. \A i \in 1 .. Len(Sub(pos[t] + 1)) : Sub(pos[t] + 1)[i] = Rest(t)[i + 1]
      <3>1. \A i \in 1 .. Len(Sub(pos[t] + 1)) :
              /\ i + 1 \in 1 .. Len(Rest(t))
              /\ (pos[t] + 1) + i - 1 = pos[t] + (i + 1) - 1
        <4>1. PICK p \in Nat, l \in Nat : p = pos[t] /\ l = Len(req[t].values)
          BY <1>1
        <4>2. \A i \in 1 .. l - p : i + 1 \in 1 .. l - p + 1 /\ (p + 1) + i - 1 = p + (i + 1) - 1
          OBVIOUS
        <4> QED  BY <2>3, <4>1, <4>2
      <3>2. \A i \in 1 .. Len(Rest(t)) : Rest(t)[i] = req[t].values[pos[t] + i - 1]
        BY <1>1 DEF Rest
      <3>3. \A i \in 1 .. Len(Sub(pos[t] + 1)) :
              Sub(pos[t] + 1)[i] = req[t].values[(pos[t] + 1) + i - 1]
        BY <2>2
      <3> QED  BY <3>1, <3>2, <3>3
    <2> QED  BY <1>2, <2>2, <2>3, <2>4 DEF IsRest
  <1> QED  BY <1>3, <1>4, <1>5

-----------------------------------------------------------------------------
(* The service. *)

\* What a thread has done of its call so far.
AtWork(t) ==
    /\ pc[t] \in {"idle", "wait", "find", "copyout"} => pos[t] = 1
    /\ pc[t] \notin {"drop", "free", "done"} => ans[t] = NoAnswer
    /\ pc[t] = "copyout" => req[t].op = "s" /\ seen[t] \in Entries(req[t].key, req[t].len)
    /\ pc[t] = "put" => heap[hand[t]] = Head(Rest(t)).v
    /\ pc[t] = "drop" /\ ans[t] # NoAnswer =>
        req[t].op = "i" /\ ans[t] = [status |-> "kErrorConflict"]

RInv == IInv /\ DOMAIN ans = Threads /\ \A t \in Threads : AtWork(t)

\* The record that the service has under k.
View(k) ==
    IF lock # Nobody /\ Filling(lock) /\ req[lock].key = k
    THEN Completed(k, lock)
    ELSE Contents(k)

ServiceStep == Service!Next \/ UNCHANGED Service!vars

LEMMA ServiceData ==
    /\ Service!NoCall = NoCall
    /\ Service!NoAnswer = NoAnswer
    /\ \A tab, r : Service!Effect(tab, r) = Effect(tab, r) /\ Service!Answers(tab, r) = Answers(tab, r)
  <1>1. Service!NoCall = NoCall /\ Service!NoAnswer = NoAnswer
    BY DEF Service!NoCall, NoCall, Service!NoAnswer, NoAnswer
  <1>2. \A rec, vs : Service!Insertable(rec, vs) = Insertable(rec, vs)
    BY DEF Service!Insertable, Insertable
  <1>3. \A rec : Service!Base(rec) = Base(rec)
    BY DEF Service!Base, Base
  <1>4. \A rec, vs, n : Service!Stored(rec, vs, n) = Stored(rec, vs, n)
    BY DEF Service!Stored, Stored
  <1>5. \A tab, r : Service!Effect(tab, r) = Effect(tab, r)
    <2>1. \A old, r : Service!Written(old, r) = Written(old, r)
      BY <1>2, <1>3, <1>4 DEF Service!Written, Written
    <2> QED  BY <2>1 DEF Service!Effect, Effect
  <1>6. ASSUME NEW tab, NEW r PROVE Service!Answers(tab, r) = Answers(tab, r)
    <2>1. Service!Present(tab) = Present(tab)
      BY DEF Service!Present, Present
    <2>2. \A rec, fs : Service!Selected(rec, fs) = Selected(rec, fs)
      BY DEF Service!Selected, Selected
    <2>3. \A S : Service!Cardinality(S) = Cardinality(S)
      BY DEF Service!Cardinality, Cardinality
    <2>4. Service!Met(tab, r) = Met(tab, r)
      BY <2>1, <2>3 DEF Service!Met, Met
    <2> QED  BY <1>2, <1>3, <2>1, <2>2, <2>4 DEF Service!Answers, Answers
  <1> QED  BY <1>1, <1>5, <1>6

LEMMA AbstractFunctions ==
    /\ AbsStore = [k \in Keys |-> View(k)]
    /\ AbsPhase = [t \in Threads |-> AbsPhase[t]]
    /\ AbsAnswer = [t \in Threads |-> AbsAnswer[t]]
    /\ AbsStore' = [k \in Keys |-> View(k)']
    /\ AbsPhase' = [t \in Threads |-> AbsPhase'[t]]
    /\ AbsAnswer' = [t \in Threads |-> AbsAnswer'[t]]
  BY DEF AbsStore, AbsPhase, AbsAnswer, View

LEMMA FunctionUpdate ==
    ASSUME NEW S, NEW c \in S, NEW f, NEW g, NEW v,
           f = [d \in S |-> f[d]], g = [d \in S |-> g[d]],
           \A d \in S : d # c => g[d] = f[d], g[c] = v
    PROVE  g = [f EXCEPT ![c] = v]
  OBVIOUS

\* While the holder of the lock is not filling a record, the service has what
\* the tables have.
LEMMA PlainView ==
    ASSUME NEW t, lock = t, ~Filling(t)
    PROVE  \A k : View(k) = Contents(k)
  BY DEF View

LEMMA PlainViewAfter ==
    ASSUME NEW t, lock' = t, ~Filling(t)'
    PROVE  \A k : View(k)' = Contents(k)'
  BY DEF View

\* The answers of the threads outside.
LEMMA AnswerLocal ==
    ASSUME RInv, NEW t \in Threads, Inside(t), pc' = [pc EXCEPT ![t] = pc'[t]],
           \A s \in Threads : s # t => ans'[s] = ans[s],
           NEW a, AbsAnswer'[t] = a
    PROVE  AbsAnswer' = [AbsAnswer EXCEPT ![t] = a]
  <1>1. ASSUME NEW s \in Threads, s # t PROVE AbsAnswer'[s] = AbsAnswer[s]
    <2>1. pc[s] \in {"idle", "wait"} /\ pc'[s] = pc[s]
      BY <1>1, OnlyHolder DEF RInv, IInv, TypeOK
    <2> QED  BY <1>1, <2>1 DEF AbsAnswer, Filling
  <1> QED  BY <1>1, AbstractFunctions

LEMMA PhaseLocal ==
    ASSUME RInv, NEW t \in Threads, pc' = [pc EXCEPT ![t] = pc'[t]], NEW p, AbsPhase'[t] = p
    PROVE  AbsPhase' = [AbsPhase EXCEPT ![t] = p]
  <1>1. \A s \in Threads : s # t => AbsPhase'[s] = AbsPhase[s]
    BY DEF RInv, IInv, TypeOK, AbsPhase
  <1> QED  BY <1>1, AbstractFunctions

\* A step inside a call that the service does not see.
LEMMA Unseen ==
    ASSUME RInv, NEW t \in Threads, Inside(t), pc' = [pc EXCEPT ![t] = pc'[t]],
           \A s \in Threads : s # t => ans'[s] = ans[s], req' = req,
           AbsPhase'[t] = AbsPhase[t], AbsAnswer'[t] = AbsAnswer[t],
           \A k \in Keys : View(k)' = View(k)
    PROVE  ServiceStep
  <1>1. AbsPhase' = [AbsPhase EXCEPT ![t] = AbsPhase[t]]
    BY PhaseLocal
  <1>2. AbsAnswer' = [AbsAnswer EXCEPT ![t] = AbsAnswer[t]]
    BY AnswerLocal
  <1>3. AbsStore' = AbsStore
    BY AbstractFunctions
  <1> QED  BY <1>1, <1>2, AbstractFunctions DEF ServiceStep, Service!vars

\* The step in which a call takes effect.
LEMMA Applies ==
    ASSUME RInv, NEW t \in Threads, Inside(t), pc' = [pc EXCEPT ![t] = pc'[t]],
           \A s \in Threads : s # t => ans'[s] = ans[s], req' = req,
           AbsPhase[t] = "pending", AbsPhase'[t] = "done",
           AbsAnswer'[t] \in Answers(AbsStore, req[t]),
           AbsStore' = Effect(AbsStore, req[t])
    PROVE  ServiceStep
  <1>1. AbsPhase' = [AbsPhase EXCEPT ![t] = "done"]
    BY PhaseLocal
  <1>2. AbsAnswer' = [AbsAnswer EXCEPT ![t] = AbsAnswer'[t]]
    BY AnswerLocal
  <1>3. Service!Apply(t)
    BY <1>1, <1>2, ServiceData DEF Service!Apply
  <1> QED  BY <1>3 DEF ServiceStep, Service!Next

\* What the fields of a record point to.
LEMMA ContentsFacts ==
    ASSUME IInv, NEW k \in Keys
    PROVE  /\ Contents(k) = NoRecord <=> table[k] = NoRecord
           /\ table[k] # NoRecord =>
                /\ DOMAIN Contents(k) = DOMAIN table[k]
                /\ \A f \in DOMAIN table[k] : Contents(k)[f] = heap[table[k][f]]
                /\ Contents(k) = [f \in DOMAIN Contents(k) |-> Contents(k)[f]]
  <1>1. CASE table[k] = NoRecord
    BY <1>1 DEF Contents
  <1>2. CASE table[k] # NoRecord
    <2>1. table[k] \in Record
      BY <1>2 DEF IInv, TypeOK
    <2>2. ASSUME NEW f \in DOMAIN table[k] PROVE heap[table[k][f]] \in Vals
      <3>1. f \in Fields /\ table[k][f] \in Blocks
        BY <2>1, RecordFacts
      <3>2. Kept(k, f) = table[k][f] /\ Kept(k, f) # NoBlock
        BY <1>2, <3>1, HashAssumption DEF Kept, Field
      <3>3. heap[table[k][f]] # Free
        BY <3>1, <3>2 DEF IInv, Owned, Live
      <3> QED  BY <3>1, <3>3 DEF IInv, TypeOK
    <2>3. Contents(k) = [f \in DOMAIN table[k] |-> heap[table[k][f]]]
      BY <1>2 DEF Contents
    <2>4. Contents(k) \in [DOMAIN table[k] -> Blocks \cup Vals] /\ DOMAIN table[k] \in SUBSET Fields
      BY <2>1, <2>2, <2>3, RecordFacts
    <2>5. Contents(k) # NoRecord
      BY <2>4, HashAssumption
    <2> QED  BY <1>2, <2>3, <2>5
  <1> QED  BY <1>1, <1>2

LEMMA PresentView ==
    ASSUME IInv, NEW t, lock = t, ~Filling(t)
    PROVE  Present(AbsStore) = Present(table) /\ \A k \in Keys : AbsStore[k] = Contents(k)
  <1>1. \A k \in Keys : AbsStore[k] = Contents(k)
    BY AbstractFunctions, PlainView
  <1> QED  BY <1>1, ContentsFacts DEF Present

-----------------------------------------------------------------------------
(* Which step of the service each action is. *)

LEMMA OthersAtWork ==
    ASSUME RInv, NEW t \in Threads, Inside(t), pc' = [pc EXCEPT ![t] = pc'[t]],
           \A s \in Threads : s # t => ans'[s] = ans[s] /\ pos'[s] = pos[s],
           AtWork(t)'
    PROVE  \A s \in Threads : AtWork(s)'
  <1>1. ASSUME NEW s \in Threads, s # t PROVE AtWork(s)'
    <2>1. pc[s] \in {"idle", "wait"} /\ pc'[s] = pc[s]
      BY <1>1, OnlyHolder DEF RInv, IInv, TypeOK
    <2> QED  BY <2>1 DEF RInv, AtWork
  <1> QED  BY <1>1

LEMMA CallStep ==
    ASSUME RInv, NEW t \in Threads, Call(t)
    PROVE  ServiceStep /\ \A s \in Threads : AtWork(s)'
  <1>1. /\ pc[t] = "idle" /\ pc' = [pc EXCEPT ![t] = "wait"]
        /\ UNCHANGED <<lock, table, heap, pos, hand, doomed, seen, ans>>
        /\ \E r \in Requests : req' = [req EXCEPT ![t] = r]
    BY DEF Call, Goto, private
  <1>2. lock # t /\ \A s \in Threads : s # t => pc'[s] = pc[s] /\ req'[s] = req[s]
    BY <1>1 DEF RInv, IInv, Mutex, Inside
  <1>3. ASSUME NEW k \in Keys PROVE View(k)' = View(k)
    <2>1. lock \in Threads \cup {Nobody}
      BY DEF RInv, IInv, TypeOK
    <2> QED  BY <1>1, <1>2, <2>1 DEF View, Completed, Contents, Filling, Rest
  <1>4. AbsPhase[t] = "idle" /\ AbsPhase' = [AbsPhase EXCEPT ![t] = "pending"]
    <2>1. AbsPhase[t] = "idle" /\ AbsPhase'[t] = "pending" /\ pc' = [pc EXCEPT ![t] = pc'[t]]
      BY <1>1 DEF RInv, IInv, TypeOK, AbsPhase
    <2> QED  BY <2>1, PhaseLocal
  <1>5. AbsAnswer' = AbsAnswer
    <2>1. ASSUME NEW s \in Threads PROVE AbsAnswer'[s] = AbsAnswer[s]
      <3>1. CASE s = t
        BY <1>1, <3>1 DEF AbsAnswer, Filling
      <3>2. CASE s # t
        <4>1. req'[s] = req[s] /\ Rest(s)' = Rest(s) /\ Filling(s)' = Filling(s)
          BY <1>1, <1>2, <3>2 DEF Filling, Rest
        <4>2. \A k : Contents(k)' = Contents(k)
          BY <1>1 DEF Contents
        <4> QED  BY <1>1, <4>1, <4>2 DEF AbsAnswer
      <3> QED  BY <3>1, <3>2
    <2> QED  BY <2>1, AbstractFunctions
  <1>6. AbsStore' = AbsStore
    BY <1>3, AbstractFunctions
  <1>7. Service!Invoke(t)
    BY <1>1, <1>4, <1>5, <1>6 DEF Service!Invoke
  <1>8. ASSUME NEW s \in Threads PROVE AtWork(s)'
    <2>1. CASE s = t
      BY <1>1, <2>1 DEF RInv, AtWork
    <2>2. CASE s # t
      <3>1. pc'[s] = pc[s] /\ req'[s] = req[s] /\ Rest(s)' = Rest(s)
        BY <1>1, <1>2, <2>2 DEF Rest
      <3>2. Entries(req[s].key, req[s].len)' = Entries(req[s].key, req[s].len)
        BY <1>1, <3>1 DEF Entries
      <3> QED  BY <1>1, <3>1, <3>2 DEF RInv, AtWork
    <2> QED  BY <2>1, <2>2
  <1> QED  BY <1>7, <1>8 DEF ServiceStep, Service!Next

LEMMA LockStep ==
    ASSUME RInv, NEW t \in Threads, Lock(t)
    PROVE  ServiceStep /\ \A s \in Threads : AtWork(s)'
  <1>1. /\ pc[t] = "wait" /\ pc' = [pc EXCEPT ![t] = "find"]
        /\ lock = Nobody /\ lock' = t
        /\ UNCHANGED <<table, heap, req, pos, hand, doomed, seen, ans>>
    BY DEF Lock, MayLock, Goto, calls, private
  <1>2. \A s \in Threads : pc[s] \in {"idle", "wait"} /\ (s # t => pc'[s] = pc[s])
    BY <1>1, HashAssumption DEF RInv, IInv, Mutex, Inside
  <1>3. ASSUME NEW k \in Keys PROVE View(k)' = View(k)
    BY <1>1 DEF View, Contents, Filling
  <1>4. AbsPhase' = AbsPhase
    BY <1>1 DEF AbsPhase
  <1>5. AbsAnswer' = AbsAnswer
    BY <1>1, <1>2 DEF AbsAnswer, Filling
  <1>6. AbsStore' = AbsStore
    BY <1>3, AbstractFunctions
  <1>7. \A s \in Threads : AtWork(s)'
    BY <1>1, <1>2 DEF RInv, AtWork
  <1> QED  BY <1>1, <1>4, <1>5, <1>6, <1>7 DEF ServiceStep, Service!vars

LEMMA ReturnStep ==
    ASSUME RInv, NEW t \in Threads, Return(t)
    PROVE  ServiceStep /\ \A s \in Threads : AtWork(s)'
  <1>1. /\ pc[t] = "done" /\ pc' = [pc EXCEPT ![t] = "idle"]
        /\ lock' = Nobody /\ req' = [req EXCEPT ![t] = NoCall]
        /\ pos' = [pos EXCEPT ![t] = 1] /\ ans' = [ans EXCEPT ![t] = NoAnswer]
        /\ UNCHANGED <<table, heap, hand, doomed, seen>>
    BY DEF Return, Goto, Answered
  <1>2. Inside(t) /\ lock = t /\ ~Filling(t) /\ pc' = [pc EXCEPT ![t] = pc'[t]]
    BY <1>1 DEF RInv, IInv, Mutex, Inside, Filling
  <1>3. ASSUME NEW k \in Keys PROVE View(k)' = View(k)
    BY <1>1, <1>2 DEF View, Contents
  <1>4. AbsStore' = AbsStore
    BY <1>3, AbstractFunctions
  <1>5. AbsPhase[t] = "done" /\ AbsPhase' = [AbsPhase EXCEPT ![t] = "idle"]
    <2>1. AbsPhase[t] = "done" /\ AbsPhase'[t] = "idle"
      BY <1>1 DEF RInv, IInv, TypeOK, AbsPhase
    <2> QED  BY <1>2, <2>1, PhaseLocal
  <1>6. ans'[t] = NoAnswer /\ pos'[t] = 1 /\ pc'[t] = "idle" /\ \A s \in Threads : s # t => ans'[s] = ans[s] /\ pos'[s] = pos[s]
    <2>1. DOMAIN ans = Threads /\ DOMAIN pos = Threads /\ DOMAIN pc = Threads
      BY DEF RInv, IInv, TypeOK
    <2> QED  BY <1>1, <2>1
  <1>7. AbsAnswer' = [AbsAnswer EXCEPT ![t] = NoAnswer]
    <2>1. AbsAnswer'[t] = NoAnswer
      BY <1>6 DEF AbsAnswer, Filling
    <2> QED  BY <1>2, <1>6, <2>1, AnswerLocal
  <1>8. Service!Return(t)
    BY <1>1, <1>4, <1>5, <1>7, ServiceData DEF Service!Return
  <1>9. AtWork(t)'
    BY <1>6 DEF AtWork
  <1> QED  BY <1>2, <1>6, <1>8, <1>9, OthersAtWork DEF ServiceStep, Service!Next

LEMMA ReadStep ==
    ASSUME RInv, NEW t \in Threads, Read(t)
    PROVE  ServiceStep /\ \A s \in Threads : AtWork(s)'
  <1>1. /\ pc[t] = "find" /\ pc' = [pc EXCEPT ![t] = "done"] /\ req[t].op = "r"
        /\ UNCHANGED <<lock, table, heap, req, pos, hand, doomed, seen>>
    BY DEF Read, Goto, calls
  <1>2. /\ Inside(t) /\ lock = t /\ ~Filling(t) /\ ~Filling(t)' /\ pc' = [pc EXCEPT ![t] = pc'[t]]
        /\ req[t].key \in Keys
    BY <1>1, HashAssumption DEF RInv, IInv, TypeOK, Mutex, Inside, Filling, Storing
  <1>3. /\ \A s \in Threads : s # t => ans'[s] = ans[s]
        /\ ans'[t] = IF req[t].key \in Present(table)
                     THEN [status |-> "kOK", row |-> Pairs(req[t].key, req[t].fields)]
                     ELSE [status |-> "kErrorNoData"]
    BY DEF RInv, Read, Answered
  <1>4. AbsAnswer'[t] = ans'[t]
    BY <1>2 DEF AbsAnswer
  <1>5. AbsAnswer'[t] \in Answers(AbsStore, req[t])
    <2>1. Present(AbsStore) = Present(table) /\ AbsStore[req[t].key] = Contents(req[t].key)
      BY <1>2, PresentView DEF RInv
    <2> QED  BY <1>1, <1>3, <1>4, <2>1 DEF Answers, Pairs
  <1>6. AbsStore' = AbsStore
    <2>1. \A k \in Keys : View(k)' = View(k)
      BY <1>1, <1>2, PlainView, PlainViewAfter DEF Contents
    <2> QED  BY <2>1, AbstractFunctions
  <1>7. AbsStore' = Effect(AbsStore, req[t])
    BY <1>1, <1>6 DEF Effect
  <1>8. AbsPhase[t] = "pending" /\ AbsPhase'[t] = "done"
    BY <1>1 DEF RInv, IInv, TypeOK, AbsPhase
  <1>9. AtWork(t)'
    BY <1>1 DEF RInv, IInv, TypeOK, AtWork
  <1> QED  BY <1>1, <1>2, <1>3, <1>5, <1>7, <1>8, <1>9, Applies, OthersAtWork

LEMMA ScanStep ==
    ASSUME RInv, NEW t \in Threads, Scan(t)
    PROVE  ServiceStep /\ \A s \in Threads : AtWork(s)'
  <1>1. /\ pc[t] = "find" /\ pc' = [pc EXCEPT ![t] = "copyout"] /\ req[t].op = "s"
        /\ UNCHANGED <<lock, table, heap, req, pos, hand, doomed, ans>>
    BY DEF Scan, Goto, calls
  <1>2. /\ Inside(t) /\ lock = t /\ ~Filling(t) /\ ~Filling(t)' /\ pc' = [pc EXCEPT ![t] = pc'[t]]
    BY <1>1 DEF RInv, IInv, TypeOK, Mutex, Inside, Filling
  <1>3. seen'[t] \in Entries(req[t].key, req[t].len)
    BY DEF RInv, IInv, TypeOK, Scan
  <1>4. AbsAnswer'[t] = AbsAnswer[t]
    BY <1>1, <1>2 DEF AbsAnswer
  <1>5. \A k \in Keys : View(k)' = View(k)
    BY <1>1, <1>2, PlainView, PlainViewAfter DEF Contents
  <1>6. AbsPhase'[t] = AbsPhase[t]
    BY <1>1 DEF AbsPhase
  <1>7. AtWork(t)'
    BY <1>1, <1>3 DEF RInv, IInv, TypeOK, AtWork, Entries
  <1> QED  BY <1>1, <1>2, <1>4, <1>5, <1>6, <1>7, Unseen, OthersAtWork

LEMMA CopyOutStep ==
    ASSUME RInv, NEW t \in Threads, CopyOut(t)
    PROVE  ServiceStep /\ \A s \in Threads : AtWork(s)'
  <1>1. /\ pc[t] = "copyout" /\ pc' = [pc EXCEPT ![t] = "done"]
        /\ UNCHANGED <<lock, table, heap, req, pos, hand, doomed>>
    BY DEF CopyOut, Goto, calls
  <1>2. /\ Inside(t) /\ lock = t /\ ~Filling(t) /\ ~Filling(t)' /\ pc' = [pc EXCEPT ![t] = pc'[t]]
    BY <1>1 DEF RInv, IInv, TypeOK, Mutex, Inside, Filling
  <1>3. /\ \A s \in Threads : s # t => ans'[s] = ans[s]
        /\ ans'[t] = [status |-> "kOK", rows |-> [k \in seen[t] |-> Pairs(k, req[t].fields)]]
    <2>1. DOMAIN ans = Threads
      BY DEF RInv
    <2> QED  BY <2>1 DEF CopyOut, Answered
  <1>4. req[t].op = "s" /\ seen[t] \in Entries(req[t].key, req[t].len)
    BY <1>1 DEF RInv, AtWork
  <1>5. AbsAnswer'[t] \in Answers(AbsStore, req[t])
    <2>1. Present(AbsStore) = Present(table) /\ \A k \in Keys : AbsStore[k] = Contents(k)
      BY <1>2, PresentView DEF RInv
    <2>2. seen[t] \in Met(AbsStore, req[t])
      BY <1>4, <2>1 DEF Entries, Met
    <2>3. seen[t] \subseteq Keys
      BY DEF RInv, IInv, TypeOK
    <2>4. ans'[t] = [status |-> "kOK", rows |-> [k \in seen[t] |-> Selected(AbsStore[k], req[t].fields)]]
      BY <1>3, <2>1, <2>3 DEF Pairs
    <2>5. AbsAnswer'[t] = ans'[t]
      BY <1>2 DEF AbsAnswer
    <2> QED  BY <1>4, <2>2, <2>4, <2>5 DEF Answers
  <1>6. AbsStore' = AbsStore
    <2>1. \A k \in Keys : View(k)' = View(k)
      BY <1>1, <1>2, PlainView, PlainViewAfter DEF Contents
    <2> QED  BY <2>1, AbstractFunctions
  <1>7. AbsStore' = Effect(AbsStore, req[t])
    BY <1>4, <1>6 DEF Effect
  <1>8. AbsPhase[t] = "pending" /\ AbsPhase'[t] = "done"
    BY <1>1 DEF RInv, IInv, TypeOK, AbsPhase
  <1>9. AtWork(t)'
    BY <1>1 DEF RInv, IInv, TypeOK, AtWork
  <1> QED  BY <1>1, <1>2, <1>3, <1>5, <1>7, <1>8, <1>9, Applies, OthersAtWork

LEMMA RemoveStep ==
    ASSUME RInv, NEW t \in Threads, Remove(t)
    PROVE  ServiceStep /\ \A s \in Threads : AtWork(s)'
  <1>1. PICK k : k = req[t].key
    OBVIOUS
  <1>2. /\ pc[t] = "find" /\ req[t].op = "d"
        /\ pc' = [pc EXCEPT ![t] = IF k \in Present(table) THEN "free" ELSE "done"]
        /\ table' = [table EXCEPT ![k] = NoRecord]
        /\ UNCHANGED <<lock, heap, req, pos, hand, seen>>
    BY <1>1 DEF Remove, Goto, Removed, calls
  <1>3. /\ Inside(t) /\ lock = t /\ ~Filling(t) /\ ~Filling(t)' /\ pc' = [pc EXCEPT ![t] = pc'[t]]
        /\ k \in Keys
    BY <1>1, <1>2, HashAssumption DEF RInv, IInv, TypeOK, Mutex, Inside, Filling, Storing
  <1>4. /\ \A s \in Threads : s # t => ans'[s] = ans[s]
        /\ ans'[t] = [status |-> IF k \in Present(table) THEN "kOK" ELSE "kErrorNoData"]
    <2>1. DOMAIN ans = Threads
      BY DEF RInv
    <2> QED  BY <1>1, <2>1 DEF Remove, Answered
  <1>5. AbsAnswer'[t] \in Answers(AbsStore, req[t])
    <2>1. Present(AbsStore) = Present(table)
      BY <1>3, PresentView DEF RInv
    <2>2. AbsAnswer'[t] = ans'[t]
      BY <1>3 DEF AbsAnswer
    <2> QED  BY <1>1, <1>2, <1>4, <2>1, <2>2 DEF Answers
  <1>6. AbsStore' = Effect(AbsStore, req[t])
    <2>1. \A l \in Keys : l # k => View(l)' = View(l)
      BY <1>2, <1>3, PlainView, PlainViewAfter DEF Contents
    <2>2. View(k)' = NoRecord
      BY <1>2, <1>3, PlainViewAfter DEF RInv, IInv, TypeOK, Contents
    <2>3. AbsStore' = [AbsStore EXCEPT ![k] = NoRecord]
      BY <2>1, <2>2, AbstractFunctions
    <2> QED  BY <1>1, <1>2, <2>3 DEF Effect, Written
  <1>7. AbsPhase[t] = "pending" /\ AbsPhase'[t] = "done"
    BY <1>2 DEF RInv, IInv, TypeOK, AbsPhase
  <1>8. AtWork(t)'
    BY <1>2 DEF RInv, IInv, TypeOK, AtWork
  <1> QED  BY <1>2, <1>3, <1>4, <1>5, <1>6, <1>7, <1>8, Applies, OthersAtWork

-----------------------------------------------------------------------------
(* Writes: the service sees the record as it will be when the list is done. *)

\* A field points to a block in use.
LEMMA FieldsLive ==
    ASSUME IInv, NEW k \in Keys, table[k] # NoRecord, NEW f \in DOMAIN table[k]
    PROVE  /\ f \in Fields /\ table[k][f] \in Blocks
           /\ Kept(k, f) = table[k][f]
           /\ heap[table[k][f]] # Free
  <1>1. table[k] \in Record
    BY DEF IInv, TypeOK
  <1>2. f \in Fields /\ table[k][f] \in Blocks
    BY <1>1, RecordFacts
  <1>3. Kept(k, f) = table[k][f] /\ Kept(k, f) # NoBlock
    BY <1>2, HashAssumption DEF Kept, Field
  <1> QED  BY <1>2, <1>3 DEF IInv, Owned, Live

\* Blocks that no field points to do not matter to the service.
LEMMA ContentsStay ==
    ASSUME IInv, table' = table,
           \A k \in Keys, f \in Fields :
                Kept(k, f) # NoBlock => heap'[Kept(k, f)] = heap[Kept(k, f)]
    PROVE  \A k \in Keys : Contents(k)' = Contents(k)
  <1>1. ASSUME NEW k \in Keys, table[k] # NoRecord PROVE Contents(k)' = Contents(k)
    <2>1. ASSUME NEW f \in DOMAIN table[k] PROVE heap'[table[k][f]] = heap[table[k][f]]
      BY <1>1, FieldsLive, HashAssumption
    <2> QED  BY <2>1 DEF Contents
  <1> QED  BY <1>1 DEF Contents

\* The holder of the lock while it fills a record.
LEMMA FillingFacts ==
    ASSUME RInv, NEW t \in Threads, Filling(t)
    PROVE  /\ Inside(t) /\ lock = t /\ lock # Nobody
           /\ req[t] \in Requests /\ req[t].key \in Keys /\ req[t].op \in {"i", "u"}
           /\ table[req[t].key] # NoRecord
           /\ IsList(Rest(t)) /\ Len(Rest(t)) \in Nat
           /\ \A k : View(k) = IF k = req[t].key THEN Completed(k, t) ELSE Contents(k)
  <1>1. Inside(t) /\ lock = t /\ lock # Nobody
    BY HashAssumption DEF RInv, IInv, Mutex, Inside, Filling
  <1>2. req[t] \in Requests /\ req[t].op \in {"i", "u"} /\ table[req[t].key] # NoRecord
    BY DEF RInv, IInv, Storing, Filling
  <1>3. IsList(Rest(t)) /\ Len(Rest(t)) \in Nat
    <2>1. IsList(Rest(t))
      BY <1>2, RestFacts DEF RInv, IInv
    <2> QED  BY <2>1
  <1> QED  BY <1>1, <1>2, <1>3, HashAssumption DEF View

\* How it looks afterwards, if it goes on.
LEMMA FillingAfter ==
    ASSUME NEW t \in Threads, lock' = t, Filling(t)'
    PROVE  \A k : View(k)' = IF k = req'[t].key THEN Completed(k, t)' ELSE Contents(k)'
  BY HashAssumption DEF View

LEMMA FindRecordStep ==
    ASSUME RInv, NEW t \in Threads, FindRecord(t)
    PROVE  ServiceStep /\ \A s \in Threads : AtWork(s)'
  <1>1. PICK k : k = req[t].key
    OBVIOUS
  <1>2. /\ pc[t] = "find" /\ req[t].op \in {"i", "u"}
        /\ pc' = [pc EXCEPT ![t] = "store"]
        /\ table' = [table EXCEPT ![k] = IF @ = NoRecord THEN EmptyRecord ELSE @]
        /\ UNCHANGED <<lock, heap, req, pos, hand, doomed, seen, ans>>
    BY <1>1 DEF FindRecord, Goto, calls, private
  <1>3. /\ Inside(t) /\ lock = t /\ ~Filling(t) /\ Filling(t)' /\ pc' = [pc EXCEPT ![t] = pc'[t]]
        /\ k \in Keys /\ req[t] \in Requests
    BY <1>1, <1>2, HashAssumption DEF RInv, IInv, TypeOK, Mutex, Inside, Filling, Storing
  <1>4. Rest(t) = req[t].values /\ Rest(t)' = Rest(t)
    BY <1>2, <1>3, RestFacts DEF RInv, IInv, AtWork, Rest
  <1>5. Contents(k)' = Base(Contents(k))
    <2>1. CASE table[k] = NoRecord
      <3>1. table'[k] = EmptyRecord /\ EmptyRecord # NoRecord /\ DOMAIN EmptyRecord = {}
        BY <1>2, <1>3, <2>1, EmptyIsRecord, RecordFacts DEF RInv, IInv, TypeOK, EmptyRecord
      <3>2. Contents(k)' = [f \in {} |-> heap'[table'[k][f]]]
        BY <3>1 DEF Contents
      <3>3. Contents(k) = NoRecord
        BY <2>1 DEF Contents
      <3> QED  BY <3>2, <3>3 DEF Base
    <2>2. CASE table[k] # NoRecord
      <3>1. table' = table
        BY <1>2, <2>2 DEF RInv, IInv, TypeOK
      <3>2. Contents(k)' = Contents(k)
        BY <1>2, <3>1 DEF Contents
      <3>3. Contents(k) # NoRecord
        BY <1>3, <2>2, ContentsFacts DEF RInv
      <3> QED  BY <3>2, <3>3 DEF Base
    <2> QED  BY <2>1, <2>2
  <1>6. AbsStore[k] = Contents(k) /\ \A l \in Keys : View(l) = Contents(l)
    BY <1>3, PlainView, AbstractFunctions
  <1>7. AbsAnswer'[t] \in Answers(AbsStore, req[t])
    <2>1. AbsAnswer'[t] = [status |-> IF \/ req[t].op = "u"
                                         \/ Insertable(Base(AbsStore[k]), req[t].values) = Len(req[t].values)
                                      THEN "kOK" ELSE "kErrorConflict"]
      <3>1. req' = req /\ Rest(t)' = req[t].values
        BY <1>2, <1>4
      <3>2. Contents(req[t].key)' = Base(AbsStore[k])
        BY <1>1, <1>5, <1>6, <3>1
      <3> QED  BY <1>3, <3>1, <3>2 DEF AbsAnswer
    <2>2. CASE req[t].op = "i"
      BY <1>1, <2>1, <2>2 DEF Answers
    <2>3. CASE req[t].op = "u"
      BY <2>1, <2>3 DEF Answers
    <2> QED  BY <1>2, <2>2, <2>3
  <1>8. AbsStore' = Effect(AbsStore, req[t])
    <2>1. \A l \in Keys : l # k => View(l)' = View(l)
      BY <1>1, <1>2, <1>3, <1>6, FillingAfter DEF Contents
    <2>2. View(k)' = Completed(k, t)'
      BY <1>1, <1>2, <1>3, FillingAfter
    <2>3. Completed(k, t)' = Written(AbsStore[k], req[t])
      BY <1>2, <1>4, <1>5, <1>6 DEF Completed, Written
    <2>4. AbsStore' = [AbsStore EXCEPT ![k] = Written(AbsStore[k], req[t])]
      BY <2>1, <2>2, <2>3, AbstractFunctions
    <2> QED  BY <1>1, <1>2, <2>4 DEF Effect
  <1>9. AbsPhase[t] = "pending" /\ AbsPhase'[t] = "done"
    BY <1>2 DEF RInv, IInv, TypeOK, AbsPhase
  <1>10. AtWork(t)'
    BY <1>2 DEF RInv, AtWork
  <1> QED  BY <1>2, <1>3, <1>7, <1>8, <1>9, <1>10, Applies, OthersAtWork

\* A step that goes on filling and changes neither the record nor the list.
LEMMA FillingOn ==
    ASSUME RInv, NEW t \in Threads, Filling(t), Filling(t)', pc' = [pc EXCEPT ![t] = pc'[t]],
           UNCHANGED <<lock, req, pos, ans>>, \A k \in Keys : Contents(k)' = Contents(k),
           AtWork(t)'
    PROVE  ServiceStep /\ \A s \in Threads : AtWork(s)'
  <1>1. Rest(t)' = Rest(t)
    BY DEF Rest
  <1>2. \A k \in Keys : View(k)' = View(k)
    BY <1>1, FillingFacts, FillingAfter DEF Completed
  <1>3. AbsAnswer'[t] = AbsAnswer[t]
    BY <1>1, FillingFacts DEF AbsAnswer
  <1>4. AbsPhase'[t] = AbsPhase[t]
    BY DEF AbsPhase, Filling
  <1>5. Inside(t)
    BY FillingFacts
  <1> QED  BY <1>2, <1>3, <1>4, <1>5, Unseen, OthersAtWork

LEMMA CopyStringStep ==
    ASSUME RInv, NEW t \in Threads, CopyString(t)
    PROVE  ServiceStep /\ \A s \in Threads : AtWork(s)'
  <1>1. PICK b \in Blocks : /\ heap[b] = Free
                            /\ heap' = [heap EXCEPT ![b] = Head(Rest(t)).v]
                            /\ hand' = [hand EXCEPT ![t] = b]
    BY DEF CopyString
  <1>2. /\ pc[t] = "store" /\ pc' = [pc EXCEPT ![t] = "put"]
        /\ UNCHANGED <<lock, table, req, pos, ans>>
    BY DEF CopyString, Goto, calls
  <1>3. pc'[t] = "put" /\ Filling(t) /\ Filling(t)' /\ pc' = [pc EXCEPT ![t] = pc'[t]]
    BY <1>2 DEF RInv, IInv, TypeOK, Filling
  <1>4. \A k \in Keys : Contents(k)' = Contents(k)
    <2>1. \A k \in Keys, f \in Fields :
            Kept(k, f) # NoBlock => heap'[Kept(k, f)] = heap[Kept(k, f)]
      BY <1>1 DEF RInv, IInv, Owned, Live
    <2> QED  BY <1>2, <2>1, ContentsStay DEF RInv
  <1>5. AtWork(t)'
    <2>1. heap'[hand'[t]] = Head(Rest(t)).v /\ Rest(t)' = Rest(t)
      BY <1>1, <1>2 DEF RInv, IInv, TypeOK, Rest
    <2> QED  BY <1>2, <2>1 DEF RInv, AtWork
  <1> QED  BY <1>2, <1>3, <1>4, <1>5, FillingOn

\* The record and the list after the next pair.
LEMMA PlaceContents ==
    ASSUME RInv, NEW t \in Threads, pc[t] = "put", Place(t), heap' = heap, req' = req,
           NEW k, k = req[t].key
    PROVE  /\ \A l \in Keys : l # k => Contents(l)' = Contents(l)
           /\ Began(Contents(k)', Contents(k), Rest(t))
           /\ IsList(Rest(t)) /\ IsList(Rest(t)') /\ IsRest(Rest(t)', Rest(t))
           /\ Exists(t) <=> Rest(t)[1].f \in DOMAIN Contents(k)
           /\ Head(Rest(t)) = Rest(t)[1]
           /\ pos' = [pos EXCEPT ![t] = pos[t] + 1]
  <1>1. PICK f : f = Head(Rest(t)).f
    OBVIOUS
  <1>2. /\ req[t] \in Requests /\ req[t].op \in {"i", "u"} /\ Rest(t) # <<>>
        /\ k \in Keys /\ table[k] # NoRecord
        /\ heap[hand[t]] = Head(Rest(t)).v
    BY HashAssumption DEF RInv, IInv, Storing, AtWork
  <1>3. pos' = [pos EXCEPT ![t] = pos[t] + 1]
    BY DEF Place, NextPair
  <1>4. Rest(t)' = SubSeq(req[t].values, pos[t] + 1, Len(req[t].values))
    BY <1>3 DEF RInv, IInv, TypeOK, Rest
  <1>5. /\ IsList(Rest(t)) /\ IsList(Rest(t)') /\ IsRest(Rest(t)', Rest(t))
        /\ Head(Rest(t)) = Rest(t)[1]
    BY <1>2, <1>4, RestFacts DEF RInv, IInv
  <1>6. /\ table[k] \in Record
        /\ DOMAIN Contents(k) = DOMAIN table[k]
        /\ \A g \in DOMAIN table[k] : Contents(k)[g] = heap[table[k][g]]
        /\ Contents(k) = [g \in DOMAIN Contents(k) |-> Contents(k)[g]]
    BY <1>2, ContentsFacts DEF RInv, IInv, TypeOK
  <1>7. Exists(t) <=> Rest(t)[1].f \in DOMAIN Contents(k)
    BY <1>6 DEF Exists
  <1> DEFINE new == [g \in DOMAIN table[k] \cup {f} |-> IF g = f THEN hand[t] ELSE table[k][g]]
  <1>8. table' = [table EXCEPT ![k] = new]
    BY <1>1 DEF Place
  <1>9. table'[k] = new /\ \A l \in Keys : l # k => table'[l] = table[l]
    BY <1>2, <1>8 DEF RInv, IInv, TypeOK
  <1>10. \A l \in Keys : l # k => Contents(l)' = Contents(l)
    BY <1>9 DEF Contents
  <1>11. table'[k] # NoRecord
    BY <1>2, PlaceFacts DEF RInv
  <1>12. Contents(k)' = [g \in DOMAIN table[k] \cup {f} |-> heap[new[g]]]
    BY <1>9, <1>11 DEF Contents
  <1>13. Began(Contents(k)', Contents(k), Rest(t))
    <2>1. DOMAIN Contents(k)' = DOMAIN Contents(k) \cup {Rest(t)[1].f}
      <3>1. DOMAIN Contents(k)' = DOMAIN table[k] \cup {f}
        BY <1>12
      <3>2. f = Rest(t)[1].f
        BY <1>1, <1>5
      <3> QED  BY <1>6, <3>1, <3>2
    <2>2. Contents(k)' = [g \in DOMAIN Contents(k)' |-> Contents(k)'[g]]
      BY <1>12
    <2>3. Contents(k)'[Rest(t)[1].f] = Rest(t)[1].v
      BY <1>1, <1>2, <1>5, <1>12
    <2>4. ASSUME NEW g \in DOMAIN Contents(k), g # Rest(t)[1].f
          PROVE  Contents(k)'[g] = Contents(k)[g]
      <3>1. g \in DOMAIN table[k] /\ g # f
        BY <1>1, <1>5, <1>6, <2>4
      <3>2. new[g] = table[k][g]
        BY <3>1
      <3>3. Contents(k)'[g] = heap[new[g]]
        BY <1>12, <3>1
      <3>4. Contents(k)[g] = heap[table[k][g]]
        BY <1>6, <3>1
      <3> QED  BY <3>2, <3>3, <3>4
    <2> QED  BY <1>6, <2>1, <2>2, <2>3, <2>4 DEF Began
  <1> QED  BY <1>3, <1>5, <1>7, <1>10, <1>13

LEMMA PutStep ==
    ASSUME RInv, NEW t \in Threads, Put(t)
    PROVE  ServiceStep /\ \A s \in Threads : AtWork(s)'
  <1>1. PICK k : k = req[t].key
    OBVIOUS
  <1>2. /\ pc[t] = "put" /\ pc' = [pc EXCEPT ![t] = "store"] /\ ~Exists(t) /\ Place(t)
        /\ UNCHANGED <<lock, heap, req, doomed, seen, ans>>
    BY DEF Put, Goto, calls
  <1>3. pc'[t] = "store" /\ Filling(t) /\ Filling(t)' /\ pc' = [pc EXCEPT ![t] = pc'[t]]
    BY <1>2 DEF RInv, IInv, TypeOK, Filling
  <1>4. /\ \A l \in Keys : l # k => Contents(l)' = Contents(l)
        /\ Began(Contents(k)', Contents(k), Rest(t))
        /\ IsList(Rest(t)) /\ IsList(Rest(t)') /\ IsRest(Rest(t)', Rest(t))
        /\ Rest(t)[1].f \notin DOMAIN Contents(k)
        /\ pos' = [pos EXCEPT ![t] = pos[t] + 1]
    BY <1>1, <1>2, PlaceContents
  <1>5. /\ Insertable(Contents(k), Rest(t)) \in 1 .. Len(Rest(t))
        /\ Insertable(Contents(k)', Rest(t)') = Insertable(Contents(k), Rest(t)) - 1
    BY <1>4, InsertableNext
  <1>6. Len(Rest(t)) \in 1 .. Len(Rest(t)) /\ Len(Rest(t)') = Len(Rest(t)) - 1 /\ Len(Rest(t)) \in Nat
    BY <1>4 DEF IsRest
  <1>7. /\ Stored(Contents(k)', Rest(t)', Insertable(Contents(k)', Rest(t)'))
            = Stored(Contents(k), Rest(t), Insertable(Contents(k), Rest(t)))
        /\ Stored(Contents(k)', Rest(t)', Len(Rest(t)')) = Stored(Contents(k), Rest(t), Len(Rest(t)))
    BY <1>4, <1>5, <1>6, StoredNext
  <1>8. \A l \in Keys : View(l)' = View(l)
    BY <1>1, <1>2, <1>3, <1>4, <1>7, FillingFacts, FillingAfter DEF Completed
  <1>9. AbsAnswer'[t] = AbsAnswer[t]
    <2>1. Insertable(Contents(k)', Rest(t)') = Len(Rest(t)') <=> Insertable(Contents(k), Rest(t)) = Len(Rest(t))
      BY <1>5, <1>6
    <2> QED  BY <1>1, <1>2, <1>3, <2>1 DEF AbsAnswer
  <1>10. AbsPhase'[t] = AbsPhase[t]
    BY <1>2 DEF AbsPhase
  <1>11. AtWork(t)' /\ \A s \in Threads : s # t => pos'[s] = pos[s]
    BY <1>2, <1>4 DEF RInv, IInv, TypeOK, AtWork
  <1>12. Inside(t)
    BY <1>3, FillingFacts
  <1> QED  BY <1>2, <1>8, <1>9, <1>10, <1>11, <1>12, Unseen, OthersAtWork

LEMMA ExchangeStep ==
    ASSUME RInv, NEW t \in Threads, Exchange(t)
    PROVE  ServiceStep /\ \A s \in Threads : AtWork(s)'
  <1>1. PICK k : k = req[t].key
    OBVIOUS
  <1>2. /\ pc[t] = "put" /\ pc' = [pc EXCEPT ![t] = "drop"] /\ req[t].op = "u" /\ Place(t)
        /\ UNCHANGED <<lock, heap, req, doomed, seen, ans>>
    BY DEF Exchange, Goto, calls
  <1>3. /\ pc'[t] = "drop" /\ Filling(t) /\ Filling(t)' /\ pc' = [pc EXCEPT ![t] = pc'[t]]
        /\ ans[t] = NoAnswer
    BY <1>2 DEF RInv, IInv, TypeOK, Filling, AtWork
  <1>4. /\ \A l \in Keys : l # k => Contents(l)' = Contents(l)
        /\ Began(Contents(k)', Contents(k), Rest(t))
        /\ IsList(Rest(t)) /\ IsList(Rest(t)') /\ IsRest(Rest(t)', Rest(t))
        /\ pos' = [pos EXCEPT ![t] = pos[t] + 1]
    BY <1>1, <1>2, PlaceContents
  <1>5. Len(Rest(t)) \in 1 .. Len(Rest(t)) /\ Len(Rest(t)') = Len(Rest(t)) - 1 /\ Len(Rest(t)) \in Nat
    BY <1>4 DEF IsRest
  <1>6. Stored(Contents(k)', Rest(t)', Len(Rest(t)')) = Stored(Contents(k), Rest(t), Len(Rest(t)))
    BY <1>4, <1>5, StoredNext
  <1>7. \A l \in Keys : View(l)' = View(l)
    BY <1>1, <1>2, <1>3, <1>4, <1>6, FillingFacts, FillingAfter DEF Completed
  <1>8. AbsAnswer'[t] = AbsAnswer[t] /\ AbsPhase'[t] = AbsPhase[t]
    BY <1>2, <1>3 DEF AbsAnswer, AbsPhase
  <1>9. AtWork(t)' /\ \A s \in Threads : s # t => pos'[s] = pos[s]
    BY <1>2, <1>4 DEF RInv, IInv, TypeOK, AtWork
  <1>10. Inside(t)
    BY <1>3, FillingFacts
  <1> QED  BY <1>2, <1>7, <1>8, <1>9, <1>10, Unseen, OthersAtWork

LEMMA ConflictStep ==
    ASSUME RInv, NEW t \in Threads, Conflict(t)
    PROVE  ServiceStep /\ \A s \in Threads : AtWork(s)'
  <1>1. PICK k : k = req[t].key
    OBVIOUS
  <1>2. /\ pc[t] = "put" /\ pc' = [pc EXCEPT ![t] = "drop"] /\ Exists(t) /\ req[t].op = "i"
        /\ ans' = [ans EXCEPT ![t] = [status |-> "kErrorConflict"]]
        /\ UNCHANGED <<lock, table, heap, req, pos, hand, doomed, seen>>
    BY DEF Conflict, Refused, Answered, Goto, calls
  <1>3. /\ pc'[t] = "drop" /\ ans'[t] = [status |-> "kErrorConflict"]
        /\ \A s \in Threads : s # t => ans'[s] = ans[s]
        /\ pc' = [pc EXCEPT ![t] = pc'[t]]
    BY <1>2 DEF RInv, IInv, TypeOK
  <1>4. Filling(t) /\ ~Filling(t)'
    BY <1>2, <1>3 DEF Filling, NoAnswer
  <1>5. /\ Inside(t) /\ lock = t /\ k \in Keys /\ table[k] # NoRecord /\ IsList(Rest(t))
        /\ Len(Rest(t)) \in Nat
        /\ \A l : View(l) = IF l = k THEN Completed(k, t) ELSE Contents(l)
    BY <1>1, <1>4, FillingFacts
  <1>6. Contents(k) = [f \in DOMAIN Contents(k) |-> Contents(k)[f]] /\ DOMAIN Contents(k) = DOMAIN table[k]
    BY <1>5, ContentsFacts DEF RInv
  <1>7. Rest(t) # <<>> /\ Len(Rest(t)) # 0 /\ Rest(t)[1].f \in DOMAIN Contents(k)
    <2>1. Rest(t) # <<>> /\ req[t] \in Requests
      BY <1>2 DEF RInv, IInv, Storing
    <2>2. Len(Rest(t)) # 0 /\ Head(Rest(t)) = Rest(t)[1]
      BY <2>1
    <2> QED  BY <1>1, <1>2, <1>6, <2>2 DEF Exists
  <1>8. Insertable(Contents(k), Rest(t)) = 0
    <2>1. Fits(Contents(k), Rest(t), 0) /\ 0 \in 0 .. Len(Rest(t))
      BY <1>7 DEF Fits
    <2> QED  BY <1>5, <2>1, InsertableFacts
  <1>9. Completed(k, t) = Contents(k)
    BY <1>2, <1>6, <1>8, StoredNone DEF Completed
  <1>10. \A l \in Keys : View(l)' = View(l)
    BY <1>2, <1>4, <1>5, <1>9, PlainViewAfter DEF Contents
  <1>11. AbsAnswer'[t] = AbsAnswer[t]
    BY <1>1, <1>2, <1>3, <1>4, <1>7, <1>8 DEF AbsAnswer
  <1>12. AbsPhase'[t] = AbsPhase[t]
    BY <1>2 DEF AbsPhase
  <1>13. AtWork(t)'
    BY <1>2, <1>3 DEF AtWork
  <1> QED  BY <1>2, <1>3, <1>5, <1>10, <1>11, <1>12, <1>13, Unseen, OthersAtWork

LEMMA DropHandStep ==
    ASSUME RInv, NEW t \in Threads, DropHand(t)
    PROVE  ServiceStep /\ \A s \in Threads : AtWork(s)'
  <1>1. /\ pc[t] = "drop" /\ pc'[t] = (IF ans[t] = NoAnswer THEN "store" ELSE "done")
        /\ pc' = [pc EXCEPT ![t] = pc'[t]]
        /\ heap' = [b \in Blocks |-> IF b \in {hand[t]} THEN Free ELSE heap[b]]
        /\ UNCHANGED <<lock, table, req, pos, doomed, seen, ans>>
    BY DEF RInv, IInv, TypeOK, DropHand, Goto, Deleted, calls
  <1>2. \A k \in Keys : Contents(k)' = Contents(k)
    <2>1. hand[t] # NoBlock
      BY <1>1 DEF RInv, IInv, Loose
    <2>2. \A k \in Keys, f \in Fields :
            Kept(k, f) # NoBlock => heap'[Kept(k, f)] = heap[Kept(k, f)]
      BY <1>1, OwnerTypes DEF RInv, IInv, Owned, Apart
    <2> QED  BY <1>1, <2>2, ContentsStay DEF RInv
  <1>3. CASE ans[t] = NoAnswer
    <2>1. Filling(t) /\ Filling(t)'
      BY <1>1, <1>3 DEF Filling
    <2>2. AtWork(t)'
      BY <1>1 DEF AtWork
    <2> QED  BY <1>1, <1>2, <2>1, <2>2, FillingOn
  <1>4. CASE ans[t] # NoAnswer
    <2>1. /\ ~Filling(t) /\ ~Filling(t)' /\ pc'[t] = "done"
          /\ Inside(t) /\ lock = t
      BY <1>1, <1>4 DEF RInv, IInv, Mutex, Inside, Filling
    <2>2. \A k \in Keys : View(k)' = View(k)
      BY <1>1, <1>2, <2>1, PlainView, PlainViewAfter
    <2>3. AbsAnswer'[t] = AbsAnswer[t] /\ AbsPhase'[t] = AbsPhase[t]
      BY <1>1, <2>1 DEF AbsAnswer, AbsPhase
    <2>4. AtWork(t)'
      BY <2>1 DEF AtWork
    <2> QED  BY <1>1, <2>1, <2>2, <2>3, <2>4, Unseen, OthersAtWork
  <1> QED  BY <1>3, <1>4

LEMMA AllStoredStep ==
    ASSUME RInv, NEW t \in Threads, AllStored(t)
    PROVE  ServiceStep /\ \A s \in Threads : AtWork(s)'
  <1>1. PICK k : k = req[t].key
    OBVIOUS
  <1>2. /\ pc[t] = "store" /\ pc' = [pc EXCEPT ![t] = "done"] /\ Rest(t) = <<>>
        /\ ans' = [ans EXCEPT ![t] = [status |-> "kOK"]]
        /\ UNCHANGED <<lock, table, heap, req, pos, hand, doomed, seen>>
    BY DEF AllStored, Answered, Goto, calls
  <1>3. /\ pc'[t] = "done" /\ ans'[t] = [status |-> "kOK"]
        /\ \A s \in Threads : s # t => ans'[s] = ans[s]
        /\ pc' = [pc EXCEPT ![t] = pc'[t]]
    BY <1>2 DEF RInv, IInv, TypeOK
  <1>4. Filling(t) /\ ~Filling(t)'
    BY <1>2, <1>3 DEF Filling
  <1>5. /\ Inside(t) /\ lock = t /\ k \in Keys /\ table[k] # NoRecord /\ IsList(Rest(t))
        /\ \A l : View(l) = IF l = k THEN Completed(k, t) ELSE Contents(l)
    BY <1>1, <1>4, FillingFacts
  <1>6. Contents(k) = [f \in DOMAIN Contents(k) |-> Contents(k)[f]]
    BY <1>5, ContentsFacts DEF RInv
  <1>7. Len(Rest(t)) = 0 /\ Insertable(Contents(k), Rest(t)) = 0
    <2>1. Len(Rest(t)) = 0
      BY <1>2
    <2>2. Insertable(Contents(k), Rest(t)) \in 0 .. Len(Rest(t))
      BY <1>5, InsertableFacts
    <2> QED  BY <2>1, <2>2
  <1>8. Completed(k, t) = Contents(k)
    BY <1>6, <1>7, StoredNone DEF Completed
  <1>9. \A l \in Keys : View(l)' = View(l)
    BY <1>2, <1>4, <1>5, <1>8, PlainViewAfter DEF Contents
  <1>10. AbsAnswer'[t] = AbsAnswer[t]
    BY <1>1, <1>3, <1>4, <1>7 DEF AbsAnswer
  <1>11. AbsPhase'[t] = AbsPhase[t]
    BY <1>2 DEF AbsPhase
  <1>12. AtWork(t)'
    BY <1>3 DEF AtWork
  <1> QED  BY <1>2, <1>3, <1>5, <1>9, <1>10, <1>11, <1>12, Unseen, OthersAtWork

LEMMA FreeRecordStep ==
    ASSUME RInv, NEW t \in Threads, FreeRecord(t)
    PROVE  ServiceStep /\ \A s \in Threads : AtWork(s)'
  <1>1. /\ pc[t] = "free" /\ pc'[t] = "done" /\ pc' = [pc EXCEPT ![t] = pc'[t]]
        /\ heap' = [b \in Blocks |-> IF b \in Strings(doomed[t]) THEN Free ELSE heap[b]]
        /\ UNCHANGED <<lock, table, req, pos, hand, seen, ans>>
    BY DEF RInv, IInv, TypeOK, FreeRecord, Goto, Deleted, calls
  <1>2. \A k \in Keys : Contents(k)' = Contents(k)
    <2>1. ASSUME NEW b \in Strings(doomed[t]) PROVE \E g \in Fields : Leaving(t, g) = b /\ b # NoBlock
      <3>1. doomed[t] \in Record
        BY DEF RInv, IInv, TypeOK
      <3> QED  BY <3>1, RecordFacts, HashAssumption DEF Strings, Leaving, Field
    <2>2. \A k \in Keys, f \in Fields : Kept(k, f) # NoBlock => Kept(k, f) \notin Strings(doomed[t])
      BY <2>1 DEF RInv, IInv, Owned, Apart
    <2>3. \A k \in Keys, f \in Fields :
            Kept(k, f) # NoBlock => heap'[Kept(k, f)] = heap[Kept(k, f)]
      BY <1>1, <2>2, OwnerTypes DEF RInv
    <2> QED  BY <1>1, <2>3, ContentsStay DEF RInv
  <1>3. ~Filling(t) /\ ~Filling(t)' /\ Inside(t) /\ lock = t
    BY <1>1 DEF RInv, IInv, Mutex, Inside, Filling
  <1>4. \A k \in Keys : View(k)' = View(k)
    BY <1>1, <1>2, <1>3, PlainView, PlainViewAfter
  <1>5. AbsAnswer'[t] = AbsAnswer[t] /\ AbsPhase'[t] = AbsPhase[t]
    BY <1>1, <1>3 DEF AbsAnswer, AbsPhase
  <1>6. AtWork(t)'
    BY <1>1 DEF AtWork
  <1> QED  BY <1>1, <1>3, <1>4, <1>5, <1>6, Unseen, OthersAtWork

LEMMA RNext == RInv /\ [Next]_vars => RInv' /\ ServiceStep
  <1> SUFFICES ASSUME RInv, [Next]_vars PROVE RInv' /\ ServiceStep
    OBVIOUS
  <1>1. IInv'
    BY NextInv DEF RInv
  <1>2. CASE Terminating \/ UNCHANGED vars
    <2>1. UNCHANGED vars
      BY <1>2 DEF Terminating
    <2>2. \A t \in Threads : AtWork(t)'
      BY <2>1 DEF RInv, AtWork, Entries, Rest, vars, calls, private
    <2>3. /\ \A k : View(k)' = View(k)
          /\ \A t \in Threads : AbsAnswer'[t] = AbsAnswer[t]
      BY <2>1 DEF View, Completed, Contents, Filling, Rest, AbsAnswer, vars, calls, private
    <2>4. UNCHANGED <<AbsStore, AbsPhase, AbsAnswer, req>>
      BY <2>1, <2>3, AbstractFunctions DEF AbsPhase, vars, calls
    <2> QED  BY <1>1, <2>1, <2>2, <2>4 DEF RInv, ServiceStep, Service!vars, vars, private
  <1>3. ASSUME NEW t \in Threads, Step(t) PROVE RInv' /\ ServiceStep
    <2>1. ServiceStep /\ \A s \in Threads : AtWork(s)'
      BY <1>3, CallStep, LockStep, ReturnStep, ReadStep, ScanStep, CopyOutStep, FindRecordStep,
         CopyStringStep, PutStep, ExchangeStep, ConflictStep, DropHandStep, AllStoredStep,
         RemoveStep, FreeRecordStep DEF Step
    <2>2. DOMAIN ans' = Threads
      BY <1>3 DEF RInv, Step, Call, Lock, Return, Read, Scan, CopyOut, FindRecord, CopyString,
         Put, Exchange, Conflict, DropHand, AllStored, Remove, FreeRecord, Answered, private
    <2> QED  BY <1>1, <2>1, <2>2 DEF RInv
  <1> QED  BY <1>2, <1>3 DEF Next

LEMMA RInit == Init => RInv /\ Service!Init
  <1> SUFFICES ASSUME Init PROVE RInv /\ Service!Init
    OBVIOUS
  <1>1. RInv
    BY InitInv DEF Init, RInv, AtWork
  <1>2. AbsStore = [k \in Keys |-> NoRecord]
    BY DEF Init, AbsStore, Contents
  <1>3. AbsPhase = [t \in Threads |-> "idle"] /\ AbsAnswer = [t \in Threads |-> NoAnswer]
    BY DEF Init, AbsPhase, AbsAnswer, Filling
  <1> QED  BY <1>1, <1>2, <1>3, ServiceData DEF Init, Service!Init

-----------------------------------------------------------------------------
(* Theorems. *)

LEMMA OwnedBlocks == IInv => BlocksOwned
  <1> SUFFICES ASSUME IInv PROVE BlocksOwned
    OBVIOUS
  <1>1. ASSUME NEW p \in Places
        PROVE  \/ \E k \in Keys, f \in Fields : p = <<"field", k, f>> /\ At(p) = Kept(k, f)
               \/ \E t \in Threads, f \in Fields : p = <<"doomed", t, f>> /\ At(p) = Leaving(t, f)
               \/ \E t \in Threads : p = <<"hand", t>> /\ At(p) = hand[t]
    BY DEF Places, At, Kept, Leaving
  <1>2. \A p \in Places : At(p) # NoBlock => heap[At(p)] # Free
    BY <1>1 DEF IInv, Owned, Live
  <1>3. /\ \A s, t \in Threads : s # t => hand[s] = NoBlock \/ hand[t] = NoBlock
        /\ \A s, t \in Threads, f, g \in Fields :
            s # t => Leaving(s, f) = NoBlock \/ Leaving(t, g) = NoBlock
        /\ \A s, t \in Threads, f \in Fields : Leaving(s, f) = NoBlock \/ hand[t] = NoBlock
    BY EmptyIsRecord DEF IInv, Mutex, Inside, Loose, Leaving
  <1>4. ASSUME NEW p \in Places, NEW q \in Places, At(p) = At(q), At(p) # NoBlock
        PROVE  p = q
    BY <1>1, <1>3, <1>4 DEF IInv, Owned, Apart
  <1>5. ASSUME NEW b \in Blocks, heap[b] # Free
        PROVE  \E p \in Places : At(p) = b
    <2>1. CASE \E k \in Keys, f \in Fields : Kept(k, f) = b
      <3>1. PICK k \in Keys, f \in Fields : Kept(k, f) = b
        BY <2>1
      <3>2. <<"field", k, f>> \in Places /\ At(<<"field", k, f>>) = b
        BY <3>1 DEF Places, At, Kept
      <3> QED  BY <3>2
    <2>2. CASE \E t \in Threads, f \in Fields : Leaving(t, f) = b
      <3>1. PICK t \in Threads, f \in Fields : Leaving(t, f) = b
        BY <2>2
      <3>2. <<"doomed", t, f>> \in Places /\ At(<<"doomed", t, f>>) = b
        BY <3>1 DEF Places, At, Leaving
      <3> QED  BY <3>2
    <2>3. CASE \E t \in Threads : hand[t] = b
      <3>1. PICK t \in Threads : hand[t] = b
        BY <2>3
      <3>2. <<"hand", t>> \in Places /\ At(<<"hand", t>>) = b
        BY <3>1 DEF Places, At
      <3> QED  BY <3>2
    <2> QED  BY <1>5, <2>1, <2>2, <2>3 DEF IInv, Owned, NoneLost
  <1> QED  BY <1>2, <1>4, <1>5 DEF BlocksOwned

\* The variables of the hash table back end keep their types; among them the
\* list positions and the pointers between the two levels of tables.
THEOREM TypeCorrect == Spec => []TypeOK
  BY Invariant, PTL DEF IInv

\* CopyString and DeleteString are balanced on every path of every call: no
\* string is leaked, none is freed while a field points to it, none freed twice.
THEOREM StringsOwned == Spec => []BlocksOwned
  BY Invariant, OwnedBlocks, PTL

\* Each call of the hash table back end happens at one instant, whatever the
\* number of threads and the lists of fields: nobody sees a record half-way
\* through Insert, Update or Delete, or a scan of two states of the table.
THEOREM Implements == Spec => HashServiceSpec
  <1>1. RInv /\ [Next]_vars => [Service!Next]_(Service!vars)
    BY RNext DEF ServiceStep
  <1> QED  BY <1>1, RInit, RNext, PTL DEF Spec, HashServiceSpec, Service!Spec
=============================================================================
