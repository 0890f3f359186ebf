------------------------------ MODULE SqliteLib ------------------------------
(***************************************************************************)
(* SqliteLibDB: the library back end, which the two servers wrap.  Every   *)
(* context has a connection of its own to one in-memory database with a    *)
(* shared cache, and a cache of prepared statements that it uses again and *)
(* again.  A call looks its statement up, binds its arguments, steps the   *)
(* statement, and clears and resets it.                                    *)
(*                                                                         *)
(* SQLite is modelled by how it is used here.  One sqlite3_step is atomic. *)
(* A query that has returned a row keeps the table locked for reading      *)
(* until it is done or reset; a write meanwhile is SQLITE_LOCKED.  Binding *)
(* a statement that is not reset is an error, and so is finalizing one     *)
(* whose last step failed.  The database goes with its last connection.    *)
(***************************************************************************)
EXTENDS KVStore

CONSTANTS
    Clients,     \* contexts: one benchmark or server thread each
    Schema,      \* the connection that creates the tables
    Requests,    \* all calls that are made
    Calls,       \* Calls[c]: those that thread c makes
    NumOps,      \* NumOps[c]: how many
    Wave         \* Wave[c]: the phase of the driver that starts it

ASSUME LibAssumption ==
    /\ Requests \subseteq Request
    /\ Calls \in [Clients -> SUBSET Requests]
    /\ NumOps \in [Clients -> Nat]
    /\ Wave \in [Clients -> Nat]
    /\ Schema \notin Clients

VARIABLES
    ready,     \* CreateSchema has returned
    alive,     \* the process runs
    open,      \* open connections
    exists,    \* the in-memory database has its table
    store,     \* contents of the table
    pc,        \* pc[c]: control state of thread c
    left,      \* left[c]: calls it has still to make
    oks,       \* oks[c]: its calls that returned kOK
    req,       \* req[c]: arguments of the call it is in
    stmt,      \* stmt[c][t]: state of the cached statement with text t
    bound,     \* bound[c][t]: arguments bound to it
    got        \* got[c]: the result vector of the call

dvars == <<open, exists, store>>
cvars == <<pc, left, oks, req>>
svars == <<stmt, bound, got>>
vars == <<ready, alive, dvars, cvars, svars>>

NoCall == [op |-> "none"]

\* The SQL text.  INSERT sorts its columns; UPDATE lists them as the caller does,
\* and all callers name them in the order of the table.
Text(r) == IF r.op \in {"i", "u"} THEN <<r.op, DOMAIN r.values>> ELSE <<r.op>>

Texts == {Text(r) : r \in Requests}

StmtStates == {"none", "ready", "row", "done", "failed"}

Init ==
    /\ ready = FALSE
    /\ alive = TRUE
    /\ open = {}
    /\ exists = FALSE
    /\ store = EmptyTable
    /\ pc = [c \in Clients |-> "init"]
    /\ left = NumOps
    /\ oks = [c \in Clients |-> 0]
    /\ req = [c \in Clients |-> NoCall]
    /\ stmt = [c \in Clients |-> [t \in Texts |-> "none"]]
    /\ bound = [c \in Clients |-> [t \in Texts |-> NoCall]]
    /\ got = [c \in Clients |-> NoData]

-----------------------------------------------------------------------------
(* Connections. *)

\* "It must be kept alive to keep in-memory databases alive."
KeptConnectionsNone == {}
KeptConnections == {Schema}

CreateSchema ==
    /\ alive
    /\ ~ready
    /\ ready' = TRUE
    /\ open' = KeptConnections
    /\ exists' = (open' # {})
    /\ UNCHANGED <<alive, store, cvars, svars>>

Client(c, from, to) ==
    /\ alive
    /\ pc[c] = from
    /\ pc' = [pc EXCEPT ![c] = to]

\* The driver starts a phase when every thread of the one before has returned.
MayStart(c) ==
    /\ ready
    /\ \A d \in Clients : Wave[d] < Wave[c] => pc[d] = "closed"

InitConn(c) ==
    /\ MayStart(c)
    /\ Client(c, "init", "idle")
    /\ open' = open \cup {c}
    /\ UNCHANGED <<ready, alive, exists, store, left, oks, req, svars>>

MoreCallsOffByOne(c) == left[c] >= 0
MoreCalls(c) == left[c] > 0

\* The destructor of the context finalizes every cached statement, and throws,
\* which ends the process, if one reports a failed step.
Close(c) ==
    /\ ~MoreCalls(c)
    /\ Client(c, "idle", "closed")
    /\ alive' = (\A t \in Texts : stmt[c][t] # "failed")
    /\ stmt' = [stmt EXCEPT ![c] = [t \in Texts |-> "none"]]
    /\ bound' = [bound EXCEPT ![c] = [t \in Texts |-> NoCall]]
    /\ open' = open \ {c}
    /\ exists' = (exists /\ open' # {})
    /\ store' = IF open' = {} THEN EmptyTable ELSE store
    /\ UNCHANGED <<ready, left, oks, req, got>>

\* An uncaught exception ends the process.
ProcessDies ==
    /\ alive
    /\ \E c \in Clients : pc[c] = "threw"
    /\ alive' = FALSE
    /\ UNCHANGED <<ready, dvars, cvars, svars>>

-----------------------------------------------------------------------------
(* The statement of a call. *)

Mine(c) == Text(req[c])

\* What is bound to the statement that c steps.
Args(c) == bound[c][Mine(c)]

SetStmt(c, s) == stmt' = [stmt EXCEPT ![c][Mine(c)] = s]

\* The result vector as the caller passes it in.
Blank(r) == IF r.op = "s" THEN [rows |-> [k \in {} |-> NoData]] ELSE NoData

\* Look up or prepare the statement, and bind the arguments.
BeginOp(c) ==
    /\ MoreCalls(c)
    /\ \E r \in Calls[c] :
        LET usable == exists /\ stmt[c][Text(r)] \in {"none", "ready"} IN
        /\ Client(c, "idle", IF usable THEN "step" ELSE "threw")
        /\ req' = [req EXCEPT ![c] = r]
        /\ stmt' = [stmt EXCEPT ![c][Text(r)] = IF usable THEN "ready" ELSE @]
        /\ bound' = [bound EXCEPT ![c][Text(r)] = IF usable THEN r ELSE @]
        /\ got' = [got EXCEPT ![c] = Blank(r)]
    /\ left' = [left EXCEPT ![c] = @ - 1]
    /\ UNCHANGED <<ready, alive, dvars, oks>>

\* The read lock of a query between its first row and its end.
Reading(d) == \E t \in Texts : stmt[d][t] = "row"

LockedOutByNone(c) == FALSE
LockedOut(c) == \E d \in Clients \ {c} : Reading(d)

-----------------------------------------------------------------------------
(* Queries. *)

Querying(c) == alive /\ pc[c] = "step" /\ req[c].op \in Queries

Fetched(c) == IF req[c].op = "s" THEN DOMAIN got[c].rows ELSE {}

\* Records that the statement has still to return.
Remaining(c) ==
    (IF Args(c).op = "s" THEN ScanKeys(store, Args(c).key, Args(c).len)
                         ELSE {Args(c).key} \cap Present(store)) \ Fetched(c)

\* Read steps once.
ReadRow(c) ==
    /\ Querying(c) /\ req[c].op = "r"
    /\ Remaining(c) # {}
    /\ Client(c, "step", "reset")
    /\ SetStmt(c, "row")
    /\ got' = [got EXCEPT ![c] = [row |-> Cells(store, Args(c).key, req[c].fields)]]
    /\ UNCHANGED <<ready, alive, dvars, left, oks, req, bound>>

\* One iteration of the loop of Scan.
ScanNext(c) ==
    /\ Querying(c) /\ req[c].op = "s"
    /\ \E k \in Remaining(c) :
        /\ \A x \in Remaining(c) : k <= x
        /\ got' = [got EXCEPT ![c].rows = [x \in DOMAIN @ \cup {k} |->
                        IF x = k THEN ScanRow(store, k, req[c].fields) ELSE @[x]]]
    /\ SetStmt(c, "row")
    /\ UNCHANGED <<ready, alive, dvars, cvars, bound>>

\* SQLITE_DONE: kErrorNoData unless there was a row.
QueryDone(c) ==
    /\ Querying(c)
    /\ Remaining(c) = {}
    /\ Client(c, "step", "reset")
    /\ SetStmt(c, "done")
    /\ got' = [got EXCEPT ![c] = IF Fetched(c) = {} THEN Missed ELSE @]
    /\ UNCHANGED <<ready, alive, dvars, left, oks, req, bound>>

-----------------------------------------------------------------------------
(* Writes. *)

Writing(c) == alive /\ pc[c] = "step" /\ req[c].op \in Writes

StepWrite(c) ==
    /\ Writing(c)
    /\ ~LockedOut(c)
    /\ ~Conflicts(store, Args(c))
    /\ Client(c, "step", "reset")
    /\ store' = Effect(store, Args(c))
    /\ SetStmt(c, "done")
    /\ UNCHANGED <<ready, alive, open, exists, left, oks, req, bound, got>>

Retried == {"i", "u"}

\* SQLITE_LOCKED: Update and Insert step again.
StepLocked(c) ==
    /\ Writing(c) /\ req[c].op \in Retried
    /\ LockedOut(c)
    /\ SetStmt(c, "failed")
    /\ UNCHANGED <<ready, alive, dvars, cvars, bound, got>>

\* The primary key exists, or Delete finds the table locked.
StepThrows(c) ==
    /\ Writing(c)
    /\ IF LockedOut(c) THEN req[c].op \notin Retried ELSE Conflicts(store, Args(c))
    /\ Client(c, "step", "threw")
    /\ SetStmt(c, "failed")
    /\ UNCHANGED <<ready, alive, dvars, left, oks, req, bound, got>>

-----------------------------------------------------------------------------
\* sqlite3_reset.
ResetForgotten(op, s) == IF op = "r" THEN s ELSE "ready"
Reset(op, s) == "ready"

\* Clear the bindings, reset the statement, return.
Return(c) ==
    /\ Client(c, "reset", "idle")
    /\ SetStmt(c, Reset(req[c].op, stmt[c][Mine(c)]))
    /\ bound' = [bound EXCEPT ![c][Mine(c)] = NoCall]
    /\ oks' = [oks EXCEPT ![c] = IF got[c] = Missed THEN @ ELSE @ + 1]
    /\ req' = [req EXCEPT ![c] = NoCall]
    /\ got' = [got EXCEPT ![c] = NoData]
    /\ UNCHANGED <<ready, alive, dvars, left>>

-----------------------------------------------------------------------------
Finished == ~alive \/ \A c \in Clients : pc[c] = "closed"

Terminating == Finished /\ UNCHANGED vars

ClientStep(c) ==
    \/ InitConn(c) \/ BeginOp(c)
    \/ ReadRow(c) \/ ScanNext(c) \/ QueryDone(c)
    \/ StepWrite(c) \/ StepLocked(c) \/ StepThrows(c)
    \/ Return(c) \/ Close(c)

Next ==
    \/ CreateSchema \/ ProcessDies
    \/ \E c \in Clients : ClientStep(c)
    \/ Terminating

Spec == Init /\ [][Next]_vars

\* Every thread keeps being scheduled.  Nothing more is asked of the lock: who
\* retries is not promised to find the table free.
FairSpec ==
    /\ Spec
    /\ WF_vars(CreateSchema)
    /\ \A c \in Clients : WF_vars(ClientStep(c))

-----------------------------------------------------------------------------
(* Properties. *)

TypeOK ==
    /\ ready \in BOOLEAN
    /\ alive \in BOOLEAN
    /\ open \subseteq Clients \cup {Schema}
    /\ exists \in BOOLEAN
    /\ store \in Table
    /\ pc \in [Clients -> {"init", "idle", "step", "reset", "threw", "closed"}]
    /\ left \in [Clients -> Nat]
    /\ oks \in [Clients -> Nat]
    /\ req \in [Clients -> Requests \cup {NoCall}]
    /\ stmt \in [Clients -> [Texts -> StmtStates]]
    /\ bound \in [Clients -> [Texts -> Requests \cup {NoCall}]]
    /\ DOMAIN got = Clients

\* The call that c is in, if its statement is prepared and bound.
Current(c) == IF pc[c] \in {"step", "reset"} THEN {Mine(c)} ELSE {}

\* The cache of prepared statements: between calls every cached statement is
\* reset and has nothing bound (a bound string is the caller's memory, which is
\* gone), and the statement that a call steps has the arguments of this call.
StatementsClean ==
    \A c \in Clients : pc[c] # "threw" =>
        \A t \in Texts :
            IF t \in Current(c) THEN bound[c][t] = req[c]
            ELSE stmt[c][t] \in {"none", "ready"} /\ bound[c][t] = NoCall

\* sqlite_lib_db.h, of schema_database: "It must be kept alive to keep in-memory
\* databases alive."  The records outlive the connections of the threads that
\* loaded them: the table is there from CreateSchema on.
DataSurvives == ready => exists

\* The scan takes many steps, and other threads run between them: what it has
\* fetched stays what the table holds until it returns.
ScansAreStable ==
    \A c \in Clients : alive /\ Reading(c) /\ req[c].op = "s" =>
        \A k \in DOMAIN got[c].rows :
            k \in Present(store) /\ got[c].rows[k] = ScanRow(store, k, req[c].fields)

-----------------------------------------------------------------------------
(* The library implements DBService: although a scan fetches its records   *)
(* one by one, it brings back the records of one instant.                  *)

AbsPhase ==
    [c \in Clients |-> IF pc[c] = "step" THEN "pending"
                       ELSE IF pc[c] = "reset" THEN "done"
                       ELSE IF pc[c] = "threw" THEN "thrown" ELSE "idle"]

AbsCall == [c \in Clients |-> IF pc[c] \in {"step", "reset"} THEN req[c] ELSE NoCall]

AbsAnswer == [c \in Clients |-> IF pc[c] = "reset" THEN got[c] ELSE NoData]

Service == INSTANCE DBService
    WITH phase <- AbsPhase, call <- AbsCall, answer <- AbsAnswer

LibServiceSpec == Service!Spec

\* Update and Insert retry while the table is locked; since every query ends,
\* they get through, unless the process is gone.
WritersGetThrough ==
    \A c \in Clients :
        pc[c] = "step" /\ req[c].op \in Retried ~> pc[c] # "step" \/ ~alive
=============================================================================
