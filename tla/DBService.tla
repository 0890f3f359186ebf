------------------------------ MODULE DBService ------------------------------
(***************************************************************************)
(* What the interface ycsbc::DB promises to a benchmark thread: a call     *)
(* takes effect on the shared table exactly once, at one instant between   *)
(* its invocation and its return, and returns the result of that instant.  *)
(* A call may also never return (its back end is gone) or end in an        *)
(* exception; then it has taken effect at most once.  A query that misses  *)
(* its record is a call like any other: it reports kErrorNoData.           *)
(***************************************************************************)
EXTENDS KVStore

CONSTANTS
    Clients,   \* benchmark threads; each has one context, so one call at a time
    Requests   \* the requests they make

VARIABLES
    store,     \* the shared table
    phase,     \* phase[c]: where thread c is in its current call
    call,      \* call[c]: the request of that call, NoCall outside one
    answer,    \* answer[c]: the result fixed when the call took effect
    oks        \* oks[c]: calls of c that returned kOK (DelegateClient)

vars == <<store, phase, call, answer, oks>>

NoCall == [op |-> "none"]

Init ==
    /\ store = EmptyTable
    /\ phase = [c \in Clients |-> "idle"]
    /\ call = [c \in Clients |-> NoCall]
    /\ answer = [c \in Clients |-> NoData]
    /\ oks = [c \in Clients |-> 0]

Invoke(c) ==
    /\ phase[c] = "idle"
    /\ phase' = [phase EXCEPT ![c] = "pending"]
    /\ call' \in {[call EXCEPT ![c] = r] : r \in Requests}
    /\ UNCHANGED <<store, answer, oks>>

\* The instant at which the operation happens.
Apply(c) ==
    /\ phase[c] = "pending"
    /\ ~Conflicts(store, call[c])
    /\ store' = Effect(store, call[c])
    /\ answer' = [answer EXCEPT ![c] = Answer(store, call[c])]
    /\ phase' = [phase EXCEPT ![c] = "done"]
    /\ UNCHANGED <<call, oks>>

Return(c) ==
    /\ phase[c] = "done"
    /\ phase' = [phase EXCEPT ![c] = "idle"]
    /\ \E n \in Counted(call[c], answer[c]) : oks' = [oks EXCEPT ![c] = @ + n]
    /\ call' = [call EXCEPT ![c] = NoCall]
    /\ answer' = [answer EXCEPT ![c] = NoData]
    /\ UNCHANGED store

\* The thread leaves by an exception: no more calls of it.
Throw(c) ==
    /\ phase[c] # "thrown"
    /\ phase' = [phase EXCEPT ![c] = "thrown"]
    /\ call' = [call EXCEPT ![c] = NoCall]
    /\ answer' = [answer EXCEPT ![c] = NoData]
    /\ UNCHANGED <<store, oks>>

Next == \E c \in Clients : Invoke(c) \/ Apply(c) \/ Return(c) \/ Throw(c)

Spec == Init /\ [][Next]_vars
=============================================================================
