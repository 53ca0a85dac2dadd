----------------------------- MODULE RunDispatch -----------------------------
(***************************************************************************)
(* POST /v1/multi-agent-runs with a deployment: RuntimeRunDispatcher.submit*)
(* over the store-backed queue.  A request looks its idempotency key up in *)
(* one transaction, and in a second one looks it up again and inserts the  *)
(* row.  Two requests can both pass the look-ups: only the unique index    *)
(* on (deployment_id, idempotency_key) then refuses the second INSERT, and *)
(* only a database built by the migrations has that index.                 *)
(***************************************************************************)
EXTENDS RunStore

CONSTANTS
    Clients,        \* the submissions callers make, one request each
    UniqueIndex     \* whether the database has the unique index

ASSUME DispatchAssumption == UniqueIndex \in BOOLEAN

VARIABLE client     \* the request each client is making

ClientPc == {"idle", "create", "insert", "returned", "duplicate", "error"}

ClientState == [pc: ClientPc, key: Keys \cup {NoKey},
                matching: SUBSET Hooks, run: RunIds \cup {NoRun}]

DispatchTypeOK == client \in [Clients -> ClientState]

DispatchInit ==
    client = [c \in Clients |->
                [pc |-> "idle", key |-> NoKey, matching |-> {}, run |-> NoRun]]

Return(c, r) == client' = [client EXCEPT ![c].pc = "returned", ![c].run = r]

Refuse(c, pc) == client' = [client EXCEPT ![c].pc = pc]

-----------------------------------------------------------------------------

\* A request arrives.  The look-up by key answers it when the newest run with
\* the key is active (409) or over (that run is returned).
Submit(c) ==
    /\ client[c].pc = "idle"
    /\ \E k \in Keys \cup {NoKey}, m \in SUBSET Hooks :
        LET found == IF k = NoKey THEN {} ELSE RunsWithKey(k)
            req == [client[c] EXCEPT !.key = k, !.matching = m]
        IN  \/ /\ found = {}
               /\ client' = [client EXCEPT ![c] = [req EXCEPT !.pc = "create"]]
            \/ \E r \in RunIds :
                /\ IsNewest(r, found)
                /\ client' = [client EXCEPT ![c] =
                     IF runs[r].status \in ACTIVE_RUN_STATUSES
                     THEN [req EXCEPT !.pc = "duplicate"]
                     ELSE [req EXCEPT !.pc = "returned", !.run = r]]
    /\ UNCHANGED storeVars

\* create_workflow_runtime_run, its SELECT: whatever the status of the run it
\* finds, that run is returned.
CreateLookup(c) ==
    /\ client[c].pc = "create"
    /\ LET found == IF client[c].key = NoKey THEN {} ELSE RunsWithKey(client[c].key)
       IN  \/ found = {} /\ Refuse(c, "insert")
           \/ \E r \in found : Return(c, r)
    /\ UNCHANGED storeVars

\* Faulty: the INSERT on a table whose unique index was not created.
CreateInsertWithoutIndex(c) ==
    /\ client[c].pc = "insert"
    /\ \E r \in RunIds :
        /\ IsNextRun(r)
        /\ UpdateRun(r, QueuedRow(client[c].key, client[c].matching))
        /\ Return(c, r)
    /\ UNCHANGED <<reviews, outbox>>

\* create_workflow_runtime_run, its INSERT and COMMIT.
CreateInsert(c) ==
    /\ client[c].pc = "insert"
    /\ \E r \in RunIds :
        /\ IsNextRun(r)
        /\ UpdateRun(r, QueuedRow(client[c].key, client[c].matching))
        /\ Return(c, r)
    /\ UniqueIndex /\ client[c].key # NoKey => RunsWithKey(client[c].key) = {}
    /\ UNCHANGED <<reviews, outbox>>

\* The INSERT that the unique index refuses: the transaction rolls back and the
\* request ends in a server error.
CreateConflict(c) ==
    /\ client[c].pc = "insert"
    /\ UniqueIndex
    /\ client[c].key # NoKey
    /\ RunsWithKey(client[c].key) # {}
    /\ Refuse(c, "error")
    /\ UNCHANGED storeVars

DispatchStep(c) == CreateLookup(c) \/ CreateInsert(c) \/ CreateConflict(c)

DispatchNext == \E c \in Clients : Submit(c) \/ DispatchStep(c)
=============================================================================
