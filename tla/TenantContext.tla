----------------------------- MODULE TenantContext -----------------------------
(***************************************************************************)
(* One request belongs to one tenant, and row level security shows it the  *)
(* rows of the tenant its connection is set to.  The setting is local to a *)
(* database transaction: the Prisma extension wraps each operation of a    *)
(* model in a transaction of its own, unless a counter in the request's    *)
(* store says that one is open already.  Connections are pooled and shared *)
(* by all requests; a handler awaits several promises at once.             *)
(***************************************************************************)
EXTENDS Integers, FiniteSets

CONSTANTS
  Requests,     \* requests being handled
  Tenants,
  Tasks,        \* promises in flight, of whatever request
  Connections,  \* the pool
  NoTenant,     \* no tenant: a request of the platform, a setting that reverted
  NoRequest,
  NoConnection

ASSUME TenantConstantsOK ==
  /\ NoTenant \notin Tenants /\ NoRequest \notin Requests
  /\ NoConnection \notin Connections /\ IsFiniteSet(Tasks)

VARIABLES
  live,          \* requests whose handler runs
  tenant,        \* TenantStore.tenantId of a request
  txDepth,       \* TenantStore.txDepth of a request
  task,          \* a promise: where it is, its request and its connection
  currentTenant  \* app.current_tenant of a connection

tenantVars == <<live, tenant, txDepth, task, currentTenant>>

NoTask == [pc |-> "idle", request |-> NoRequest, conn |-> NoConnection]

\* Of one operation: begun, then running.  Of tenantTransaction: opened, set,
\* inside its callback, and closing; lost when the engine gave it up while the
\* callback still runs.
Operating == {"begun", "running"}
Transacting == {"opened", "set", "inside", "lost", "closing"}

TenantTypeOK ==
  /\ live \subseteq Requests
  /\ tenant \in [Requests -> Tenants \cup {NoTenant}]
  /\ txDepth \in [Requests -> Nat]
  /\ task \in [Tasks -> [pc : {"idle"} \cup Operating \cup Transacting,
                         request : Requests \cup {NoRequest},
                         conn : Connections \cup {NoConnection}]]
  /\ currentTenant \in [Connections -> Tenants \cup {NoTenant}]

TenantInit ==
  /\ live = {} /\ tenant = [r \in Requests |-> NoTenant]
  /\ txDepth = [r \in Requests |-> 0]
  /\ task = [k \in Tasks |-> NoTask]
  /\ currentTenant = [c \in Connections |-> NoTenant]

-----------------------------------------------------------------------------
TasksOf(r) == {k \in Tasks : task[k].request = r}
FreeConnection(c) == \A k \in Tasks : task[k].conn # c

\* A handler awaits single operations at once (a list and its count), or
\* transactions, and never both: contexts are built before a transaction, and
\* what a transaction calls runs on its client.
AwaitsOnly(r, pcs) == \A k \in TasksOf(r) : task[k].pc \in pcs

Goto(k, pc) == task' = [task EXCEPT ![k].pc = pc]

\* set_config(..., is_local = true) lasts until the transaction ends.
EndOfTransaction(c) == currentTenant' = [currentTenant EXCEPT ![c] = NoTenant]

-----------------------------------------------------------------------------
\* TenantContextInterceptor: the store of a request, from its verified token.
StartRequest(r, t) ==
  /\ r \notin live /\ TasksOf(r) = {} /\ live' = live \cup {r}
  /\ tenant' = [tenant EXCEPT ![r] = t]
  /\ txDepth' = [txDepth EXCEPT ![r] = 0]
  /\ UNCHANGED <<task, currentTenant>>

\* The handler has answered: perhaps with the error of one promise while the
\* others of its Promise.all are in flight.
EndRequest(r) ==
  /\ r \in live
  /\ live' = live \ {r}
  /\ UNCHANGED <<tenant, txDepth, task, currentTenant>>

-----------------------------------------------------------------------------
\* $allOperations: as it is when no tenant is bound or a transaction is open,
\* else in a transaction that begins with set_config.
CallModel(k, r, c) ==
  /\ r \in live /\ task[k] = NoTask /\ FreeConnection(c)
  /\ AwaitsOnly(r, Operating)
  /\ task' = [task EXCEPT ![k] =
       [pc |-> IF tenant[r] = NoTenant \/ txDepth[r] > 0 THEN "running" ELSE "begun",
        request |-> r, conn |-> c]]
  /\ UNCHANGED <<live, tenant, txDepth, currentTenant>>

SetForOperation(k) ==
  /\ task[k].pc = "begun" /\ Goto(k, "running")
  /\ currentTenant' = [currentTenant EXCEPT ![task[k].conn] = tenant[task[k].request]]
  /\ UNCHANGED <<live, tenant, txDepth>>

\* The statement has run, or failed.
EndOperation(k) ==
  /\ task[k].pc \in Operating
  /\ task' = [task EXCEPT ![k] = NoTask]
  /\ EndOfTransaction(task[k].conn)
  /\ UNCHANGED <<live, tenant, txDepth>>

-----------------------------------------------------------------------------
\* tenantTransaction
OpenTransaction(k, r, c) ==
  /\ r \in live /\ task[k] = NoTask /\ FreeConnection(c)
  /\ AwaitsOnly(r, Transacting)
  /\ task' = [task EXCEPT ![k] = [pc |-> "opened", request |-> r, conn |-> c]]
  /\ UNCHANGED <<live, tenant, txDepth, currentTenant>>

SetForTransaction(k) ==
  /\ task[k].pc = "opened" /\ Goto(k, "set")
  /\ currentTenant' = [currentTenant EXCEPT ![task[k].conn] = tenant[task[k].request]]
  /\ UNCHANGED <<live, tenant, txDepth>>

\* set_config fails: the callback never runs.
RefuseTransaction(k) ==
  /\ task[k].pc = "opened"
  /\ task' = [task EXCEPT ![k] = NoTask]
  /\ EndOfTransaction(task[k].conn)
  /\ UNCHANGED <<live, tenant, txDepth>>

\* Mutant: a flag instead of a counter.
Enter_Flag(k) ==
  /\ task[k].pc = "set" /\ Goto(k, "inside")
  /\ txDepth' = [txDepth EXCEPT ![task[k].request] = 1]
  /\ UNCHANGED <<live, tenant, currentTenant>>

\* The extension is told not to wrap what the callback does on its client.
Enter(k) ==
  /\ task[k].pc = "set" /\ Goto(k, "inside")
  /\ txDepth' = [txDepth EXCEPT ![task[k].request] = @ + 1]
  /\ UNCHANGED <<live, tenant, currentTenant>>

\* The engine rolls back a transaction that takes too long; the callback goes
\* on until its next statement throws.
LoseTransaction(k) ==
  /\ task[k].pc = "inside"
  /\ task' = [task EXCEPT ![k].pc = "lost", ![k].conn = NoConnection]
  /\ EndOfTransaction(task[k].conn)
  /\ UNCHANGED <<live, tenant, txDepth>>

\* finally: the callback returned or threw.
Leave(k) ==
  /\ task[k].pc \in {"inside", "lost"} /\ Goto(k, "closing")
  /\ txDepth' = [txDepth EXCEPT ![task[k].request] = @ - 1]
  /\ UNCHANGED <<live, tenant, currentTenant>>

\* Commit or rollback; nothing is left to close of a lost transaction.
CloseTransaction(k) ==
  /\ task[k].pc = "closing"
  /\ task' = [task EXCEPT ![k] = NoTask]
  /\ IF task[k].conn = NoConnection THEN UNCHANGED currentTenant
                                    ELSE EndOfTransaction(task[k].conn)
  /\ UNCHANGED <<live, tenant, txDepth>>

-----------------------------------------------------------------------------
TenantNext ==
  \/ \E r \in Requests, t \in Tenants \cup {NoTenant} : StartRequest(r, t)
  \/ \E r \in Requests : EndRequest(r)
  \/ \E k \in Tasks, r \in Requests, c \in Connections :
       CallModel(k, r, c) \/ OpenTransaction(k, r, c)
  \/ \E k \in Tasks :
       \/ SetForOperation(k) \/ EndOperation(k)
       \/ SetForTransaction(k) \/ RefuseTransaction(k) \/ Enter(k)
       \/ LoseTransaction(k) \/ Leave(k) \/ CloseTransaction(k)

TenantSpec == TenantInit /\ [][TenantNext]_tenantVars

-----------------------------------------------------------------------------
\* A statement runs on a connection nobody else uses, set to the tenant of its
\* request and to no tenant when the request has none: whatever requests and
\* transactions share the pool, none reads another tenant's rows and none is
\* left without its own (DECISIONS D-102, the comments on txDepth).  Inside a
\* transaction the counter is up, or its statements would be wrapped again and
\* leave it.
ScopedToItsTenant ==
  \A k \in Tasks :
    /\ task[k].pc \in {"running", "inside"} =>
         /\ currentTenant[task[k].conn] = tenant[task[k].request]
         /\ \A l \in Tasks \ {k} : task[l].conn # task[k].conn
    /\ task[k].pc = "inside" => txDepth[task[k].request] > 0
=============================================================================
