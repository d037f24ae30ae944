---------------------------- MODULE ServicesProofs ----------------------------
(***************************************************************************)
(* Invariants of the services that share no state with each other, for any *)
(* number of calls, tenants, tasks and connections.                        *)
(***************************************************************************)
EXTENDS TenantContext, ViewRequests, NotificationBell, PushDevices, PlanQuota, Reputation,
        FiniteSetTheorems, TLAPS

-----------------------------------------------------------------------------
(* TenantContext.  The counter is the number of callbacks that run; a       *)
(* connection belongs to one task and carries a tenant only while its       *)
(* transaction does.                                                        *)

Deep(r) == {k \in Tasks : task[k].request = r /\ task[k].pc \in {"inside", "lost"}}

Fits(k) ==
  /\ task[k].pc = "idle" => task[k] = NoTask
  /\ task[k].pc # "idle" => task[k].request \in Requests
  /\ task[k].pc \in {"begun", "running", "opened", "set", "inside"} =>
       task[k].conn \in Connections
  /\ task[k].pc = "lost" => task[k].conn = NoConnection

Scoped(k) ==
  /\ task[k].pc \in {"begun", "opened"} => currentTenant[task[k].conn] = NoTenant
  /\ task[k].pc \in {"running", "set", "inside"} =>
       currentTenant[task[k].conn] = tenant[task[k].request]

Disjoint ==
  \A k, l \in Tasks : k # l /\ task[k].conn \in Connections => task[l].conn # task[k].conn

Reverted == \A c \in Connections : FreeConnection(c) => currentTenant[c] = NoTenant

Unmixed ==
  \A k, l \in Tasks :
    task[k].pc \in Operating /\ task[l].pc \in Transacting => task[k].request # task[l].request

DepthCounts(r) == txDepth[r] = Cardinality(Deep(r))

Pooled == TenantTypeOK /\ (\A k \in Tasks : Fits(k) /\ Scoped(k)) /\ Disjoint /\ Reverted

TenantInv == Pooled /\ Unmixed /\ \A r \in Requests : DepthCounts(r)

LEMMA DeepIsFinite ==
  ASSUME NEW r
  PROVE  IsFiniteSet(Deep(r)) /\ Cardinality(Deep(r)) \in Nat
BY FS_Subset, FS_CardinalityType, TenantConstantsOK DEF Deep

\* Nobody of r is inside a transaction when its operations are awaited.
LEMMA NobodyDeep ==
  ASSUME TenantInv, NEW r \in Requests, AwaitsOnly(r, Operating)
  PROVE  txDepth[r] = 0
<1>1. Deep(r) = {}
  BY DEF AwaitsOnly, TasksOf, Deep, Operating
<1>2. QED
  BY <1>1, FS_EmptySet DEF TenantInv, DepthCounts

LEMMA TenantInit_Inv == TenantInit => TenantInv
<1> SUFFICES ASSUME TenantInit PROVE TenantInv
  OBVIOUS
<1> USE DEF TenantInit, NoTask
<1>1. Pooled
  BY TenantConstantsOK DEF Pooled, TenantTypeOK, Fits, Scoped, Disjoint, Reverted, Operating, Transacting
<1>2. Unmixed
  BY DEF Unmixed, Operating
<1>3. ASSUME NEW r \in Requests PROVE DepthCounts(r)
  <2>1. Deep(r) = {}
    BY DEF Deep
  <2>2. QED
    BY <2>1, FS_EmptySet DEF DepthCounts
<1>4. QED
  BY <1>1, <1>2, <1>3 DEF TenantInv

LEMMA TenantNext_Pooled ==
  ASSUME TenantInv, [TenantNext]_tenantVars
  PROVE  Pooled'
<1> USE TenantConstantsOK
    DEF TenantInv, Pooled, TenantTypeOK, Fits, Scoped, Disjoint, Reverted, FreeConnection,
        Operating, Transacting, NoTask
<1>1. ASSUME NEW r \in Requests, NEW t \in Tenants \cup {NoTenant}, StartRequest(r, t)
      PROVE  Pooled'
  BY <1>1 DEF StartRequest, TasksOf
<1>2. ASSUME NEW r \in Requests, EndRequest(r)
      PROVE  Pooled'
  BY <1>2 DEF EndRequest
<1>3. ASSUME NEW k \in Tasks, NEW r \in Requests, NEW c \in Connections, CallModel(k, r, c)
      PROVE  Pooled'
  BY <1>3, NobodyDeep DEF CallModel
<1>4. ASSUME NEW k \in Tasks, NEW r \in Requests, NEW c \in Connections, OpenTransaction(k, r, c)
      PROVE  Pooled'
  BY <1>4 DEF OpenTransaction
<1>5. ASSUME NEW k \in Tasks, SetForOperation(k) \/ SetForTransaction(k)
      PROVE  Pooled'
  <2>1. /\ task[k].conn \in Connections /\ task[k].request \in Requests
        /\ \A l \in Tasks \ {k} : task[l].conn # task[k].conn
    BY <1>5 DEF SetForOperation, SetForTransaction
  <2>2. PICK pc \in {"running", "set"} : task' = [task EXCEPT ![k].pc = pc]
    BY <1>5 DEF SetForOperation, SetForTransaction, Goto
  <2>3. /\ task'[k] = [pc |-> pc, request |-> task[k].request, conn |-> task[k].conn]
        /\ \A l \in Tasks \ {k} : task'[l] = task[l]
    BY <2>2
  <2>4. /\ currentTenant' = [currentTenant EXCEPT ![task[k].conn] = tenant[task[k].request]]
        /\ UNCHANGED <<live, tenant, txDepth>>
    BY <1>5 DEF SetForOperation, SetForTransaction
  <2>5. TenantTypeOK'
    BY <2>1, <2>2, <2>4
  <2>6. \A l \in Tasks : Fits(l)'
    BY <2>1, <2>3
  <2>7. \A l \in Tasks : Scoped(l)'
    BY <2>1, <2>3, <2>4
  <2>8. Disjoint' /\ Reverted'
    BY <2>1, <2>3, <2>4
  <2>9. QED
    BY <2>5, <2>6, <2>7, <2>8
<1>6. ASSUME NEW k \in Tasks, EndOperation(k) \/ RefuseTransaction(k) \/ CloseTransaction(k)
      PROVE  Pooled'
  <2>1. /\ task' = [task EXCEPT ![k] = NoTask]
        /\ task[k].conn \in Connections \cup {NoConnection}
        /\ \A l \in Tasks \ {k} : task[k].conn \in Connections => task[l].conn # task[k].conn
        /\ UNCHANGED <<live, tenant, txDepth>>
    BY <1>6 DEF EndOperation, RefuseTransaction, CloseTransaction
  <2>2. \/ /\ task[k].conn \in Connections
           /\ currentTenant' = [currentTenant EXCEPT ![task[k].conn] = NoTenant]
        \/ task[k].conn = NoConnection /\ UNCHANGED currentTenant
    BY <1>6 DEF EndOperation, RefuseTransaction, CloseTransaction, EndOfTransaction
  <2>3. TenantTypeOK'
    BY <2>1, <2>2
  <2>4. \A l \in Tasks : Fits(l)'
    BY <2>1
  <2>5. \A l \in Tasks : Scoped(l)'
    BY <2>1, <2>2
  <2>6. Disjoint'
    BY <2>1
  <2>7. Reverted'
    BY <2>1, <2>2
  <2>8. QED
    BY <2>3, <2>4, <2>5, <2>6, <2>7
<1>7. ASSUME NEW k \in Tasks, Enter(k)
      PROVE  Pooled'
  BY <1>7 DEF Enter, Goto
<1>8. ASSUME NEW k \in Tasks, LoseTransaction(k)
      PROVE  Pooled'
  BY <1>8 DEF LoseTransaction, EndOfTransaction
<1>9. ASSUME NEW k \in Tasks, Leave(k)
      PROVE  Pooled'
  <2>1. task[k].request \in Requests /\ k \in Deep(task[k].request)
    BY <1>9 DEF Leave, Deep
  <2>2. Deep(task[k].request) # {}
    BY <2>1
  <2>3. txDepth[task[k].request] - 1 \in Nat
    BY <2>1, <2>2, DeepIsFinite, FS_EmptySet DEF DepthCounts
  <2>4. QED
    BY <1>9, <2>3 DEF Leave, Goto
<1>10. CASE UNCHANGED tenantVars
  BY <1>10 DEF tenantVars
<1>11. QED
  BY <1>1, <1>2, <1>3, <1>4, <1>5, <1>6, <1>7, <1>8, <1>9, <1>10 DEF TenantNext

LEMMA TenantNext_Unmixed ==
  ASSUME TenantInv, [TenantNext]_tenantVars
  PROVE  Unmixed'
<1> USE DEF TenantInv, Pooled, TenantTypeOK, Fits, Unmixed, Operating, Transacting, NoTask
<1>1. ASSUME NEW k \in Tasks, NEW r \in Requests, NEW c \in Connections,
             CallModel(k, r, c) \/ OpenTransaction(k, r, c)
      PROVE  Unmixed'
  BY <1>1 DEF CallModel, OpenTransaction, AwaitsOnly, TasksOf
<1>2. ASSUME NEW k \in Tasks,
             \/ SetForOperation(k) \/ EndOperation(k)
             \/ SetForTransaction(k) \/ RefuseTransaction(k) \/ Enter(k)
             \/ LoseTransaction(k) \/ Leave(k) \/ CloseTransaction(k)
      PROVE  Unmixed'
  <2>1. /\ \A l \in Tasks \ {k} : task'[l] = task[l]
        /\ task'[k].pc \in Operating => task[k].pc \in Operating
        /\ task'[k].pc \in Transacting => task[k].pc \in Transacting
        /\ task'[k].pc # "idle" => task'[k].request = task[k].request
    BY <1>2 DEF SetForOperation, EndOperation, SetForTransaction, RefuseTransaction, Enter,
                LoseTransaction, Leave, CloseTransaction, Goto
  <2>2. QED
    BY <2>1
<1>3. CASE UNCHANGED task
  BY <1>3
<1>4. QED
  BY <1>1, <1>2, <1>3 DEF TenantNext, tenantVars, StartRequest, EndRequest

LEMMA TenantNext_Counted ==
  ASSUME TenantInv, [TenantNext]_tenantVars
  PROVE  \A r \in Requests : DepthCounts(r)'
<1> USE DEF TenantInv, Pooled, TenantTypeOK, Fits, DepthCounts, Operating, Transacting, NoTask
<1>1. ASSUME NEW r \in Requests, NEW t \in Tenants \cup {NoTenant}, StartRequest(r, t)
      PROVE  \A q \in Requests : DepthCounts(q)'
  <2>1. \A q \in Requests : Deep(q)' = Deep(q)
    BY <1>1 DEF StartRequest, Deep
  <2>2. Deep(r) = {}
    BY <1>1 DEF StartRequest, Deep, TasksOf
  <2>3. QED
    BY <1>1, <2>1, <2>2, FS_EmptySet DEF StartRequest
<1>2. ASSUME NEW k \in Tasks, NEW r \in Requests, NEW c \in Connections,
             CallModel(k, r, c) \/ OpenTransaction(k, r, c)
      PROVE  \A q \in Requests : DepthCounts(q)'
  <2>1. \A q \in Requests : Deep(q)' = Deep(q)
    BY <1>2 DEF CallModel, OpenTransaction, Deep
  <2>2. QED
    BY <1>2, <2>1 DEF CallModel, OpenTransaction
<1>3. ASSUME NEW k \in Tasks,
             \/ SetForOperation(k) \/ EndOperation(k)
             \/ SetForTransaction(k) \/ RefuseTransaction(k)
             \/ LoseTransaction(k) \/ CloseTransaction(k)
      PROVE  \A q \in Requests : DepthCounts(q)'
  <2>1. \A q \in Requests : Deep(q)' = Deep(q)
    BY <1>3 DEF SetForOperation, EndOperation, SetForTransaction, RefuseTransaction,
                LoseTransaction, CloseTransaction, Goto, Deep
  <2>2. UNCHANGED txDepth
    BY <1>3 DEF SetForOperation, EndOperation, SetForTransaction, RefuseTransaction,
                LoseTransaction, CloseTransaction
  <2>3. QED
    BY <2>1, <2>2
<1>4. ASSUME NEW k \in Tasks, Enter(k)
      PROVE  \A q \in Requests : DepthCounts(q)'
  <2>0. PICK r \in Requests : r = task[k].request
    BY <1>4 DEF Enter
  <2>1. k \notin Deep(r)
    BY <1>4, <2>0 DEF Enter, Deep
  <2>2. Deep(r)' = Deep(r) \cup {k} /\ \A q \in Requests \ {r} : Deep(q)' = Deep(q)
    BY <1>4, <2>0 DEF Enter, Goto, Deep
  <2>3. Cardinality(Deep(r)') = Cardinality(Deep(r)) + 1
    BY <2>1, <2>2, DeepIsFinite, FS_AddElement
  <2>4. QED
    BY <1>4, <2>0, <2>2, <2>3, DeepIsFinite DEF Enter
<1>5. ASSUME NEW k \in Tasks, Leave(k)
      PROVE  \A q \in Requests : DepthCounts(q)'
  <2>0. PICK r \in Requests : r = task[k].request
    BY <1>5 DEF Leave
  <2>1. k \in Deep(r)
    BY <1>5, <2>0 DEF Leave, Deep
  <2>2. Deep(r)' = Deep(r) \ {k} /\ \A q \in Requests \ {r} : Deep(q)' = Deep(q)
    BY <1>5, <2>0 DEF Leave, Goto, Deep
  <2>3. Cardinality(Deep(r)') = Cardinality(Deep(r)) - 1
    BY <2>1, <2>2, DeepIsFinite, FS_RemoveElement
  <2>4. QED
    BY <1>5, <2>0, <2>2, <2>3, DeepIsFinite DEF Leave
<1>6. CASE UNCHANGED <<txDepth, task>>
  BY <1>6 DEF Deep
<1>7. QED
  BY <1>1, <1>2, <1>3, <1>4, <1>5, <1>6 DEF TenantNext, tenantVars, EndRequest

LEMMA TenantInvariant == TenantSpec => []TenantInv
<1>1. TenantInv /\ [TenantNext]_tenantVars => TenantInv'
  BY TenantNext_Pooled, TenantNext_Unmixed, TenantNext_Counted DEF TenantInv
<1>2. QED
  BY <1>1, TenantInit_Inv, PTL DEF TenantSpec

\* Whatever requests share the pool and in whatever order their transactions
\* begin, fail and end: a statement runs on a connection of its own set to the
\* tenant of its request, and the extension leaves a transaction's statements
\* alone (prisma.extension.ts, prisma.service.ts).
THEOREM TenantsStayApart == TenantSpec => []ScopedToItsTenant
<1>1. TenantInv => ScopedToItsTenant
  <2> SUFFICES ASSUME TenantInv, NEW k \in Tasks
               PROVE  /\ task[k].pc \in {"running", "inside"} =>
                           /\ currentTenant[task[k].conn] = tenant[task[k].request]
                           /\ \A l \in Tasks \ {k} : task[l].conn # task[k].conn
                      /\ task[k].pc = "inside" => txDepth[task[k].request] > 0
    BY DEF ScopedToItsTenant
  <2>1. task[k].pc \in {"running", "inside"} =>
          /\ currentTenant[task[k].conn] = tenant[task[k].request]
          /\ \A l \in Tasks \ {k} : task[l].conn # task[k].conn
    BY DEF TenantInv, Pooled, Fits, Scoped, Disjoint
  <2>2. ASSUME task[k].pc = "inside"
        PROVE  txDepth[task[k].request] > 0
    <3>1. task[k].request \in Requests /\ Deep(task[k].request) # {}
      BY <2>2 DEF TenantInv, Pooled, Fits, Deep
    <3>2. Cardinality(Deep(task[k].request)) # 0
      BY <3>1, DeepIsFinite, FS_EmptySet
    <3>3. QED
      BY <3>1, <3>2, DeepIsFinite DEF TenantInv, DepthCounts
  <2>3. QED
    BY <2>1, <2>2
<1>2. QED
  BY <1>1, TenantInvariant, PTL

-----------------------------------------------------------------------------
(* PlanQuota.  What a call compared still bounds the count, as long as      *)
(* nobody else added persons or changed the tier.                           *)

Calls == [pc : {"idle", "tier", "count", "add"}, n : 0..2, tier : Tiers, alone : BOOLEAN]

PlanTypeOK ==
  tier \in Tiers /\ count \in Nat /\ calls \in [Callers -> Calls]

ReadsHold(c) ==
  calls[c].alone =>
    /\ calls[c].pc \in {"count", "add"} => calls[c].tier = tier
    /\ calls[c].pc = "add" => Within(tier, count + calls[c].n)

PlanInv == PlanTypeOK /\ \A c \in Callers : ReadsHold(c)

\* A count that fits under a cap still fits when it has become smaller.
LEMMA WithinIsDownwardClosed ==
  ASSUME NEW t \in Tiers, NEW j \in Int, NEW k \in Int, j <= k, Within(t, k)
  PROVE  Within(t, j)
BY DEF Within, Tiers, PLAN_LIMITS

\* After a change by somebody else only a call that has not begun is alone.
LEMMA DisturbForgets ==
  ASSUME NEW cs \in [Callers -> Calls]
  PROVE  /\ Disturb(cs) \in [Callers -> Calls]
         /\ \A c \in Callers : /\ Disturb(cs)[c].pc = cs[c].pc
                               /\ Disturb(cs)[c].alone => cs[c].pc = "idle"
<1>1. ASSUME NEW c \in Callers
      PROVE  /\ Disturb(cs)[c] \in Calls
             /\ Disturb(cs)[c].pc = cs[c].pc
             /\ Disturb(cs)[c].alone => cs[c].pc = "idle"
  <2>1. CASE cs[c].pc = "idle"
    BY <2>1 DEF Disturb, Calls
  <2>2. CASE cs[c].pc # "idle"
    <3>1. Disturb(cs)[c] = [pc |-> cs[c].pc, n |-> cs[c].n, tier |-> cs[c].tier, alone |-> FALSE]
      BY <2>2 DEF Disturb, Calls
    <3>2. QED
      BY <3>1 DEF Calls
  <2>3. QED
    BY <2>1, <2>2
<1>2. Disturb(cs) = [c \in Callers |-> Disturb(cs)[c]]
  BY DEF Disturb
<1>3. QED
  BY <1>1, <1>2

LEMMA IdleIsACall == Idle \in Calls
BY DEF Calls, Idle, Tiers, PLAN_LIMITS

LEMMA CallBegins ==
  ASSUME NEW n \in 1..2
  PROVE  \E call \in Calls : call = [Idle EXCEPT !.pc = "tier", !.n = n] /\ call.pc = "tier"
<1> DEFINE begun == [Idle EXCEPT !.pc = "tier"]
<1>1. begun \in Calls
  BY IdleIsACall DEF Calls
<1>2. begun.pc = "tier"
  BY IdleIsACall DEF Calls
<1> HIDE DEF begun
<1>3. [begun EXCEPT !.n = n] \in Calls
  BY <1>1 DEF Calls
<1>4. [begun EXCEPT !.n = n].pc = "tier"
  BY <1>1, <1>2 DEF Calls
<1>5. QED
  BY <1>3, <1>4, Zenon DEF begun

LEMMA PlanInit_Inv == PlanInit => PlanInv
BY DEF PlanInit, PlanInv, PlanTypeOK, ReadsHold, Calls, Idle, Tiers, PLAN_LIMITS

LEMMA PlanNext_Inv ==
  ASSUME PlanInv, [PlanNext]_planVars
  PROVE  PlanInv'
<1> USE DEF PlanInv, PlanTypeOK, ReadsHold, Calls, Idle
<1> "enterprise" \in Tiers /\ "free" \in Tiers
  BY DEF Tiers, PLAN_LIMITS
<1>1. ASSUME NEW c \in Callers, NEW n \in 1..2, StartAdding(c, n)
      PROVE  PlanInv'
  <2>1. PICK call \in Calls : call = [Idle EXCEPT !.pc = "tier", !.n = n] /\ call.pc = "tier"
    BY CallBegins
  <2> HIDE DEF Idle
  <2>2. calls' = [calls EXCEPT ![c] = call] /\ tier' = tier /\ count' = count
    BY <1>1, <2>1 DEF StartAdding
  <2>3. QED
    BY <2>1, <2>2
<1>2. ASSUME NEW c \in Callers, ReadTier(c)
      PROVE  PlanInv'
  <2>1. PICK pc \in {"count", "add"} :
          /\ calls' = [calls EXCEPT ![c] = [pc |-> pc, n |-> calls[c].n, tier |-> tier,
                                            alone |-> calls[c].alone]]
          /\ pc = "add" => tier = "enterprise"
    BY <1>2 DEF ReadTier
  <2>2. /\ calls'[c] = [pc |-> pc, n |-> calls[c].n, tier |-> tier, alone |-> calls[c].alone]
        /\ \A d \in Callers \ {c} : calls'[d] = calls[d]
        /\ tier' = tier /\ count' = count
    BY <1>2, <2>1 DEF ReadTier
  <2>3. PlanTypeOK'
    BY <2>1, <2>2
  <2>4. ReadsHold(c)'
    BY <2>1, <2>2 DEF Within
  <2>5. \A d \in Callers \ {c} : ReadsHold(d)'
    BY <2>2
  <2>6. QED
    BY <2>3, <2>4, <2>5
<1>3. ASSUME NEW c \in Callers, CountPersons(c)
      PROVE  PlanInv'
  BY <1>3 DEF CountPersons
<1>4. ASSUME NEW c \in Callers, AddPersons(c)
      PROVE  PlanInv'
  <2>1. [calls EXCEPT ![c] = Idle] \in [Callers -> Calls]
    OBVIOUS
  <2>2. calls' = Disturb([calls EXCEPT ![c] = Idle])
    BY <1>4 DEF AddPersons
  <2> HIDE DEF Calls, Idle
  <2>5. /\ calls' \in [Callers -> Calls]
        /\ \A d \in Callers : calls'[d].alone => calls'[d].pc = "idle"
    BY <2>1, <2>2, DisturbForgets
  <2> USE DEF Calls, Idle
  <2>3. tier' = tier /\ count' \in Nat
    BY <1>4 DEF AddPersons
  <2>4. QED
    BY <2>5, <2>3
<1>5. ASSUME NEW c \in Callers, DropCall(c)
      PROVE  PlanInv'
  BY <1>5 DEF DropCall
<1>6. CASE PublishCreate
  <2>1. tier' = tier /\ count' \in Nat /\ calls' = Disturb(calls)
    BY <1>6 DEF PublishCreate
  <2>2. QED
    BY <2>1, DisturbForgets
<1>7. CASE SoftDelete
  <2>1. \A c \in Callers : count' + calls[c].n <= count + calls[c].n
    BY <1>7 DEF SoftDelete
  <2>2. \A c \in Callers : Within(tier, count + calls[c].n) => Within(tier, count' + calls[c].n)
    BY <1>7, <2>1, WithinIsDownwardClosed DEF SoftDelete
  <2>3. QED
    BY <1>7, <2>2 DEF SoftDelete
<1>8. ASSUME NEW t \in Tiers, SetTier(t)
      PROVE  PlanInv'
  <2>1. tier' = t /\ count' = count /\ calls' = Disturb(calls)
    BY <1>8 DEF SetTier
  <2>2. QED
    BY <2>1, DisturbForgets
<1>9. CASE LogActivation \/ CrashBeforeLog \/ UNCHANGED planVars
  BY <1>9 DEF LogActivation, CrashBeforeLog, planVars
<1>10. QED
  BY <1>1, <1>2, <1>3, <1>4, <1>5, <1>6, <1>7, <1>8, <1>9 DEF PlanNext

LEMMA PlanInvariant == PlanSpec => []PlanInv
BY PlanInit_Inv, PlanNext_Inv, PTL DEF PlanSpec

\* Of the steps of a call that was let through only the addition makes the
\* count larger, and what the check compared is what is added.
LEMMA PlanNext_Within ==
  ASSUME PlanInv, PlanNext, NEW c \in Callers,
         calls[c].pc = "add", calls[c].alone, calls'[c].pc = "idle", count' > count
  PROVE  Within(tier, count')
<1>0. /\ Idle \in Calls /\ calls \in [Callers -> Calls] /\ count \in Nat
      /\ Within(tier, count + calls[c].n)
  BY IdleIsACall DEF PlanInv, PlanTypeOK, ReadsHold
<1>1. PICK d \in Callers : AddPersons(d)
  <2>1. PublishCreate => calls'[c].pc = "add"
    BY <1>0, DisturbForgets DEF PublishCreate
  <2>2. \A d \in Callers :
          /\ \A n \in 1..2 : StartAdding(d, n) => count' = count
          /\ ReadTier(d) \/ CountPersons(d) \/ DropCall(d) => count' = count
    BY DEF StartAdding, ReadTier, CountPersons, DropCall
  <2>3. /\ SoftDelete => count' = count - 1
        /\ (\E t \in Tiers : SetTier(t)) \/ LogActivation \/ CrashBeforeLog => count' = count
    BY DEF SoftDelete, SetTier, LogActivation, CrashBeforeLog
  <2>4. ~ (count' = count) /\ ~ (count' = count - 1)
    BY <1>0
  <2>5. QED
    BY <2>1, <2>2, <2>3, <2>4, Zenon DEF PlanNext
<1>2. d = c
  <2>1. [calls EXCEPT ![d] = Idle] \in [Callers -> Calls]
    BY <1>0
  <2>2. calls'[c].pc = [calls EXCEPT ![d] = Idle][c].pc
    BY <1>1, <2>1, DisturbForgets DEF AddPersons
  <2>3. QED
    BY <1>0, <2>2 DEF Idle
<1>3. QED
  BY <1>0, <1>1, <1>2 DEF AddPersons

\* A create or an import that nobody disturbs since its check began leaves the
\* tribe within its cap, for any number of calls (assertCanAddPersons).
THEOREM PlanIsKept == PlanSpec => AloneStaysWithinPlan
<1>1. PlanInv /\ [PlanNext]_planVars =>
        [\A c \in Callers :
           calls[c].pc = "add" /\ calls[c].alone /\ calls'[c].pc = "idle" /\ count' > count
             => Within(tier, count')]_planVars
  BY PlanNext_Within
<1>2. QED
  BY <1>1, PlanInvariant, PTL DEF PlanSpec, AloneStaysWithinPlan

-----------------------------------------------------------------------------
(* PushDevices.  Until something happens that the code does not repair, the *)
(* calls under way are those of the session, and none is late.             *)

DeviceCalls == [op : {"register", "remove"}, token : Tokens, as : Accounts \cup {NoAccount}]
Pushes == [pc : {"idle", "send", "prune"}, to : Accounts \cup {NoAccount},
           listed : SUBSET Tokens, dead : SUBSET Tokens]

DeviceTypeOK ==
  /\ session \in Accounts \cup {NoAccount} /\ token \in Tokens /\ last \in Tokens \cup {0}
  /\ pending \subseteq DeviceCalls
  /\ rows \in [Tokens -> Accounts \cup {NoAccount}]
  /\ push \in Pushes /\ leaving \in BOOLEAN /\ spoiled \in BOOLEAN

\* A token that the device has not been given yet is known to nobody.
TokensAreGiven ==
  /\ last \in {0, token}
  /\ \A t \in Tokens : rows[t] # NoAccount => t <= token
  /\ \A c \in pending : c.token <= token
  /\ \A t \in push.listed \cup push.dead : t <= token

Registering ==
  /\ \A c \in pending : c.op = "register" /\ c.as = session
  /\ pending # {} => session # NoAccount
  /\ \/ rows[token] = session
     \/ rows[token] = NoAccount /\ Call("register", token, session) \in pending

Removing ==
  /\ session # NoAccount /\ last = token
  /\ \/ pending = {} /\ rows[token] = NoAccount
     \/ pending = {Call("remove", token, session)} /\ rows[token] = session

Repaired ==
  /\ push.pc = "prune" => token \notin push.dead
  /\ IF leaving THEN Removing ELSE Registering

DeviceInv == DeviceTypeOK /\ TokensAreGiven /\ (~spoiled => Repaired)

LEMMA TokensAreNumbers ==
  /\ 1 \in Tokens /\ Tokens \subseteq Nat \ {0}
  /\ \A t \in Tokens : t < MaxTokens => t + 1 \in Tokens
BY DeviceConstantsOK DEF Tokens

LEMMA NoPushIsAPush ==
  /\ NoPush \in Pushes
  /\ NoPush.pc = "idle" /\ NoPush.listed = {} /\ NoPush.dead = {}
BY DEF NoPush, Pushes

\* A call of the session, by its fields.
LEMMA CallFields ==
  ASSUME NEW op \in {"register", "remove"}, NEW t \in Tokens, NEW a \in Accounts \cup {NoAccount}
  PROVE  /\ Call(op, t, a) \in DeviceCalls
         /\ Call(op, t, a).op = op /\ Call(op, t, a).token = t /\ Call(op, t, a).as = a
BY DEF Call, DeviceCalls

LEMMA DeviceInit_Inv == DeviceInit => DeviceInv
<1> SUFFICES ASSUME DeviceInit PROVE DeviceInv
  OBVIOUS
<1>1. DeviceTypeOK
  BY TokensAreNumbers, NoPushIsAPush DEF DeviceInit, DeviceTypeOK
<1>2. TokensAreGiven
  BY NoPushIsAPush DEF DeviceInit, TokensAreGiven
<1>3. Repaired
  BY NoPushIsAPush, TokensAreNumbers DEF DeviceInit, Repaired, Registering
<1>4. QED
  BY <1>1, <1>2, <1>3 DEF DeviceInv

LEMMA DeviceNext_Inv ==
  ASSUME DeviceInv, [DeviceNext]_deviceVars
  PROVE  DeviceInv'
<1> USE DeviceConstantsOK, TokensAreNumbers DEF DeviceInv
<1>1. ASSUME NEW a \in Accounts, SignIn(a)
      PROVE  DeviceInv'
  <2>1. DeviceTypeOK'
    BY <1>1, CallFields DEF SignIn, Send, DeviceTypeOK
  <2>2. TokensAreGiven'
    BY <1>1, CallFields DEF SignIn, Send, DeviceTypeOK, TokensAreGiven
  <2>3. ASSUME ~spoiled' PROVE Repaired'
    <3>1. ~spoiled /\ session = NoAccount /\ pending = {} /\ ~leaving /\ leaving' = leaving
      BY <1>1, <2>3, Zenon DEF SignIn
    <3>2. /\ rows[token] = NoAccount /\ session' = a
          /\ pending' = {Call("register", token, a)}
          /\ UNCHANGED <<token, rows, push>>
      BY <1>1, <3>1 DEF SignIn, Send, Repaired, Registering
    <3>3. Registering'
      BY <3>2, CallFields DEF Registering, DeviceTypeOK
    <3>4. QED
      BY <3>1, <3>2, <3>3 DEF Repaired
  <2>4. QED
    BY <2>1, <2>2, <2>3
<1>2. ASSUME NEW a \in Accounts, ListTokens(a)
      PROVE  DeviceInv'
  <2>1. DeviceTypeOK'
    <3> DEFINE listed == {t \in Tokens : rows[t] = a}
    <3>1. PICK p \in Pushes : p = [[NoPush EXCEPT !.pc = "send"] EXCEPT !.to = a]
      BY NoPushIsAPush DEF Pushes
    <3>2. listed \in SUBSET Tokens
      OBVIOUS
    <3> HIDE DEF listed
    <3>3. [p EXCEPT !.listed = listed] \in Pushes
      BY <3>2 DEF Pushes
    <3>4. push' = [p EXCEPT !.listed = listed]
      BY <1>2, <3>1, Zenon DEF ListTokens, listed
    <3>5. push' \in Pushes
      BY <3>3, <3>4
    <3>6. QED
      BY <1>2, <3>5 DEF ListTokens, DeviceTypeOK
  <2>2. TokensAreGiven'
    BY <1>2, NoPushIsAPush DEF ListTokens, DeviceTypeOK, TokensAreGiven
  <2>3. ~spoiled' => Repaired'
    BY <1>2, NoPushIsAPush DEF ListTokens, DeviceTypeOK, TokensAreGiven, Repaired, Registering, Removing
  <2>4. QED
    BY <2>1, <2>2, <2>3
<1>3. CASE TokenRefresh
  <2>1. DeviceTypeOK'
    BY <1>3, CallFields DEF TokenRefresh, Send, DeviceTypeOK
  <2>2. TokensAreGiven'
    <3>1. /\ token' = token + 1 /\ last' = token' /\ UNCHANGED <<rows, push>>
          /\ pending' \in {pending, pending \cup {Call("register", token', session)}}
      BY <1>3 DEF TokenRefresh, Send
    <3>2. token \in Nat /\ token' \in Tokens
      BY <1>3, <3>1 DEF TokenRefresh, DeviceTypeOK
    <3>3. \A t \in Tokens : t <= token => t <= token'
      BY <3>1, <3>2
    <3>4. \A c \in pending' : c.token <= token'
      <4>1. \A c \in pending : c.token <= token'
        BY <3>3 DEF DeviceTypeOK, TokensAreGiven, DeviceCalls
      <4>2. Call("register", token', session).token <= token'
        BY <3>2, CallFields DEF DeviceTypeOK
      <4>3. QED
        BY <3>1, <4>1, <4>2
    <3>5. \A t \in push'.listed \cup push'.dead : t <= token'
      BY <3>1, <3>3 DEF DeviceTypeOK, TokensAreGiven, Pushes
    <3>6. QED
      BY <3>1, <3>3, <3>4, <3>5 DEF DeviceTypeOK, TokensAreGiven
  <2>3. ASSUME ~spoiled' PROVE Repaired'
    <3>1. ~spoiled /\ ~leaving /\ leaving' = leaving
      BY <1>3, <2>3, Zenon DEF TokenRefresh
    <3>2. /\ token' = token + 1 /\ UNCHANGED <<session, rows, push>>
          /\ IF session = NoAccount THEN pending' = pending
             ELSE pending' = pending \cup {Call("register", token', session)}
      BY <1>3 DEF TokenRefresh, Send
    <3>3. token' \in Tokens /\ rows[token'] = NoAccount
      BY <1>3, <3>2 DEF TokenRefresh, DeviceTypeOK, TokensAreGiven
    <3>4. Registering
      BY <3>1 DEF Repaired
    <3>5. Registering'
      BY <3>2, <3>3, <3>4, CallFields DEF Registering, DeviceTypeOK
    <3>6. push.pc = "prune" => token' \notin push.dead
      BY <3>2 DEF TokensAreGiven, DeviceTypeOK, Pushes
    <3>7. QED
      BY <3>1, <3>2, <3>5, <3>6 DEF Repaired
  <2>4. QED
    BY <2>1, <2>2, <2>3
<1>4. CASE Logout
  <2>1. DeviceTypeOK'
    <3>1. /\ UNCHANGED <<token, last, rows, push>>
          /\ session' \in {session, NoAccount} /\ leaving' \in BOOLEAN /\ spoiled' \in BOOLEAN
      BY <1>4 DEF Logout, DeviceTypeOK
    <3>2. pending' \subseteq DeviceCalls
      BY <1>4, CallFields DEF Logout, Send, DeviceTypeOK
    <3>3. QED
      BY <3>1, <3>2 DEF DeviceTypeOK
  <2>2. TokensAreGiven'
    BY <1>4, CallFields DEF Logout, Send, DeviceTypeOK, TokensAreGiven
  <2>3. ASSUME ~spoiled' PROVE Repaired'
    <3>1. ~spoiled /\ pending = {} /\ last # 0 /\ ~leaving /\ session # NoAccount
      BY <1>4, <2>3, Zenon DEF Logout
    <3>2. /\ leaving' /\ pending' = {Call("remove", last, session)}
          /\ UNCHANGED <<session, token, last, rows, push>>
      BY <1>4, <3>1 DEF Logout, Send
    <3>3. last = token /\ rows[token] = session /\ (push.pc = "prune" => token \notin push.dead)
      BY <3>1 DEF TokensAreGiven, Repaired, Registering
    <3>4. QED
      BY <3>1, <3>2, <3>3 DEF Repaired, Removing
  <2>4. QED
    BY <2>1, <2>2, <2>3
<1>5. CASE ClearSession
  <2>1. DeviceTypeOK'
    BY <1>5, CallFields DEF ClearSession, DeviceTypeOK
  <2>2. TokensAreGiven'
    BY <1>5, CallFields DEF ClearSession, DeviceTypeOK, TokensAreGiven
  <2>3. ~spoiled' => Repaired'
    BY <1>5, CallFields DEF ClearSession, DeviceTypeOK, TokensAreGiven, Repaired, Registering, Removing
  <2>4. QED
    BY <2>1, <2>2, <2>3
<1>6. CASE Expire
  BY <1>6 DEF Expire, DeviceTypeOK, TokensAreGiven, Repaired, Registering, Removing
<1>7. CASE RestartApp
  BY <1>7 DEF RestartApp, DeviceTypeOK, TokensAreGiven, Repaired, Registering, Removing
<1>8. ASSUME NEW c \in pending, Register(c)
      PROVE  DeviceInv'
  <2>1. DeviceTypeOK'
    <3>1. c.token \in Tokens /\ c.as \in Accounts \cup {NoAccount} /\ pending' \subseteq pending
      BY <1>8 DEF Register, DeviceTypeOK, DeviceCalls
    <3>2. rows' \in {rows, [rows EXCEPT ![c.token] = c.as]}
      BY <1>8 DEF Register
    <3>3. QED
      BY <1>8, <3>1, <3>2 DEF Register, DeviceTypeOK
  <2>2. TokensAreGiven'
    BY <1>8, CallFields DEF Register, Visible, DeviceTypeOK, TokensAreGiven
  <2>3. ~spoiled' => Repaired'
    BY <1>8, CallFields DEF Register, Visible, DeviceTypeOK, TokensAreGiven, Repaired, Registering, Removing
  <2>4. QED
    BY <2>1, <2>2, <2>3
<1>9. ASSUME NEW c \in pending, Remove(c)
      PROVE  DeviceInv'
  <2>1. DeviceTypeOK'
    BY <1>9, CallFields DEF Remove, DeviceTypeOK
  <2>2. TokensAreGiven'
    BY <1>9, CallFields DEF Remove, DeviceTypeOK, TokensAreGiven
  <2>3. ~spoiled' => Repaired'
    BY <1>9, CallFields DEF Remove, DeviceTypeOK, TokensAreGiven, Repaired, Registering, Removing
  <2>4. QED
    BY <2>1, <2>2, <2>3
<1>10. ASSUME NEW c \in pending, CallFails(c)
      PROVE  DeviceInv'
  BY <1>10 DEF CallFails, DeviceTypeOK, TokensAreGiven, Repaired, Registering, Removing
<1>11. ASSUME NEW refused \in BOOLEAN, FcmSend(refused)
      PROVE  DeviceInv'
  <2>1. DeviceTypeOK'
    <3> DEFINE dead == IF refused THEN push.listed ELSE push.listed \ {token}
    <3>1. dead \in SUBSET Tokens
      BY DEF DeviceTypeOK, Pushes
    <3>2. PICK p \in Pushes : p = [push EXCEPT !.pc = "prune"]
      BY DEF DeviceTypeOK, Pushes
    <3>3. push' = [p EXCEPT !.dead = dead]
      BY <1>11, <3>2, Zenon DEF FcmSend
    <3> HIDE DEF dead
    <3>4. push' \in Pushes
      BY <3>1, <3>3 DEF Pushes
    <3>5. QED
      BY <1>11, <3>4 DEF FcmSend, DeviceTypeOK
  <2>2. TokensAreGiven'
    BY <1>11 DEF FcmSend, DeviceTypeOK, TokensAreGiven
  <2>3. ~spoiled' => Repaired'
    BY <1>11 DEF FcmSend, DeviceTypeOK, TokensAreGiven, Repaired, Registering, Removing
  <2>4. QED
    BY <2>1, <2>2, <2>3
<1>12. CASE Prune
  <2>1. DeviceTypeOK'
    BY <1>12, NoPushIsAPush DEF Prune, DeviceTypeOK
  <2>2. TokensAreGiven'
    BY <1>12, NoPushIsAPush DEF Prune, DeviceTypeOK, TokensAreGiven
  <2>3. ~spoiled' => Repaired'
    BY <1>12, NoPushIsAPush DEF Prune, DeviceTypeOK, TokensAreGiven, Repaired, Registering, Removing
  <2>4. QED
    BY <2>1, <2>2, <2>3
<1>13. CASE UNCHANGED deviceVars
  BY <1>13 DEF deviceVars, DeviceTypeOK, TokensAreGiven, Repaired, Registering, Removing
<1>14. QED
  BY <1>1, <1>2, <1>3, <1>4, <1>5, <1>6, <1>7, <1>8, <1>9, <1>10, <1>11, <1>12, <1>13 DEF DeviceNext

\* A row that the device's token has belongs to the account signed in, until a
\* call fails, a session expires or a tribe is switched (push_service.dart).
THEOREM RowsFollowSessions == DeviceSpec => []RowFollowsSession
<1>1. DeviceInv => RowFollowsSession
  BY DEF DeviceInv, Repaired, Registering, RowFollowsSession
<1>2. QED
  BY <1>1, DeviceInit_Inv, DeviceNext_Inv, PTL DEF DeviceSpec

-----------------------------------------------------------------------------
(* ViewRequests.  The form keeps a key only of an object that was stored    *)
(* whole, and a request that was not disturbed has at most one decision     *)
(* under way, whose viewer is the only one of the request.                  *)

Forms == [pc : {"edit", "upload", "create", "done"}, key : Nat, uploads : Nat]
Uploads == [pc : {"none", "body"}, kind : {"ok", "refused"}, large : BOOLEAN, ended : BOOLEAN,
            slugFirst : BOOLEAN, slug : BOOLEAN, put : {"no", "going"}]
ViewRows == [status : {"pending", "approved", "rejected"}, key : Nat, viewer : Nat]
Decisions == [pc : {"idle", "grant", "write"}, approve : BOOLEAN, of : Nat, viewer : Nat]

Whole(key) == \E o \in stored : o.key = key /\ o.kind = "ok" /\ ~o.large

FormInv ==
  /\ form \in Forms /\ upload \in Uploads
  /\ upload.put = "going" => upload.kind = "ok"
  /\ upload.ended => ~upload.large
  /\ form.pc = "create" /\ form.key # NoKey => Whole(form.key)
  /\ KeysNameObjects

ViewerIds(r) == {v.id : v \in {w \in viewers : w.of = r}}

\* The viewers that a request should have, with a decision of it under way and
\* without one.
Following(r) ==
  /\ \A a, b \in Deciding(r) : a = b
  /\ \A a \in Deciding(r) :
       /\ Pending(r) /\ (decisions[a].pc = "grant" => decisions[a].approve)
       /\ ViewerIds(r) = IF decisions[a].pc = "write" /\ decisions[a].approve
                           THEN {decisions[a].viewer} ELSE {}
  /\ Deciding(r) = {} =>
       ViewerIds(r) = IF viewReq[r].status = "approved" THEN {viewReq[r].viewer} ELSE {}

DecisionInv ==
  /\ viewReq \in Seq(ViewRows) /\ IsFiniteSet(viewers) /\ decisions \in [Admins -> Decisions]
  /\ \A v \in viewers : v.of \in DOMAIN viewReq
  /\ \A a \in Admins : decisions[a].pc # "idle" => decisions[a].of \in DOMAIN viewReq
  /\ \A r \in DOMAIN viewReq \ disturbed : Following(r)

LEMMA NoUploadIsSound ==
  /\ NoUpload \in Uploads
  /\ NoUpload.put = "no" /\ ~NoUpload.ended
BY DEF NoUpload, Uploads

\* An upload that begins has stored nothing.
LEMMA UploadBegins ==
  ASSUME NEW kind \in {"ok", "refused"}, NEW large \in BOOLEAN, NEW slugFirst \in BOOLEAN,
         NEW u, u = [NoUpload EXCEPT !.pc = "body", !.kind = kind, !.large = large,
                                     !.slugFirst = slugFirst, !.slug = slugFirst]
  PROVE  u \in Uploads /\ u.put = "no" /\ ~u.ended
<1>1. PICK x \in Uploads : x = [NoUpload EXCEPT !.pc = "body"]
  BY NoUploadIsSound DEF Uploads
<1>2. PICK y \in Uploads : y = [x EXCEPT !.kind = kind]
  BY DEF Uploads
<1>3. PICK z \in Uploads : z = [y EXCEPT !.large = large]
  BY DEF Uploads
<1>4. PICK t \in Uploads : t = [z EXCEPT !.slugFirst = slugFirst]
  BY DEF Uploads
<1>5. u = [t EXCEPT !.slug = slugFirst]
  BY <1>1, <1>2, <1>3, <1>4, Zenon
<1>6. u \in Uploads
  BY <1>5 DEF Uploads
<1>7. t.put = "no" /\ ~t.ended
  BY <1>1, <1>2, <1>3, <1>4, NoUploadIsSound DEF Uploads
<1>8. u.put = "no" /\ ~u.ended
  BY <1>5, <1>7 DEF Uploads
<1>9. QED
  BY <1>6, <1>8

LEMMA ViewInit_Form == ViewInit => FormInv
BY NoUploadIsSound DEF ViewInit, FormInv, Forms, KeysNameObjects, NoKey

LEMMA ViewNext_Form ==
  ASSUME FormInv, viewReq \in Seq(ViewRows), [ViewNext]_viewVars
  PROVE  FormInv'
<1> USE DEF FormInv
\* Refuse, after which the form can be edited
<1>1. ASSUME Refuse, UNCHANGED stored, FormUnchanged
      PROVE  FormInv'
  <2>1. form' \in Forms /\ form'.pc = "edit"
    BY <1>1 DEF Refuse, Forms
  <2>2. QED
    BY <1>1, <2>1, NoUploadIsSound DEF Refuse, FormUnchanged, KeysNameObjects
<1>2. ASSUME NEW withFile \in BOOLEAN, NEW kind \in {"ok", "refused"}, NEW large \in BOOLEAN,
             NEW slugFirst \in BOOLEAN, SubmitForm(withFile, kind, large, slugFirst)
      PROVE  FormInv'
  <2>1. UNCHANGED <<stored, viewReq>>
    BY <1>2 DEF SubmitForm, FormUnchanged
  <2>2. CASE withFile
    <3>1. form' \in Forms /\ form'.pc = "upload"
      <4>1. PICK f \in Forms : f = [form EXCEPT !.pc = "upload"]
        BY DEF Forms
      <4>2. f.pc = "upload" /\ f.uploads = form.uploads
        BY <4>1 DEF Forms
      <4>3. form' = [f EXCEPT !.uploads = form.uploads + 1]
        BY <1>2, <2>2, <4>1, <4>2 DEF SubmitForm
      <4>4. QED
        BY <4>2, <4>3 DEF Forms
    <3>2. upload' \in Uploads /\ upload'.put = "no" /\ ~upload'.ended
      <4>1. upload' = [NoUpload EXCEPT !.pc = "body", !.kind = kind, !.large = large,
                                       !.slugFirst = slugFirst, !.slug = slugFirst]
        BY <1>2, <2>2, Zenon DEF SubmitForm
      <4>2. QED
        BY <4>1, UploadBegins, Zenon
    <3>3. QED
      BY <2>1, <3>1, <3>2 DEF KeysNameObjects
  <2>3. CASE ~withFile
    <3>1. form' \in Forms /\ form'.key = NoKey /\ UNCHANGED upload
      <4>1. PICK f \in Forms : f = [form EXCEPT !.pc = "create"]
        BY DEF Forms
      <4>2. form' = [f EXCEPT !.key = NoKey] /\ UNCHANGED upload
        BY <1>2, <2>3, <4>1, Zenon DEF SubmitForm
      <4>3. QED
        BY <4>2 DEF Forms, NoKey
    <3>2. QED
      BY <2>1, <3>1 DEF KeysNameObjects
  <2>4. QED
    BY <2>2, <2>3
<1>3. CASE FirstChunk
  BY <1>1, <1>3 DEF FirstChunk, FormUnchanged, Uploads, KeysNameObjects, Whole
<1>4. CASE EndOfFile
  BY <1>1, <1>4 DEF EndOfFile, FormUnchanged, Uploads, KeysNameObjects, Whole
<1>5. CASE SlugField
  BY <1>5 DEF SlugField, FormUnchanged, Uploads, KeysNameObjects, Whole
<1>6. CASE PutEnds
  <2>1. CASE upload.slug
    <3> DEFINE object == [key |-> form.uploads, kind |-> upload.kind, large |-> upload.large]
    <3>1. object.key = form.uploads /\ object.kind = "ok" /\ ~object.large
      BY <1>6 DEF PutEnds
    <3> HIDE DEF object
    <3>2. stored' = stored \cup {object} /\ upload' = NoUpload /\ UNCHANGED viewReq
      BY <1>6, <2>1 DEF PutEnds, FormUnchanged, object
    <3>3. form' \in Forms /\ form'.key = form.uploads
      BY <1>6, <2>1 DEF PutEnds, Forms
    <3>4. Whole(form.key)'
      BY <3>1, <3>2, <3>3 DEF Whole
    <3>5. KeysNameObjects'
      BY <3>2 DEF KeysNameObjects
    <3>6. QED
      BY <3>2, <3>3, <3>4, <3>5, NoUploadIsSound
  <2>2. QED
    BY <1>1, <1>6, <2>1 DEF PutEnds
<1>7. CASE PutFails
  BY <1>1, <1>7 DEF PutFails
<1>8. ASSUME NEW notified \in BOOLEAN, Create(notified)
      PROVE  FormInv'
  <2>1. form' \in Forms /\ form'.pc # "create"
    BY <1>8 DEF Create, Forms
  <2>2. UNCHANGED <<upload, stored>>
    BY <1>8 DEF Create
  <2>3. KeysNameObjects'
    <3>1. CASE UNCHANGED viewReq
      BY <2>2, <3>1 DEF KeysNameObjects
    <3>2. CASE viewReq' = Append(viewReq, [status |-> "pending", key |-> form.key, viewer |-> 0])
      BY <1>8, <2>2, <3>2 DEF Create, KeysNameObjects, Whole, Forms, ViewRows
    <3>3. QED
      BY <1>8, <3>1, <3>2 DEF Create
  <2>4. QED
    BY <2>1, <2>2, <2>3
<1>9. ASSUME NEW a \in Admins, WriteDecision(a)
      PROVE  FormInv'
  <2>1. UNCHANGED <<form, upload, stored>>
    BY <1>9 DEF WriteDecision, DecideUnchanged
  <2>2. /\ DOMAIN viewReq' = DOMAIN viewReq
        /\ \A r \in DOMAIN viewReq : viewReq'[r].key = viewReq[r].key
    BY <1>9 DEF WriteDecision, ViewRows
  <2>3. QED
    BY <2>1, <2>2 DEF KeysNameObjects, Whole
<1>10. CASE UNCHANGED <<form, upload, stored, viewReq>>
  BY <1>10 DEF KeysNameObjects, Whole
<1>11. QED
  BY <1>2, <1>3, <1>4, <1>5, <1>6, <1>7, <1>8, <1>9, <1>10
     DEF ViewNext, viewVars, ChangeSettings, FormUnchanged, StartDecision, Start, GrantViewer,
         DecisionDies, DecideUnchanged

LEMMA NoCallIsIdle == NoCall \in Decisions /\ NoCall.pc = "idle"
BY DEF NoCall, Decisions

\* What a request follows is its own row, its viewers and its decisions.
LEMMA FollowingIsKept ==
  ASSUME NEW q, Following(q), viewReq'[q] = viewReq[q], ViewerIds(q)' = ViewerIds(q),
         Deciding(q)' = Deciding(q), \A a \in Deciding(q) : decisions'[a] = decisions[a]
  PROVE  Following(q)'
BY DEF Following, Pending

LEMMA ViewInit_Decision == ViewInit => DecisionInv
BY NoCallIsIdle, FS_EmptySet DEF ViewInit, DecisionInv

LEMMA ViewNext_Decision ==
  ASSUME FormInv, DecisionInv, [ViewNext]_viewVars
  PROVE  DecisionInv'
<1> USE DEF DecisionInv
<1>1. ASSUME NEW notified \in BOOLEAN, Create(notified)
      PROVE  DecisionInv'
  <2>1. UNCHANGED <<viewers, decisions, disturbed>>
    BY <1>1 DEF Create
  <2>same. \A q : Deciding(q)' = Deciding(q) /\ ViewerIds(q)' = ViewerIds(q)
    BY <2>1 DEF Deciding, ViewerIds
  <2>2. CASE UNCHANGED viewReq
    BY <2>same, <2>1, <2>2, FollowingIsKept
  <2>3. CASE viewReq' = Append(viewReq, [status |-> "pending", key |-> form.key, viewer |-> 0])
    <3>new. PICK new \in Nat : new = Len(viewReq) + 1
      OBVIOUS
    <3>1. /\ viewReq' \in Seq(ViewRows) /\ DOMAIN viewReq' = DOMAIN viewReq \cup {new}
          /\ \A r \in DOMAIN viewReq : viewReq'[r] = viewReq[r]
          /\ viewReq'[new].status = "pending" /\ new \notin DOMAIN viewReq
      BY <2>3, <3>new DEF FormInv, Forms, ViewRows
    <3>2. Deciding(new) = {} /\ ViewerIds(new) = {}
      BY <3>1 DEF Deciding, ViewerIds
    <3>3. Following(new)'
      BY <2>same, <3>1, <3>2 DEF Following
    <3>4. \A r \in DOMAIN viewReq : Following(r) => Following(r)'
      BY <2>same, <2>1, <3>1, FollowingIsKept
    <3>5. QED
      BY <2>1, <3>1, <3>3, <3>4
  <2>4. QED
    BY <1>1, <2>2, <2>3 DEF Create
<1>2. ASSUME NEW a \in Admins, NEW r \in DOMAIN viewReq, NEW approve \in BOOLEAN,
             StartDecision(a, r, approve)
      PROVE  DecisionInv'
  <2> DEFINE call == [pc |-> IF approve THEN "grant" ELSE "write", approve |-> approve,
                      of |-> r, viewer |-> 0]
  <2>1. /\ call \in Decisions /\ call.of = r /\ call.pc \in {"grant", "write"}
        /\ call.pc = "grant" => call.approve
        /\ ~(call.pc = "write" /\ call.approve)
    BY DEF Decisions
  <2>2. decisions' = [decisions EXCEPT ![a] = call] /\ UNCHANGED <<viewReq, viewers>>
    BY <1>2 DEF StartDecision, Start
  <2>3. disturbed' = IF Deciding(r) # {} THEN disturbed \cup {r} ELSE disturbed
    BY <1>2 DEF StartDecision, Start
  <2>4. decisions[a].pc = "idle" /\ viewReq[r].status = "pending"
    BY <1>2 DEF StartDecision, Pending
  <2> HIDE DEF call
  <2>5. decisions' \in [Admins -> Decisions]
        /\ \A b \in Admins : decisions'[b].pc # "idle" => decisions'[b].of \in DOMAIN viewReq
    BY <2>1, <2>2
  <2>6. ASSUME NEW q \in DOMAIN viewReq \ disturbed'
        PROVE  Following(q)'
    <3>1. CASE q # r
      <4>1. Deciding(q)' = Deciding(q) /\ \A b \in Deciding(q) : decisions'[b] = decisions[b]
        BY <2>1, <2>2, <2>4, <3>1 DEF Deciding
      <4>2. ViewerIds(q)' = ViewerIds(q) /\ viewReq'[q] = viewReq[q] /\ q \notin disturbed
        BY <2>2, <2>3, <2>6 DEF ViewerIds
      <4>3. QED
        BY <2>2, <2>6, <4>1, <4>2, FollowingIsKept
    <3>2. CASE q = r
      <4>1. Deciding(r) = {} /\ Deciding(r)' = {a}
        BY <2>1, <2>2, <2>3, <3>2 DEF Deciding
      <4>2. ViewerIds(r)' = {}
        BY <2>2, <2>3, <2>4, <2>6, <3>2, <4>1 DEF Following, ViewerIds
      <4>3. decisions'[a] = call /\ viewReq'[q] = viewReq[q]
        BY <2>2
      <4>4. QED
        BY <2>1, <2>4, <3>2, <4>1, <4>2, <4>3 DEF Following, Pending
    <3>3. QED
      BY <3>1, <3>2
  <2>7. QED
    BY <2>2, <2>5, <2>6
<1>3. ASSUME NEW a \in Admins, GrantViewer(a)
      PROVE  DecisionInv'
  <2>v. PICK v \in Nat : v = Cardinality(viewers) + 1
    BY FS_CardinalityType
  <2>r. PICK r \in DOMAIN viewReq : r = decisions[a].of
    BY <1>3 DEF GrantViewer
  <2>1. decisions[a].pc = "grant"
    BY <1>3 DEF GrantViewer
  <2>2. UNCHANGED <<viewReq, disturbed>>
    BY <1>3 DEF GrantViewer
  <2>3. viewers' = viewers \cup {[id |-> v, of |-> r]}
    BY <1>3, <2>v, <2>r DEF GrantViewer
  <2>4. PICK call \in Decisions : call = [decisions[a] EXCEPT !.pc = "write"]
    BY DEF Decisions
  <2>5. call.pc = "write" /\ call.of = decisions[a].of /\ call.approve = decisions[a].approve
    BY <2>4 DEF Decisions
  <2>6. PICK done \in Decisions : done = [call EXCEPT !.viewer = v]
    BY <2>1 DEF Decisions
  <2>7. done.pc = "write" /\ done.of = r /\ done.approve = decisions[a].approve /\ done.viewer = v
    BY <2>r, <2>5, <2>6 DEF Decisions
  <2>8. decisions' = [decisions EXCEPT ![a] = done]
    BY <1>3, <2>v, <2>4, <2>6 DEF GrantViewer
  <2>9. IsFiniteSet(viewers') /\ \A w \in viewers' : w.of \in DOMAIN viewReq
    <3>1. IsFiniteSet(viewers')
      BY <2>3, FS_AddElement
    <3>2. \A w \in viewers' : w.of \in DOMAIN viewReq
      BY <2>1, <2>3
    <3>3. QED
      BY <3>1, <3>2
  <2>10. decisions' \in [Admins -> Decisions]
         /\ \A b \in Admins : decisions'[b].pc # "idle" => decisions'[b].of \in DOMAIN viewReq
    BY <2>1, <2>7, <2>8
  <2>11. \A q : Deciding(q)' = Deciding(q)
    BY <2>1, <2>r, <2>7, <2>8 DEF Deciding
  <2>12. /\ \A q : q # r => ViewerIds(q)' = ViewerIds(q)
         /\ ViewerIds(r)' = ViewerIds(r) \cup {v}
    <3> DEFINE new == [id |-> v, of |-> r]
    <3>1. new.of = r /\ new.id = v /\ viewers' = viewers \cup {new}
      BY <2>3
    <3> HIDE DEF new
    <3>2. ASSUME NEW q, q # r PROVE ViewerIds(q)' = ViewerIds(q)
      <4>1. {w \in viewers' : w.of = q} = {w \in viewers : w.of = q}
        BY <3>1, <3>2
      <4>2. QED
        BY <4>1 DEF ViewerIds
    <3>3. ViewerIds(r)' = ViewerIds(r) \cup {v}
      <4>1. {w \in viewers' : w.of = r} = {w \in viewers : w.of = r} \cup {new}
        BY <3>1
      <4>2. {w.id : w \in {x \in viewers : x.of = r} \cup {new}} =
              {w.id : w \in {x \in viewers : x.of = r}} \cup {new.id}
        OBVIOUS
      <4>3. QED
        BY <3>1, <4>1, <4>2 DEF ViewerIds
    <3>4. QED
      BY <3>2, <3>3
  <2>13. ASSUME NEW q \in DOMAIN viewReq \ disturbed
         PROVE  Following(q)'
    <3>1. CASE q # r
      <4>1. \A b \in Deciding(q) : decisions'[b] = decisions[b]
        BY <2>r, <2>8, <3>1 DEF Deciding
      <4>2. QED
        BY <2>2, <2>11, <2>12, <2>13, <3>1, <4>1, FollowingIsKept
    <3>2. CASE q = r
      <4>1. Deciding(r) = {a}
        BY <2>1, <2>r, <2>13, <3>2 DEF Following, Deciding
      <4>2. ViewerIds(r) = {} /\ decisions[a].approve /\ viewReq[r].status = "pending"
        BY <2>1, <2>13, <3>2, <4>1 DEF Following, Pending
      <4>3. decisions'[a] = done
        BY <2>8
      <4>4. QED
        <5>1. decisions'[a].pc = "write" /\ decisions'[a].approve /\ decisions'[a].viewer = v
          BY <2>7, <4>2, <4>3
        <5>2. ViewerIds(r)' = {v} /\ Deciding(r)' = {a} /\ viewReq'[r].status = "pending"
          BY <2>2, <2>11, <2>12, <4>1, <4>2
        <5>3. QED
          BY <3>2, <5>1, <5>2 DEF Following, Pending
    <3>3. QED
      BY <3>1, <3>2
  <2>14. QED
    BY <2>2, <2>9, <2>10, <2>13
<1>4. ASSUME NEW a \in Admins, WriteDecision(a)
      PROVE  DecisionInv'
  <2> DEFINE r == decisions[a].of
  <2>1. r \in DOMAIN viewReq /\ decisions[a].pc = "write" /\ decisions[a] \in Decisions
    BY <1>4 DEF WriteDecision
  <2>row. viewReq[r] \in ViewRows
    BY <2>1
  <2>2. decisions' = [decisions EXCEPT ![a] = NoCall] /\ UNCHANGED <<viewers, disturbed>>
    BY <1>4 DEF WriteDecision
  <2>3. /\ viewReq' \in Seq(ViewRows) /\ DOMAIN viewReq' = DOMAIN viewReq
        /\ \A q \in DOMAIN viewReq \ {r} : viewReq'[q] = viewReq[q]
        /\ decisions[a].approve =>
             viewReq'[r].status = "approved" /\ viewReq'[r].viewer = decisions[a].viewer
        /\ ~decisions[a].approve => viewReq'[r].status = "rejected"
    <3>1. CASE decisions[a].approve
      <4>1. PICK row \in ViewRows : row = [viewReq[r] EXCEPT !.status = "approved"]
        BY <2>row DEF ViewRows
      <4>2. row.status = "approved" /\ decisions[a].viewer \in Nat
        BY <2>row, <2>1, <4>1 DEF ViewRows, Decisions
      <4>3. PICK full \in ViewRows : full = [row EXCEPT !.viewer = decisions[a].viewer]
        BY <4>2 DEF ViewRows
      <4>4. full.status = "approved" /\ full.viewer = decisions[a].viewer
        BY <4>2, <4>3 DEF ViewRows
      <4>5. viewReq' = [viewReq EXCEPT ![r] = full]
        BY <1>4, <2>1, <3>1, <4>1, <4>3 DEF WriteDecision
      <4>6. QED
        BY <2>1, <3>1, <4>4, <4>5
    <3>2. CASE ~decisions[a].approve
      <4>1. PICK row \in ViewRows : row = [viewReq[r] EXCEPT !.status = "rejected"]
        BY <2>row DEF ViewRows
      <4>2. row.status = "rejected"
        BY <2>row, <4>1 DEF ViewRows
      <4>3. viewReq' = [viewReq EXCEPT ![r] = row]
        BY <1>4, <3>2, <4>1 DEF WriteDecision
      <4>4. QED
        BY <2>1, <3>2, <4>2, <4>3
    <3>3. QED
      BY <3>1, <3>2
  <2>4. decisions' \in [Admins -> Decisions]
        /\ \A b \in Admins : decisions'[b].pc # "idle" => decisions'[b].of \in DOMAIN viewReq
    BY <2>2, NoCallIsIdle
  <2>5. ASSUME NEW q \in DOMAIN viewReq \ disturbed
        PROVE  Following(q)'
    <3>1. ViewerIds(q)' = ViewerIds(q)
      BY <2>2 DEF ViewerIds
    <3>2. CASE q # r
      <4>1. Deciding(q)' = Deciding(q) /\ \A b \in Deciding(q) : decisions'[b] = decisions[b]
        BY <2>2, <3>2, NoCallIsIdle DEF Deciding
      <4>2. QED
        BY <2>3, <2>5, <3>1, <3>2, <4>1, FollowingIsKept
    <3>3. CASE q = r
      <4>1. Deciding(q) = {a} /\ Deciding(q)' = {}
        BY <2>1, <2>2, <2>5, <3>3, NoCallIsIdle DEF Following, Deciding
      <4>2. ViewerIds(q) = IF decisions[a].approve THEN {decisions[a].viewer} ELSE {}
        BY <2>1, <2>5, <4>1 DEF Following
      <4>3. QED
        BY <2>3, <3>1, <3>3, <4>1, <4>2 DEF Following
    <3>4. QED
      BY <3>2, <3>3
  <2>6. QED
    BY <2>2, <2>3, <2>4, <2>5
<1>5. ASSUME NEW a \in Admins, DecisionDies(a)
      PROVE  DecisionInv'
  <2>1. /\ decisions' = [decisions EXCEPT ![a] = NoCall] /\ UNCHANGED <<viewReq, viewers>>
        /\ disturbed' = disturbed \cup {decisions[a].of}
    BY <1>5 DEF DecisionDies
  <2>2. ASSUME NEW q \in DOMAIN viewReq \ disturbed'
        PROVE  Following(q)'
    <3>1. Deciding(q)' = Deciding(q) /\ \A b \in Deciding(q) : decisions'[b] = decisions[b]
      BY <2>1, <2>2, NoCallIsIdle DEF Deciding
    <3>2. QED
      <4>1. ViewerIds(q)' = ViewerIds(q) /\ viewReq'[q] = viewReq[q]
        BY <2>1 DEF ViewerIds
      <4>2. QED
        BY <2>1, <2>2, <3>1, <4>1, FollowingIsKept
  <2>3. QED
    BY <2>1, <2>2, NoCallIsIdle
<1>6. CASE UNCHANGED <<viewReq, viewers, decisions, disturbed>>
  <2>1. \A q : Deciding(q)' = Deciding(q) /\ ViewerIds(q)' = ViewerIds(q)
    BY <1>6 DEF Deciding, ViewerIds
  <2>2. QED
    BY <1>6, <2>1, FollowingIsKept
<1>7. ASSUME \/ ChangeSettings \/ FirstChunk \/ EndOfFile \/ SlugField \/ PutEnds \/ PutFails
             \/ \E withFile, large, slugFirst \in BOOLEAN, kind \in {"ok", "refused"} :
                  SubmitForm(withFile, kind, large, slugFirst)
      PROVE  UNCHANGED <<viewReq, viewers, decisions, disturbed>>
  <2>1. ChangeSettings => UNCHANGED <<viewReq, viewers, decisions, disturbed>>
    BY DEF ChangeSettings
  <2>2. FirstChunk \/ EndOfFile \/ SlugField \/ PutEnds \/ PutFails => FormUnchanged
    BY Zenon DEF FirstChunk, EndOfFile, SlugField, PutEnds, PutFails
  <2>3. ASSUME NEW withFile \in BOOLEAN, NEW large \in BOOLEAN, NEW slugFirst \in BOOLEAN,
               NEW kind \in {"ok", "refused"}, SubmitForm(withFile, kind, large, slugFirst)
        PROVE  FormUnchanged
    BY <2>3, Zenon DEF SubmitForm
  <2>4. FormUnchanged => UNCHANGED <<viewReq, viewers, decisions, disturbed>>
    BY DEF FormUnchanged
  <2>5. QED
    BY <1>7, <2>1, <2>2, <2>3, <2>4
<1>8. UNCHANGED viewVars => UNCHANGED <<viewReq, viewers, decisions, disturbed>>
  BY DEF viewVars
<1>9. QED
  BY <1>1, <1>2, <1>3, <1>4, <1>5, <1>6, <1>7, <1>8 DEF ViewNext

LEMMA ViewInvariant == ViewSpec => [](FormInv /\ DecisionInv)
<1>1. FormInv /\ DecisionInv /\ [ViewNext]_viewVars => (FormInv /\ DecisionInv)'
  BY ViewNext_Form, ViewNext_Decision DEF DecisionInv
<1>2. QED
  BY <1>1, ViewInit_Form, ViewInit_Decision, PTL DEF ViewSpec

\* A request names no object that is missing, of a refused kind or too large,
\* in whatever order the parts of a form arrive (id-upload.util.ts).
THEOREM KeysAreStored == ViewSpec => []KeysNameObjects
<1>1. FormInv => KeysNameObjects
  BY DEF FormInv
<1>2. QED
  BY <1>1, ViewInvariant, PTL

\* One decision, one viewer: of a request that nobody decided at the same time
\* as somebody else the viewers are what its status says (view-request.service).
THEOREM OneViewerPerApproval == ViewSpec => []ViewersFollowDecisions
<1>1. DecisionInv => ViewersFollowDecisions
  BY DEF DecisionInv, Following, ViewersFollowDecisions, ViewerIds
<1>2. QED
  BY <1>1, ViewInvariant, PTL

-----------------------------------------------------------------------------
(* Reputation.  Every row that a reviewer has read leaves room for the      *)
(* decisions that are still to be written, and misses at most the           *)
(* decisions under way and those that are given up as uncounted.            *)

RepRows == [exists : BOOLEAN, accepted : Nat, rejected : Nat, total : Nat,
            trust : {"bronze", "silver", "gold"}]
Recordings == [pc : {"idle", "find", "create", "compute", "write"}, accepted : BOOLEAN,
               row : RepRows, shared : BOOLEAN]

RepTypeOK ==
  /\ rep \in RepRows /\ deciding \in [Reviewers -> Recordings]
  /\ decided \in [accepted : Nat, rejected : Nat] /\ uncounted \in Nat
  /\ IsFiniteSet(Busy)

Yes == {r \in Busy : deciding[r].accepted}
No == {r \in Busy : ~deciding[r].accepted}
Made == decided.accepted + decided.rejected

\* What a row may count at most, the decisions of S being in it already, and
\* what it must count at least.
YesBound(S) == decided.accepted - Cardinality(Yes \ S)
NoBound(S) == decided.rejected - Cardinality(No \ S)
Least == Made - uncounted - Cardinality(Busy)

Fair(row, yes, no, least) ==
  /\ row.total = row.accepted + row.rejected
  /\ row.accepted <= yes /\ row.rejected <= no /\ row.total >= least

RowIsFair(r) ==
  /\ deciding[r].pc = "compute" => Fair(deciding[r].row, YesBound({}), NoBound({}), Least)
  /\ deciding[r].pc = "write" =>
       /\ deciding[r].row.exists
       /\ Fair(deciding[r].row, YesBound({r}), NoBound({r}), Least + 1)

RepInv ==
  /\ RepTypeOK
  /\ Fair(rep, YesBound({}), NoBound({}), Least) /\ (~rep.exists => rep.total = 0)
  /\ \A r \in Busy : RowIsFair(r) /\ (~deciding[r].shared => Busy = {r})

LEMMA NoRowIsARow ==
  /\ NoRow \in RepRows /\ ~NoRow.exists
  /\ NoRow.accepted = 0 /\ NoRow.rejected = 0 /\ NoRow.total = 0
BY DEF NoRow, RepRows

LEMMA QuietIsIdle == Quiet \in Recordings /\ Quiet.pc = "idle"
BY NoRowIsARow DEF Quiet, Recordings

\* recordDecision adds the decision to one of the two counters and to the total.
LEMMA CountedAddsOne ==
  ASSUME NEW row \in RepRows, NEW accepted \in BOOLEAN
  PROVE  /\ Counted(row, accepted) \in RepRows /\ Counted(row, accepted).exists
         /\ Counted(row, accepted).total = row.total + 1
         /\ Counted(row, accepted).accepted = row.accepted + (IF accepted THEN 1 ELSE 0)
         /\ Counted(row, accepted).rejected = row.rejected + (IF accepted THEN 0 ELSE 1)
<1> DEFINE yes == row.accepted + (IF accepted THEN 1 ELSE 0)
           no == row.rejected + (IF accepted THEN 0 ELSE 1)
<1>1. PICK trust \in {"bronze", "silver", "gold"} : trust = deriveTrust(yes, no)
  BY DEF deriveTrust
<1>2. yes \in Nat /\ no \in Nat /\ row.total + 1 \in Nat
  BY DEF RepRows
<1>3. Counted(row, accepted) = [exists |-> TRUE, accepted |-> yes, rejected |-> no,
                                total |-> row.total + 1, trust |-> trust]
  BY <1>1, Zenon DEF Counted
<1> HIDE DEF yes, no
<1>4. /\ Counted(row, accepted) \in RepRows /\ Counted(row, accepted).exists
      /\ Counted(row, accepted).total = row.total + 1
      /\ Counted(row, accepted).accepted = yes /\ Counted(row, accepted).rejected = no
  BY <1>1, <1>2, <1>3 DEF RepRows
<1>5. QED
  BY <1>4 DEF yes, no

LEMMA FairIsMonotone ==
  ASSUME NEW row \in RepRows, NEW y1 \in Int, NEW n1 \in Int, NEW l1 \in Int,
         NEW y2 \in Int, NEW n2 \in Int, NEW l2 \in Int,
         Fair(row, y1, n1, l1), y1 <= y2, n1 <= n2, l2 <= l1
  PROVE  Fair(row, y2, n2, l2)
BY DEF Fair, RepRows

LEMMA BoundsAreNumbers ==
  ASSUME RepTypeOK
  PROVE  /\ \A S : IsFiniteSet(Yes \ S) /\ IsFiniteSet(No \ S)
         /\ \A S : YesBound(S) \in Int /\ NoBound(S) \in Int
         /\ Made \in Nat /\ Cardinality(Busy) \in Nat /\ Least \in Int
<1>1. \A S : Yes \ S \subseteq Busy /\ No \ S \subseteq Busy
  BY DEF Yes, No
<1>2. \A S : IsFiniteSet(Yes \ S) /\ IsFiniteSet(No \ S)
  BY <1>1, FS_Subset DEF RepTypeOK
<1>3. \A S : Cardinality(Yes \ S) \in Nat /\ Cardinality(No \ S) \in Nat
  BY <1>2, FS_CardinalityType
<1>4. /\ Cardinality(Busy) \in Nat /\ uncounted \in Nat
      /\ decided.accepted \in Nat /\ decided.rejected \in Nat
  BY FS_CardinalityType DEF RepTypeOK
<1>5. ASSUME NEW S PROVE YesBound(S) \in Int /\ NoBound(S) \in Int
  <2>1. Cardinality(Yes \ S) \in Nat /\ Cardinality(No \ S) \in Nat
    BY <1>3
  <2>2. QED
    BY <1>4, <2>1 DEF YesBound, NoBound
<1>6. Made \in Nat
  BY <1>4 DEF Made
<1>7. Least \in Int
  BY <1>4, <1>6 DEF Least
<1>8. QED
  BY <1>2, <1>4, <1>5, <1>6, <1>7

LEMMA BoundsAreTyped == RepTypeOK => \A S : YesBound(S) \in Int /\ NoBound(S) \in Int
BY BoundsAreNumbers

LEMMA BoundsStayNumbers ==
  RepTypeOK' => (\A S : YesBound(S) \in Int /\ NoBound(S) \in Int)'
BY BoundsAreTyped, PTL

\* The bounds depend on who is busy with which decision, and on no row.
LEMMA BoundsAreKept ==
  ASSUME RepTypeOK, UNCHANGED <<decided, uncounted>>, Busy' = Busy,
         \A r \in Busy : deciding'[r].accepted = deciding[r].accepted
  PROVE  /\ \A S : YesBound(S)' = YesBound(S) /\ NoBound(S)' = NoBound(S)
         /\ Least' = Least
<1>1. Yes' = Yes /\ No' = No
  BY DEF Yes, No
<1>2. QED
  BY <1>1 DEF YesBound, NoBound, Least, Made

LEMMA RepInit_Inv == RepInit => RepInv
<1> SUFFICES ASSUME RepInit PROVE RepInv
  OBVIOUS
<1>1. Busy = {} /\ Yes = {} /\ No = {}
  BY QuietIsIdle DEF RepInit, Busy, Yes, No
<1>2. RepTypeOK
  BY <1>1, NoRowIsARow, QuietIsIdle, FS_EmptySet DEF RepInit, RepTypeOK
<1>3. YesBound({}) = 0 /\ NoBound({}) = 0 /\ Least = 0
  BY <1>1, FS_EmptySet DEF RepInit, YesBound, NoBound, Least, Made
<1>4. QED
  BY <1>1, <1>2, <1>3, NoRowIsARow DEF RepInit, RepInv, Fair

\* One reviewer goes on to the next statement.
LEMMA OneGoesOn ==
  ASSUME RepInv, NEW r \in Busy, NEW pc \in {"create", "compute", "write"}, NEW row \in RepRows,
         deciding' = [deciding EXCEPT ![r].pc = pc, ![r].row = row],
         UNCHANGED <<decided, uncounted>>
  PROVE  /\ deciding' \in [Reviewers -> Recordings]
         /\ deciding'[r].pc = pc /\ deciding'[r].row = row
         /\ \A q \in Busy \ {r} : deciding'[q] = deciding[q]
         /\ \A q \in Busy : deciding'[q].shared = deciding[q].shared
         /\ Busy' = Busy
         /\ \A S : YesBound(S)' = YesBound(S) /\ NoBound(S)' = NoBound(S)
         /\ Least' = Least
<1>1. r \in Reviewers /\ deciding[r] \in Recordings /\ deciding \in [Reviewers -> Recordings]
  BY DEF RepInv, RepTypeOK, Busy
<1>2. PICK x \in Recordings : x = [deciding[r] EXCEPT !.pc = pc]
  BY <1>1 DEF Recordings
<1>3. x.pc = pc /\ x.accepted = deciding[r].accepted /\ x.shared = deciding[r].shared
  BY <1>1, <1>2 DEF Recordings
<1>4. PICK y \in Recordings : y = [x EXCEPT !.row = row]
  BY DEF Recordings
<1>5. y.pc = pc /\ y.row = row /\ y.accepted = deciding[r].accepted /\ y.shared = deciding[r].shared
  BY <1>3, <1>4 DEF Recordings
<1>6. deciding' = [deciding EXCEPT ![r] = y]
  BY <1>1, <1>2, <1>4
<1>7. deciding'[r] = y /\ \A q \in Reviewers \ {r} : deciding'[q] = deciding[q]
  BY <1>1, <1>6
<1>8. Busy' = Busy
  BY <1>5, <1>7 DEF Busy
<1>9. \A q \in Busy : /\ deciding'[q].accepted = deciding[q].accepted
                      /\ deciding'[q].shared = deciding[q].shared
  BY <1>5, <1>7 DEF Busy
<1>10. /\ \A S : YesBound(S)' = YesBound(S) /\ NoBound(S)' = NoBound(S)
       /\ Least' = Least
  BY <1>8, <1>9, BoundsAreKept DEF RepInv
<1>11. deciding' \in [Reviewers -> Recordings]
  BY <1>1, <1>6
<1>12. QED
  BY <1>5, <1>7, <1>8, <1>9, <1>10, <1>11 DEF Busy

\* One reviewer is through: the bounds of the others do not become tighter.
LEMMA OneIsThrough ==
  ASSUME RepInv, NEW r \in Busy, Done(r), decided' = decided
  PROVE  /\ deciding' \in [Reviewers -> Recordings]
         /\ Busy' = Busy \ {r} /\ \A q \in Busy' : deciding'[q] = deciding[q]
         /\ IsFiniteSet(Busy') /\ Cardinality(Busy') = Cardinality(Busy) - 1
         /\ Yes' = Yes \ {r} /\ No' = No \ {r}
         /\ \A S : YesBound(S) <= YesBound(S)' /\ NoBound(S) <= NoBound(S)'
<1>1. r \in Reviewers /\ deciding \in [Reviewers -> Recordings] /\ IsFiniteSet(Busy)
  BY DEF RepInv, RepTypeOK, Busy
<1>2. deciding'[r] = Quiet /\ \A q \in Reviewers \ {r} : deciding'[q] = deciding[q]
  BY <1>1 DEF Done
<1>3. Busy' = Busy \ {r} /\ \A q \in Busy' : deciding'[q] = deciding[q]
  BY <1>1, <1>2, QuietIsIdle DEF Busy
<1>4. IsFiniteSet(Busy') /\ Cardinality(Busy') = Cardinality(Busy) - 1
  BY <1>1, <1>3, FS_RemoveElement
<1>5. Yes' = Yes \ {r} /\ No' = No \ {r}
  BY <1>3 DEF Yes, No
<1>6. ASSUME NEW S PROVE YesBound(S) <= YesBound(S)' /\ NoBound(S) <= NoBound(S)'
  <2>1. /\ (Yes \ {r}) \ S \subseteq Yes \ S /\ (No \ {r}) \ S \subseteq No \ S
        /\ IsFiniteSet(Yes \ S) /\ IsFiniteSet(No \ S)
    BY BoundsAreNumbers DEF RepInv
  <2>2. /\ Cardinality((Yes \ {r}) \ S) <= Cardinality(Yes \ S)
        /\ Cardinality((No \ {r}) \ S) <= Cardinality(No \ S)
        /\ Cardinality((Yes \ {r}) \ S) \in Nat /\ Cardinality((No \ {r}) \ S) \in Nat
        /\ Cardinality(Yes \ S) \in Nat /\ Cardinality(No \ S) \in Nat
    BY <2>1, FS_Subset, FS_CardinalityType
  <2>3. decided.accepted \in Nat /\ decided.rejected \in Nat
    BY DEF RepInv, RepTypeOK
  <2>4. QED
    BY <1>5, <2>2, <2>3 DEF YesBound, NoBound
<1>7. deciding' \in [Reviewers -> Recordings]
  BY <1>1, QuietIsIdle DEF Done
<1>8. QED
  BY <1>3, <1>4, <1>5, <1>6, <1>7

LEMMA RepNext_Inv ==
  ASSUME RepInv, [RepNext]_repVars
  PROVE  RepInv'
<1>0. /\ \A S : YesBound(S) \in Int /\ NoBound(S) \in Int
      /\ Made \in Nat /\ Cardinality(Busy) \in Nat /\ Least \in Int
      /\ rep \in RepRows /\ uncounted \in Nat /\ decided.accepted \in Nat /\ decided.rejected \in Nat
      /\ deciding \in [Reviewers -> Recordings] /\ IsFiniteSet(Busy) /\ Busy \subseteq Reviewers
      /\ decided \in [accepted : Nat, rejected : Nat]
  BY BoundsAreNumbers DEF RepInv, RepTypeOK, Busy
<1>1. ASSUME NEW r \in Reviewers, NEW accepted \in BOOLEAN, Decide(r, accepted)
      PROVE  RepInv'
  <2>1. /\ r \notin Busy /\ UNCHANGED <<rep, uncounted>>
        /\ decided'.accepted = decided.accepted + (IF accepted THEN 1 ELSE 0)
        /\ decided'.rejected = decided.rejected + (IF accepted THEN 0 ELSE 1)
        /\ decided' \in [accepted : Nat, rejected : Nat]
    <3>1. /\ r \notin Busy /\ UNCHANGED <<rep, uncounted>>
          /\ decided' = IF accepted THEN [decided EXCEPT !.accepted = @ + 1]
                        ELSE [decided EXCEPT !.rejected = @ + 1]
      BY <1>0, <1>1, Zenon DEF Decide, Busy
    <3>2. QED
      BY <1>0, <3>1
  <2>2. /\ deciding'[r] \in Recordings /\ deciding'[r].pc = "find"
        /\ deciding'[r].accepted = accepted /\ (~deciding'[r].shared => Busy = {})
    <3>1. deciding'[r] = [Quiet EXCEPT !.pc = "find", !.accepted = accepted, !.shared = Busy # {}]
      BY <1>1, Zenon DEF Decide
    <3>2. PICK x \in Recordings : x = [Quiet EXCEPT !.pc = "find"]
      BY QuietIsIdle DEF Recordings
    <3>3. PICK y \in Recordings : y = [x EXCEPT !.accepted = accepted]
      BY DEF Recordings
    <3>4. PICK overlaps \in BOOLEAN : overlaps <=> Busy # {}
      OBVIOUS
    <3>5. deciding'[r] = [y EXCEPT !.shared = overlaps]
      BY <3>1, <3>2, <3>3, <3>4
    <3>6. x.pc = "find" /\ y.pc = "find" /\ y.accepted = accepted
      BY <3>2, <3>3, QuietIsIdle DEF Recordings
    <3>7. QED
      BY <3>4, <3>5, <3>6 DEF Recordings
  <2>3. ASSUME NEW q \in Busy
        PROVE  /\ deciding'[q] \in Recordings /\ deciding'[q].pc = deciding[q].pc
               /\ deciding'[q].row = deciding[q].row
               /\ deciding'[q].accepted = deciding[q].accepted /\ deciding'[q].shared
    <3>1. deciding'[q] = [deciding[q] EXCEPT !.shared = TRUE]
      <4>1. q \in Reviewers /\ q # r
        BY <1>0, <2>1
      <4>2. QED
        BY <1>1, <4>1, Zenon DEF Decide
    <3>2. QED
      BY <1>0, <3>1 DEF Recordings
  <2>4. \A q \in Reviewers \ {r} : q \notin Busy => deciding'[q] = deciding[q]
    BY <1>1, Zenon DEF Decide
  <2>5. deciding' \in [Reviewers -> Recordings]
    <3>1. \A q \in Reviewers : deciding'[q] \in Recordings
      BY <1>0, <2>2, <2>3, <2>4
    <3>2. deciding' = [q \in Reviewers |-> deciding'[q]]
      <4> DEFINE new(q) == IF q = r THEN [Quiet EXCEPT !.pc = "find", !.accepted = accepted,
                                                       !.shared = Busy # {}]
                           ELSE IF q \in Busy THEN [deciding[q] EXCEPT !.shared = TRUE] ELSE deciding[q]
      <4>1. deciding' = [q \in Reviewers |-> new(q)]
        BY <1>1, Zenon DEF Decide
      <4> HIDE DEF new
      <4>2. QED
        BY <4>1
    <3>3. QED
      BY <3>1, <3>2
  <2>6. Busy' = Busy \cup {r}
    BY <1>0, <2>2, <2>3, <2>4 DEF Busy
  <2>7. IsFiniteSet(Busy') /\ Cardinality(Busy') = Cardinality(Busy) + 1
    BY <1>0, <2>1, <2>6, FS_AddElement
  <2>8. Least' = Least
    BY <1>0, <2>1, <2>7 DEF Least, Made
  <2>9. ASSUME NEW S, r \notin S
        PROVE  YesBound(S)' = YesBound(S) /\ NoBound(S)' = NoBound(S)
    <3>1. /\ IsFiniteSet(Yes \ S) /\ IsFiniteSet(No \ S) /\ r \notin Yes \ S /\ r \notin No \ S
          /\ Cardinality(Yes \ S) \in Nat /\ Cardinality(No \ S) \in Nat
      BY <2>1, BoundsAreNumbers, FS_CardinalityType DEF RepInv, Yes, No
    <3>2. CASE accepted
      <4>1. Yes' \ S = (Yes \ S) \cup {r} /\ No' \ S = No \ S
        BY <2>1, <2>2, <2>3, <2>6, <2>9, <3>2 DEF Yes, No
      <4>2. Cardinality(Yes' \ S) = Cardinality(Yes \ S) + 1
        BY <3>1, <4>1, FS_AddElement
      <4>3. decided'.accepted = decided.accepted + 1 /\ decided'.rejected = decided.rejected
        BY <1>0, <2>1, <3>2
      <4>4. Cardinality(Yes' \ S) \in Nat /\ Cardinality(No' \ S) = Cardinality(No \ S)
        <5>1. Cardinality(No' \ S) = Cardinality(No \ S)
          BY <4>1, Zenon
        <5>2. QED
          BY <3>1, <4>2, <5>1
      <4>5. YesBound(S)' = YesBound(S)
        BY <1>0, <3>1, <4>2, <4>3, <4>4 DEF YesBound
      <4>6. NoBound(S)' = NoBound(S)
        BY <4>3, <4>4 DEF NoBound
      <4>7. QED
        BY <4>5, <4>6
    <3>3. CASE ~accepted
      <4>1. No' \ S = (No \ S) \cup {r} /\ Yes' \ S = Yes \ S
        BY <2>1, <2>2, <2>3, <2>6, <2>9, <3>3 DEF Yes, No
      <4>2. Cardinality(No' \ S) = Cardinality(No \ S) + 1
        BY <3>1, <4>1, FS_AddElement
      <4>3. decided'.accepted = decided.accepted /\ decided'.rejected = decided.rejected + 1
        BY <1>0, <2>1, <3>3
      <4>4. Cardinality(No' \ S) \in Nat /\ Cardinality(Yes' \ S) = Cardinality(Yes \ S)
        <5>1. Cardinality(Yes' \ S) = Cardinality(Yes \ S)
          BY <4>1, Zenon
        <5>2. QED
          BY <3>1, <4>2, <5>1
      <4>5. NoBound(S)' = NoBound(S)
        BY <1>0, <3>1, <4>2, <4>3, <4>4 DEF NoBound
      <4>6. YesBound(S)' = YesBound(S)
        BY <4>3, <4>4 DEF YesBound
      <4>7. QED
        BY <4>5, <4>6
    <3>4. QED
      BY <3>2, <3>3
  <2>10. RepTypeOK'
    BY <1>0, <2>1, <2>5, <2>7 DEF RepTypeOK
  <2>11. Fair(rep, YesBound({}), NoBound({}), Least)' /\ (~rep.exists => rep.total = 0)'
    BY <2>1, <2>8, <2>9 DEF RepInv
  <2>12. ASSUME NEW q \in Busy'
         PROVE  RowIsFair(q)' /\ (~deciding'[q].shared => Busy' = {q})
    <3>1. CASE q = r
      BY <2>2, <2>6, <3>1 DEF RowIsFair
    <3>2. CASE q # r
      <4>1. q \in Busy /\ RowIsFair(q) /\ r \notin {q}
        BY <2>6, <2>12, <3>2 DEF RepInv
      <4>2. /\ YesBound({q})' = YesBound({q}) /\ NoBound({q})' = NoBound({q})
            /\ YesBound({})' = YesBound({}) /\ NoBound({})' = NoBound({})
        BY <2>9, <4>1
      <4>3. QED
        BY <2>3, <2>8, <4>1, <4>2 DEF RowIsFair
    <3>3. QED
      BY <3>1, <3>2
  <2>13. QED
    BY <2>10, <2>11, <2>12 DEF RepInv
<1>2. ASSUME NEW r \in Reviewers, FindRow(r)
      PROVE  RepInv'
  <2>1. PICK pc \in {"create", "compute"} : deciding' = [deciding EXCEPT ![r].pc = pc, ![r].row = rep]
    BY <1>2 DEF FindRow
  <2>2. UNCHANGED <<rep, decided, uncounted>> /\ r \in Busy
    BY <1>2 DEF FindRow, Busy
  <2>3. /\ deciding' \in [Reviewers -> Recordings]
        /\ deciding'[r].pc = pc /\ deciding'[r].row = rep
        /\ \A q \in Busy \ {r} : deciding'[q] = deciding[q]
        /\ \A q \in Busy : deciding'[q].shared = deciding[q].shared
        /\ Busy' = Busy
        /\ \A S : YesBound(S)' = YesBound(S) /\ NoBound(S)' = NoBound(S)
        /\ Least' = Least
    BY <1>0, <2>1, <2>2, OneGoesOn
  <2>4. RowIsFair(r)' /\ \A q \in Busy \ {r} : RowIsFair(q)'
    BY <2>2, <2>3 DEF RepInv, RowIsFair
  <2>5. RepTypeOK'
    BY <1>0, <2>2, <2>3 DEF RepTypeOK
  <2>6. QED
    BY <2>2, <2>3, <2>4, <2>5 DEF RepInv
<1>3. ASSUME NEW r \in Reviewers, CreateRow(r)
      PROVE  RepInv'
  <2>1. /\ rep' \in RepRows /\ rep'.accepted = 0 /\ rep'.rejected = 0 /\ rep'.total = 0
    BY <1>3, NoRowIsARow DEF CreateRow, RepRows
  <2>2. UNCHANGED <<decided, uncounted>> /\ r \in Busy /\ rep.total = 0
    BY <1>3 DEF CreateRow, Busy, RepInv
  <2>3. /\ deciding' \in [Reviewers -> Recordings]
        /\ deciding'[r].pc = "compute" /\ deciding'[r].row = rep'
        /\ \A q \in Busy \ {r} : deciding'[q] = deciding[q]
        /\ \A q \in Busy : deciding'[q].shared = deciding[q].shared
        /\ Busy' = Busy
        /\ \A S : YesBound(S)' = YesBound(S) /\ NoBound(S)' = NoBound(S)
        /\ Least' = Least
    BY <1>3, <2>1, <2>2, OneGoesOn DEF CreateRow
  <2>4. Fair(rep', YesBound({}), NoBound({}), Least)
    BY <1>0, <2>1, <2>2 DEF RepInv, Fair, RepRows
  <2>5. RowIsFair(r)' /\ \A q \in Busy \ {r} : RowIsFair(q)'
    BY <2>3, <2>4 DEF RepInv, RowIsFair
  <2>6. RepTypeOK'
    BY <1>0, <2>1, <2>2, <2>3 DEF RepTypeOK
  <2>7. QED
    BY <2>1, <2>3, <2>4, <2>5, <2>6 DEF RepInv
<1>4. ASSUME NEW r \in Reviewers, CreateRefused(r)
      PROVE  RepInv'
  <2>1. /\ Done(r) /\ uncounted' = uncounted + 1 /\ r \in Busy
        /\ UNCHANGED <<rep, decided>>
    BY <1>4 DEF CreateRefused, Busy
  <2>2. /\ deciding' \in [Reviewers -> Recordings]
        /\ Busy' = Busy \ {r} /\ \A q \in Busy' : deciding'[q] = deciding[q]
        /\ IsFiniteSet(Busy') /\ Cardinality(Busy') = Cardinality(Busy) - 1
        /\ \A S : YesBound(S) <= YesBound(S)' /\ NoBound(S) <= NoBound(S)'
    BY <2>1, OneIsThrough
  <2>3. Least' = Least
    BY <1>0, <2>1, <2>2 DEF Least, Made
  <2>4. RepTypeOK'
    BY <1>0, <2>1, <2>2 DEF RepTypeOK
  <2>5. \A S : YesBound(S)' \in Int /\ NoBound(S)' \in Int
    BY <2>4, BoundsStayNumbers
  <2>6. Fair(rep, YesBound({}), NoBound({}), Least)'
    BY <1>0, <2>1, <2>2, <2>3, <2>5, FairIsMonotone DEF RepInv
  <2>7. ASSUME NEW q \in Busy'
        PROVE  RowIsFair(q)' /\ deciding[q].shared
    <3>1. RowIsFair(q) /\ deciding[q].row \in RepRows /\ q \in Busy /\ q # r
      BY <1>0, <2>2 DEF RepInv, Recordings
    <3>2. /\ YesBound({}) <= YesBound({})' /\ NoBound({}) <= NoBound({})'
          /\ YesBound({q}) <= YesBound({q})' /\ NoBound({q}) <= NoBound({q})'
      BY <2>2
    <3>3. QED
      BY <1>0, <2>2, <2>3, <2>5, <3>1, <3>2, FairIsMonotone DEF RepInv, RowIsFair
  <2>8. QED
    BY <2>1, <2>2, <2>4, <2>6, <2>7 DEF RepInv
<1>5. ASSUME NEW r \in Reviewers, Compute(r)
      PROVE  RepInv'
  <2> DEFINE old == deciding[r].row
             yes == deciding[r].accepted
  <2>1. /\ old \in RepRows /\ yes \in BOOLEAN /\ r \in Busy
        /\ UNCHANGED <<rep, decided, uncounted>>
    BY <1>0, <1>5 DEF Compute, Recordings, Busy
  <2>2. PICK row \in RepRows : row = Counted(old, yes)
    BY <2>1, CountedAddsOne
  <2>3. /\ row.exists /\ row.total = old.total + 1
        /\ row.accepted = old.accepted + (IF yes THEN 1 ELSE 0)
        /\ row.rejected = old.rejected + (IF yes THEN 0 ELSE 1)
    BY <2>1, <2>2, CountedAddsOne
  <2>4. deciding' = [deciding EXCEPT ![r].pc = "write", ![r].row = row]
    <3>1. [deciding EXCEPT ![r].pc = "write"][r].row = deciding[r].row
      BY <1>0, <1>5 DEF Recordings
    <3>2. QED
      BY <1>5, <2>2, <3>1, Zenon DEF Compute
  <2>5. /\ deciding' \in [Reviewers -> Recordings]
        /\ deciding'[r].pc = "write" /\ deciding'[r].row = row
        /\ \A q \in Busy \ {r} : deciding'[q] = deciding[q]
        /\ \A q \in Busy : deciding'[q].shared = deciding[q].shared
        /\ Busy' = Busy
        /\ \A S : YesBound(S)' = YesBound(S) /\ NoBound(S)' = NoBound(S)
        /\ Least' = Least
    BY <2>1, <2>4, OneGoesOn
  <2>6. Fair(old, YesBound({}), NoBound({}), Least)
    BY <1>5, <2>1 DEF RepInv, RowIsFair, Compute
  <2>7. /\ YesBound({r}) = YesBound({}) + (IF yes THEN 1 ELSE 0)
        /\ NoBound({r}) = NoBound({}) + (IF yes THEN 0 ELSE 1)
    <3>1. /\ IsFiniteSet(Yes) /\ IsFiniteSet(No)
          /\ Yes \ {} = Yes /\ No \ {} = No
      BY <1>0, FS_Subset DEF Yes, No
    <3>2. /\ Cardinality(Yes) \in Nat /\ Cardinality(No) \in Nat
          /\ (r \in Yes <=> yes) /\ (r \in No <=> ~yes)
      BY <2>1, <3>1, FS_CardinalityType DEF Yes, No
    <3>3. /\ Cardinality(Yes \ {r}) = IF yes THEN Cardinality(Yes) - 1 ELSE Cardinality(Yes)
          /\ Cardinality(No \ {r}) = IF yes THEN Cardinality(No) ELSE Cardinality(No) - 1
      <4>1. CASE yes
        <5>1. r \in Yes /\ No \ {r} = No
          BY <3>2, <4>1
        <5>2. QED
          BY <3>1, <4>1, <5>1, FS_RemoveElement
      <4>2. CASE ~yes
        <5>1. r \in No /\ Yes \ {r} = Yes
          BY <3>2, <4>2
        <5>2. QED
          BY <3>1, <4>2, <5>1, FS_RemoveElement
      <4>3. QED
        BY <4>1, <4>2
    <3>4. QED
      BY <1>0, <2>1, <3>1, <3>2, <3>3 DEF YesBound, NoBound
  <2> HIDE DEF old, yes
  <2>8. Fair(row, YesBound({r}), NoBound({r}), Least + 1)
    BY <1>0, <2>1, <2>3, <2>6, <2>7 DEF Fair, RepRows
  <2>9. RowIsFair(r)' /\ \A q \in Busy \ {r} : RowIsFair(q)'
    BY <2>3, <2>5, <2>8 DEF RepInv, RowIsFair
  <2>10. RepTypeOK'
    BY <1>0, <2>1, <2>5 DEF RepTypeOK
  <2>11. QED
    BY <2>1, <2>5, <2>9, <2>10 DEF RepInv
<1>6. ASSUME NEW r \in Reviewers, WriteRow(r)
      PROVE  RepInv'
  <2>1. /\ Done(r) /\ r \in Busy /\ UNCHANGED decided
        /\ rep' = deciding[r].row /\ rep' \in RepRows /\ rep'.exists
        /\ Fair(rep', YesBound({r}), NoBound({r}), Least + 1)
    BY <1>0, <1>6 DEF WriteRow, Busy, RepInv, RowIsFair, Recordings
  <2>2. /\ deciding' \in [Reviewers -> Recordings]
        /\ Busy' = Busy \ {r} /\ \A q \in Busy' : deciding'[q] = deciding[q]
        /\ IsFiniteSet(Busy') /\ Cardinality(Busy') = Cardinality(Busy) - 1
        /\ Yes' = Yes \ {r} /\ No' = No \ {r}
        /\ \A S : YesBound(S) <= YesBound(S)' /\ NoBound(S) <= NoBound(S)'
    BY <2>1, OneIsThrough
  <2>3. /\ deciding[r].shared => uncounted' = uncounted + 1
        /\ ~deciding[r].shared => uncounted' = uncounted /\ Busy' = {}
    BY <1>0, <1>6, <2>1, <2>2 DEF WriteRow, RepInv
  <2>4. RepTypeOK'
    BY <1>0, <2>1, <2>2, <2>3 DEF RepTypeOK
  <2>5. \A S : YesBound(S)' \in Int /\ NoBound(S)' \in Int
    BY <2>4, BoundsStayNumbers
  <2>6. Least' \in Int /\ Least' <= Least + 1 /\ (Busy' # {} => Least' <= Least)
    BY <1>0, <2>1, <2>2, <2>3 DEF Least, Made
  <2>7. YesBound({})' = YesBound({r}) /\ NoBound({})' = NoBound({r})
    <3>1. (Yes \ {r}) \ {} = Yes \ {r} /\ (No \ {r}) \ {} = No \ {r}
      OBVIOUS
    <3>2. QED
      BY <2>1, <2>2, <3>1 DEF YesBound, NoBound
  <2>8. Fair(rep, YesBound({}), NoBound({}), Least)'
    BY <1>0, <2>1, <2>5, <2>6, <2>7, FairIsMonotone
  <2>9. ASSUME NEW q \in Busy'
        PROVE  RowIsFair(q)' /\ deciding[q].shared
    <3>1. RowIsFair(q) /\ deciding[q].row \in RepRows /\ q \in Busy /\ q # r
      BY <1>0, <2>2 DEF RepInv, Recordings
    <3>2. /\ YesBound({}) <= YesBound({})' /\ NoBound({}) <= NoBound({})'
          /\ YesBound({q}) <= YesBound({q})' /\ NoBound({q}) <= NoBound({q})'
      BY <2>2
    <3>3. QED
      BY <1>0, <2>2, <2>5, <2>6, <3>1, <3>2, FairIsMonotone DEF RepInv, RowIsFair
  <2>10. QED
    BY <2>1, <2>2, <2>4, <2>8, <2>9 DEF RepInv
<1>7. CASE UNCHANGED <<rep, deciding, decided, uncounted>>
  <2>1. Busy' = Busy
    BY <1>7 DEF Busy
  <2>2. /\ \A S : YesBound(S)' = YesBound(S) /\ NoBound(S)' = NoBound(S)
        /\ Least' = Least
    BY <1>7, <2>1, BoundsAreKept DEF RepInv
  <2>3. QED
    BY <1>7, <2>1, <2>2 DEF RepInv, RepTypeOK, RowIsFair
<1>8. QED
  BY <1>1, <1>2, <1>3, <1>4, <1>5, <1>6, <1>7 DEF RepNext, UpdateThresholds, repVars

LEMMA RepInvariant == RepSpec => []RepInv
BY RepInit_Inv, RepNext_Inv, PTL DEF RepSpec

\* However the decisions of any number of reviewers overlap, a contributor gets
\* no point twice and loses only decisions that overlapped (recordDecision).
THEOREM CountersAreFair == RepSpec => []EveryDecisionCounts
<1>1. ASSUME RepInv PROVE EveryDecisionCounts
  <2>1. ASSUME Busy = {}
        PROVE  YesBound({}) = decided.accepted /\ NoBound({}) = decided.rejected /\ Least = Made - uncounted
    <3>1. Yes \ {} = {} /\ No \ {} = {}
      BY <2>1 DEF Yes, No
    <3>2. /\ decided.accepted \in Nat /\ decided.rejected \in Nat /\ uncounted \in Nat
          /\ Cardinality({}) = 0 /\ Made \in Nat
      BY <1>1, FS_EmptySet, BoundsAreNumbers DEF RepInv, RepTypeOK
    <3>3. QED
      BY <2>1, <3>1, <3>2 DEF YesBound, NoBound, Least
  <2>2. QED
    BY <1>1, <2>1 DEF RepInv, Fair, EveryDecisionCounts, Made
<1>2. QED
  BY <1>1, RepInvariant, PTL

-----------------------------------------------------------------------------
(* NotificationBell.  Both halves of a page are of the table as it is,      *)
(* until the table changes between them.                                    *)

Pages == [pc : {"none", "sent", "over"}, listed : BOOLEAN, counted : BOOLEAN,
          unread : SUBSET Nat, read : SUBSET Nat, count : Nat]

BellTypeOK ==
  /\ unreadIds \in SUBSET Nat /\ IsFiniteSet(unreadIds)
  /\ readIds \in SUBSET Nat /\ IsFiniteSet(readIds)
  /\ pages \in [1..MaxPages -> Pages]
  /\ badge \in Nat /\ IsFiniteSet(shownUnread)

Half(p) ==
  \/ pages[p].listed /\ ~pages[p].counted
  \/ ~pages[p].listed /\ pages[p].counted

PageFits(p) ==
  /\ pages[p].pc # "sent" => ~pages[p].listed /\ ~pages[p].counted
  /\ pages[p].listed => IsFiniteSet(pages[p].unread)
  /\ ~skewed =>
       /\ pages[p].listed /\ ~pages[p].counted => pages[p].unread = unreadIds
       /\ ~pages[p].listed /\ pages[p].counted => pages[p].count = Cardinality(unreadIds)
       /\ pages[p].listed /\ pages[p].counted => Cardinality(pages[p].unread) <= pages[p].count

BellInv ==
  /\ BellTypeOK
  /\ \A p \in 1..MaxPages : PageFits(p)
  /\ ~skewed => Cardinality(shownUnread) <= badge

LEMMA NoPageIsAPage ==
  /\ NoPage \in Pages /\ NoPage.pc = "none" /\ ~NoPage.listed /\ ~NoPage.counted
BY DEF NoPage, Pages

LEMMA BellInit_Inv == BellInit => BellInv
<1> SUFFICES ASSUME BellInit PROVE BellInv
  OBVIOUS
<1>1. BellTypeOK
  BY NoPageIsAPage, FS_EmptySet DEF BellInit, BellTypeOK
<1>2. \A p \in 1..MaxPages : PageFits(p)
  BY NoPageIsAPage DEF BellInit, PageFits
<1>3. Cardinality(shownUnread) <= badge
  BY FS_EmptySet DEF BellInit
<1>4. QED
  BY <1>1, <1>2, <1>3 DEF BellInv

\* A page is served half by half.
LEMMA PageChanges ==
  ASSUME BellInv, NEW p \in 1..MaxPages, NEW page \in Pages, pages' = [pages EXCEPT ![p] = page],
         UNCHANGED <<unreadIds, readIds, skewed>>, PageFits(p)',
         badge' \in Nat, IsFiniteSet(shownUnread'), ~skewed => Cardinality(shownUnread') <= badge'
  PROVE  BellInv'
<1>1. \A q \in (1..MaxPages) \ {p} : pages'[q] = pages[q]
  BY DEF BellInv, BellTypeOK
<1>2. \A q \in (1..MaxPages) \ {p} : PageFits(q)'
  BY <1>1 DEF BellInv, PageFits
<1>3. BellTypeOK'
  BY DEF BellInv, BellTypeOK
<1>4. QED
  BY <1>2, <1>3 DEF BellInv

\* The table may change behind pages that are not half served.
LEMMA TableChanges ==
  ASSUME BellInv, UNCHANGED <<pages, shownUnread, badge>>,
         unreadIds' \in SUBSET Nat, IsFiniteSet(unreadIds'),
         readIds' \in SUBSET Nat, IsFiniteSet(readIds'),
         ~skewed' => ~skewed /\ (unreadIds' = unreadIds \/ \A p \in 1..MaxPages : ~Half(p))
  PROVE  BellInv'
<1>1. BellTypeOK'
  BY DEF BellInv, BellTypeOK
<1>2. ASSUME NEW p \in 1..MaxPages PROVE PageFits(p)'
  <2>1. PageFits(p) /\ pages'[p] = pages[p]
    BY DEF BellInv
  <2>2. CASE skewed'
    BY <2>1, <2>2 DEF PageFits
  <2>3. CASE ~skewed' /\ unreadIds' = unreadIds
    BY <2>1, <2>3 DEF PageFits
  <2>4. CASE ~skewed' /\ ~Half(p)
    <3>1. ~skewed /\ ~skewed'
      BY <2>4
    <3>2. CASE pages[p].listed /\ pages[p].counted
      BY <2>1, <3>1, <3>2 DEF PageFits
    <3>3. CASE ~pages[p].listed /\ ~pages[p].counted
      BY <2>1, <3>3 DEF PageFits
    <3>4. QED
      <4>1. \/ pages[p].listed /\ pages[p].counted
            \/ ~pages[p].listed /\ ~pages[p].counted
        BY <2>4, Zenon DEF Half
      <4>2. QED
        BY <3>2, <3>3, <4>1, Zenon
  <2>5. QED
    BY <2>2, <2>3, <2>4
<1>3. QED
  BY <1>1, <1>2 DEF BellInv

\* The client changes what it shows.
LEMMA ShownChanges ==
  ASSUME BellInv, UNCHANGED <<table, pages>>,
         badge' \in Nat, IsFiniteSet(shownUnread'), ~skewed => Cardinality(shownUnread') <= badge'
  PROVE  BellInv'
BY DEF BellInv, BellTypeOK, PageFits, table

LEMMA BellNext_Inv ==
  ASSUME BellInv, [BellNext]_bellVars
  PROVE  BellInv'
<1>0. /\ unreadIds \in SUBSET Nat /\ IsFiniteSet(unreadIds) /\ readIds \in SUBSET Nat
      /\ IsFiniteSet(readIds) /\ pages \in [1..MaxPages -> Pages] /\ badge \in Nat
      /\ IsFiniteSet(shownUnread) /\ DOMAIN pages = 1..MaxPages
      /\ Cardinality(unreadIds) \in Nat /\ Cardinality(shownUnread) \in Nat
  BY FS_CardinalityType DEF BellInv, BellTypeOK
<1>skew. ASSUME Skew, ~skewed'
         PROVE  ~skewed /\ \A p \in 1..MaxPages : ~Half(p)
  <2>1. ~skewed /\ \A p \in DOMAIN pages : ~ (pages[p].listed # pages[p].counted)
    BY <1>skew, Zenon DEF Skew
  <2>2. QED
    BY <1>0, <2>1, Zenon DEF Half
<1>1. CASE Persist
  <2> DEFINE n == Cardinality(unreadIds \cup readIds) + 1
  <2>1. n \in Nat
    <3>1. IsFiniteSet(unreadIds \cup readIds)
      BY <1>0, FS_Union
    <3>2. QED
      BY <3>1, FS_CardinalityType
  <2>2. unreadIds' = unreadIds \cup {n} /\ Skew /\ UNCHANGED <<readIds, pages, shown>>
    BY <1>1 DEF Persist
  <2> HIDE DEF n
  <2>3. IsFiniteSet(unreadIds')
    BY <1>0, <2>2, FS_AddElement
  <2>4. QED
    BY <1>0, <1>skew, <2>1, <2>2, <2>3, TableChanges DEF shown
<1>2. ASSUME NEW m \in marks, ServeMark(m)
      PROVE  BellInv'
  <2>1. PICK ids \in SUBSET unreadIds :
          /\ unreadIds' = unreadIds \ ids /\ readIds' = readIds \cup ids
          /\ IF ids = {} THEN UNCHANGED skewed ELSE Skew
          /\ UNCHANGED <<pages, shown>>
    BY <1>2 DEF ServeMark
  <2>2. IsFiniteSet(ids) /\ IsFiniteSet(unreadIds') /\ IsFiniteSet(readIds')
    BY <1>0, <2>1, FS_Subset, FS_Union
  <2>3. QED
    BY <1>0, <1>skew, <2>1, <2>2, TableChanges DEF shown
<1>3. ASSUME NEW p \in 1..MaxPages, ReadList(p)
      PROVE  BellInv'
  <2>1. PICK x \in Pages : x = [pages[p] EXCEPT !.listed = TRUE]
    BY <1>0 DEF Pages
  <2>2. x.listed /\ x.pc = "sent" /\ x.counted = pages[p].counted /\ x.count = pages[p].count
    BY <1>0, <1>3, <2>1 DEF ReadList, Pages
  <2>3. PICK y \in Pages : y = [x EXCEPT !.unread = unreadIds]
    BY <1>0 DEF Pages
  <2>4. y.listed /\ y.pc = "sent" /\ y.counted = x.counted /\ y.count = x.count /\ y.unread = unreadIds
    BY <2>2, <2>3 DEF Pages
  <2>5. PICK z \in Pages : z = [y EXCEPT !.read = readIds]
    BY <1>0 DEF Pages
  <2>6. z.listed /\ z.pc = "sent" /\ z.counted = pages[p].counted /\ z.count = pages[p].count
        /\ z.unread = unreadIds
    BY <2>2, <2>4, <2>5 DEF Pages
  <2>7. pages' = [pages EXCEPT ![p] = z] /\ UNCHANGED <<table, shown>> /\ ~pages[p].listed
    BY <1>0, <1>3, <2>1, <2>3, <2>5 DEF ReadList
  <2>8. pages'[p] = z
    BY <1>0, <2>7
  <2>9. PageFits(p)'
    BY <1>0, <2>6, <2>7, <2>8 DEF BellInv, PageFits, table
  <2>10. QED
    BY <1>0, <2>7, <2>9, PageChanges DEF BellInv, table, shown
<1>4. ASSUME NEW p \in 1..MaxPages, CountUnread(p)
      PROVE  BellInv'
  <2>1. PICK x \in Pages : x = [pages[p] EXCEPT !.counted = TRUE]
    BY <1>0 DEF Pages
  <2>2. x.counted /\ x.pc = "sent" /\ x.listed = pages[p].listed /\ x.unread = pages[p].unread
    BY <1>0, <1>4, <2>1 DEF CountUnread, Pages
  <2>3. PICK y \in Pages : y = [x EXCEPT !.count = Cardinality(unreadIds)]
    BY <1>0 DEF Pages
  <2>4. /\ y.counted /\ y.pc = "sent" /\ y.listed = pages[p].listed /\ y.unread = pages[p].unread
        /\ y.count = Cardinality(unreadIds)
    BY <1>0, <2>2, <2>3 DEF Pages
  <2>5. pages' = [pages EXCEPT ![p] = y] /\ UNCHANGED <<table, shown>> /\ ~pages[p].counted
    BY <1>0, <1>4, <2>1, <2>3 DEF CountUnread
  <2>6. pages'[p] = y
    BY <1>0, <2>5
  <2>7. PageFits(p)'
    BY <1>0, <2>4, <2>5, <2>6 DEF BellInv, PageFits, table
  <2>8. QED
    BY <1>0, <2>5, <2>7, PageChanges DEF BellInv, table, shown
<1>5. ASSUME NEW p \in 1..MaxPages, OpenShell(p)
      PROVE  BellInv'
  <2>1. PICK x \in Pages : x = [pages[p] EXCEPT !.pc = "sent"]
    BY <1>0 DEF Pages
  <2>2. ~x.listed /\ ~x.counted
    BY <1>0, <1>5, <2>1 DEF OpenShell, Pages, BellInv, PageFits
  <2>3. pages' = [pages EXCEPT ![p] = x] /\ UNCHANGED <<table, shown>>
    BY <1>5, <2>1 DEF OpenShell
  <2>4. pages'[p] = x
    BY <1>0, <2>3
  <2>5. PageFits(p)'
    BY <2>2, <2>4, <2>1 DEF PageFits, Pages
  <2>6. QED
    BY <1>0, <2>3, <2>5, PageChanges DEF BellInv, table, shown
<1>6. ASSUME NEW p \in 1..MaxPages, PageArrives(p) \/ PageFails(p)
      PROVE  BellInv'
  <2>1. PICK x \in Pages : x = [NoPage EXCEPT !.pc = "over"]
    BY NoPageIsAPage DEF Pages
  <2>2. ~x.listed /\ ~x.counted
    BY <2>1, NoPageIsAPage DEF Pages
  <2>3. pages' = [pages EXCEPT ![p] = x] /\ UNCHANGED table
    BY <1>6, <2>1 DEF PageArrives, PageFails
  <2>4. pages'[p] = x
    BY <1>0, <2>3
  <2>5. PageFits(p)'
    BY <2>2, <2>4 DEF PageFits
  <2>6. badge' \in Nat /\ IsFiniteSet(shownUnread') /\ (~skewed => Cardinality(shownUnread') <= badge')
    <3>1. CASE PageFails(p)
      BY <1>0, <3>1 DEF PageFails, shown, BellInv
    <3>2. CASE PageArrives(p)
      BY <1>0, <3>2 DEF PageArrives, BellInv, PageFits, Pages
    <3>3. QED
      BY <1>6, <3>1, <3>2
  <2>7. QED
    BY <2>3, <2>5, <2>6, PageChanges DEF table
<1>7. ASSUME NEW n \in socket, EventArrives(n)
      PROVE  BellInv'
  <2>1. shownUnread' \in {shownUnread, shownUnread \cup {n}} /\ badge' = badge + 1
    BY <1>7 DEF EventArrives
  <2>2. IsFiniteSet(shownUnread') /\ Cardinality(shownUnread') <= Cardinality(shownUnread) + 1
        /\ Cardinality(shownUnread') \in Nat
    <3>1. CASE shownUnread' = shownUnread
      BY <1>0, <3>1
    <3>2. CASE shownUnread' = shownUnread \cup {n}
      <4>1. /\ IsFiniteSet(shownUnread \cup {n})
            /\ Cardinality(shownUnread \cup {n}) \in
                 {Cardinality(shownUnread), Cardinality(shownUnread) + 1}
        BY <1>0, FS_AddElement
      <4>2. QED
        BY <1>0, <3>2, <4>1
    <3>3. QED
      BY <2>1, <3>1, <3>2
  <2>3. QED
    BY <1>0, <1>7, <2>1, <2>2, ShownChanges DEF EventArrives, ClientUnchanged, BellInv
<1>8. ASSUME NEW n \in shownUnread \cup shownRead, MarkRead(n)
      PROVE  BellInv'
  <2>1. shownUnread' = shownUnread \ {n} /\ n \in shownUnread /\ UNCHANGED <<table, pages>>
        /\ badge' = IF badge = 0 THEN 0 ELSE badge - 1
    BY <1>8 DEF MarkRead
  <2>2. IsFiniteSet(shownUnread') /\ Cardinality(shownUnread') = Cardinality(shownUnread) - 1
        /\ Cardinality(shownUnread') \in Nat
    BY <1>0, <2>1, FS_RemoveElement, FS_CardinalityType
  <2>3. QED
    BY <1>0, <2>1, <2>2, ShownChanges DEF BellInv
<1>9. CASE MarkAllRead \/ Reset
  BY <1>9, FS_EmptySet, ShownChanges DEF MarkAllRead, Reset, ClientUnchanged
<1>10. CASE UNCHANGED <<table, pages, shown>>
  BY <1>0, <1>10, ShownChanges DEF shown, BellInv
<1>11. QED
  BY <1>0, <1>1, <1>2, <1>3, <1>4, <1>5, <1>6, <1>7, <1>8, <1>9, <1>10
     DEF BellNext, bellVars, Emit, LoseMark, Reconnect, ClientUnchanged, table, shown

LEMMA BellInvariant == BellSpec => []BellInv
BY BellInit_Inv, BellNext_Inv, PTL DEF BellSpec

\* The badge is never behind the entries shown as unread, unless the two halves
\* of a page disagree (notification.service.ts of the web client).
THEOREM BadgeIsEnough == BellSpec => []BadgeCoversShown
<1>1. BellInv => BadgeCoversShown
  BY DEF BellInv, BadgeCoversShown
<1>2. QED
  BY <1>1, BellInvariant, PTL
=============================================================================
