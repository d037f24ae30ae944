# A specification of the TFTSP tribal genealogy platform

TFTSP keeps family trees of tribes: a NestJS API over PostgreSQL (`apps/api`),
two Angular applications (`apps/admin-web`, `apps/platform-web`) and a Flutter
application (`apps/mobile`). This directory holds TLA+ models of the parts whose
correctness depends on the order of events, the configurations under which TLC
checks them, and proofs of the most important invariants for the TLA+ proof
system. Paths below are relative to the repository; `M/` stands for
`apps/api/src/modules/`.

## 1. Inventory

Every HTTP request of the API is an asynchronous function on one Node.js event
loop (or several processes behind a proxy). Each `await` of a database call is a
statement, or an interactive transaction, of its own at PostgreSQL's default
isolation level READ COMMITTED, and any other request may run between two of
them. Services share nothing in memory; they meet in the database.

| Part | State | Operations | Meets | Hard because | Correct when |
|---|---|---|---|---|---|
| Change-request workflow, `M/change-requests` | rows of `change_requests`, `change_request_reviews` | create, update, submit, review, publish | persons, unions, tribal units, imports, notifications, reputation | every operation reads, checks, then writes by id alone; publish runs one transaction on a row read long before | a terminal state is final, a patch reaches live data once, for a quorum, at the version its author saw |
| Expiry job, `M/jobs` | the same rows | hourly sweep | workflow | query first, update one by one later | only open requests expire |
| Workflow settings, `M/workflow-settings` | one row a tenant | get, update | workflow | read at another await than the votes | the quorum in force decides |
| Persons, `M/persons` | rows with a `version` | create, update, soft delete | lineage, plan limit, person form | optimistic locking on update, none on delete | no lost update |
| Lineage, `M/lineage` | closure table of ancestor pairs | insert self, move subtree, remove, rebuild; reads of trees | persons, imports, visibility | several statements that read what others commit meanwhile | the table is the transitive closure of the fathers, without cycles; a tree read is complete or says it is not |
| Sessions, `M/auth` | `refresh_tokens` with families, failed attempts | login, refresh, logout | clients | rotate = find, issue, revoke in three statements | one live token a family, none after logout or reuse; wrong passwords are counted |
| Web and mobile sessions, interceptors | stored pair, refresh in flight | intercept 401, refresh once, retry | sessions | many requests wait on one refresh | every request is answered, no rotated token is shown again |
| Bulk import, `M/imports`, `M/jobs` | batches and rows | upload, parse, edit rows, submit, publish in chunks, roll back | workflow, persons, lineage, plan limit | one batch spans many transactions, a queue and a change request; references may form any graph | rows are applied once, with the parents they name, and a rollback takes nothing from others |
| Plan limits, `M/subscriptions` | subscription, count of persons | assert, set | persons, imports | checked outside the inserting transaction | the plan's maximum holds |
| Reputation, `M/reputation` | counters, thresholds | record a decision | workflow | read-modify-write | every decision counts once |
| View requests, `M/view-requests` | requests, objects, viewers | public form with attachment, approve, reject | roles | the body is streamed while fields arrive; the viewer is made before the status | a key names a checked object; viewer and status agree |
| Tribal units, `M/tribal-units` | rows, hierarchy | create, update, delete | workflow, policy guard | no version, no check for cycles | walks over it end |
| Unions, `M/unions` | couples with a status | create, end, remarry | imports | checks, then writes | the partners are a couple |
| Policy guard and RBAC, `common/guards`, `common/rbac` | none | authorise, walk up the units | every controller | loops over stored data that others change | it ends, and agrees with the visibility resolver and with what the client offers |
| Visibility, `M/visibility` | settings | resolve, filter, redact | reads | settings, roles, anchors and scopes interact | tightening a setting never shows more, but for a default scope that goes from branch to relatives |
| Notifications, `M/notifications` | rows; sockets, FCM, e-mail | notify, list, mark read | workflow, web client | row, event and page take different ways | the badge is there while something is unread |
| Devices, `M/devices` and the mobile application | push tokens | register, deregister, prune | notifications | calls and sign-ins overtake each other | the device's row is that of who is signed in |
| Documents, `M/documents` | objects and rows | presign, PUT, confirm, list, remove | persons | five steps, each may be the last; a URL outlives the check, a confirmation names any key | a row describes its object, unless that was put again after its check |
| Platform console, `M/platform`, `apps/platform-web` | tribes, plans | create, suspend, set the plan | sessions, plan limits | one dialog for all tribes, answers in any order, several super admins | a save writes what was shown |
| Web screens, `apps/admin-web` | forms, pages, what the user may see | load, type, save, resubmit | all of the API | late, lost and crossed answers | what is written was meant |
| Mobile cache, `apps/mobile` | cached cards per tribe | load, show offline, clear | sessions | session and cache change one await after another | a member reads only its own |
| Tenant context, `common/prisma`, `common/tenant` | request-local store, a setting of each pooled connection | open a transaction, run in it; wrap a single operation | every repository | promises of one request run at once, requests share connections, a counter says whether a transaction is open | a statement runs on a connection set to its request's tenant |
| Exports, statistics, tenant settings, audit | | reads, single rows, a log | | | |

## 2. Modules

| Module | Kind | What it holds |
|---|---|---|
| `ChangeRequests` | component | the approval workflow, statement by statement |
| `CRLifecycle` | abstract specification | the state machine the workflow promises |
| `ChangeRequestsProofs` | proofs | types, safety of the workflow, and its refinement of `CRLifecycle` with one function at a time |
| `ClosureTable`, `FatherForest` | operators, state | the SQL of `lineage.repository.ts` on a set of rows; persons, fathers, rows, and what makes the rows right |
| `LineageTable` | abstract specification | each operation on the closure as one step |
| `Lineage` | component | the same operations as transactions, statement by statement |
| `ForestProofs` | lemmas | what the SQL operators do to a table that records a forest; chains of fathers without induction |
| `LineageTableProofs`, `LineageProofs` | proofs | the invariant of the table; of the transactions, and their refinement of the table |
| `AuthService`, `ClientSession` | components | refresh tokens and logins at the API; a client of it with its interceptor |
| `LoopsProofs` | proofs | tokens and attempts of `AuthService`; its client; what the walks of `AccessScope`, `TreeReading` and `ImportFile` find; the monotonicity of `Visibility` |
| `ImportBatch` | component | the life of a batch: job, preview, change request, chunks, rollback |
| `ImportLifecycle` | abstract specification | the state machine of a batch |
| `ImportBatchProofs` | proofs | the safety of a batch and its refinement of the state machine |
| `ImportFile` | algorithms | what becomes of the rows of a file: resolution, cycles, order, links |
| `TenantContext`, `ViewRequests`, `NotificationBell`, `PushDevices`, `PlanQuota`, `Reputation` | components | one service each, with its client where it has one |
| `ServicesProofs` | proofs | one theorem or two about each of these six |
| `Visibility` | operators | the resolver, from grants and settings to what is shown |
| `TreeReading`, `AccessScope` | components | a tree read through the resolver; the policy guard's walk up the units (both extend `Visibility`) |
| `ScreenAccess`, `PersonForm`, `ImportScreens`, `RequestDetail`, `Documents`, `TenantsConsole`, `MobileCache` | components | screens of the three clients with the part of the API they call |
| `ScreensProofs` | proofs | one theorem about each of these seven |
| `MCChangeRequests`, `MCLineage`, `MCImportBatch` | for TLC | symmetry, forests, files |
| `MCFamily`, `MCImportFile` | for TLC | a family with its tribal units; all small files |
| `MCServices`, `MCLoops`, `MCScreens` | for TLC | several components side by side |

`ClosureTable <- FatherForest <- LineageTable` and `FatherForest <- Lineage` are
extensions; `Lineage` instantiates `LineageTable`, `ChangeRequests` instantiates
`CRLifecycle` and `ImportBatch` instantiates `ImportLifecycle`, to state that they
implement them. `ClientSession` composes clients with `AuthService`: every call of
the client is one of its calls in flight. Operators named `X_Something` that stand
before a definition `X` are faulty variants of it; no specification uses them, they
serve to confirm that a property notices the fault.

Components that share no state are checked side by side: `MCServices`, `MCLoops`
and `MCScreens` extend several modules, a variable `active` names the component a
behaviour belongs to, and all others stay in their initial states. The states
explored are the sum of those of the components, not their product, and an invariant
of one component holds trivially where another is active.

### ChangeRequests

| State | Code |
|---|---|
| `cr`, `review`, `settings`, `person`, `unit` | the rows of `change_requests`, `change_request_reviews`, `workflow_settings`, `persons`, and of `unions` and `tribal_units` together (both are targets without a version) |
| `closure` | `person_closures`, reduced to the father it records for each person |
| `req[h]` | one asynchronous function in flight: the await it stands at (`pc`) and its local variables; `snap` is the `cr` that `review()` read and hands to `publish()` |
| `sent`, `decided` | notification rows; calls of `reputation.recordDecision` |
| `due` | requests whose `expires_at` has passed |
| `approvedBy`, `leastQuorum`, `applied`, `attempts` | history: read by no action |

An action is what one function does between two awaits: `StartReview` is
`findOne` with its checks, then `UpsertReview`, `CountApprovals`, `Decide` (the
settings are read after the count), `MarkUnderReview` or `publish()`. Consecutive
reads of which only the last matters are merged: `StartUpdate` reads the request
and the settings in one step. `create` is one step because nobody else knows the
row. `publish()` is one transaction: `CheckTarget` and `ReadBefore` are its reads,
each of the `Apply*`, `Lose*` and `CommitConflict` actions is its write and commit.
Its writes show to others only at the commit and a row is locked only at the
write, which is why write and commit are one action. `Fail` is a crash, an
exception or a lost connection at any await.

Not in the model: the audit log (append-only), the routing of notifications, the
list and detail queries, the gating of contributions before they become a request,
and requests of type `import_batch`.

### Lineage

`Lineage` runs `createInTx`, `updateInTx`, `softDeleteInTx` and the import
rollback. `tx[h]` is a request with its open transaction: the closure rows deleted
and inserted so far (`dels`, `ins`), the children whose `father_id` is overwritten
(`detached`) and the transactions it waits for (`waits`). A statement reads what is
committed plus its own writes (`View`): READ COMMITTED. One that writes a row or a
key an open transaction has written waits until that ends (`Holders`,
`Unlocked`); `Commit` makes all of it visible at once, `FailOnKey` is the primary
key of `person_closures`. `Abort` is an exception, a lost connection, or the
choice of a deadlock victim.

| Action | Code |
|---|---|
| `StartCreate`, `Parents`, `InsertSelf` | `createInTx`: `validateParents`, the person's row, `insertSelf` |
| `StartRefather`, `Parents`, `Cycle`, `StripRows`, `GraftRows`, `WriteRow` | `updateInTx`: the read, `wouldCreateCycle`, both halves of `moveSubtree`, `updateWithVersion` |
| `StartGender`, `WriteRow` | `updateInTx` with another gender |
| `StartDelete`, `Children`, `Detach`, `Unlink`, `DropRows`, `WriteRow` | `softDeleteInTx`: `directChildren`, then for each child `father_id = null` and `moveSubtree`; `removePersonRows`, `softDelete` |
| `StartRollback`, `Blockers`, `WithdrawBatch`, `Wipe`, `InsertSelves`, `InsertWalk`, `SetRolledBack` | `ImportService.rollback`: a transaction that deletes the persons, one of three statements that rebuilds the table, then the status |

The imported batch is a constant set of persons. The mother (she has no part in
the closure), names, the search for duplicates and writes with a version the
client has read long before (they end in `VERSION_CONFLICT` and leave nothing) are
left out.

`LineageTable` is the abstract counterpart: `Create`, `Refather`, `Delete`,
`Withdraw` and `Rebuild` change persons and rows in one step, the rows by the same
SQL operators. `Rebuild` may produce any table that records the fathers; that the
recursive query of `rebuildForTenant` (`Walk`) produces such a table is part of
what `ImplementsTable` checks.

### AuthService and ClientSession

`token` and `user` are rows of `refresh_tokens` and `users`, a slot of `call` is a
login, refresh or logout between two awaits. `StartRefresh` is
`findRefreshTokenByHash` with the checks that follow it, then `RevokeFamily` (the
token had been rotated), `RevokeExpired`, or `Issue`, `Rotate`, `Answer`.
`StartLogin` reads the user and the lock, `Verify` the password;
`RegisterFailedAttempt` and `ResetAttempts` write what was computed from that read.
`Die` ends a call anywhere, or loses its answer: a token is only `known` once it
was answered. `ClientSession` adds the client: `store` is the stored pair, `req`
the requests of the screens, `refreshing` the single-flight flag, `awaits` who
resumes with which answer. `Unauthorized`, `Refreshed` and `RefreshFailed` are
`handle401` of the web interceptors and `onError` of the mobile one.

### Imports

`ImportBatch` follows one batch. `Deliver` hands the parse job to a worker, more
than once; `Validate`, `Resolve`, `InsertRows`, `Present` and `ParseFails` are the
stages of `run`, whose progress reports write the status. `StartUpdateRow` to
`MarkSubmitted` are the preview, `StartReview` to `Expire` the change request of
type `import_batch`, `LoadRows`, `ApplyChunk` (a transaction), `FailChunk`,
`PublishBatch` are `publishBatch`, `SyncRejected` is `onBatchRejected`, and
`StartRollback` to `MarkRolledBack` the rollback. What a row contains is a constant;
`ImportFile` has it instead: there a file is a sequence of rows with labels and
references, and the actions are the steps of `resolveInFile`, of the three-colour
search of `checkBatchLineage` (`Visit`, `FollowParent`, `EndVisit`), of
`topologicalOrder` (`TakeFree`, `AppendResidue`) and of `applyRow`.
`ImportScreens` has the two screens that follow a batch by socket events and reads.

### Services

| Module | Actions and code |
|---|---|
| `TenantContext` | `StartRequest`, `EndRequest` are the request's store; `CallModel`, `SetForOperation`, `EndOperation` the wrapping of one operation by the Prisma extension; `OpenTransaction`, `SetForTransaction`, `RefuseTransaction`, `Enter`, `Leave`, `CloseTransaction`, `LoseTransaction` are `tenantTransaction` with its counter, on connections of a pool that others use too |
| `ViewRequests` | `SubmitForm`, then the streaming of `id-upload.util.ts` (`FirstChunk`, `EndOfFile`, `SlugField`, `PutEnds`, `PutFails`, `Refuse`), `Create`; `StartDecision`, `GrantViewer`, `WriteDecision` are the statements of approve and reject |
| `NotificationBell` | `Persist` and `Emit` are `notify`; `ReadList`, `CountUnread` the two queries of a page; `OpenShell`, `PageArrives`, `EventArrives`, `MarkRead`, `MarkAllRead`, `Reset` the client's service |
| `PushDevices` | `SignIn`, `TokenRefresh`, `Logout`, `ClearSession`, `Expire` on the device; `Register`, `Remove`, `ListTokens`, `FcmSend`, `Prune` at the API |
| `PlanQuota` | `StartAdding`, `ReadTier`, `CountPersons`, `AddPersons` for creates and imports, `PublishCreate` for contributions, `SetTier`, `LogActivation` |
| `Reputation` | `FindRow`, `CreateRow`, `Compute`, `WriteRow` are `recordDecision`; `deriveTrust` in percent |
| `Visibility` | `buildContext`, `expandSubtrees`, `computeDirectRelatives`, `inScope`, `isVisible`, `redact` as functions of grants, settings, units and fathers |
| `TreeReading` | `AskTree`, `ReadRoot`, `ReadWithin`, `ReadBeyond`, `ReadNodes` are the statements of `getTree`, between which fathers change and persons are deleted |
| `AccessScope` | `Arrive`, `ReadAssignments`, `ReadUnits`, `Walk`, `Conclude` are `canActivate` with `checkTribalUnitScope`; `createUnit`, `updateUnit`, `removeUnit` change the units meanwhile |

### Screens

| Module | State and actions |
|---|---|
| `ScreenAccess` | roles granted at the server and roles the client knows; a route's loads and the buttons it shows against the permission matrix and the `@Roles` of every controller; of the request on its detail page, the status and whose it is (`viewed`); calls the API refuses from everybody (`IllFormed`: a tree or an export without its root, the settings of the tribe) |
| `PersonForm` | the form with its parent that arrives later and the date that counts only while "deceased" is ticked, `buildDto`, `buildUpdatePatch`, direct save, duplicate dialog, proposal; `ServeUpdate`, `FindDuplicates` and `InsertPerson`, `ServePropose` at the API, which goes on with a call that the form has given up |
| `RequestDetail` | the page of one change request: load, `buildEditRows`, type, `rowsToPatch`, save, resubmit as two calls, vote; pages that were left still receive answers |
| `Documents` | presign and the life of the URL, PUT (`PutAgain`: also a second one), confirm in its steps, several at once and of any key given out, the list, the removal; it is checked by the run `Services` |
| `TenantsConsole` | the list of tribes and the one dialog for the plans of all of them, with `toDateInput` and back (`FieldsOf`, `PlanOf`); `OtherCreates` and `OtherSets` are other super admins |
| `MobileCache` | `login`, `switchTenant`, `_clearSession` one await at a time, against `loadCard` |

A call of a screen is sent, served and answered in steps of its own, and may be lost
before or after it is served. What a call does at the API is one step where the
module is about the screen; the statements inside are in the component's own module.

## 3. Runs

| Run | States | Question and answer |
|---|---|---|
| `CR_serial` | 383,548 | One function at a time: does the code implement the documented state machine (`ImplementsLifecycle`), keep closure and persons together, count a contribution once? Yes. |
| `CR_overlap` | 808,683 | Two functions, any interleaving, one may die: a person's patch is applied once, only for a quorum of others, and nothing claims a publication that did not happen. |
| `CR_quorum` | 198,122 | Two approvals at the same time, with a quorum of two: one of them always publishes (`QuorumIsActedOn`), and an update only ever meets the version it was written for. |
| `Lineage_serial` | 425,629 | One request at a time, aborted anywhere: table and fathers agree, and the code implements `LineageTable`. |
| `Lineage_overlap` | 357,206 | Two requests of any kind, interleaved, in any forest: everybody keeps the row for itself; creations and changes of gender leave the table exact without locks. |
| `Import_batch` | 1,604,452 | A batch from upload to rollback, with a job delivered twice, failing chunks and dying calls: each row becomes one person, fathers are linked across chunks, a rollback takes nobody's parent, and the batch follows its state machine. |
| `Services` | 1,145,500 | Eight components of the API, each alone: the tenant of every statement, attachments and viewers of view requests, the bell's badge, the owner of a push token, the plan's cap, the counters of reputation, the completeness of trees and the monotonicity of the visibility settings, documents as described. |
| `Loops` | 146,303 | What must end: requests of a client around a refresh, parsing and publishing any small file, the guard's walk. It ends, with the right answer: cycles are reported, parents are those named, guard and resolver agree, the client never shows a rotated token. |
| `Screens` | 1,877,577 | The login service and six screens, each alone: one live token a family, wrong passwords counted, caches private, and what a screen saves or offers is what was meant or works. |
| `CR_terminal` | violated | `TerminalIsFinal`: a review, a submit or an approval that read the request before moves a terminal request again. |
| `Lineage_cycle` | violated | `NobodyIsHisOwnAncestor`: two moves that do not see each other close a circle of fathers. |
| `Quota_cap` | violated | `PublicationIsCapped`: a published contribution adds a person beyond the plan's cap. |

Many properties hold only while nothing of a certain kind happens, for instance
"calls for one family do not overlap" in `OneTokenPerFamily`. Each such condition
is a history variable (`overlapped`, `disorder`, `spoiled`, `skewed`, `disturbed`,
`mixed`, `missed`, `crossed`, `replaced`, `overtaken`) that records exactly the events of that kind, and section 6 says
what the code does after them. The variables are set when the event happens and the
runs explore what is left: deaths, losses and interleavings other than those.

**Bounds.** Every configuration lists them. One change request is enough: requests
share nothing but their target, and `DirectUpdate`, `DirectDelete` and
`DirectDeleteUnit` do to the target what another request would. Three members are an
author and two reviewers, the fewest for a quorum of two. Six functions (`CR_serial`)
suffice for submit, request changes, edit, submit, and two votes; four or five that
overlap suffice for submit, two votes and a third party. In `Lineage_serial` four
persons give chains of three generations beside an imported person, and six requests
build one, move it, delete in it and roll back twice; the operation gender is left
out there because no closure row depends on it, and `Lineage_overlap` has it and
starts from every forest. `Import_batch` has two rows, the second a child of the
first and a possible duplicate, in chunks of one, so that a boundary lies between
father and child; two deliveries, two calls in flight and one failure. `ImportFile`
takes files of up to three rows: every choice of their fathers with the mothers of
the first two (cycles of length one, two and three, through either parent), repeated
labels, and every kind of cell in a row that another one names. Four tokens and five calls are
a login, a rotation, its repetition and a logout in one family and a second family
beside it; two failed attempts lock. The client has two requests, so that one waits
for the refresh of the other. The family of `MCFamily` has two generations, a
married-in aunt without a unit, a minor, a dead person and two nested units, with
three changes of the family during a read. The screens have two pages or dialogs
open one after the other, two or three calls under way and a second user, the
fewest for an answer to meet the wrong page. One document with two confirmations and
a second PUT lets the object change before, between and after the steps of either. The
person form has two fields typed, two saves under way and one update by others, which
makes a save given up meet the one that follows it. Another super admin sets one of two
plans, one of them with a time of day, beside three calls of the console. Two requests of two tenants, three promises
and two connections let one request use a connection that the other has just left,
and hold two while the other waits.

**Symmetry.** `CR_serial`, `CR_overlap`, the three `Lineage` runs and `Import_batch`
reduce by permutations: members, persons outside the batch and slots appear there
only in equality and quantifiers, and each reduced set is given to permutable
constants alone. `ImplementsLifecycle`, `ImplementsTable` and `FollowsLifecycle` are
properties of single steps that mention no member of a reduced set. The other runs
use none, those with liveness properties in particular.

**Deadlock** is not checked: with the calls used up a model rightly stops.

**Fairness.** `FairSpec` of `ChangeRequests` is weak fairness of every function's
next step: Node.js resumes a function when its database call has completed, and no
call in the model waits for another function without end. `LoopsSpec` assumes the
same of the API's handlers (`ServerRuns`, `Handle`, `GuardSteps`) and of the client
(`Arrives`, `Progress`): an answer, or the error the browser makes of a lost one,
arrives. No fairness is assumed for starting requests, for crashes, for users or for
time, nor for the changes that compete with the guard's walk.

## 4. Proofs

A theorem holds for every value of the constants: any number of requests, members,
persons, rows, promises and slots, and any bound. All are checked by TLAPS from the
`ASSUME`s of the modules, which only say that values of different kinds differ
(`None` is no person), that sets are finite and bounds are numbers: `ConstantsOK` of
`ChangeRequests` and of `Lineage`, `PersonsOK`, `AuthConstantsOK`,
`ClientConstantsOK`, `ImportConstantsOK`, `TenantConstantsOK`, `DeviceConstantsOK`,
`MembersOK`, `MaxFilesOK`, `RequestConstantsOK`, `ConsoleConstantsOK`. Four give the
constants that describe a tribe their types: `TribeOK` (a finite family, its mothers
and its units), `ReadersOK` and `AssignmentsOK` (grants and settings are such as the
schema allows), `FilesOK` (a file is a sequence of rows). TLC evaluates them on the
runs.

| Theorem | Module it is about | States |
|---|---|---|
| `TypeCorrect` | `ChangeRequests` | `Spec => []TypeOK` |
| `AppliesOnce` | | `Spec => []UpdateAppliedOnce` |
| `AppliesByQuorum` | | `Spec => []AppliedByQuorum` |
| `PublicationIsReal` | | `Spec => []PublishedWasApplied` |
| `UpdatesMeetTheirVersion` | | without deletions: `Spec => AppliedToBaseVersion` |
| `SerialMeetsVersion` | | one function at a time: `Spec => AppliedToBaseVersion` |
| `SerialLineageAgrees`, `SerialCountsOnce` | | one function at a time: `Spec => []ClosureAgrees`, `Spec => []CountedOnce` |
| `SerialLifecycle`, `SerialDecisionsAreFinal` | | one function at a time: `Spec => ImplementsLifecycle`, `Spec => TerminalIsFinal` |
| `TableStaysConsistent`, `NobodyBegetsHisFather` | `LineageTable` | `Spec => []Consistent`; no living person is above its own father |
| `NobodyLosesHisSelfRow` | `Lineage` | `Spec => []EveryoneHasASelfRow` |
| `CreationsNeedNoLock` | | `Spec => []CreatesNeedNoLock` |
| `SerialTableIsExact`, `SerialForestHasNoCycle` | | one request at a time: `Spec => []Consistent`, `Spec => []NobodyIsHisOwnAncestor` |
| `SerialImplementsTable` | | one request at a time, from persons without fathers: `Spec => ImplementsTable` |
| `FathersStayLinked` | `ImportBatch` | `Spec => []FathersAreLinked` |
| `RowsAreImportedOnce`, `RollbackSparesOthers` | | `Spec => []ImportedExactlyOnce`, `Spec => []NobodyLosesAParent` |
| `BatchesFollowTheirLifecycle` | | `Spec => FollowsLifecycle` |
| `OneTokenIsValid`, `LocksComeInTime` | `AuthService` | `AuthSpec => []OneTokenPerFamily`, `AuthSpec => []AttemptsAreCounted` |
| `ClientsUseTheService`, `NoTokenIsPresentedTwice` | `ClientSession` | `ClientSpec => AuthSpec`, `ClientSpec => NeverReuses` |
| `ImportedFilesAreLinked` | `ImportFile` | `Spec => []FilesAreLinked` |
| `GuardAndResolverAgree` | `AccessScope` | `ScopeSpec => []GuardAgreesWithResolver` |
| `TreesReadInStepsAreComplete`, `TighterNeverShowsMore` | `TreeReading` | `TreeSpec => []TreesAreComplete`, `TreeSpec => []TighterSettingsShowLess` |
| `TenantsStayApart` | `TenantContext` | `TenantSpec => []ScopedToItsTenant` |
| `KeysAreStored`, `OneViewerPerApproval` | `ViewRequests` | `ViewSpec => []KeysNameObjects`, `ViewSpec => []ViewersFollowDecisions` |
| `BadgeIsEnough` | `NotificationBell` | `BellSpec => []BadgeCoversShown` |
| `RowsFollowSessions` | `PushDevices` | `DeviceSpec => []RowFollowsSession` |
| `PlanIsKept` | `PlanQuota` | `PlanSpec => AloneStaysWithinPlan` |
| `CountersAreFair` | `Reputation` | `RepSpec => []EveryDecisionCounts` |
| `CacheStaysOwn` | `MobileCache` | `CacheSpec => []CacheIsOwn` |
| `DocumentsStayTrue` | `Documents` | `DocumentSpec => []DocumentsAreWhatTheySay` |
| `ScreensFollowTheBatch` | `ImportScreens` | `ImportSpec => []ImportScreensKeepUp` |
| `SubmitsAsTyped` | `RequestDetail` | `RequestSpec => SubmitsWhatWasTyped` |
| `UntouchedSavesChangeNothing` | `TenantsConsole` | `ConsoleSpec => UntouchedSaveKeepsPlan` |
| `SavesDoWhatWasMeant` | `PersonForm` | `FormSpec => SavesAreMeant` |
| `ShownScreensWork` | `ScreenAccess` | `AccessSpec => OffersWork` |

"One function (request) at a time" is the hypothesis `\E h : Handlers = {h}`. It is
needed: with two, `CR_terminal` and `Lineage_cycle` violate what
`SerialDecisionsAreFinal` and `SerialForestHasNoCycle` state, and section 6 says how
overlapping functions leave closure and persons apart. Within that hypothesis a function still stops at any
await, and others run then. `UpdatesMeetTheirVersion` needs that nobody asks for a
deletion, since `softDelete` does not look at the version.

### The workflow

*Types.* `TypeOK` is not inductive: that a function at `publish` holds a request
with a target, or that one at `sweep` has something left to do, follows from how
it got there. `TypeInv` adds those facts about the rows (`RowsOK`) and about the
local variables at each await (`SlotsOK`).

*Once.* `UpdateAppliedOnce` rests on the version: once a request was applied, its
target is deleted or has a version above the request's base (`OnceInv`); versions
never fall and nobody comes back to life (`AgeLemma`), so the condition of the UPDATE
fails for every later `publish()`, however many have passed the check. The same
condition is `UpdatesMeetTheirVersion`; that no row asks for more than was asked
(`AsAsked`) makes its hypothesis one about the requests made.

*Quorum.* The votes stored are a subset of those ever stored, and the author's is
never among them (`VotesInv`). What a function has counted is at most the number of
members who ever approved, and once it is past the comparison these are at least
the smallest quorum ever in force (`QuorumInv`). Votes may be taken back and the
settings changed meanwhile, hence `approvedBy` and `leastQuorum`.

*Told.* `ToldInv` ties each pending call of a function (`after`) to a commit of
that function; so status, notifications and counts only speak of applied patches.

*One function.* `SerialInv` says that what the function read is still so
(`Undisturbed`), that no request is counted before it is settled (`TallyInv`), and
that persons and closure agree. From it each statement is a transition of
`CRLifecycle` or a stutter; `SerialLifecycle` goes through them one by one.

### The lineage

That a table is the transitive closure of a forest invites an induction along
chains. The invariant avoids it: `Records` says what is above a person in
terms of what is above its father, `Acyclic` and `Transitive` speak of two rows.
The proof restates them one row at a time (`Good`, lemma `GoodByRows`) and shows
that each operation keeps them: `MoveKeepsGood` is the heart, with `LinesAfterMove`
for the rows that a move leaves and adds; `CreateKeepsGood` is the
move of a new root (`RootKeepsGood`), while `DeleteKeepsGood` cuts off the subtrees
of all children at once, which disturb each other nowhere, and removes the person.

Where chains cannot be avoided, in the recursive query of `rebuildForTenant` and in
`NobodyIsHisOwnAncestor`, `Up` is a recursive function on the naturals and the
induction is that of the least counterexample (`Least`): a chain that is too long
visits somebody twice, by the pigeonhole (`ChainsEnd`). So `RebuiltIsGood` says that
the query, from any forest of any size, leaves an exact table, and `GoodIsRooted`
that an exact table leaves no circle of fathers.

`LineageInv` has two halves. `SelvesInv` holds whatever overlaps: a depth 0 row is
deleted only with its person or by a rebuild that puts it back, and inserted only for
somebody who exists or is being created. `ExactInv` holds as long as nothing has
overlapped but creations and changes of gender (`~mixed`): the committed table is
`Good`, and each open transaction has in hand what its next statements need (`Sees`),
for a deletion the table with the children cut off so far, for a creation the rows
to be grafted, which the commits of other creations leave as they are
(`CommitSparesCreations`). Both `CreationsNeedNoLock` and, with one slot, the serial
theorems follow.

*Refinement.* `SerialImplementsTable` maps every statement before the commit to a
stutter and the commit to one operation of `LineageTable`; the withdrawal of a batch
is a step, its rebuild another. An exact table is not enough for that, since the
abstract deletion names the rows it deletes and the code deletes them child by child:
`Cuts` says that after each child the rows gone are those of the children so far.
This needs that the subtrees of two children have nobody in common, *the deleted
included*, whose rows a withdrawal leaves in the table. Hence `Ordered`, an invariant
about all rows: two living persons who are above the same person are above one
another (`SiblingsApart`, `UnlinkOneMore`). `InitialFathers` is restricted because
the abstract table begins without fathers; TLC checks it from the same start.

### The other components

*Imports.* `ImportInv` has, whatever happens, what a run has staged and created
(`StagedSoFar`, `Runs`), and, while no two calls disturbed each other
(`disorder = 0`), the order of a batch's life (`InOrder`): which calls exist in
which status, that persons exist only between the first chunk and the rollback, one
for each row.

*Sessions.* `TokenInv` gives, for a family whose calls did not overlap, the one place
where its token can be: live in the table, or in the hands of the call that replaced
it (`Single`). `AttemptsInv` says the same of the wrong passwords: counted in the
row, but for the one just compared (`Counted`). `ClientsUseTheService` is a
refinement: `AuthService` lets anybody present any token that was answered, and every
step of a client is one of its steps or leaves its variables alone. So what is proved
of the service holds with the client; `ClientInv` adds what the client knows: each call
in flight is awaited for what it is, and the web client, unless it is refreshing, stores
no token that a refresh in flight presents or that was rotated (`WebInv`). A revoked
token whose family is open has been answered to somebody (`Unheard`).

*Walks.* A loop over stored references is followed by a chain, a function on the naturals
(`Chain`), and induction is that of the least counterexample. `ScopeInv` says that from
where the guard's walk has come to, the caller's scope can be reached exactly if it can
from the unit the write names; `SubtreesAreBelow`, that the resolver's walk down collects
just those units, cycles or not. `TreeInv` keeps, while the family stands still, what each
query of a tree read has found equal to what it would find now; `DescendantsAre` says who
that is, and `TwoQueriesSuffice` that a second query of one generation more finds
somebody new exactly if the first has left somebody out. The family has no cycle because
a father is only set if he is no descendant.

*Files.* `FileInv` goes through the phases of a file. `SearchInv` is the invariant of the
three-colour search: the grey rows are those on the stack, and among any black rows
without a mark one has no parent among them; when the search is over, that is said of all
rows (`NoHiddenCycle`). `SortInv` says that the rows taken so far come after their
parents, and in a file without marks `NoHiddenCycle` lets it take them all; `ApplyInv` and
`LinkInv`, that each row applied has left one person, with the parents its references name. The first two parts of
the property are about files whose labels differ; the third, that no line of fathers is
closed (`LineInv`), is about every file.

*Settings.* `TighterSettingsShowLess` is about two evaluations of the resolver, so its
proof needs no invariant: `ContextOfTighter` says that a tighter setting changes a
viewer's context in two ways only, the level may take all of it and hiding women adds
relatives, and `TighterShows` that neither shows more; a default scope narrowed from the
whole tribe shows less because the tribe contains whatever replaces it.

*Tenants.* `TenantInv`: a connection in use belongs to one promise and carries its
request's tenant once set, a free one carries none, the counter of a request is the
number of its promises inside a transaction, and a request never awaits single
operations and transactions at the same time.

*Plan, devices, view requests.* `PlanInv` says that what an undisturbed call has
read is so. `DeviceInv` says what call is still on its way to repair the device's
row. `FormInv` follows the upload until its object is whole; `DecisionInv` says
which viewers exist at each statement of an undisturbed decision.

*Reputation.* `RepInv` bounds the row from both sides at every moment: it counts no
decision that was not made, and misses at most those under way or given up, and
so does every copy that a function has read and will write.

*Bell.* `BellInv` relates the two halves of each page to the table, until the table
changes between them.

*Screens.* `CacheInv` says what an undisturbed load will store and an entry's owner;
`DocumentInv` says that a confirmation past the head check, and a row it wrote, name an
object of the kind found there, unless the key is among those replaced since; `ScreenInv` says that a screen that
waits has an event or an answer on its way; `RequestInv` that the stored patch is the
text of the call that stored it; `ConsoleInv` that only the current call can change
the dialog, with the plan its tribe has, unless others have set it since (`overtaken`). `SaveInv` says that a form holds what
it has read of the person wherever nothing was typed, but for a father still to come or
not found (`Holds`), and that the save under way carries what the form held (`Meant`); a
version that is still the person's means that what was read is still so, hence what
the update changes was typed; of the creations not confirmed, at most one has searched and
not inserted, and none once there is somebody like it, unless two `crossed`. `AccessInv` says that navigation stays among the screens
that the known roles show; what these load and offer is then looked up in the matrix, call
by call (`ShownLoads`, `ShownOffers`).

### Only model-checked

- Liveness: `QuorumIsActedOn`, `LoopsEnd`, `RequestsEnd`, which rest on fairness and
  so on `ENABLED`, where TLAPS does not follow.

Every invariant and every action property that a passing run checks is also a theorem,
under the hypotheses of the table, which are those of its run.
What neither says is whether a module's abstraction is the right one; the conditions of
the properties, listed in section 6, are the same in both.

## 5. Not modelled

Each component of section 1 is in `PROJECT.json` with the reason. In short:

- Exports, statistics, tenant settings and the audit log read, write single rows or
  append; there is no order of events to get wrong beyond that of a row. The seed,
  e-mail and the routing of notifications to channels are output.
- Unions beyond their deletion: `create`, `remarry` and `endUnion` are a check and a
  write of one row (section 6 lists what follows).
- The tree view, the lists with their filters, the charts and the settings forms of
  the clients, and the mobile application's screens other than its session, its push
  token and its cache: presentation, and answers that may overtake each other in the
  way `Documents` and `TenantsConsole` already have them.
- Reading the cells of xlsx and csv files, the ranking of duplicates, and the cap on
  pending contributions.

## 6. Where the code departs from its documents, and what else the models show

The violated runs are findings with the lines they contradict. Everything below was
seen in the models or while writing them, and is the reason for a condition of some
property; it is recorded here and not as a run of its own.

*Workflow.* The expiry job updates every id its query returned, so a request
published in between ends as expired (`change-request-maintenance.service.ts:37`).
`update()` writes the patch without looking at the status again
(`change-request.service.ts:155`): interleaved with an approval it edits a request
that may not be edited. Two approvals that both find the quorum each create the
person of a create request (`change-request.publisher.ts:61`), although
`docs/dev-reference/06-state-machines.md:41` enters `published` once. A
`VERSION_CONFLICT` caught inside the transaction commits the closure rows already
moved (`change-request.publisher.ts:81`; line 55 of the same document: "not
applied"). `softDelete` is not conditional on the version
(`persons.repository.ts:112`; `docs/API_CONTRACT.M2.md:11-13`).

*Lineage.* A child created below a subtree that is moving keeps the former ancestors
(`lineage.repository.ts:98`; `apps/api/README.md:58`: "maintained atomically"). A
father deleted while his child is being created stays its father
(`persons.service.ts:307`), likewise after a rollback that had looked for blockers
before. `onSoftDelete` detaches a child by its id, even when it has got another
father meanwhile (`lineage.service.ts:83`). `updateInTx` accepts a new gender for a
father (`persons.service.ts:271`). `getTree` reads in several snapshots: a person
hidden in the middle of a line disconnects those below, and `childrenCount` counts
hidden children.

*Visibility.* A default scope set from `branch` to `direct` is not the stricter value
that `API_CONTRACT.M3.md:18-25` suggests: relatives who live outside the member's
unit become visible (`visibility.resolver.ts:90-128`).

*Sessions.* Two refreshes with one token both pass the reuse check and both issue a
successor (`auth.service.ts:98-114`): two tabs of the web client do this. Failed
logins that overlap are counted once, and a correct password that was read before
lifts a lock set meanwhile (`auth.service.ts:162`). In the web client a request that
waited for a refresh that failed is never answered, since `refreshedToken$` is not
told; an error of the first retried request signs the user out although the refresh
succeeded (`auth.interceptor.ts:81-93`, against its comment at 41-42); a refresh
answered after a logout stores tokens again. On the mobile client the clearing of a
session races a new login.

*Imports.* A batch submitted twice at once gets two change requests. After a chunk
failed, a rejection leaves the persons of earlier chunks without a batch a rollback
would accept (`06-state-machines.md:108`: "DB unchanged"). A parse job delivered
again resets a batch that was submitted meanwhile; an expired request leaves its
batch submitted; an upload that dies before the job is queued stays `uploaded`.
`publishBatch` does not look at the status. Dependents added between the blockers and
the deletion lose their parent. Merged records are not restored by a rollback
(`API_CONTRACT.M2.5.md:29`). The gender of a father in the same file is not checked
at parse (`API_CONTRACT.M2.5.md:24`), and of rows with a repeated label only the last
is applied. The comment at `import-apply.service.ts:293` calls the residue cyclic;
rows below a cycle are in it too. A progress event that comes before the upload's
answer, before the join or while the socket is away leaves the wizard waiting. Events go to
the owner's room only: `ImportScreensKeepUp` speaks of the owner's screens.

*Services.* A contribution is not held to the plan's cap (run `Quota_cap`); an
import is checked at submit and adds its persons at approval, when the tier may be a
smaller one; a crash between `upsert` and `addActivation` loses the log entry. Two
decisions at once on a view request, or a crash after `grantViewer`, leave a viewer
the request does not name. A decision that loses the race for the reputation's row
stays uncounted, and new thresholds do not change levels until the next decision. An
event delivered twice counts twice on the badge (`notification.service.ts:97-99`); a
page that arrives after `reset` shows the previous user's list. After a restart
`_lastToken` is null and a logout does not deregister (`push_service.dart:66-69`), nor
does an expired session; the row of a token another tribe registered cannot be taken
over. Tribal units may be moved into a circle; the guard's loop then never ends for a
caller whose scope is elsewhere (`policy.guard.ts:162`). `remarry` checks neither
that the previous union ended (its comment: "after a prior one ended",
`unions.service.ts:56`) nor that the partners live, and `endUnion` lets two callers
end a union in two ways.

*Screens.* `login` never sets the roles in the web client (`auth.service.ts:59-68`), so
a user sees an administrator's screens only after a reload. Both tree views ask for a
tree, and for its exports, without the root that `TreeQueryDto` requires
(`tree-view.component.ts:225,502,513`), so all three are refused to everybody; so is a
save of the tribe's settings, whose `secondaryColor` the API does not know
(`tribe-settings.component.ts:175-182`). `OffersWork` excepts them. Branch admins are
offered deletions, reviews, units and settings the API refuses, viewers proposals, and
everybody `/settings`; a guest, a role the seed grants and the matrix has no permission
for, is shown six screens that are all refused. A parent that failed to load is sent as
removed or kept blank (`person-form.component.ts:415-420`), so a proposal is not minimal
(`person-patch.ts:43-44`). The answers to `update` and `review` carry no `reviews`, on
which the detail page's template relies (`change-request-detail.component.ts:190`); the
editor is offered for a request in conflict, whose update and submission the API refuses
(lines 253-257); what is typed after a click on resubmit is lost, and the chain goes on
after the page was left. Its editor turns a null into a blank, a cleared number into 0
and an object into `[object Object]` (lines 310, 322): the first value shown in it may
be none that was proposed, although no form of the clients proposes such values. Whoever
unticks "deceased" proposes the removal of the date and the place of death as well,
fields that nobody touched (`person-form.component.ts:445-446`,
`person-patch.ts:17-18`); who may save directly leaves them stored, since what is not
sent is not changed, and is refused if there is a place, which the API's DTO does not
know (`create-person.dto.ts:56`). Two creations of one person, one given up at the
client and still under way at the API, both find nobody (`persons.service.ts:135-142`)
and both insert.

*Platform console.* A late answer puts one tribe's plan into the dialog of another. A
save has no version (`subscription.service.ts:54`): it takes back what another super
admin has set since the dialog was loaded, or between the click and the save. A save of
an untouched dialog drops the time of day of `expiresAt`
(`subscription-manager.component.ts:289,310-315`), makes the subscription active and
logs an activation.

*Documents and the mobile client.* A presigned URL can be used for 900 seconds
(`document.service.ts:45`), so also between the check of the first bytes and that of the
size (lines 56, 68) and after the row was written: the row then describes an object that
is gone. `confirm` takes any key the client names, as often as it is called (line 53),
and one that refuses what it finds removes the object even if a row names it (lines 61,
65). A document removed keeps its object, one rejected may, and one put and never
confirmed does. A mobile load that straddles a switch of tribes writes what it fetched
with the new tokens into the old scope; after a restart the scope is empty until the
session is restored, against `providers.dart:89-91`. The preview of an import shows its
table only when `total > 0`, which only the table's own load sets.

## 7. Plan

What is left, ordered by what the platform stands to lose.

1. Unions with their partners against the workflow, and the cap on pending
   contributions, which no module has yet.
2. The workflow with two functions at a time: which part of `ClosureAgrees` survives if
   only moves are kept apart, as `CreationsNeedNoLock` shows it for the lineage alone.
3. Files with repeated labels: `FilesAreLinked` says of them only that no line of fathers
   closes.
