---------------------------- MODULE ScreensProofs ----------------------------
(***************************************************************************)
(* Invariants of the clients' screens and caches, for any number of        *)
(* members on a device and of loads, uploads and reads under way, and for  *)
(* every set of roles.                                                     *)
(***************************************************************************)
EXTENDS MobileCache, Documents, ImportScreens, TenantsConsole, RequestDetail, PersonForm,
        ScreenAccess, FiniteSetTheorems, TLAPS

-----------------------------------------------------------------------------
(* MobileCache.  What is sure was fetched in the session that is active     *)
(* now; the change that ends it empties its scope before the next begins.   *)

Owners == Members \cup {NoMember}
Scopes == {Tenant(m) : m \in Owners}
Slots == 1..MaxLoads
AuthSteps == [pc : {"none", "tokens", "clear", "state"}, to : Owners, from : Scopes]
Loads == [pc : {"none", "fetch", "put", "cached"}, scope : Scopes, got : Owners,
          live : BOOLEAN, sure : BOOLEAN]

CacheTypeOK ==
  /\ stored \in Owners /\ activeTenant \in Scopes /\ signedIn \in BOOLEAN
  /\ authStep \in AuthSteps
  /\ entries \subseteq [scope : Scopes, owner : Owners, sure : BOOLEAN]
  /\ loads \in [Slots -> Loads]

\* A change of session leaves the tribe it found, or none if nobody was signed in.
Leaves ==
  /\ authStep.pc = "none" => authStep = NoStep
  /\ authStep.pc \in {"tokens", "clear"} =>
       authStep.from = IF signedIn THEN activeTenant ELSE NoTenant
  /\ authStep.pc = "clear" => authStep.from # NoTenant

SureLoad(l) ==
  l.sure /\ l.pc # "none" =>
    /\ authStep = NoStep /\ signedIn /\ l.scope = activeTenant
    /\ l.pc = "put" => l.got = stored

\* In a tribe's scope; and where no tribe is known, after a restart.
SureEntry(e) ==
  e.sure =>
    /\ e.scope # NoTenant =>
         /\ signedIn /\ e.scope = activeTenant
         /\ authStep.pc \in {"none", "tokens", "clear"}
         /\ authStep.pc \in {"none", "tokens"} => e.owner = stored
    /\ e.scope = NoTenant /\ signedIn /\ activeTenant = NoTenant /\ authStep = NoStep =>
         e.owner = stored

CacheInv ==
  /\ CacheTypeOK /\ Leaves
  /\ \A i \in Slots : SureLoad(loads[i])
  /\ \A e \in entries : SureEntry(e)

LEMMA CacheFields ==
  /\ NoTenant \in Scopes /\ NoMember \in Owners /\ Tenant(NoMember) = NoTenant
  /\ NoStep \in AuthSteps /\ NoStep.pc = "none"
  /\ NoLoad \in Loads /\ NoLoad.pc = "none"
<1>1. NoMember \in Owners /\ Tenant(NoMember) = NoTenant
  BY DEF Owners, Tenant
<1>2. NoTenant \in Scopes
  BY <1>1 DEF Scopes
<1>3. QED
  BY <1>1, <1>2 DEF NoStep, NoLoad, AuthSteps, Loads

LEMMA CacheInitHolds == CacheInit => CacheInv
<1> SUFFICES ASSUME CacheInit PROVE CacheInv
  OBVIOUS
<1>1. CacheTypeOK
  BY CacheFields DEF CacheInit, CacheTypeOK, Slots
<1>2. Leaves /\ entries = {}
  BY CacheFields DEF CacheInit, Leaves
<1>3. \A i \in Slots : SureLoad(loads[i])
  BY CacheFields DEF CacheInit, SureLoad, Slots
<1>4. QED
  BY <1>1, <1>2, <1>3 DEF CacheInv

LEMMA BeginKeeps ==
  ASSUME CacheInv, NEW move \in AuthSteps, Begin(move), move.pc = "tokens",
         move.from = IF signedIn THEN activeTenant ELSE NoTenant
  PROVE  CacheInv'
<1>1. /\ authStep = NoStep /\ authStep' = move
      /\ loads' = [i \in Slots |-> [loads[i] EXCEPT !.sure = FALSE]]
      /\ UNCHANGED <<stored, activeTenant, signedIn, entries, card>>
  BY DEF Begin, Slots
<1>2. /\ \A i \in Slots : loads'[i] \in Loads /\ loads'[i].sure = FALSE
      /\ loads' \in [Slots -> Loads]
  <2>1. \A l \in Loads : [l EXCEPT !.sure = FALSE] \in Loads /\ [l EXCEPT !.sure = FALSE].sure = FALSE
    BY DEF Loads
  <2>2. QED
    BY <1>1, <2>1 DEF CacheInv, CacheTypeOK
<1>3. CacheTypeOK'
  BY <1>1, <1>2 DEF CacheInv, CacheTypeOK
<1>4. Leaves'
  BY <1>1 DEF Leaves
<1>5. \A i \in Slots : SureLoad(loads[i])'
  BY <1>2 DEF SureLoad
<1>6. \A e \in entries : SureEntry(e)'
  BY <1>1, CacheFields DEF CacheInv, SureEntry, NoStep
<1>7. QED
  BY <1>1, <1>3, <1>4, <1>5, <1>6 DEF CacheInv

LEMMA SessionChangesKeep ==
  ASSUME CacheInv,
         \/ \E m \in Members : login(m) \/ switchTenant(m)
         \/ clearSession \/ WriteTokens \/ ClearPrevious \/ SetState
  PROVE  CacheInv'
<1>1. /\ CacheTypeOK /\ Leaves /\ \A i \in Slots : SureLoad(loads[i])
      /\ \A e \in entries : SureEntry(e)
  BY DEF CacheInv
<1>2. ASSUME NEW to \in Owners, NEW from \in Scopes,
             Begin([pc |-> "tokens", to |-> to, from |-> from]),
             from = IF signedIn THEN activeTenant ELSE NoTenant
      PROVE  CacheInv'
  <2>1. PICK move : move = [pc |-> "tokens", to |-> to, from |-> from]
    OBVIOUS
  <2>2. move \in AuthSteps /\ move.pc = "tokens" /\ move.from = from
    BY <2>1 DEF AuthSteps
  <2>3. QED
    BY <1>2, <2>1, <2>2, BeginKeeps
<1>3. CASE \E m \in Members : login(m) \/ switchTenant(m)
  BY <1>1, <1>2, <1>3, CacheFields DEF login, switchTenant, Owners, CacheTypeOK
<1>4. CASE clearSession
  BY <1>1, <1>2, <1>4, CacheFields DEF clearSession, CacheTypeOK
<1>5. CASE WriteTokens
  <2>1. /\ authStep.pc = "tokens" /\ stored' = authStep.to
        /\ authStep' = [authStep EXCEPT !.pc = IF authStep.from # NoTenant
                                               THEN "clear" ELSE "state"]
        /\ UNCHANGED <<activeTenant, signedIn, entries, loads>>
    BY <1>5 DEF WriteTokens
  <2>2. /\ authStep' \in AuthSteps /\ authStep'.from = authStep.from
        /\ authStep'.pc = IF authStep.from # NoTenant THEN "clear" ELSE "state"
    BY <1>1, <2>1 DEF CacheTypeOK, AuthSteps
  <2>3. CacheTypeOK'
    BY <1>1, <2>1, <2>2 DEF CacheTypeOK, AuthSteps
  <2>4. Leaves'
    BY <1>1, <2>1, <2>2 DEF Leaves
  <2>5. \A i \in Slots : SureLoad(loads[i])'
    BY <1>1, <2>1, CacheFields DEF SureLoad
  <2>6. \A e \in entries : SureEntry(e)'
    <3>1. SUFFICES ASSUME NEW e \in entries, e.sure PROVE SureEntry(e)'
      BY DEF SureEntry
    <3>2. SureEntry(e) /\ authStep'.pc # "none"
      BY <1>1, <2>2
    <3>3. CASE e.scope = NoTenant
      BY <3>2, <3>3, CacheFields DEF SureEntry
    <3>4. CASE e.scope # NoTenant
      <4>1. signedIn /\ e.scope = activeTenant /\ authStep.from = activeTenant
        BY <1>1, <2>1, <3>1, <3>2, <3>4 DEF SureEntry, Leaves
      <4>2. authStep'.pc = "clear"
        BY <2>2, <3>4, <4>1
      <4>3. QED
        BY <2>1, <3>4, <4>1, <4>2 DEF SureEntry
    <3>5. QED
      BY <3>3, <3>4
  <2>7. QED
    BY <2>1, <2>3, <2>4, <2>5, <2>6 DEF CacheInv
<1>6. CASE ClearPrevious
  <2>1. /\ authStep.pc = "clear" /\ entries' = {e \in entries : e.scope # authStep.from}
        /\ authStep' = [authStep EXCEPT !.pc = "state"]
        /\ UNCHANGED <<stored, activeTenant, signedIn, loads>>
    BY <1>6 DEF ClearPrevious, clearScope
  <2>2. authStep' \in AuthSteps /\ authStep'.pc = "state"
    BY <1>1, <2>1 DEF CacheTypeOK, AuthSteps
  <2>3. CacheTypeOK' /\ Leaves'
    BY <1>1, <2>1, <2>2 DEF CacheTypeOK, Leaves
  <2>4. \A i \in Slots : SureLoad(loads[i])'
    BY <1>1, <2>1, CacheFields DEF SureLoad
  <2>5. \A e \in entries' : SureEntry(e)'
    BY <1>1, <2>1, <2>2, CacheFields DEF SureEntry, Leaves
  <2>6. QED
    BY <2>1, <2>3, <2>4, <2>5 DEF CacheInv
<1>7. CASE SetState
  <2>1. /\ authStep.pc = "state" /\ authStep' = NoStep
        /\ activeTenant' = Tenant(authStep.to) /\ signedIn' = (authStep.to # NoMember)
        /\ loads' = [i \in Slots |-> [loads[i] EXCEPT !.live = FALSE]]
        /\ UNCHANGED <<stored, entries>>
    BY <1>7 DEF SetState, Slots
  <2>2. /\ \A i \in Slots : loads'[i] \in Loads /\ loads'[i].sure = loads[i].sure
                              /\ loads'[i].pc = loads[i].pc
        /\ loads' \in [Slots -> Loads]
    <3>1. ASSUME NEW l \in Loads
          PROVE  LET k == [l EXCEPT !.live = FALSE]
                 IN  k \in Loads /\ k.sure = l.sure /\ k.pc = l.pc
      BY DEF Loads
    <3>2. QED
      BY <1>1, <2>1, <3>1 DEF CacheTypeOK
  <2>3. authStep.to \in Owners /\ activeTenant' \in Scopes
    BY <1>1, <2>1 DEF CacheTypeOK, AuthSteps, Scopes
  <2>4. signedIn' => activeTenant' # NoTenant
    BY <2>1, <2>3, MembersOK DEF Owners
  <2>5. CacheTypeOK' /\ Leaves'
    BY <1>1, <2>1, <2>2, <2>3, CacheFields DEF CacheTypeOK, Leaves
  <2>6. \A i \in Slots : SureLoad(loads[i])'
    BY <1>1, <2>1, <2>2, CacheFields DEF SureLoad
  <2>7. \A e \in entries : SureEntry(e)'
    BY <1>1, <2>1, <2>4, CacheFields DEF SureEntry
  <2>8. QED
    BY <2>1, <2>5, <2>6, <2>7 DEF CacheInv
<1>8. QED
  BY <1>3, <1>4, <1>5, <1>6, <1>7

LEMMA RestartKeeps == ASSUME CacheInv, Restart PROVE CacheInv'
<1>1. /\ authStep' = NoStep /\ activeTenant' = NoTenant /\ stored' = stored
      /\ signedIn' = (stored # NoMember) /\ loads' = [i \in Slots |-> NoLoad]
      /\ entries' = {[e EXCEPT !.sure = FALSE] : e \in entries}
  BY DEF Restart, Slots
<1>2. /\ entries' \subseteq [scope : Scopes, owner : Owners, sure : BOOLEAN]
      /\ \A e \in entries' : e.sure = FALSE
  <2>1. ASSUME NEW e \in [scope : Scopes, owner : Owners, sure : BOOLEAN]
        PROVE  LET k == [e EXCEPT !.sure = FALSE]
               IN  k \in [scope : Scopes, owner : Owners, sure : BOOLEAN] /\ k.sure = FALSE
    OBVIOUS
  <2>2. QED
    BY <1>1, <2>1 DEF CacheInv, CacheTypeOK
<1>3. CacheTypeOK' /\ Leaves'
  BY <1>1, <1>2, CacheFields DEF CacheInv, CacheTypeOK, Leaves
<1>4. \A i \in Slots : SureLoad(loads[i])'
  BY <1>1, CacheFields DEF SureLoad
<1>5. \A e \in entries' : SureEntry(e)'
  BY <1>2 DEF SureEntry
<1>6. QED
  BY <1>3, <1>4, <1>5 DEF CacheInv

\* A load that moves on, or ends.
LEMMA LoadKeeps ==
  ASSUME CacheInv, NEW i \in Slots, NEW l \in Loads, SessionWaits,
         loads' = [loads EXCEPT ![i] = l], SureLoad(l),
         entries' \subseteq [scope : Scopes, owner : Owners, sure : BOOLEAN],
         \A e \in entries' : SureEntry(e)
  PROVE  CacheInv'
<1>1. UNCHANGED <<stored, activeTenant, signedIn, authStep>>
  BY DEF SessionWaits
<1>2. CacheTypeOK' /\ Leaves'
  BY <1>1 DEF CacheInv, CacheTypeOK, Leaves
<1>3. \A j \in Slots : SureLoad(loads[j])'
  BY <1>1 DEF CacheInv, CacheTypeOK, SureLoad
<1>4. \A e \in entries' : SureEntry(e)'
  BY <1>1 DEF SureEntry
<1>5. QED
  BY <1>2, <1>3, <1>4 DEF CacheInv

LEMMA LoadsKeep ==
  ASSUME CacheInv, NEW i \in Slots,
         (\E b \in BOOLEAN : OpenCard(i, b) \/ Fetch(i, b)) \/ Put(i) \/ ReadCache(i)
  PROVE  CacheInv'
<1>1. /\ CacheTypeOK /\ SureLoad(loads[i]) /\ loads[i] \in Loads
      /\ \A e \in entries : SureEntry(e)
  BY DEF CacheInv, CacheTypeOK
<1>2. ASSUME NEW b \in BOOLEAN, OpenCard(i, b) PROVE CacheInv'
  <2>1. PICK l : l = [pc |-> IF b THEN "fetch" ELSE "cached", scope |-> activeTenant,
                      got |-> NoMember, live |-> TRUE, sure |-> authStep = NoStep]
    OBVIOUS
  <2>2. /\ signedIn /\ loads' = [loads EXCEPT ![i] = l] /\ entries' = entries /\ SessionWaits
    BY <1>2, <2>1 DEF OpenCard
  <2>3. /\ l \in Loads /\ l.scope = activeTenant /\ l.pc # "put"
        /\ l.sure => authStep = NoStep
    BY <1>1, <2>1, CacheFields DEF Loads, CacheTypeOK
  <2>4. SureLoad(l)
    BY <2>2, <2>3 DEF SureLoad
  <2>5. QED
    BY <1>1, <2>2, <2>3, <2>4, LoadKeeps DEF CacheTypeOK
<1>3. ASSUME NEW b \in BOOLEAN, Fetch(i, b) PROVE CacheInv'
  <2>1. PICK pc \in {"put", "cached"} : pc = IF b /\ stored # NoMember THEN "put" ELSE "cached"
    OBVIOUS
  <2>2. PICK k : k = [loads[i] EXCEPT !.pc = pc]
    OBVIOUS
  <2>3. PICK l : l = [k EXCEPT !.got = stored]
    OBVIOUS
  <2>4. k \in Loads /\ k.pc = pc /\ k.scope = loads[i].scope /\ k.sure = loads[i].sure
    BY <1>1, <2>2 DEF Loads
  <2>5. l \in Loads /\ l.sure = loads[i].sure /\ l.scope = loads[i].scope /\ l.got = stored
    BY <1>1, <2>3, <2>4 DEF Loads, CacheTypeOK
  <2>6. /\ loads[i].pc = "fetch" /\ loads' = [loads EXCEPT ![i].pc = pc, ![i].got = stored]
        /\ entries' = entries /\ SessionWaits
    BY <1>3, <2>1, Zenon DEF Fetch
  <2>7. loads' = [loads EXCEPT ![i] = l]
    BY <1>1, <2>2, <2>3, <2>6 DEF CacheTypeOK
  <2>8. SureLoad(l)
    BY <1>1, <2>5, <2>6 DEF SureLoad
  <2>9. QED
    BY <1>1, <2>5, <2>6, <2>7, <2>8, LoadKeeps DEF CacheTypeOK
<1>4. SureLoad(NoLoad)
  BY CacheFields DEF SureLoad
<1>5. CASE Put(i)
  <2>1. /\ loads[i].pc = "put" /\ loads' = [loads EXCEPT ![i] = NoLoad] /\ SessionWaits
        /\ entries' = {e \in entries : e.scope # loads[i].scope} \cup {Entry(loads[i])}
    BY <1>5 DEF Put, Show
  <2>2. /\ Entry(loads[i]) \in [scope : Scopes, owner : Owners, sure : BOOLEAN]
        /\ Entry(loads[i]).scope = loads[i].scope /\ Entry(loads[i]).owner = loads[i].got
        /\ Entry(loads[i]).sure = loads[i].sure
    BY <1>1 DEF Entry, Loads
  <2>3. SureEntry(Entry(loads[i]))
    BY <1>1, <2>1, <2>2, CacheFields DEF SureEntry, SureLoad
  <2>4. QED
    BY <1>1, <1>4, <2>1, <2>2, <2>3, LoadKeeps, CacheFields DEF CacheTypeOK
<1>6. CASE ReadCache(i)
  <2>1. loads' = [loads EXCEPT ![i] = NoLoad] /\ entries' = entries /\ SessionWaits
    BY <1>6 DEF ReadCache, Show
  <2>2. QED
    BY <1>1, <1>4, <2>1, LoadKeeps, CacheFields DEF CacheTypeOK
<1>7. QED
  BY <1>2, <1>3, <1>5, <1>6

LEMMA CacheNextKeeps == CacheInv /\ [CacheNext]_cacheVars => CacheInv'
<1> SUFFICES ASSUME CacheInv, [CacheNext]_cacheVars PROVE CacheInv'
  OBVIOUS
<1>1. CASE UNCHANGED cacheVars
  <2>1. UNCHANGED <<stored, activeTenant, signedIn, authStep, entries, loads>>
    BY <1>1 DEF cacheVars
  <2>2. QED
    BY <2>1 DEF CacheInv, CacheTypeOK, Leaves, SureLoad, SureEntry
<1>2. CASE CacheNext
  <2>1. \/ \E m \in Members : login(m) \/ switchTenant(m)
        \/ clearSession \/ WriteTokens \/ ClearPrevious \/ SetState
        \/ Restart
        \/ \E i \in Slots :
             (\E b \in BOOLEAN : OpenCard(i, b) \/ Fetch(i, b)) \/ Put(i) \/ ReadCache(i)
    BY <1>2, Zenon DEF CacheNext, Slots
  <2>2. QED
    BY <2>1, SessionChangesKeep, RestartKeeps, LoadsKeep
<1>3. QED
  BY <1>1, <1>2

\* cache_database.dart, auth_controller.dart: whoever signs in on a device, in whatever
\* order, finds in her scope only what was fetched with her own tokens.
THEOREM CacheStaysOwn == CacheSpec => []CacheIsOwn
<1>1. CacheInv => CacheIsOwn
  BY CacheFields DEF CacheInv, SureEntry, CacheIsOwn
<1>2. CacheSpec => []CacheInv
  BY CacheInitHolds, CacheNextKeeps, PTL DEF CacheSpec
<1>3. QED
  BY <1>1, <1>2, PTL

-----------------------------------------------------------------------------
(* Documents.  What a confirmation has read of an object is still true of it *)
(* unless the object was put again, and so is what a row says; whoever is    *)
(* about to remove an object has read that it must be refused.               *)

Objects == [content : {"nothing"} \cup Contents, large : BOOLEAN]
DocumentRows == [id : Confirms, key : Keys, kind : {"image", "pdf"}, deleted : BOOLEAN]
Unread == [at : {"head", "unread"}, key : Keys]
Accepted == [at : {"size", "register", "ok", "refused"}, key : Keys, kind : {"image", "pdf"}]
Refused == [at : {"remove", "refused"}, key : Keys, kind : {"image", "pdf", "unsupported"}]

DocumentTypeOK ==
  /\ objects \in [Keys -> Objects] /\ issued \in 0..MaxFiles
  /\ docRows \subseteq DocumentRows
  /\ confirms \in [Confirms -> {NoConfirm} \cup Unread \cup Accepted \cup Refused]
  /\ file.at = "presign" =>
       issued < MaxFiles /\ file.content \in Contents /\ file.large \in BOOLEAN
  /\ file.at = "put" => file.key \in Keys /\ file.content \in Contents /\ file.large \in BOOLEAN
  /\ file.at = "confirm" => file.key \in Keys

HeadRead(c) == c.at \notin {"none", "head", "unread"}

\* What call c knows of its object.
Knows(c) ==
  HeadRead(c) /\ c.key \notin replaced =>
    /\ c.at = "size" => objects[c.key] = NoObject \/ Detected(objects[c.key].content) = c.kind
    /\ c.at = "register" => Detected(objects[c.key].content) = c.kind /\ ~objects[c.key].large
    /\ c.at = "remove" => Detected(objects[c.key].content) = "unsupported" \/ objects[c.key].large

IsAsItSays(d) ==
  d.key \notin replaced => Detected(objects[d.key].content) = d.kind /\ ~objects[d.key].large

DocumentInv ==
  /\ DocumentTypeOK
  /\ \A n \in Confirms : Knows(confirms[n])
  /\ \A d \in docRows : d.key \in Checked /\ IsAsItSays(d)

LEMMA NoFields ==
  /\ NoFile.at = "none" /\ NoConfirm.at = "none"
  /\ NoObject \in Objects /\ Detected(NoObject.content) = "unsupported"
BY DEF NoFile, NoConfirm, NoObject, Objects, Detected, Contents

\* An upload that goes on, or the list: rows, objects and calls stay.
LEMMA ListingKeeps ==
  ASSUME DocumentInv, UNCHANGED <<objects, docRows, replaced, confirms>>,
         issued' \in 0..MaxFiles,
         file'.at = "presign" =>
           issued' < MaxFiles /\ file'.content \in Contents /\ file'.large \in BOOLEAN,
         file'.at = "put" =>
           file'.key \in Keys /\ file'.content \in Contents /\ file'.large \in BOOLEAN,
         file'.at = "confirm" => file'.key \in Keys
  PROVE  DocumentInv'
<1>1. DocumentTypeOK'
  BY DEF DocumentInv, DocumentTypeOK
<1>2. \A n \in Confirms : Knows(confirms[n])'
  BY DEF DocumentInv, Knows
<1>3. \A d \in docRows' : d.key \in Checked' /\ IsAsItSays(d)'
  BY DEF DocumentInv, Checked, IsAsItSays
<1>4. QED
  BY <1>1, <1>2, <1>3 DEF DocumentInv

LEMMA UploadBegins ==
  ASSUME DocumentInv,
         (\E type \in {"image", "pdf", "svg", "other"}, content \in Contents,
             size, large, hints \in BOOLEAN : OnFile(type, size, content, large, hints)) \/ Presign
  PROVE  DocumentInv'
<1>1. UNCHANGED <<objects, docRows, replaced, confirms>>
  BY DEF OnFile, Presign, storeSide
<1>2. issued \in 0..MaxFiles /\ MaxFiles \in Nat
  BY MaxFilesOK DEF DocumentInv, DocumentTypeOK
<1>3. ASSUME NEW type, NEW content \in Contents, NEW size, NEW large \in BOOLEAN, NEW hints,
             OnFile(type, size, content, large, hints)
      PROVE  DocumentInv'
  <2>1. /\ issued < MaxFiles /\ issued' = issued
        /\ file' = [at |-> "presign", type |-> type, size |-> size, content |-> content, large |-> large]
    BY <1>3, Zenon DEF OnFile
  <2>2. file'.at = "presign" /\ file'.content = content /\ file'.large = large
    BY <2>1
  <2>3. QED
    BY <1>1, <1>2, <1>3, <2>1, <2>2, ListingKeeps
<1>4. CASE Presign
  <2>1. CASE /\ issued' = issued + 1
             /\ file' = [at |-> "put", key |-> issued + 1, content |-> file.content, large |-> file.large]
    <3>1. file.at = "presign" /\ issued < MaxFiles /\ file.content \in Contents /\ file.large \in BOOLEAN
      BY <1>4 DEF Presign, DocumentInv, DocumentTypeOK
    <3>2. /\ file'.at = "put" /\ file'.key = issued + 1
          /\ file'.content = file.content /\ file'.large = file.large
      BY <2>1
    <3>3. issued + 1 \in 0..MaxFiles /\ issued + 1 \in Keys
      BY <1>2, <3>1 DEF Keys
    <3>4. QED
      BY <1>1, <2>1, <3>1, <3>2, <3>3, ListingKeeps
  <2>2. CASE issued' = issued /\ file' = [at |-> "refused"]
    BY <1>1, <1>2, <2>2, ListingKeeps
  <2>3. QED
    BY <1>4, <2>1, <2>2 DEF Presign
<1>5. QED
  BY <1>3, <1>4

\* A PUT changes an object nobody has read, or one that counts as replaced.
LEMMA PutKeeps ==
  ASSUME DocumentInv, NEW k \in Keys, NEW content \in Contents, NEW large \in BOOLEAN,
         PutObject(k, content, large), file' = file \/ file' = [at |-> "confirm", key |-> k]
  PROVE  DocumentInv'
<1>1. /\ UNCHANGED <<docRows, issued, confirms>> /\ replaced' = replaced \cup ({k} \cap Checked)
      /\ objects' = [objects EXCEPT ![k] = [content |-> content, large |-> large]]
  BY DEF PutObject
<1>2. PICK o : o = [content |-> content, large |-> large]
  OBVIOUS
<1>3. o \in Objects
  BY <1>2 DEF Objects
<1>4. /\ objects' \in [Keys -> Objects]
      /\ \A j \in Keys \ {k} : objects'[j] = objects[j]
  BY <1>1, <1>2, <1>3 DEF DocumentInv, DocumentTypeOK
<1>5. DocumentTypeOK'
  <2>1. CASE file' = file
    BY <1>1, <1>4, <2>1 DEF DocumentInv, DocumentTypeOK
  <2>2. CASE file' = [at |-> "confirm", key |-> k]
    BY <1>1, <1>4, <2>2 DEF DocumentInv, DocumentTypeOK
  <2>3. QED
    BY <2>1, <2>2
<1>6. ASSUME NEW j \in Keys \cap Checked, j \notin replaced'
      PROVE  j \notin replaced /\ objects'[j] = objects[j]
  BY <1>1, <1>4, <1>6
<1>7. ASSUME NEW n \in Confirms PROVE Knows(confirms[n])'
  <2>1. HeadRead(confirms[n]) => confirms[n].key \in Keys \cap Checked
    BY NoFields DEF DocumentInv, DocumentTypeOK, HeadRead, Checked, Unread, Accepted, Refused
  <2>2. Knows(confirms[n]) /\ confirms'[n] = confirms[n]
    BY <1>1 DEF DocumentInv
  <2>3. QED
    BY <1>6, <2>1, <2>2 DEF Knows, HeadRead
<1>8. ASSUME NEW d \in docRows' PROVE d.key \in Checked' /\ IsAsItSays(d)'
  <2>1. d \in docRows /\ d.key \in Keys \cap Checked /\ IsAsItSays(d)
    BY <1>1, <1>8 DEF DocumentInv, DocumentTypeOK, DocumentRows
  <2>2. Checked' = Checked
    BY <1>1 DEF Checked
  <2>3. QED
    BY <1>6, <2>1, <2>2 DEF IsAsItSays
<1>9. QED
  BY <1>5, <1>7, <1>8 DEF DocumentInv

\* A call of confirm goes on to c, in which it knows what is true, and registers
\* no document, or one of its object.
LEMMA ConfirmKeeps ==
  ASSUME DocumentInv, NEW n \in Confirms, NEW c \in Unread \cup Accepted \cup Refused,
         confirms' = [confirms EXCEPT ![n] = c], Knows(c),
         HeadRead(confirms[n]) => HeadRead(c) /\ c.key = confirms[n].key,
         UNCHANGED <<objects, replaced, issued>>, file' = file \/ file'.at = "wait",
         docRows' = docRows \/ \E d \in DocumentRows :
           docRows' = docRows \cup {d} /\ d.key = c.key /\ HeadRead(c) /\ IsAsItSays(d)
  PROVE  DocumentInv'
<1>1. /\ confirms \in [Confirms -> {NoConfirm} \cup Unread \cup Accepted \cup Refused]
      /\ \A m \in Confirms : confirms'[m] = IF m = n THEN c ELSE confirms[m]
  BY DEF DocumentInv, DocumentTypeOK
<1>2. docRows' \subseteq DocumentRows
  BY DEF DocumentInv, DocumentTypeOK
<1>3. DocumentTypeOK'
  BY <1>1, <1>2 DEF DocumentInv, DocumentTypeOK
<1>4. ASSUME NEW m \in Confirms PROVE Knows(confirms[m])'
  BY <1>1 DEF DocumentInv, Knows
<1>5. Checked \subseteq Checked' /\ (HeadRead(c) => c.key \in Checked')
  BY <1>1 DEF Checked, HeadRead
<1>6. ASSUME NEW d \in docRows' PROVE d.key \in Checked' /\ IsAsItSays(d)'
  BY <1>5, <1>6 DEF DocumentInv, IsAsItSays
<1>7. QED
  BY <1>3, <1>4, <1>6 DEF DocumentInv

LEMMA StartConfirmKeeps ==
  ASSUME DocumentInv, NEW n \in Confirms, NEW k \in Keys, StartConfirm(n, k),
         file' = file \/ file' = [at |-> "wait", call |-> n]
  PROVE  DocumentInv'
<1>1. PICK at \in {"head", "unread"} : at = IF visible THEN "head" ELSE "unread"
  OBVIOUS
<1>2. PICK c : c = [at |-> at, key |-> k]
  OBVIOUS
<1>3. /\ confirms[n].at = "none" /\ confirms' = [confirms EXCEPT ![n] = c]
      /\ UNCHANGED <<objects, replaced, issued, docRows>>
  BY <1>1, <1>2, Zenon DEF StartConfirm, storeSide
<1>4. c \in Unread /\ ~HeadRead(c)
  BY <1>2 DEF Unread, HeadRead
<1>5. Knows(c) /\ ~HeadRead(confirms[n])
  BY <1>3, <1>4 DEF Knows, HeadRead
<1>6. file' = file \/ file'.at = "wait"
  OBVIOUS
<1>7. QED
  BY <1>3, <1>4, <1>5, <1>6, ConfirmKeeps

LEMMA ReadHeadKeeps == ASSUME DocumentInv, NEW n \in Confirms, ReadHead(n) PROVE DocumentInv'
<1>1. PICK k, kind : k = confirms[n].key /\ kind = Detected(objects[k].content)
  OBVIOUS
<1>2. confirms[n].at = "head" /\ UNCHANGED <<objects, replaced, issued, docRows, file>>
  BY DEF ReadHead, storeSide
<1>3. k \in Keys /\ kind \in {"image", "pdf", "unsupported"} /\ ~HeadRead(confirms[n])
  BY <1>1, <1>2, NoFields
     DEF DocumentInv, DocumentTypeOK, Unread, Accepted, Refused, Detected, HeadRead
<1>4. PICK c : /\ confirms' = [confirms EXCEPT ![n] = c]
               /\ c = IF objects[k] = NoObject THEN [at |-> "unread", key |-> k]
                      ELSE [at |-> IF kind = "unsupported" THEN "remove" ELSE "size",
                            key |-> k, kind |-> kind]
  BY <1>1, Zenon DEF ReadHead, ConfirmAt
<1>5. /\ c \in Unread \cup Accepted \cup Refused /\ c.key = k
      /\ c.at \in {"size", "remove"} => c.kind = kind
      /\ c.at = "remove" => kind = "unsupported"
      /\ c.at # "register"
  BY <1>3, <1>4 DEF Unread, Accepted, Refused
<1>6. Knows(c)
  BY <1>1, <1>5 DEF Knows
<1>7. QED
  BY <1>2, <1>3, <1>4, <1>5, <1>6, ConfirmKeeps

\* A call that has read the head goes on and keeps its key and kind.
LEMMA GoesOn ==
  ASSUME DocumentInv, NEW n \in Confirms, confirms[n].at \in {"size", "remove", "register"},
         NEW to \in {"refused", "remove", "register", "ok"},
         confirms[n].at = "remove" => to = "refused", NEW c, c = [confirms[n] EXCEPT !.at = to]
  PROVE  /\ c \in Accepted \cup Refused /\ HeadRead(c) /\ c.at = to /\ HeadRead(confirms[n])
         /\ c.key = confirms[n].key /\ c.kind = confirms[n].kind /\ c.key \in Keys
BY NoFields DEF DocumentInv, DocumentTypeOK, Unread, Accepted, Refused, HeadRead

LEMMA StatKeeps == ASSUME DocumentInv, NEW n \in Confirms, Stat(n) PROVE DocumentInv'
<1>1. PICK o : o = objects[confirms[n].key]
  OBVIOUS
<1>2. PICK to \in {"refused", "remove", "register"} :
        to = IF o = NoObject THEN "refused" ELSE IF o.large THEN "remove" ELSE "register"
  OBVIOUS
<1>3. PICK c : c = [confirms[n] EXCEPT !.at = to]
  OBVIOUS
<1>4. /\ confirms[n].at = "size" /\ confirms' = [confirms EXCEPT ![n] = c]
      /\ UNCHANGED <<objects, replaced, issued, docRows, file>>
  BY <1>1, <1>2, <1>3, Zenon DEF Stat, ConfirmAt, storeSide
<1>5. /\ c \in Accepted \cup Refused /\ HeadRead(c) /\ c.at = to /\ HeadRead(confirms[n])
      /\ c.key = confirms[n].key /\ c.kind = confirms[n].kind
  BY <1>3, <1>4, GoesOn
<1>6. Knows(confirms[n])
  BY DEF DocumentInv
<1>7. Knows(c)
  BY <1>1, <1>2, <1>4, <1>5, <1>6 DEF Knows
<1>8. QED
  BY <1>4, <1>5, <1>7, ConfirmKeeps

LEMMA RegisterKeeps == ASSUME DocumentInv, NEW n \in Confirms, RegisterRow(n) PROVE DocumentInv'
<1>1. PICK c : c = [confirms[n] EXCEPT !.at = "ok"]
  OBVIOUS
<1>2. PICK d : d = [id |-> n, key |-> confirms[n].key, kind |-> confirms[n].kind, deleted |-> FALSE]
  OBVIOUS
<1>3. /\ confirms[n].at = "register" /\ confirms' = [confirms EXCEPT ![n] = c]
      /\ docRows' = docRows \cup {d} /\ UNCHANGED <<objects, replaced, issued, file>>
  BY <1>1, <1>2, Zenon DEF RegisterRow, ConfirmAt, storeSide
<1>4. /\ c \in Accepted \cup Refused /\ HeadRead(c) /\ c.at = "ok" /\ HeadRead(confirms[n])
      /\ c.key = confirms[n].key /\ c.key \in Keys
  BY <1>1, <1>3, GoesOn
<1>5. confirms[n].kind \in {"image", "pdf"}
  BY <1>3, NoFields DEF DocumentInv, DocumentTypeOK, Unread, Accepted, Refused
<1>6. d \in DocumentRows /\ d.key = confirms[n].key /\ d.kind = confirms[n].kind
  BY <1>2, <1>4, <1>5 DEF DocumentRows
<1>7. Knows(confirms[n])
  BY DEF DocumentInv
<1>8. Knows(c) /\ IsAsItSays(d)
  BY <1>3, <1>4, <1>6, <1>7 DEF Knows, IsAsItSays
<1>9. QED
  BY <1>3, <1>4, <1>6, <1>8, ConfirmKeeps

\* An object is removed by a call that has read that it is to be refused: no
\* row and no other call says otherwise, unless it was put again.
LEMMA RemoveObjectKeeps == ASSUME DocumentInv, NEW n \in Confirms, RemoveObject(n) PROVE DocumentInv'
<1>1. PICK c : c = [confirms[n] EXCEPT !.at = "refused"]
  OBVIOUS
<1>2. PICK k : k = confirms[n].key
  OBVIOUS
<1>3. /\ confirms[n].at = "remove" /\ confirms' = [confirms EXCEPT ![n] = c]
      /\ objects' \in {objects, [objects EXCEPT ![k] = NoObject]}
      /\ UNCHANGED <<docRows, replaced, issued, file>>
  BY <1>1, <1>2, Zenon DEF RemoveObject, ConfirmAt
<1>4. /\ c \in Accepted \cup Refused /\ HeadRead(c) /\ c.at = "refused" /\ HeadRead(confirms[n])
      /\ c.key = k /\ k \in Keys
  BY <1>1, <1>2, <1>3, GoesOn
<1>5. k \in replaced \/ Detected(objects[k].content) = "unsupported" \/ objects[k].large
  BY <1>2, <1>3, <1>4 DEF DocumentInv, Knows
<1>6. /\ objects' \in [Keys -> Objects] /\ objects'[k] \in {objects[k], NoObject}
      /\ \A j \in Keys \ {k} : objects'[j] = objects[j]
  BY <1>3, <1>4, NoFields DEF DocumentInv, DocumentTypeOK
<1>7. /\ confirms \in [Confirms -> {NoConfirm} \cup Unread \cup Accepted \cup Refused]
      /\ \A m \in Confirms : confirms'[m] = IF m = n THEN c ELSE confirms[m]
  BY <1>3 DEF DocumentInv, DocumentTypeOK
<1>8. DocumentTypeOK'
  BY <1>3, <1>4, <1>6, <1>7 DEF DocumentInv, DocumentTypeOK
<1>9. ASSUME NEW m \in Confirms PROVE Knows(confirms[m])'
  <2>1. CASE m = n
    BY <1>4, <1>7, <2>1 DEF Knows
  <2>2. CASE m # n
    <3>1. PICK e : e = confirms[m]
      OBVIOUS
    <3>2. /\ confirms'[m] = e /\ Knows(e)
          /\ HeadRead(e) => e.key \in Keys
          /\ e.at = "register" => e.kind \in {"image", "pdf"}
      BY <1>7, <2>2, <3>1, NoFields DEF DocumentInv, DocumentTypeOK, Unread, Accepted, Refused, HeadRead
    <3>3. Knows(e)'
      BY <1>3, <1>5, <1>6, <3>2, NoFields DEF Knows
    <3>4. QED
      BY <3>2, <3>3 DEF Knows, HeadRead
  <2>3. QED
    BY <2>1, <2>2
<1>10. ASSUME NEW d \in docRows' PROVE d.key \in Checked' /\ IsAsItSays(d)'
  <2>1. /\ d \in docRows /\ d.key \in Keys /\ d.kind \in {"image", "pdf"}
        /\ d.key \in Checked /\ IsAsItSays(d)
    BY <1>3, <1>10 DEF DocumentInv, DocumentTypeOK, DocumentRows
  <2>2. Checked \subseteq Checked'
    BY <1>2, <1>4, <1>7 DEF Checked, HeadRead
  <2>3. IsAsItSays(d)'
    BY <1>3, <1>5, <1>6, <2>1, NoFields DEF IsAsItSays
  <2>4. QED
    BY <2>1, <2>2, <2>3
<1>11. QED
  BY <1>8, <1>9, <1>10 DEF DocumentInv

\* A document that is deleted keeps its key and its kind.
LEMMA RemoveKeeps == ASSUME DocumentInv, RemoveDocument PROVE DocumentInv'
<1>1. PICK d \in docRows : docRows' = (docRows \ {d}) \cup {[d EXCEPT !.deleted = TRUE]}
  BY DEF RemoveDocument
<1>2. UNCHANGED <<objects, replaced, confirms, file, issued>>
  BY DEF RemoveDocument, apiSide, storeSide
<1>3. PICK e : e = [d EXCEPT !.deleted = TRUE]
  OBVIOUS
<1>4. e \in DocumentRows /\ e.key = d.key /\ e.kind = d.kind
  BY <1>3 DEF DocumentInv, DocumentTypeOK, DocumentRows
<1>5. DocumentTypeOK'
  BY <1>1, <1>2, <1>3, <1>4 DEF DocumentInv, DocumentTypeOK
<1>6. ASSUME NEW f \in docRows' PROVE f.key \in Checked' /\ IsAsItSays(f)'
  <2>1. PICK g \in docRows : f.key = g.key /\ f.kind = g.kind
    BY <1>1, <1>3, <1>4
  <2>2. g.key \in Checked /\ IsAsItSays(g)
    BY DEF DocumentInv
  <2>3. Checked' = Checked
    BY <1>2 DEF Checked
  <2>4. QED
    BY <1>2, <2>1, <2>2, <2>3 DEF IsAsItSays
<1>7. \A n \in Confirms : Knows(confirms[n])'
  BY <1>2 DEF DocumentInv, Knows
<1>8. QED
  BY <1>5, <1>6, <1>7 DEF DocumentInv

LEMMA UploadNextKeeps == ASSUME DocumentInv, UploadNext PROVE DocumentInv'
<1>1. CASE PutBytes
  <2>1. /\ file.at = "put" /\ PutObject(file.key, file.content, file.large)
        /\ file' = [at |-> "confirm", key |-> file.key]
    BY <1>1 DEF PutBytes
  <2>2. file.key \in Keys /\ file.content \in Contents /\ file.large \in BOOLEAN
    BY <2>1 DEF DocumentInv, DocumentTypeOK
  <2>3. QED
    BY <2>1, <2>2, PutKeeps
<1>2. ASSUME NEW k \in Keys, UrlExpires(k) PROVE DocumentInv'
  <2>1. UNCHANGED <<objects, docRows, replaced, confirms, issued, file>>
    BY <1>2 DEF UrlExpires
  <2>2. QED
    BY <2>1, ListingKeeps DEF DocumentInv, DocumentTypeOK
<1>3. ASSUME NEW k \in Keys, NEW content \in Contents, NEW large \in BOOLEAN,
             PutAgain(k, content, large)
      PROVE  DocumentInv'
  BY <1>3, PutKeeps DEF PutAgain
<1>4. ASSUME NEW n \in Confirms, SectionConfirms(n) PROVE DocumentInv'
  <2>1. file.at = "confirm" /\ StartConfirm(n, file.key) /\ file' = [at |-> "wait", call |-> n]
    BY <1>4 DEF SectionConfirms
  <2>2. file.key \in Keys
    BY <2>1 DEF DocumentInv, DocumentTypeOK
  <2>3. QED
    BY <2>1, <2>2, StartConfirmKeeps
<1>5. ASSUME NEW n \in Confirms, NEW k \in 1..issued, OthersConfirm(n, k) PROVE DocumentInv'
  <2>1. k \in Keys
    BY MaxFilesOK DEF DocumentInv, DocumentTypeOK, Keys
  <2>2. QED
    BY <1>5, <2>1, StartConfirmKeeps DEF OthersConfirm
<1>6. QED
  BY <1>1, <1>2, <1>3, <1>4, <1>5, UploadBegins, ReadHeadKeeps, StatKeeps, RemoveObjectKeeps,
     RegisterKeeps, Zenon DEF UploadNext

LEMMA DocumentNextKeeps == DocumentInv /\ [DocumentNext]_documentVars => DocumentInv'
<1> SUFFICES ASSUME DocumentInv, [DocumentNext]_documentVars PROVE DocumentInv'
  OBVIOUS
<1>1. CASE UNCHANGED documentVars
  <2>1. UNCHANGED <<objects, docRows, replaced, confirms, issued, file>>
    BY <1>1 DEF documentVars
  <2>2. QED
    BY <2>1, ListingKeeps DEF DocumentInv, DocumentTypeOK
<1>2. CASE Uploaded \/ UploadFailed \/ OpenSection
           \/ (\E r \in reads : ListForPerson(r) \/ ListArrives(r) \/ ListFails(r))
           \/ (\E d \in Confirms : ConfirmDelete(d)) \/ DocumentRemoved \/ RemoveRefused \/ HidePerson
  <2>1. UNCHANGED <<objects, docRows, replaced, confirms, issued>> /\ (file' = file \/ file' = NoFile)
    BY <1>2, Zenon DEF Uploaded, UploadFailed, OpenSection, ListForPerson, ListArrives, ListFails,
       ConfirmDelete, DocumentRemoved, RemoveRefused, HidePerson, section, apiSide, storeSide
  <2>2. QED
    BY <2>1, ListingKeeps, NoFields DEF DocumentInv, DocumentTypeOK
<1>3. QED
  BY <1>1, <1>2, UploadNextKeeps, RemoveKeeps, Zenon DEF DocumentNext, SectionNext

LEMMA DocumentInitHolds == DocumentInit => DocumentInv
<1> SUFFICES ASSUME DocumentInit PROVE DocumentInv
  OBVIOUS
<1>1. DocumentTypeOK
  BY NoFields, MaxFilesOK DEF DocumentInit, DocumentTypeOK
<1>2. \A n \in Confirms : Knows(confirms[n])
  BY NoFields DEF DocumentInit, Knows, HeadRead
<1>3. docRows = {}
  BY DEF DocumentInit
<1>4. QED
  BY <1>1, <1>2, <1>3 DEF DocumentInv

\* documents.service.ts: whatever clients declare, whichever keys they confirm and however
\* often, and wherever an upload stops, a document whose object was not put again after a
\* confirmation had read it has an object of the kind and the size the service looked at.
THEOREM DocumentsStayTrue == DocumentSpec => []DocumentsAreWhatTheySay
<1>1. DocumentInv => DocumentsAreWhatTheySay
  BY DEF DocumentInv, IsAsItSays, DocumentsAreWhatTheySay
<1>2. DocumentSpec => []DocumentInv
  BY DocumentInitHolds, DocumentNextKeeps, PTL DEF DocumentSpec
<1>3. QED
  BY <1>1, <1>2, PTL

-----------------------------------------------------------------------------
(* ImportScreens.  A status beyond the parse is in the screen, in an event    *)
(* under way to it or in an answer, as long as nothing was missed.           *)

Early == Reading \cup {NoBatch}
Late == {"preview", "failed", "submitted", "published", "rejected", "rolled_back"}
Reads == [no : Nat, at : Early \cup Late]

ScreenTypeOK ==
  /\ stage \in Early \cup Late /\ held \in Early \cup Late
  /\ events \in Seq(Early \cup Late)
  /\ gets \subseteq Reads /\ asked \in Nat
  /\ missed \in BOOLEAN /\ failed \in BOOLEAN
  /\ view \in {"wizard", "batch", "left"}

Pending(es, S) == \E i \in 1..Len(es) : es[i] \in S
Announced(es) == Pending(es, {"preview"})
Broken(es) == Pending(es, {"failed"})
Over(es) == Pending(es, Late)

\* What is under way was true of the batch once, and the parse does not return.
UnderWay ==
  /\ upload \in {"none", "sent", "lost"} => stage = NoBatch
  /\ upload \in {"served", "done"} => stage # NoBatch
  /\ view = "batch" => stage # NoBatch
  /\ Announced(events) => stage \in Late
  /\ \A g \in gets : g.at \in Late => stage \in Late
  /\ \A g, k \in gets : g.no = k.no => g = k
  /\ \A g \in gets : g.no <= asked

Waiting == view = "wizard" /\ step \in {"choose", "processing"} /\ ~missed

WizardInv ==
  /\ view = "wizard" => \A g \in gets : stage \in Late /\ g.at \notin Reading
  /\ view = "wizard" /\ step = "preview" => held \in Late
  /\ view = "wizard" /\ upload # "done" => step = "choose" /\ held = NoBatch /\ gets = {}
  /\ Waiting /\ stage = "failed" => failed \/ Broken(events)
  /\ Waiting /\ stage \in Late \ {"failed"} => gets # {} \/ Announced(events)

PageInv ==
  /\ view = "batch" /\ held \in Late => stage \in Late
  /\ view = "batch" /\ ~missed =>
       /\ \A g \in gets : g.no = asked /\ g.at \in Reading /\ stage \in Late =>
            Over(events)
       /\ \A g \in gets : g.no = asked /\ held \in Late => g.at \notin Reading
       /\ held \in Reading /\ stage \in Late => gets # {} \/ Over(events)

ScreenInv == ScreenTypeOK /\ UnderWay /\ WizardInv /\ PageInv

LEMMA Stages ==
  /\ Reading \subseteq Early /\ NoBatch \in Early /\ NoBatch \notin Reading /\ NoBatch \notin Late
  /\ \A s \in Early \cup Late : s \in Late <=> s \notin Early
  /\ \A s \in Early : s \in Reading \/ s = NoBatch
  /\ "uploaded" \in Reading /\ "preview" \in Late /\ "failed" \in Late
BY DEF Early, Late, Reading, NoBatch

LEMMA PendingAppend ==
  ASSUME NEW T, NEW es \in Seq(T), NEW s \in T, NEW S
  PROVE  Append(es, s) \in Seq(T) /\ (Pending(Append(es, s), S) <=> Pending(es, S) \/ s \in S)
<1>1. Append(es, s) \in Seq(T) /\ Len(Append(es, s)) = Len(es) + 1 /\ Len(es) \in Nat
  OBVIOUS
<1>2. \A i \in 1..Len(es) : Append(es, s)[i] = es[i]
  OBVIOUS
<1>3. Append(es, s)[Len(es) + 1] = s
  OBVIOUS
<1>4. QED
  BY <1>1, <1>2, <1>3 DEF Pending

LEMMA PendingTail ==
  ASSUME NEW T, NEW es \in Seq(T), es # <<>>, NEW S
  PROVE  /\ Tail(es) \in Seq(T) /\ Head(es) \in T
         /\ Pending(es, S) <=> Head(es) \in S \/ Pending(Tail(es), S)
<1>1. /\ Tail(es) \in Seq(T) /\ Head(es) = es[1] /\ Head(es) \in T
      /\ Len(es) \in Nat /\ Len(es) > 0 /\ Len(Tail(es)) = Len(es) - 1
  OBVIOUS
<1>2. \A i \in 1..Len(es) - 1 : Tail(es)[i] = es[i + 1]
  OBVIOUS
<1>3. ASSUME Pending(es, S) PROVE Head(es) \in S \/ Pending(Tail(es), S)
  <2>1. PICK i \in 1..Len(es) : es[i] \in S
    BY <1>3 DEF Pending
  <2>2. CASE i = 1
    BY <1>1, <2>1, <2>2
  <2>3. CASE i # 1
    <3>1. i - 1 \in 1..Len(es) - 1 /\ Tail(es)[i - 1] = es[i]
      BY <1>1, <1>2, <2>3
    <3>2. QED
      BY <1>1, <2>1, <3>1 DEF Pending
  <2>4. QED
    BY <2>2, <2>3
<1>4. ASSUME Head(es) \in S \/ Pending(Tail(es), S) PROVE Pending(es, S)
  <2>1. CASE Head(es) \in S
    BY <1>1, <2>1 DEF Pending
  <2>2. CASE Pending(Tail(es), S)
    <3>1. PICK i \in 1..Len(es) - 1 : Tail(es)[i] \in S
      BY <1>1, <2>2 DEF Pending
    <3>2. i + 1 \in 1..Len(es) /\ es[i + 1] \in S
      BY <1>1, <1>2, <3>1
    <3>3. QED
      BY <3>2 DEF Pending
  <2>3. QED
    BY <1>4, <2>1, <2>2
<1>5. QED
  BY <1>1, <1>3, <1>4

LEMMA Quiet == ~Announced(<<>>) /\ ~Broken(<<>>) /\ ~Over(<<>>) /\ <<>> \in Seq(Early \cup Late)
BY DEF Pending, Announced, Broken, Over

LEMMA OneMore ==
  ASSUME NEW es \in Seq(Early \cup Late), NEW s \in Early \cup Late
  PROVE  /\ Append(es, s) \in Seq(Early \cup Late)
         /\ Announced(Append(es, s)) <=> Announced(es) \/ s = "preview"
         /\ Broken(Append(es, s)) <=> Broken(es) \/ s = "failed"
         /\ Over(Append(es, s)) <=> Over(es) \/ s \in Late
<1>1. Append(es, s) \in Seq(Early \cup Late)
  BY PendingAppend
<1>2. Pending(Append(es, s), {"preview"}) <=> Pending(es, {"preview"}) \/ s \in {"preview"}
  BY PendingAppend
<1>3. Pending(Append(es, s), {"failed"}) <=> Pending(es, {"failed"}) \/ s \in {"failed"}
  BY PendingAppend
<1>4. Pending(Append(es, s), Late) <=> Pending(es, Late) \/ s \in Late
  BY PendingAppend
<1>5. QED
  BY <1>1, <1>2, <1>3, <1>4 DEF Announced, Broken, Over

LEMMA OneTaken ==
  ASSUME NEW es \in Seq(Early \cup Late), es # <<>>
  PROVE  /\ Tail(es) \in Seq(Early \cup Late) /\ Head(es) \in Early \cup Late
         /\ Announced(es) <=> Head(es) = "preview" \/ Announced(Tail(es))
         /\ Broken(es) <=> Head(es) = "failed" \/ Broken(Tail(es))
         /\ Over(es) <=> Head(es) \in Late \/ Over(Tail(es))
<1>1. Tail(es) \in Seq(Early \cup Late) /\ Head(es) \in Early \cup Late
  BY PendingTail
<1>2. Pending(es, {"preview"}) <=> Head(es) \in {"preview"} \/ Pending(Tail(es), {"preview"})
  BY PendingTail
<1>3. Pending(es, {"failed"}) <=> Head(es) \in {"failed"} \/ Pending(Tail(es), {"failed"})
  BY PendingTail
<1>4. Pending(es, Late) <=> Head(es) \in Late \/ Pending(Tail(es), Late)
  BY PendingTail
<1>5. QED
  BY <1>1, <1>2, <1>3, <1>4 DEF Announced, Broken, Over

\* The steps of the parse, and the publication: the event follows the status.
LEMMA EmitKeeps ==
  ASSUME ScreenInv, NEW s \in Early \cup Late, Emit(s), stage # NoBatch, s # NoBatch,
         stage \in Late => s \in Late,
         s # "failed" \/ stage \notin Late, stage = "failed" => s = "failed",
         s \in Late => s \in {"preview", "failed"} \/ stage \in Late,
         UNCHANGED <<socket, upload, submission, screenVars, gets, asked>>
  PROVE  ScreenInv'
<1>1. /\ stage' = s /\ missed' \in BOOLEAN /\ (missed => missed')
      /\ UNCHANGED <<upload, view, step, held, failed, gets, asked>>
  BY DEF Emit, ScreenInv, ScreenTypeOK, screenVars
<1>2. events' = Append(events, s) \/ (events' = events /\ missed')
  BY DEF Emit
<1>3. events \in Seq(Early \cup Late)
  BY DEF ScreenInv, ScreenTypeOK
<1>4. events' \in Seq(Early \cup Late)
  BY <1>2, <1>3, OneMore
<1>5. /\ Announced(events') => Announced(events) \/ s = "preview"
      /\ ~missed' => /\ Announced(events') <=> Announced(events) \/ s = "preview"
                     /\ Broken(events') <=> Broken(events) \/ s = "failed"
                     /\ Over(events') <=> Over(events) \/ s \in Late
  <2>1. CASE events' = Append(events, s)
    BY <2>1, <1>3, OneMore
  <2>2. CASE events' = events /\ missed'
    BY <2>2
  <2>3. QED
    BY <1>2, <2>1, <2>2
<1>6. ScreenTypeOK'
  BY <1>1, <1>4 DEF ScreenInv, ScreenTypeOK
<1>7. UnderWay'
  BY <1>1, <1>5, Stages DEF ScreenInv, UnderWay
<1>8. WizardInv'
  BY <1>1, <1>5, Stages DEF ScreenInv, ScreenTypeOK, WizardInv, Waiting
<1>9. PageInv'
  BY <1>1, <1>5, Stages DEF ScreenInv, ScreenTypeOK, PageInv
<1>10. QED
  BY <1>6, <1>7, <1>8, <1>9 DEF ScreenInv

\* A late status followed by another one, neither of them a failure.
LEMMA StageKeeps ==
  ASSUME ScreenInv, stage \in Late, stage' \in Late \ {"failed"}, stage # "failed",
         UNCHANGED <<upload, view, step, held, failed, gets, asked, missed, events>>
  PROVE  ScreenInv'
<1>1. ScreenTypeOK'
  BY DEF ScreenInv, ScreenTypeOK
<1>2. UnderWay'
  BY Stages DEF ScreenInv, UnderWay
<1>3. WizardInv'
  BY Stages DEF ScreenInv, WizardInv, Waiting
<1>4. PageInv'
  BY Stages DEF ScreenInv, PageInv
<1>5. QED
  BY <1>1, <1>2, <1>3, <1>4 DEF ScreenInv

LEMMA ParseKeeps == ScreenInv /\ (Parse \/ PublishBatch) => ScreenInv'
<1> SUFFICES ASSUME ScreenInv, Parse \/ PublishBatch PROVE ScreenInv'
  OBVIOUS
<1>1. CASE Parse
  <2>1. UNCHANGED <<socket, upload, submission, screenVars, gets, asked>> /\ stage \in Reading \cup {"preview"}
    BY <1>1 DEF Parse
  <2>2. \/ stage = "uploaded" /\ Emit("parsing")
        \/ stage = "parsing" /\ Emit("validating")
        \/ stage = "validating" /\ Emit("resolving")
        \/ stage = "resolving" /\ Emit("preview")
        \/ stage \in {"parsing", "resolving"} /\ Emit("failed")
    BY <1>1, Zenon DEF Parse
  <2>3. stage \in Reading /\ stage # NoBatch /\ stage \notin Late /\ stage # "failed"
    BY <2>1, <2>2 DEF Reading, NoBatch, Late
  <2>4. CASE Emit("parsing")
    BY <2>1, <2>3, <2>4, EmitKeeps DEF Early, Late, Reading, NoBatch
  <2>5. CASE Emit("validating")
    BY <2>1, <2>3, <2>5, EmitKeeps DEF Early, Late, Reading, NoBatch
  <2>6. CASE Emit("resolving")
    BY <2>1, <2>3, <2>6, EmitKeeps DEF Early, Late, Reading, NoBatch
  <2>7. CASE Emit("preview")
    BY <2>1, <2>3, <2>7, EmitKeeps DEF Early, Late, Reading, NoBatch
  <2>8. CASE Emit("failed")
    BY <2>1, <2>3, <2>8, EmitKeeps DEF Early, Late, Reading, NoBatch
  <2>9. QED
    BY <2>2, <2>4, <2>5, <2>6, <2>7, <2>8
<1>2. CASE PublishBatch
  <2>1. /\ stage = "submitted"
        /\ UNCHANGED <<socket, upload, submission, screenVars, gets, asked>>
        /\ Emit("published") \/ (stage' = "rejected" /\ UNCHANGED <<events, missed>>)
    BY <1>2 DEF PublishBatch
  <2>2. CASE Emit("published")
    BY <2>1, <2>2, EmitKeeps DEF Late, NoBatch
  <2>3. CASE stage' = "rejected" /\ UNCHANGED <<events, missed>>
    BY <2>1, <2>3, StageKeeps DEF Late, screenVars
  <2>4. QED
    BY <2>1, <2>2, <2>3
<1>3. QED
  BY <1>1, <1>2

\* Steps of the socket, of a submission or of a refused call.
LEMMA AsideKeeps ==
  ASSUME ScreenInv, UNCHANGED <<stage, upload, view, step, held, failed, gets, asked, missed, events>>
  PROVE  ScreenInv'
<1>1. ScreenTypeOK'
  BY DEF ScreenInv, ScreenTypeOK
<1>2. UnderWay'
  BY DEF ScreenInv, UnderWay
<1>3. WizardInv'
  BY DEF ScreenInv, WizardInv, Waiting
<1>4. PageInv'
  BY DEF ScreenInv, PageInv
<1>5. QED
  BY <1>1, <1>2, <1>3, <1>4 DEF ScreenInv

LEMMA UploadsKeep ==
  ScreenInv /\ (StartUpload \/ ServeUpload \/ UploadFails \/ UploadAnswered) => ScreenInv'
<1> SUFFICES ASSUME ScreenInv, StartUpload \/ ServeUpload \/ UploadFails \/ UploadAnswered
             PROVE  ScreenInv'
  OBVIOUS
<1>1. CASE StartUpload
  <2>1. /\ view = "wizard" /\ step = "choose" /\ upload \in {"none", "lost"} /\ stage = NoBatch
        /\ upload' = "sent" /\ failed' = FALSE
        /\ UNCHANGED <<stage, events, view, step, held, gets, asked, missed>>
    BY <1>1 DEF StartUpload
  <2>2. ScreenTypeOK'
    BY <2>1 DEF ScreenInv, ScreenTypeOK
  <2>3. UnderWay' /\ WizardInv' /\ PageInv'
    BY <2>1, Stages DEF ScreenInv, UnderWay, WizardInv, Waiting, PageInv
  <2>4. QED
    BY <2>2, <2>3 DEF ScreenInv
<1>2. CASE ServeUpload
  <2>1. /\ upload = "sent" /\ upload' = "served" /\ stage' = "uploaded"
        /\ UNCHANGED <<events, view, step, held, failed, gets, asked, missed>>
    BY <1>2 DEF ServeUpload, screenVars
  <2>2. stage = NoBatch /\ stage' \in Reading /\ stage' \notin Late /\ stage' # NoBatch
    BY <2>1 DEF ScreenInv, UnderWay, Reading, Late, NoBatch
  <2>3. ScreenTypeOK'
    BY <2>1, <2>2, Stages DEF ScreenInv, ScreenTypeOK
  <2>4. UnderWay'
    BY <2>1, <2>2, Stages DEF ScreenInv, UnderWay
  <2>5. WizardInv'
    BY <2>1, <2>2, Stages DEF ScreenInv, WizardInv, Waiting
  <2>6. PageInv'
    BY <2>1, <2>2, Stages DEF ScreenInv, UnderWay, PageInv
  <2>7. QED
    BY <2>3, <2>4, <2>5, <2>6 DEF ScreenInv
<1>3. CASE UploadFails
  <2>1. /\ upload = "sent" /\ upload' = "lost"
        /\ UNCHANGED <<stage, events, view, step, held, failed, gets, asked, missed>>
    BY <1>3 DEF UploadFails, screenVars
  <2>2. ScreenTypeOK'
    BY <2>1 DEF ScreenInv, ScreenTypeOK
  <2>3. UnderWay' /\ WizardInv' /\ PageInv'
    BY <2>1, Stages DEF ScreenInv, UnderWay, WizardInv, Waiting, PageInv
  <2>4. QED
    BY <2>2, <2>3 DEF ScreenInv
<1>4. CASE UploadAnswered
  <2>1. /\ upload = "served" /\ upload' = "done"
        /\ UNCHANGED <<stage, events, view, failed, gets, asked, missed>>
        /\ \/ view = "wizard" /\ held' = "uploaded" /\ step' = "processing"
           \/ view # "wizard" /\ UNCHANGED <<held, step>>
    BY <1>4 DEF UploadAnswered
  <2>2. "uploaded" \in Early /\ "uploaded" \notin Late
    BY Stages DEF Early, Late
  <2>3. ScreenTypeOK'
    BY <2>1, <2>2 DEF ScreenInv, ScreenTypeOK
  <2>4. UnderWay'
    BY <2>1, <2>2 DEF ScreenInv, UnderWay
  <2>5. WizardInv'
    BY <2>1, <2>2, Stages DEF ScreenInv, UnderWay, WizardInv, Waiting
  <2>6. PageInv'
    BY <2>1, <2>2 DEF ScreenInv, PageInv
  <2>7. QED
    BY <2>3, <2>4, <2>5, <2>6 DEF ScreenInv
<1>5. QED
  BY <1>1, <1>2, <1>3, <1>4

\* An event taken by the wizard or by the page, which may ask for the batch.
LEMMA ProgressKeeps == ScreenInv /\ (WizardProgress \/ BatchProgress) => ScreenInv'
<1> SUFFICES ASSUME ScreenInv, WizardProgress \/ BatchProgress PROVE ScreenInv'
  OBVIOUS
<1> DEFINE e == Head(events)
           get == [no |-> asked + 1, at |-> NoBatch]
<1>1. /\ events # <<>> /\ events' = Tail(events) /\ missed' = (missed \/ held = NoBatch)
      /\ UNCHANGED <<stage, upload, view, step, held>>
  BY DEF WizardProgress, BatchProgress, screenVars
<1>2. \/ gets' = gets /\ asked' = asked
      \/ gets' = gets \cup {get} /\ asked' = asked + 1 /\ held # NoBatch
  BY DEF WizardProgress, BatchProgress, Ask
<1>3. events \in Seq(Early \cup Late) /\ missed' \in BOOLEAN /\ failed' \in BOOLEAN
  BY <1>1 DEF ScreenInv, ScreenTypeOK, WizardProgress, BatchProgress, screenVars
<1>4. /\ events' \in Seq(Early \cup Late) /\ e \in Early \cup Late
      /\ Announced(events) <=> e = "preview" \/ Announced(events')
      /\ Broken(events) <=> e = "failed" \/ Broken(events')
      /\ Over(events) <=> e \in Late \/ Over(events')
  BY <1>1, <1>3, OneTaken
<1>5. get \in Reads /\ get.no = asked + 1 /\ get.at = NoBatch
  BY DEF ScreenInv, ScreenTypeOK, Reads, Early
<1>6. ScreenTypeOK'
  BY <1>1, <1>2, <1>3, <1>4, <1>5 DEF ScreenInv, ScreenTypeOK
<1>7. asked \in Nat /\ \A g \in gets : g.no \in Nat
  BY DEF ScreenInv, ScreenTypeOK, Reads
<1>8. UnderWay'
  BY <1>1, <1>2, <1>4, <1>5, <1>7, Stages DEF ScreenInv, UnderWay
<1>9. CASE WizardProgress
  <2>1. view = "wizard" /\ failed' = (failed \/ (held # NoBatch /\ e = "failed"))
        /\ (held # NoBatch /\ e = "preview" => gets' = gets \cup {get})
        /\ (~(held # NoBatch /\ e = "preview") => gets' = gets)
    BY <1>9 DEF WizardProgress, Ask
  <2>2. held = NoBatch \/ upload = "done"
    BY <2>1 DEF ScreenInv, WizardInv
  <2>3. e = "preview" => stage \in Late
    BY <1>4 DEF ScreenInv, UnderWay
  <2>4. WizardInv'
    BY <1>1, <1>2, <1>4, <1>5, <2>1, <2>2, <2>3, Stages DEF ScreenInv, WizardInv, Waiting
  <2>5. PageInv'
    BY <1>1, <2>1 DEF PageInv
  <2>6. QED
    BY <1>6, <1>8, <2>4, <2>5 DEF ScreenInv
<1>10. CASE BatchProgress
  <2>1. view = "batch" /\ (held # NoBatch /\ e # held => gets' = gets \cup {get} /\ asked' = asked + 1)
        /\ (~(held # NoBatch /\ e # held) => gets' = gets /\ asked' = asked)
    BY <1>10 DEF BatchProgress, Ask
  <2>2. WizardInv'
    BY <1>1, <2>1 DEF WizardInv, Waiting
  <2>3. held \in Late => stage \in Late
    BY <2>1 DEF ScreenInv, PageInv
  <2>4. \A g \in gets : g.no <= asked
    BY DEF ScreenInv, UnderWay
  <2>5. ASSUME ~missed' PROVE PageInv'
    <3>1. /\ held # NoBatch
          /\ \A g \in gets : g.no = asked /\ g.at \in Reading /\ stage \in Late => Over(events)
          /\ \A g \in gets : g.no = asked /\ held \in Late => g.at \notin Reading
          /\ held \in Reading /\ stage \in Late => gets # {} \/ Over(events)
      BY <1>1, <2>1, <2>5 DEF ScreenInv, PageInv
    <3>2. CASE e # held
      <4>1. \A g \in gets' : g.no = asked' => g = get
        BY <1>5, <1>7, <2>1, <2>4, <3>1, <3>2
      <4>2. get.at \notin Reading /\ gets' # {}
        BY <1>5, <2>1, <3>1, <3>2, Stages
      <4>3. QED
        BY <1>1, <2>3, <4>1, <4>2 DEF PageInv
    <3>3. CASE e = held
      <4>1. gets' = gets /\ asked' = asked
        BY <2>1, <3>3
      <4>2. QED
        BY <1>1, <1>4, <2>3, <3>1, <3>3, <4>1, Stages DEF PageInv
    <3>4. QED
      BY <3>2, <3>3
  <2>6. ASSUME missed' PROVE PageInv'
    BY <1>1, <2>3, <2>6 DEF PageInv
  <2>7. QED
    BY <1>6, <1>8, <2>2, <2>5, <2>6 DEF ScreenInv
<1>11. QED
  BY <1>9, <1>10

\* A read of the batch served with the status it has now.
LEMMA ServeGetKeeps == ASSUME NEW g \in gets, ScreenInv, ServeGet(g) PROVE ScreenInv'
<1>1. PICK k : k = [g EXCEPT !.at = stage]
  OBVIOUS
<1>2. /\ gets' = (gets \ {g}) \cup {k} /\ g.at = NoBatch
      /\ UNCHANGED <<stage, upload, view, step, held, failed, events, asked, missed>>
  BY <1>1 DEF ServeGet, screenVars
<1>3. k \in Reads /\ k.no = g.no /\ k.at = stage /\ gets' # {}
  BY <1>1, <1>2 DEF ScreenInv, ScreenTypeOK, Reads
<1>4. ScreenTypeOK'
  BY <1>2, <1>3 DEF ScreenInv, ScreenTypeOK
<1>5. UnderWay'
  BY <1>2, <1>3 DEF ScreenInv, UnderWay
<1>6. WizardInv'
  BY <1>2, <1>3, Stages DEF ScreenInv, WizardInv, Waiting
<1>7. PageInv'
  BY <1>2, <1>3, Stages DEF ScreenInv, PageInv
<1>8. QED
  BY <1>4, <1>5, <1>6, <1>7 DEF ScreenInv

LEMMA GetFailsKeeps == ASSUME NEW g \in gets, ScreenInv, GetFails(g) PROVE ScreenInv'
<1>1. /\ gets' = gets \ {g} /\ missed' = TRUE
      /\ held' = IF view = "batch" THEN NoBatch ELSE held
      /\ UNCHANGED <<stage, upload, view, step, failed, events, asked>>
  BY DEF GetFails
<1>2. ScreenTypeOK'
  BY <1>1, Stages DEF ScreenInv, ScreenTypeOK
<1>3. UnderWay'
  BY <1>1 DEF ScreenInv, UnderWay
<1>4. WizardInv'
  BY <1>1, Stages DEF ScreenInv, WizardInv, Waiting
<1>5. PageInv'
  BY <1>1, Stages DEF ScreenInv, PageInv
<1>6. QED
  BY <1>2, <1>3, <1>4, <1>5 DEF ScreenInv

LEMMA EnterPreviewKeeps == ASSUME NEW g \in gets, ScreenInv, EnterPreview(g) PROVE ScreenInv'
<1>1. /\ view = "wizard" /\ g.at # NoBatch /\ gets' = gets \ {g}
      /\ missed' = (missed \/ g.no # asked) /\ held' = g.at /\ step' = "preview"
      /\ UNCHANGED <<stage, upload, view, failed, events, asked>>
  BY DEF EnterPreview, Take
<1>2. g.at \in Late /\ upload = "done"
  BY <1>1, Stages DEF ScreenInv, ScreenTypeOK, Reads, WizardInv
<1>3. ScreenTypeOK'
  BY <1>1, <1>2 DEF ScreenInv, ScreenTypeOK
<1>4. UnderWay'
  BY <1>1 DEF ScreenInv, UnderWay
<1>5. WizardInv'
  BY <1>1, <1>2 DEF ScreenInv, WizardInv, Waiting
<1>6. PageInv'
  BY <1>1 DEF ScreenInv, PageInv
<1>7. QED
  BY <1>3, <1>4, <1>5, <1>6 DEF ScreenInv

LEMMA ReloadedKeeps == ASSUME NEW g \in gets, ScreenInv, Reloaded(g) PROVE ScreenInv'
<1>1. /\ view = "batch" /\ g.at # NoBatch /\ gets' = gets \ {g} /\ held' = g.at
      /\ missed' = (missed \/ g.no # asked \/ (socket # "joined" /\ g.at # stage))
      /\ UNCHANGED <<stage, upload, view, step, failed, events, asked>>
  BY DEF Reloaded
<1>2. g.at \in Early \cup Late /\ (g.at \in Late => stage \in Late)
  BY DEF ScreenInv, ScreenTypeOK, Reads, UnderWay
<1>3. ScreenTypeOK'
  BY <1>1, <1>2 DEF ScreenInv, ScreenTypeOK
<1>4. UnderWay'
  BY <1>1 DEF ScreenInv, UnderWay
<1>5. WizardInv'
  BY <1>1 DEF ScreenInv, WizardInv, Waiting
<1>6. ASSUME ~missed'
      PROVE  /\ \A k \in gets' : k.no = asked' => FALSE
             /\ held' \in Reading /\ stage' \in Late => Over(events')
  BY <1>1, <1>6 DEF ScreenInv, ScreenTypeOK, UnderWay, PageInv
<1>7. PageInv'
  BY <1>1, <1>2, <1>6 DEF PageInv
<1>8. QED
  BY <1>3, <1>4, <1>5, <1>7 DEF ScreenInv

\* Leaving the wizard for the page, and leaving both: the events are given up.
LEMMA MovingKeeps == ScreenInv /\ (OpenBatch \/ Leave) => ScreenInv'
<1> SUFFICES ASSUME ScreenInv, OpenBatch \/ Leave PROVE ScreenInv'
  OBVIOUS
<1>1. CASE OpenBatch
  <2> DEFINE get == [no |-> asked + 1, at |-> NoBatch]
  <2>1. /\ view = "wizard" /\ stage # NoBatch /\ upload \in {"done", "lost"} /\ view' = "batch"
        /\ events' = <<>> /\ held' = NoBatch /\ gets' = {get} /\ asked' = asked + 1
        /\ missed' = FALSE /\ UNCHANGED <<stage, upload, step, failed>>
    BY <1>1 DEF OpenBatch, Disconnect
  <2>2. get \in Reads /\ get.no = asked + 1 /\ get.at = NoBatch /\ asked + 1 \in Nat
    BY DEF ScreenInv, ScreenTypeOK, Reads, Early
  <2>3. ScreenTypeOK'
    BY <2>1, <2>2, Stages, Quiet DEF ScreenInv, ScreenTypeOK
  <2>4. UnderWay'
    BY <2>1, <2>2, Stages, Quiet DEF ScreenInv, UnderWay
  <2>5. WizardInv' /\ PageInv'
    BY <2>1, <2>2, Stages DEF WizardInv, Waiting, PageInv
  <2>6. QED
    BY <2>3, <2>4, <2>5 DEF ScreenInv
<1>2. CASE Leave
  <2>1. /\ view' = "left" /\ events' = <<>> /\ gets' = {}
        /\ UNCHANGED <<stage, upload, step, held, failed, asked, missed>>
    BY <1>2 DEF Leave, Disconnect
  <2>2. ScreenTypeOK' /\ UnderWay'
    BY <2>1, Quiet DEF ScreenInv, ScreenTypeOK, UnderWay
  <2>3. WizardInv' /\ PageInv'
    BY <2>1 DEF WizardInv, Waiting, PageInv
  <2>4. QED
    BY <2>2, <2>3 DEF ScreenInv
<1>3. QED
  BY <1>1, <1>2

LEMMA SubmitsKeep ==
  ScreenInv /\ (Submit \/ ServeSubmit \/ Rollback \/ ServeRollback) => ScreenInv'
<1> SUFFICES ASSUME ScreenInv, Submit \/ ServeSubmit \/ Rollback \/ ServeRollback PROVE ScreenInv'
  OBVIOUS
<1>1. UNCHANGED <<upload, view, step, held, failed, gets, asked, missed, events>>
  BY DEF Submit, ServeSubmit, Rollback, ServeRollback, screenVars
<1>2. \/ stage' = stage
      \/ stage \in {"preview", "published"} /\ stage' \in {"submitted", "rolled_back"}
  BY DEF Submit, ServeSubmit, Rollback, ServeRollback
<1>3. QED
  BY <1>1, <1>2, AsideKeeps, StageKeeps DEF Late

LEMMA AnsweredKeeps == ScreenInv /\ (OnSubmitted \/ RolledBack) => ScreenInv'
<1> SUFFICES ASSUME ScreenInv, OnSubmitted \/ RolledBack PROVE ScreenInv'
  OBVIOUS
<1>1. /\ held \in {"preview", "published"} /\ held' \in {"submitted", "rolled_back"}
      /\ UNCHANGED <<stage, upload, view, failed, gets, asked, missed>>
  BY DEF OnSubmitted, RolledBack
<1>2. \/ view = "wizard" /\ step' = "done" /\ events' = <<>>
      \/ view = "batch" /\ UNCHANGED <<step, events>>
      \/ UNCHANGED <<step, events>> /\ held = "published" /\ view # "left"
  <2>1. CASE OnSubmitted
    <3>1. /\ UNCHANGED view
          /\ IF view = "wizard" THEN step' = "done" /\ events' = <<>> ELSE UNCHANGED <<step, events>>
      BY <2>1, Zenon DEF OnSubmitted, Disconnect
    <3>2. view # "left" /\ view \in {"wizard", "batch", "left"}
      BY <2>1 DEF OnSubmitted, ScreenInv, ScreenTypeOK
    <3>3. QED
      BY <3>1, <3>2
  <2>2. CASE RolledBack
    BY <2>2 DEF RolledBack
  <2>3. QED
    BY <2>1, <2>2
<1>3. held \in Late /\ held' \in Late
  BY <1>1 DEF Late
<1>4. ScreenTypeOK'
  BY <1>1, <1>2, <1>3, Quiet DEF ScreenInv, ScreenTypeOK
<1>5. UnderWay'
  BY <1>1, <1>2, Quiet DEF ScreenInv, UnderWay
<1>6. WizardInv'
  BY <1>1, <1>2, <1>3, Stages DEF ScreenInv, WizardInv, Waiting
<1>7. PageInv'
  BY <1>1, <1>2, <1>3, Stages DEF ScreenInv, PageInv
<1>8. QED
  BY <1>4, <1>5, <1>6, <1>7 DEF ScreenInv

LEMMA ImportNextKeeps == ScreenInv /\ [ImportNext]_importVars => ScreenInv'
<1> SUFFICES ASSUME ScreenInv, [ImportNext]_importVars PROVE ScreenInv'
  OBVIOUS
<1>1. CASE UNCHANGED importVars
  BY <1>1, AsideKeeps DEF importVars
<1>2. CASE HandleConnection
  BY <1>2, AsideKeeps DEF HandleConnection, screenVars
<1>3. CASE \E n \in 1..MaxGets : \E g \in {x \in gets : x.no = n} :
             ServeGet(g) \/ GetFails(g) \/ EnterPreview(g) \/ Reloaded(g)
  BY <1>3, ServeGetKeeps, GetFailsKeeps, EnterPreviewKeeps, ReloadedKeeps
<1>4. QED
  BY <1>1, <1>2, <1>3, ParseKeeps, UploadsKeep, ProgressKeeps, MovingKeeps, SubmitsKeep,
     AnsweredKeeps, Zenon DEF ImportNext

LEMMA ImportInitHolds == ImportInit => ScreenInv
<1> SUFFICES ASSUME ImportInit PROVE ScreenInv
  OBVIOUS
<1>1. ScreenTypeOK
  BY Stages, Quiet DEF ImportInit, ScreenTypeOK
<1>2. UnderWay
  BY Quiet DEF ImportInit, UnderWay
<1>3. WizardInv
  BY Stages DEF ImportInit, WizardInv, Waiting
<1>4. PageInv
  BY DEF ImportInit, PageInv
<1>5. QED
  BY <1>1, <1>2, <1>3, <1>4 DEF ScreenInv

LEMMA ScreenInvSuffices == ScreenInv => ImportScreensKeepUp
<1> SUFFICES ASSUME ScreenInv PROVE ImportScreensKeepUp
  OBVIOUS
<1>1. PreviewIsOfAReadBatch
  BY Stages DEF ScreenInv, WizardInv, PreviewIsOfAReadBatch
<1>2. ASSUME Still, ~missed, upload = "done"
      PROVE  /\ view = "wizard" /\ step = "processing" /\ stage = "failed" => failed
             /\ view = "wizard" /\ step = "processing" => stage \in Reading \cup {"failed"}
             /\ view = "batch" /\ held \in Reading => stage \in Reading
  <2>1. gets = {} /\ ~Announced(events) /\ ~Broken(events) /\ ~Over(events)
    BY <1>2, Quiet DEF Still
  <2>2. stage \in Late \/ stage \in Reading
    BY <1>2, Stages DEF ScreenInv, ScreenTypeOK, UnderWay
  <2>3. view = "wizard" /\ step = "processing" => Waiting
    BY <1>2 DEF Waiting
  <2>4. QED
    BY <1>2, <2>1, <2>2, <2>3 DEF ScreenInv, WizardInv, PageInv
<1>3. QED
  BY <1>1, <1>2 DEF ImportScreensKeepUp, ScreensKeepUp

\* import-wizard.component.ts, import-batch-detail.component.ts: the submit button never stands
\* over a batch that is still being read, and a screen to which nothing was lost does not stop
\* behind the batch, however many times it is read.
THEOREM ScreensFollowTheBatch == ImportSpec => []ImportScreensKeepUp
<1>1. ImportSpec => []ScreenInv
  BY ImportInitHolds, ImportNextKeeps, PTL DEF ImportSpec
<1>2. QED
  BY <1>1, ScreenInvSuffices, PTL

-----------------------------------------------------------------------------
(* RequestDetail.  Between the answer to the update and the submit, a page   *)
(* that nobody has interfered with finds the row as it wrote it.             *)

PageCalls == [op : {"get", "update", "submit", "review"}, at : {"sent", "ok", "refused"},
              text : Patches, resubmit : BOOLEAN,
              status : {NoStatus} \cup OWNER_EDITABLE_STATUSES \cup Outcomes]

RequestTypeOK ==
  /\ crStatus \in OWNER_EDITABLE_STATUSES \cup Outcomes /\ crPatch \in Patches
  /\ editRows \in Rows
  /\ openPage \in Pages \cup {0} /\ pages \in Nat
  /\ pageCalls \in [Pages -> PageCalls \cup {NoPageCall}]

\* The call has stored its text, or follows one that has.
HasStored(r) ==
  \/ r.op = "update" /\ r.at = "ok"
  \/ r.op = "submit" /\ r.at = "sent"

RequestInv ==
  /\ RequestTypeOK
  /\ \A n \in Pages : HasStored(pageCalls[n]) /\ n \notin interfered => crPatch = pageCalls[n].text

LEMMA FirstOK == First \in Texts /\ First \in Patches /\ First \in Rows
BY RequestConstantsOK DEF First, Patches, Rows

\* The editor shows every patch, and what it holds becomes a patch.
LEMMA Converted ==
  /\ \A patch \in Patches : buildEditRows(patch) \in Rows
  /\ \A edited \in Rows : rowsToPatch(edited) \in Patches
BY FirstOK DEF buildEditRows, rowsToPatch, Patches, Rows

LEMMA NoCallStored == ~HasStored(NoPageCall) /\ NoPageCall.op = "none"
BY DEF HasStored, NoPageCall

LEMMA InitRequest == RequestInit => RequestInv
<1> SUFFICES ASSUME RequestInit PROVE RequestInv
  OBVIOUS
<1>1. RequestTypeOK
  BY FirstOK DEF RequestInit, RequestTypeOK, OWNER_EDITABLE_STATUSES
<1>2. \A n \in Pages : pageCalls[n] = NoPageCall
  BY DEF RequestInit
<1>3. QED
  BY <1>1, <1>2, NoCallStored DEF RequestInv

\* A page sends a call that has stored nothing.
LEMMA SendKeeps ==
  ASSUME RequestInv, NEW n \in Pages, NEW op \in {"get", "update", "review"},
         NEW text \in Patches, Request(n, op, text, FALSE) \/ Request(n, op, text, TRUE),
         UNCHANGED <<row, interfered, editRows>>, openPage' \in Pages \cup {0}, pages' \in Nat
  PROVE  RequestInv'
<1>1. PICK r \in PageCalls : r.op = op /\ r.at = "sent" /\ pageCalls' = [pageCalls EXCEPT ![n] = r]
  <2>1. PICK b \in BOOLEAN : Request(n, op, text, b)
    OBVIOUS
  <2>2. PICK r : r = [op |-> op, at |-> "sent", text |-> text, resubmit |-> b, status |-> NoStatus]
    OBVIOUS
  <2>3. r \in PageCalls /\ r.op = op /\ r.at = "sent"
    BY <2>2 DEF PageCalls
  <2>4. QED
    BY <2>1, <2>2, <2>3 DEF Request
<1>2. RequestTypeOK'
  BY <1>1 DEF RequestInv, RequestTypeOK, row
<1>3. ~HasStored(r)
  BY <1>1 DEF HasStored
<1>4. QED
  BY <1>1, <1>2, <1>3 DEF RequestInv, RequestTypeOK, row

\* A page's call ends, and with it what is known of the page.
LEMMA EndKeeps ==
  ASSUME RequestInv, NEW n \in Pages, Finished(n), UNCHANGED row,
         openPage' \in Pages \cup {0}, pages' \in Nat, editRows' \in Rows
  PROVE  RequestInv'
<1>1. RequestTypeOK'
  BY DEF RequestInv, RequestTypeOK, Finished, row
<1>2. ASSUME NEW m \in Pages, HasStored(pageCalls'[m]), m \notin interfered'
      PROVE  crPatch' = pageCalls'[m].text
  <2>1. m # n
    BY <1>2, NoCallStored DEF Finished, RequestInv, RequestTypeOK
  <2>2. pageCalls'[m] = pageCalls[m] /\ m \notin interfered
    BY <1>2, <2>1 DEF Finished, RequestInv, RequestTypeOK
  <2>3. QED
    BY <1>2, <2>2 DEF RequestInv, row
<1>3. QED
  BY <1>1, <1>2 DEF RequestInv

\* The API answers; a call other than an update that it stores leaves the patch alone.
LEMMA ServedIs ==
  ASSUME RequestTypeOK, NEW n \in Pages, pageCalls[n].op # "none", NEW ok \in BOOLEAN,
         Served(n, ok), crStatus' \in OWNER_EDITABLE_STATUSES \cup Outcomes
  PROVE  /\ pageCalls' \in [Pages -> PageCalls \cup {NoPageCall}]
         /\ \A m \in Pages \ {n} : pageCalls'[m] = pageCalls[m]
         /\ pageCalls'[n].op = pageCalls[n].op
         /\ pageCalls'[n].at = IF ok THEN "ok" ELSE "refused"
         /\ pageCalls[n].op # "get" => pageCalls'[n].text = pageCalls[n].text
<1>1. PICK r \in PageCalls : r = pageCalls[n]
  BY NoCallStored DEF RequestTypeOK
<1>2. PICK how \in {"ok", "refused"}, s \in OWNER_EDITABLE_STATUSES \cup Outcomes, t \in Patches :
        /\ how = IF ok THEN "ok" ELSE "refused"
        /\ s = crStatus' /\ t = IF r.op = "get" THEN crPatch ELSE r.text
  BY <1>1 DEF RequestTypeOK, PageCalls
<1>3. PICK q : q = [r EXCEPT !.at = how, !.status = s, !.text = t]
  OBVIOUS
<1>4. q \in PageCalls /\ q.op = r.op /\ q.at = how /\ q.text = t
  BY <1>2, <1>3 DEF PageCalls
<1>5. pageCalls' = [pageCalls EXCEPT ![n] = q]
  BY <1>1, <1>2, <1>3 DEF Served, RequestTypeOK
<1>6. QED
  BY <1>1, <1>2, <1>4, <1>5 DEF RequestTypeOK

LEMMA ServeKeeps ==
  ASSUME RequestInv, NEW n \in Pages,
         \/ ServeRequestGet(n) \/ ServeUpdateCall(n) \/ ServeSubmitCall(n) \/ ServeReviewCall(n)
  PROVE  RequestInv'
<1>1. /\ RequestTypeOK
      /\ \A m \in Pages : HasStored(pageCalls[m]) /\ m \notin interfered => crPatch = pageCalls[m].text
  BY DEF RequestInv
<1>2. pageCalls[n].op # "none" /\ pageCalls[n].at = "sent"
  BY DEF ServeRequestGet, ServeUpdateCall, ServeSubmitCall, ServeReviewCall, Sent
<1>3. crStatus' \in OWNER_EDITABLE_STATUSES \cup Outcomes /\ UNCHANGED pageState
  BY <1>1 DEF ServeRequestGet, ServeUpdateCall, ServeSubmitCall, ServeReviewCall, Served, row,
     RequestTypeOK, Outcomes
<1>4. PICK ok \in BOOLEAN :
        /\ Served(n, ok)
        /\ ServeUpdateCall(n) /\ crStatus \notin OWNER_EDITABLE_STATUSES => ~ok
  <2>1. CASE crStatus \in OWNER_EDITABLE_STATUSES
    <3>1. Served(n, TRUE) \/ Served(n, FALSE)
      BY <2>1 DEF ServeRequestGet, ServeUpdateCall, ServeSubmitCall, ServeReviewCall, Served
    <3>2. QED
      BY <2>1, <3>1
  <2>2. CASE crStatus \notin OWNER_EDITABLE_STATUSES
    <3>1. ServeUpdateCall(n) => Served(n, FALSE)
      BY <2>2 DEF ServeUpdateCall, Served
    <3>2. ~ServeUpdateCall(n) => Served(n, TRUE) \/ Served(n, FALSE)
      BY <2>2 DEF ServeRequestGet, ServeSubmitCall, ServeReviewCall, Served
    <3>3. ServeUpdateCall(n) => ~(ServeRequestGet(n) \/ ServeSubmitCall(n) \/ ServeReviewCall(n))
      BY DEF ServeUpdateCall, ServeRequestGet, ServeSubmitCall, ServeReviewCall, Sent
    <3>4. QED
      BY <2>2, <3>1, <3>2, <3>3
  <2>3. QED
    BY <2>1, <2>2
<1>5. /\ pageCalls' \in [Pages -> PageCalls \cup {NoPageCall}]
      /\ \A m \in Pages \ {n} : pageCalls'[m] = pageCalls[m]
      /\ pageCalls'[n].op = pageCalls[n].op /\ pageCalls'[n].at \in {"ok", "refused"}
      /\ pageCalls[n].op # "get" => pageCalls'[n].text = pageCalls[n].text
  BY <1>1, <1>2, <1>3, <1>4, ServedIs
<1>6. CASE ServeUpdateCall(n) /\ crStatus \in OWNER_EDITABLE_STATUSES
  <2>1. /\ crPatch' = pageCalls[n].text /\ interfered' = interfered \cup (InFlight \ {n})
        /\ pageCalls[n].op = "update"
    BY <1>6 DEF ServeUpdateCall, Sent
  <2>2. pageCalls[n].text \in Patches
    BY <1>1, <1>2, NoCallStored DEF RequestTypeOK, PageCalls
  <2>3. RequestTypeOK'
    BY <1>1, <1>3, <1>5, <2>1, <2>2 DEF RequestTypeOK, pageState
  <2>4. ASSUME NEW m \in Pages, HasStored(pageCalls'[m]), m \notin interfered'
        PROVE  crPatch' = pageCalls'[m].text
    <3>1. CASE m = n
      BY <1>5, <2>1, <3>1
    <3>2. CASE m # n
      BY <1>5, <2>1, <2>4, <3>2 DEF InFlight, HasStored
    <3>3. QED
      BY <3>1, <3>2
  <2>5. QED
    BY <2>3, <2>4 DEF RequestInv
<1>7. CASE UNCHANGED <<crPatch, interfered>> /\ ~HasStored(pageCalls'[n])
  <2>1. RequestTypeOK'
    BY <1>1, <1>3, <1>5, <1>7 DEF RequestTypeOK, pageState
  <2>2. QED
    BY <1>1, <1>5, <1>7, <2>1 DEF RequestInv
<1>8. CASE ServeUpdateCall(n) /\ crStatus \notin OWNER_EDITABLE_STATUSES
  <2>1. pageCalls'[n].at = "refused"
    BY <1>1, <1>2, <1>3, <1>4, <1>8, ServedIs
  <2>2. ~HasStored(pageCalls'[n]) /\ UNCHANGED <<crPatch, interfered>>
    BY <1>8, <2>1 DEF HasStored, ServeUpdateCall
  <2>3. QED
    BY <1>7, <2>2
<1>9. CASE ServeRequestGet(n) \/ ServeSubmitCall(n) \/ ServeReviewCall(n)
  <2>1. pageCalls[n].op # "update" /\ UNCHANGED <<crPatch, interfered>>
    BY <1>9 DEF ServeRequestGet, ServeSubmitCall, ServeReviewCall, Sent, row
  <2>2. ~HasStored(pageCalls'[n])
    BY <1>5, <2>1 DEF HasStored
  <2>3. QED
    BY <1>7, <2>1, <2>2
<1>10. QED
  BY <1>6, <1>8, <1>9

LEMMA RequestStep == RequestInv /\ [RequestNext]_requestVars => RequestInv'
<1> SUFFICES ASSUME RequestInv, [RequestNext]_requestVars PROVE RequestInv'
  OBVIOUS
<1>1. RequestTypeOK
  BY DEF RequestInv
<1>2. CASE \E mine \in BOOLEAN : OpenRequest(mine)
  <2>1. PICK k : k = pages + 1
    OBVIOUS
  <2>2. k \in Pages /\ pages' \in Nat /\ openPage' \in Pages \cup {0}
    BY <1>1, <1>2, <2>1, RequestConstantsOK DEF OpenRequest, RequestTypeOK, Pages
  <2>3. PICK text \in Patches : text = First
    BY FirstOK
  <2>4. Request(k, "get", text, FALSE) /\ UNCHANGED <<row, interfered, editRows>>
    BY <1>2, <2>1, <2>3 DEF OpenRequest
  <2>5. QED
    BY <2>2, <2>4, SendKeeps
<1>3. CASE LeaveRequest \/ \E edited \in Rows : TypePatch(edited)
  <2>1. /\ UNCHANGED <<row, pageCalls, interfered, pages>>
        /\ openPage' \in Pages \cup {0} /\ editRows' \in Rows
    BY <1>1, <1>3, FirstOK DEF LeaveRequest, TypePatch, RequestTypeOK
  <2>2. QED
    BY <1>1, <2>1 DEF RequestInv, RequestTypeOK, row
<1>4. CASE \E patch \in Patches : OthersWrite(patch)
  <2>1. /\ interfered' = interfered \cup InFlight /\ crPatch' \in Patches
        /\ UNCHANGED <<crStatus, pageState, pageCalls>>
    BY <1>4 DEF OthersWrite
  <2>2. \A n \in Pages : HasStored(pageCalls[n]) => n \in InFlight
    BY DEF HasStored, InFlight
  <2>3. QED
    BY <1>1, <2>1, <2>2 DEF RequestInv, RequestTypeOK, pageState
<1>5. CASE OthersMove
  <2>1. UNCHANGED <<crPatch, pageState, pageCalls, interfered>>
    BY <1>5 DEF OthersMove
  <2>2. crStatus' \in OWNER_EDITABLE_STATUSES \cup Outcomes
    BY <1>5 DEF OthersMove, Outcomes
  <2>3. QED
    BY <1>1, <2>1, <2>2 DEF RequestInv, RequestTypeOK, pageState
<1>6. ASSUME NEW n \in Pages, SaveDraft(n) \/ Resubmit(n) \/ SubmitReview(n) PROVE RequestInv'
  <2>1. UNCHANGED <<row, interfered, editRows, openPage, pages>>
    BY <1>6 DEF SaveDraft, Resubmit, SubmitReview, pageState
  <2>2. openPage' \in Pages \cup {0} /\ pages' \in Nat /\ editRows \in Rows
    BY <1>1, <2>1 DEF RequestTypeOK
  <2>3. PICK text \in Patches, op \in {"update", "review"}, b \in BOOLEAN : Request(n, op, text, b)
    BY <1>6, <2>2, FirstOK, Converted DEF SaveDraft, Resubmit, SubmitReview
  <2>4. QED
    BY <2>1, <2>2, <2>3, SendKeeps
<1>7. ASSUME NEW n \in Pages, SavedThenSubmit(n) PROVE RequestInv'
  <2>1. PICK r \in PageCalls : r = pageCalls[n] /\ r.op = "update" /\ r.at = "ok"
    BY <1>1, <1>7, NoCallStored DEF SavedThenSubmit, Ended, RequestTypeOK
  <2>2. PICK q : q = [op |-> "submit", at |-> "sent", text |-> r.text, resubmit |-> TRUE, status |-> NoStatus]
    OBVIOUS
  <2>3. q \in PageCalls /\ q.text = r.text
    BY <2>2 DEF PageCalls
  <2>4. pageCalls' = [pageCalls EXCEPT ![n] = q] /\ UNCHANGED <<row, pageState, interfered>>
    BY <1>7, <2>1, <2>2 DEF SavedThenSubmit, Request
  <2>5. RequestTypeOK'
    BY <1>1, <2>3, <2>4 DEF RequestTypeOK, row, pageState
  <2>6. n \notin interfered => crPatch = q.text
    BY <2>1, <2>3 DEF RequestInv, HasStored
  <2>7. QED
    BY <1>1, <2>4, <2>5, <2>6 DEF RequestInv, RequestTypeOK, row
<1>8. ASSUME NEW n \in Pages,
             RequestLoaded(n) \/ Stored(n) \/ Resubmitted(n) \/ RequestFails(n)
      PROVE  RequestInv'
  <2>1. Finished(n) /\ UNCHANGED <<row, pages>>
    BY <1>8 DEF RequestLoaded, Stored, Resubmitted, RequestFails, pageState
  <2>2. openPage' \in Pages \cup {0} /\ pages' \in Nat
    BY <1>1, <1>8, <2>1 DEF RequestLoaded, Stored, Resubmitted, RequestFails, pageState, RequestTypeOK
  <2>3. editRows' \in Rows
    <3>1. pageCalls[n].op = "get" => pageCalls[n].text \in Patches
      BY <1>1, NoCallStored DEF RequestTypeOK, PageCalls
    <3>2. QED
      BY <1>1, <1>8, <3>1, FirstOK, Converted
         DEF RequestLoaded, Stored, Resubmitted, RequestFails, pageState, RequestTypeOK, Ended
  <2>4. QED
    BY <2>1, <2>2, <2>3, EndKeeps
<1>9. CASE UNCHANGED requestVars
  BY <1>9 DEF requestVars, row, pageState, RequestInv, RequestTypeOK
<1>10. QED
  BY <1>2, <1>3, <1>4, <1>5, <1>6, <1>7, <1>8, <1>9, ServeKeeps, Zenon DEF RequestNext

\* change-request-detail.component.ts, resubmit(): the update and the submit are two calls, but
\* unless somebody else wrote the request between them, what is submitted is what was typed.
THEOREM SubmitsAsTyped == RequestSpec => SubmitsWhatWasTyped
<1>1. RequestInv /\ [RequestNext]_requestVars =>
        [\A n \in Pages :
           ServeSubmitCall(n) /\ pageCalls'[n].at = "ok" /\ n \notin interfered
             => crPatch' = pageCalls[n].text]_requestVars
  BY DEF RequestInv, HasStored, ServeSubmitCall, Sent
<1>2. RequestSpec => []RequestInv
  BY InitRequest, RequestStep, PTL DEF RequestSpec
<1>3. QED
  BY <1>1, <1>2, PTL DEF RequestSpec, SubmitsWhatWasTyped

-----------------------------------------------------------------------------
(* TenantsConsole.  A plan changes under the dialog's own save, after which  *)
(* it loads again, or is set by others; unless it was, what an answer to the *)
(* last load carries is current.                                             *)

ApiCalls ==
  [no : Nat \ {0}, op : {"create", "suspend", "activate", "list", "get", "set"},
   tenant : Tenants \cup {NoTribe}, email : Emails \cup {NoEmail},
   plan : Plans,
   shown : [Tenants -> {"absent", "active", "suspended"}],
   stage : {"sent", "checked", "served", "refused"}]

ConsoleTypeOK ==
  /\ status \in [Tenants -> {"absent", "active", "suspended"}]
  /\ plan \in [Tenants -> Plans] /\ picked \in Picks
  /\ managed \in Tenants \cup {NoTribe} /\ (open \/ saving => managed \in Tenants)
  /\ open \in BOOLEAN /\ saving \in BOOLEAN /\ touched \in BOOLEAN
  /\ overtaken \in BOOLEAN /\ disturbed \in BOOLEAN
  /\ calls \subseteq ApiCalls /\ made \in Nat /\ current \in Nat

\* What is known of a call.
Behaves(c) ==
  /\ c.no <= made
  /\ c.op = "set" => saving
  /\ c.op = "get" => c.tenant \in Tenants /\ c.stage \in {"sent", "served"}
  /\ c.no = current => c.op = "get" /\ c.tenant = managed
  /\ c.no = current /\ c.stage = "served" /\ ~overtaken /\ ~disturbed /\ ~saving =>
       c.plan = plan[managed]

ConsoleInv ==
  /\ ConsoleTypeOK
  /\ \A c \in calls : Behaves(c)
  /\ \A c, d \in calls : c.op = "set" /\ d.op = "set" => c = d
  /\ open /\ current = 0 /\ ~touched /\ ~overtaken /\ ~disturbed /\ ~saving =>
       picked = FieldsOf(plan[managed])
  /\ current <= made

LEMMA FreeIsAPlan == FreePlan \in Plans /\ \A f \in Picks : [f EXCEPT !.tier = "free"] \in Picks
BY ConsoleConstantsOK DEF FreePlan, Plans, Instants, Picks

\* The conversions of the dialog.
LEMMA FieldsArePicked ==
  /\ \A p \in Plans : FieldsOf(p) \in Picks
  /\ \A f \in Picks : f.tier # NoTier => PlanOf(f) \in Plans
<1>1. ASSUME NEW p \in Plans PROVE FieldsOf(p) \in Picks
  <2>1. p.tier \in Tiers /\ p.expires \in Instants
    BY DEF Plans
  <2>2. p.expires.day \in Dates \cup {NoDate}
    BY <2>1 DEF Instants, Never
  <2>3. QED
    BY <2>1, <2>2 DEF FieldsOf, toDateInput, Picks
<1>2. ASSUME NEW f \in Picks, f.tier # NoTier PROVE PlanOf(f) \in Plans
  <2>1. f.tier \in Tiers /\ f.expires \in Dates \cup {NoDate}
    BY <1>2 DEF Picks
  <2>2. Date(f.expires) \in Instants
    BY <2>1 DEF Date, Instants, Never
  <2>3. QED
    BY <2>1, <2>2 DEF PlanOf, Plans
<1>3. QED
  BY <1>1, <1>2

LEMMA InitConsole == ConsoleInit => ConsoleInv
<1> SUFFICES ASSUME ConsoleInit PROVE ConsoleInv
  OBVIOUS
<1>1. /\ calls = {} /\ open = FALSE /\ saving = FALSE /\ touched = FALSE /\ disturbed = FALSE
      /\ overtaken = FALSE /\ made = 0 /\ current = 0 /\ managed = NoTribe
      /\ picked = [tier |-> NoTier, expires |-> NoDate]
      /\ plan = [t \in Tenants |-> FreePlan]
  BY DEF ConsoleInit
<1>2. status \in [Tenants -> {"absent", "active", "suspended"}]
  BY DEF ConsoleInit
<1>3. ConsoleTypeOK
  BY <1>1, <1>2, FreeIsAPlan DEF ConsoleTypeOK, Picks
<1>4. QED
  BY <1>1, <1>3 DEF ConsoleInv

\* A call that is made.
LEMMA MakeIs ==
  ASSUME made \in Nat, NEW op \in {"create", "suspend", "activate", "list", "get", "set"},
         NEW t \in Tenants \cup {NoTribe}, NEW email \in Emails \cup {NoEmail}, NEW p \in Plans,
         NEW r, r = NewCall(op, t, email, p)
  PROVE  /\ r \in ApiCalls
         /\ r.no = made + 1 /\ r.op = op /\ r.tenant = t /\ r.plan = p /\ r.stage = "sent"
<1>1. PICK n \in Nat \ {0} : n = made + 1
  OBVIOUS
<1>2. PICK list0 \in [Tenants -> {"absent", "active", "suspended"}] : list0 = [x \in Tenants |-> "absent"]
  OBVIOUS
<1>3. r = [no |-> n, op |-> op, tenant |-> t, email |-> email, plan |-> p,
           shown |-> list0, stage |-> "sent"]
  BY <1>1, <1>2 DEF NewCall
<1>4. QED
  BY <1>1, <1>3 DEF ApiCalls, Plans

\* A call that loads a plan.
LEMMA LoadIs ==
  ASSUME made \in Nat, NEW t \in Tenants \cup {NoTribe},
         NEW r, r = NewCall("get", t, NoEmail, FreePlan)
  PROVE  r \in ApiCalls /\ r.no = made + 1 /\ r.op = "get" /\ r.tenant = t /\ r.stage = "sent"
<1>1. PICK email \in Emails \cup {NoEmail} : email = NoEmail
  OBVIOUS
<1>2. PICK p \in Plans : p = FreePlan
  BY FreeIsAPlan
<1>3. PICK op \in {"create", "suspend", "activate", "list", "get", "set"} : op = "get"
  OBVIOUS
<1>4. r = NewCall(op, t, email, p)
  BY <1>1, <1>2, <1>3
<1>5. QED
  BY <1>3, <1>4, MakeIs

\* Buttons of the list: the dialog stays as it is.
LEMMA ListCallKeeps ==
  ASSUME ConsoleInv, NEW op \in {"create", "suspend", "activate"}, NEW t \in Tenants,
         NEW email \in Emails \cup {NoEmail}, MakeCall(op, t, email, FreePlan),
         UNCHANGED <<server, dialog, overtaken, disturbed>>
  PROVE  ConsoleInv'
<1>0. PICK r : r = NewCall(op, t, email, FreePlan)
  OBVIOUS
<1>1. r \in ApiCalls /\ r.no = made + 1 /\ r.op = op
  BY <1>0, FreeIsAPlan, MakeIs DEF ConsoleInv, ConsoleTypeOK
<1>2. calls' = calls \cup {r} /\ made' = made + 1
  BY <1>0 DEF MakeCall
<1>3. ConsoleTypeOK'
  BY <1>1, <1>2 DEF ConsoleInv, ConsoleTypeOK, server, dialog
<1>4. \A c \in calls : c \in ApiCalls /\ c.no \in Nat
  BY DEF ConsoleInv, ConsoleTypeOK, ApiCalls
<1>5. \A c \in calls : Behaves(c)'
  BY <1>2, <1>4 DEF ConsoleInv, ConsoleTypeOK, Behaves, server, dialog
<1>6. Behaves(r)'
  BY <1>1, <1>2 DEF ConsoleInv, ConsoleTypeOK, Behaves, server, dialog
<1>7. QED
  BY <1>1, <1>2, <1>3, <1>5, <1>6 DEF ConsoleInv, ConsoleTypeOK, server, dialog

LEMMA StageIs ==
  ASSUME NEW c \in ApiCalls, NEW s \in {"sent", "checked", "served", "refused"},
         NEW d, d = [c EXCEPT !.stage = s]
  PROVE  /\ d \in ApiCalls /\ d.no = c.no /\ d.op = c.op
         /\ d.tenant = c.tenant /\ d.plan = c.plan /\ d.stage = s
BY DEF ApiCalls

\* The API brings a call further; only a plan that is asked for comes with it.
LEMMA BringKeeps ==
  ASSUME ConsoleInv, NEW c \in calls, NEW d \in ApiCalls, BringBack(c, d), d.no = c.no, d.op = c.op,
         Behaves(d), UNCHANGED <<plan, dialog, made, overtaken, disturbed>>,
         status' \in [Tenants -> {"absent", "active", "suspended"}]
  PROVE  ConsoleInv'
<1>1. calls' = (calls \ {c}) \cup {d}
  BY DEF BringBack
<1>2. ConsoleTypeOK'
  BY <1>1 DEF ConsoleInv, ConsoleTypeOK, dialog
<1>3. \A e \in calls \cup {d} : Behaves(e)'
  BY DEF ConsoleInv, Behaves, dialog
<1>4. \A e, f \in calls' : e.op = "set" /\ f.op = "set" => e = f
  BY <1>1 DEF ConsoleInv
<1>5. QED
  BY <1>1, <1>2, <1>3, <1>4 DEF ConsoleInv, dialog

LEMMA ApiKeeps ==
  ASSUME ConsoleInv, PlatformApi
  PROVE  ConsoleInv'
<1>1. /\ ConsoleTypeOK /\ \A c \in calls : Behaves(c) /\ c \in ApiCalls
  BY DEF ConsoleInv, ConsoleTypeOK
<1>2. ASSUME NEW t \in Tenants, NEW email \in Emails, OtherCreates(t, email) PROVE ConsoleInv'
  <2>1. status' \in [Tenants -> {"absent", "active", "suspended"}]
    BY <1>1, <1>2 DEF OtherCreates, ConsoleTypeOK
  <2>2. UNCHANGED <<plan, dialog, calls, made, overtaken, disturbed>>
    BY <1>2 DEF OtherCreates
  <2>3. QED
    BY <2>1, <2>2 DEF ConsoleInv, ConsoleTypeOK, Behaves, dialog
<1>9. ASSUME NEW t \in Tenants, NEW p \in Plans, OtherSets(t, p) PROVE ConsoleInv'
  <2>1. /\ UNCHANGED <<status, dialog, calls, made, disturbed>>
        /\ plan' \in [Tenants -> Plans]
        /\ \A u \in Tenants \ {t} : plan'[u] = plan[u]
        /\ overtaken' \in BOOLEAN /\ (overtaken' <=> overtaken \/ t = managed)
    BY <1>1, <1>9 DEF OtherSets, ConsoleTypeOK
  <2>2. ConsoleTypeOK'
    BY <1>1, <2>1 DEF ConsoleTypeOK, dialog
  <2>3. ~overtaken' /\ managed \in Tenants => ~overtaken /\ plan'[managed] = plan[managed]
    BY <2>1
  <2>4. \A c \in calls : Behaves(c)'
    BY <1>1, <2>1, <2>3 DEF Behaves, dialog
  <2>5. QED
    BY <2>1, <2>2, <2>3, <2>4 DEF ConsoleInv, ConsoleTypeOK, dialog
<1>3. ASSUME NEW c \in calls, NEW s \in {"sent", "checked", "served", "refused"}, Serve(c, s),
             c.op # "get", UNCHANGED <<plan, dialog, made, overtaken, disturbed>>,
             status' \in [Tenants -> {"absent", "active", "suspended"}]
      PROVE  ConsoleInv'
  <2>1. PICK d : d = [c EXCEPT !.stage = s]
    OBVIOUS
  <2>2. d \in ApiCalls /\ d.no = c.no /\ d.op = c.op /\ d.tenant = c.tenant
    BY <1>1, <1>3, <2>1, StageIs
  <2>3. Behaves(d) /\ BringBack(c, d)
    BY <1>1, <1>3, <2>1, <2>2 DEF Behaves, Serve
  <2>4. QED
    BY <1>3, <2>2, <2>3, BringKeeps
<1>4. ASSUME NEW c \in calls, CheckTenant(c) \/ CreateTenantWithAdmin(c) \/ SetTenantStatus(c)
      PROVE  ConsoleInv'
  <2>1. c.op # "get" /\ UNCHANGED <<plan, dialog, made, overtaken, disturbed>>
    BY <1>1, <1>4 DEF CheckTenant, CreateTenantWithAdmin, SetTenantStatus, server, others, Behaves
  <2>2. PICK s \in {"checked", "served", "refused"} : Serve(c, s)
    BY <1>4 DEF CheckTenant, CreateTenantWithAdmin, SetTenantStatus
  <2>3. status' \in [Tenants -> {"absent", "active", "suspended"}]
    BY <1>1, <1>4 DEF CheckTenant, CreateTenantWithAdmin, SetTenantStatus, server, ConsoleTypeOK
  <2>4. QED
    BY <1>3, <2>1, <2>2, <2>3
<1>5. ASSUME NEW c \in calls, ListTenants(c) PROVE ConsoleInv'
  <2>1. PICK x \in ApiCalls, all \in [Tenants -> {"absent", "active", "suspended"}] : x = c /\ all = status
    BY <1>1 DEF ConsoleTypeOK
  <2>2. PICK d : d = [x EXCEPT !.stage = "served", !.shown = all]
    OBVIOUS
  <2>3. d \in ApiCalls /\ d.no = x.no /\ d.op = x.op /\ d.tenant = x.tenant
    BY <2>2 DEF ApiCalls
  <2>4. BringBack(c, d) /\ c.op = "list" /\ UNCHANGED <<server, dialog, made, overtaken, disturbed>>
    BY <1>5, <2>1, <2>2 DEF ListTenants, others
  <2>5. Behaves(d)
    BY <1>1, <2>1, <2>3, <2>4 DEF Behaves
  <2>6. QED
    BY <1>1, <2>1, <2>3, <2>4, <2>5, BringKeeps DEF server, ConsoleTypeOK
<1>6. ASSUME NEW c \in calls, GetSubscription(c) PROVE ConsoleInv'
  <2>1. c.tenant \in Tenants /\ c.op = "get"
    BY <1>1, <1>6 DEF GetSubscription, Behaves
  <2>2. PICK x \in ApiCalls, p \in Plans : x = c /\ p = plan[c.tenant]
    BY <1>1, <2>1 DEF ConsoleTypeOK
  <2>3. PICK d : d = [x EXCEPT !.stage = "served", !.plan = p]
    OBVIOUS
  <2>4. /\ d \in ApiCalls /\ d.no = x.no /\ d.op = x.op /\ d.tenant = x.tenant /\ d.plan = p
        /\ d.stage = "served"
    BY <2>3 DEF ApiCalls, Plans
  <2>5. BringBack(c, d) /\ UNCHANGED <<server, dialog, made, overtaken, disturbed>>
    BY <1>6, <2>2, <2>3 DEF GetSubscription, others
  <2>6. Behaves(d)
    BY <1>1, <2>1, <2>2, <2>4 DEF Behaves
  <2>7. QED
    BY <1>1, <2>2, <2>4, <2>5, <2>6, BringKeeps DEF server, ConsoleTypeOK
<1>7. ASSUME NEW c \in calls, SetSubscription(c) PROVE ConsoleInv'
  <2>1. c.op = "set" /\ saving
    BY <1>1, <1>7 DEF SetSubscription, Behaves
  <2>0. PICK d : d = [c EXCEPT !.stage = "served"]
    OBVIOUS
  <2>2. d \in ApiCalls /\ d.no = c.no /\ d.op = c.op /\ d.tenant = c.tenant
    BY <1>1, <2>0, StageIs
  <2>3. /\ calls' = (calls \ {c}) \cup {d} /\ UNCHANGED <<status, dialog, made, overtaken, disturbed>>
    BY <1>7, <2>0 DEF SetSubscription, Serve, BringBack, others
  <2>4. plan' \in [Tenants -> Plans]
    <3>1. c.plan \in Plans
      BY <1>1 DEF ApiCalls, Plans
    <3>2. QED
      BY <1>1, <1>7, <3>1 DEF SetSubscription, ConsoleTypeOK
  <2>5. ConsoleTypeOK'
    BY <1>1, <2>2, <2>3, <2>4 DEF ConsoleTypeOK, dialog
  <2>6. \A e \in calls \cup {d} : Behaves(e)'
    BY <1>1, <2>1, <2>2, <2>3 DEF Behaves, dialog
  <2>7. \A e, f \in calls' : e.op = "set" /\ f.op = "set" => e = f
    BY <2>2, <2>3 DEF ConsoleInv
  <2>8. QED
    BY <2>1, <2>3, <2>5, <2>6, <2>7 DEF ConsoleInv, dialog
<1>8. QED
  BY <1>2, <1>4, <1>5, <1>6, <1>7, <1>9, ConsoleConstantsOK DEF PlatformApi

\* An answer, or the loss of one, that changes neither the list nor the dialog.
LEMMA DropKeeps ==
  ASSUME ConsoleInv, NEW c \in calls, calls' = calls \ {c}, UNCHANGED <<server, made>>,
         UNCHANGED <<managed, open, saving, touched, overtaken>>, current' \in {0, current}, picked' \in Picks,
         disturbed' \in BOOLEAN, disturbed => disturbed',
         ~disturbed' => \/ picked' = picked /\ current' = current
                        \/ c.no = current /\ c.stage = "served" /\ picked' = FieldsOf(c.plan)
  PROVE  ConsoleInv'
<1>1. ConsoleTypeOK'
  BY DEF ConsoleInv, ConsoleTypeOK, server
<1>2. \A e \in calls : e \in ApiCalls /\ e.no \in Nat \ {0} /\ Behaves(e)
  BY DEF ConsoleInv, ConsoleTypeOK, ApiCalls
<1>3. \A e \in calls' : Behaves(e)'
  BY <1>2 DEF Behaves, server
<1>4. open' /\ current' = 0 /\ ~touched' /\ ~overtaken' /\ ~disturbed' /\ ~saving' =>
        picked' = FieldsOf(plan'[managed'])
  <2>1. CASE c.no = current /\ c.stage = "served" /\ picked' = FieldsOf(c.plan)
    BY <1>2, <2>1 DEF Behaves, server
  <2>2. CASE picked' = picked /\ current' = current
    BY <2>2 DEF ConsoleInv, server
  <2>3. QED
    BY <2>1, <2>2
<1>5. current' <= made'
  BY DEF ConsoleInv, ConsoleTypeOK
<1>6. QED
  BY <1>1, <1>3, <1>4, <1>5 DEF ConsoleInv

LEMMA AnswerKeeps ==
  ASSUME ConsoleInv, NEW c \in calls,
         Created(c) \/ Listed(c) \/ AfterStatusChange(c) \/ Loaded(c) \/ PlanSaved(c) \/ CallFails(c)
  PROVE  ConsoleInv'
<1>1. /\ ConsoleTypeOK /\ c \in ApiCalls /\ Behaves(c) /\ picked \in Picks /\ disturbed \in BOOLEAN
      /\ c.no \in Nat \ {0} /\ c.plan \in Plans
  BY DEF ConsoleInv, ConsoleTypeOK, ApiCalls
<1>2. CASE Listed(c) \/ AfterStatusChange(c) \/ (Created(c) /\ c.stage # "served")
  <2>1. calls' = calls \ {c} /\ UNCHANGED <<server, dialog, made, overtaken, disturbed>>
    BY <1>2 DEF Listed, AfterStatusChange, Created, others
  <2>2. QED
    BY <1>1, <2>1, DropKeeps DEF dialog, ConsoleTypeOK
<1>3. CASE Created(c) /\ c.stage = "served"
  <2>1. PICK t \in Tenants \cup {NoTribe} : t = c.tenant
    BY <1>1 DEF ApiCalls
  <2>0. PICK r : r = NewCall("list", t, NoEmail, FreePlan)
    OBVIOUS
  <2>2. r \in ApiCalls /\ r.no = made + 1 /\ r.op = "list"
    <3>1. PICK p \in Plans, email \in Emails \cup {NoEmail} : p = FreePlan /\ email = NoEmail
      BY FreeIsAPlan
    <3>2. PICK op \in {"create", "suspend", "activate", "list", "get", "set"} : op = "list"
      OBVIOUS
    <3>3. r = NewCall(op, t, email, p) /\ made \in Nat
      BY <1>1, <2>0, <3>1, <3>2 DEF ConsoleTypeOK
    <3>4. QED
      BY <3>2, <3>3, MakeIs
  <2>3. /\ calls' = (calls \ {c}) \cup {r} /\ made' = made + 1
        /\ UNCHANGED <<server, dialog, overtaken, disturbed>>
    BY <1>3, <2>0, <2>1 DEF Created, others
  <2>4. ConsoleTypeOK'
    BY <1>1, <2>2, <2>3 DEF ConsoleTypeOK, server, dialog
  <2>5. \A e \in calls : Behaves(e)'
    BY <1>1, <2>3 DEF ConsoleInv, ConsoleTypeOK, ApiCalls, Behaves, server, dialog
  <2>6. Behaves(r)'
    BY <1>1, <2>2, <2>3 DEF ConsoleInv, ConsoleTypeOK, Behaves, server, dialog
  <2>7. QED
    BY <1>1, <2>2, <2>3, <2>4, <2>5, <2>6 DEF ConsoleInv, ConsoleTypeOK, server, dialog
<1>4. CASE Loaded(c)
  <2>1. c.op = "get" /\ c.stage = "served"
    BY <1>1, <1>4 DEF Loaded, Answered, Behaves
  <2>2. /\ calls' = calls \ {c} /\ UNCHANGED <<server, made, managed, open, saving, touched, overtaken>>
        /\ current' = (IF c.no = current THEN 0 ELSE current) /\ picked' = FieldsOf(c.plan)
        /\ (disturbed' <=> disturbed \/ c.no # current) /\ disturbed' \in BOOLEAN
    BY <1>1, <1>4 DEF Loaded, others
  <2>3. FieldsOf(c.plan) \in Picks
    BY <1>1, FieldsArePicked
  <2>4. QED
    BY <1>1, <2>1, <2>2, <2>3, DropKeeps
<1>5. CASE PlanSaved(c)
  <2>1. c.op = "set" /\ saving /\ managed \in Tenants
    BY <1>1, <1>5 DEF PlanSaved, Behaves, ConsoleTypeOK
  <2>2. PICK t \in Tenants \cup {NoTribe} : t = managed
    BY <2>1
  <2>0. PICK r : r = NewCall("get", t, NoEmail, FreePlan)
    OBVIOUS
  <2>3. r \in ApiCalls /\ r.no = made + 1 /\ r.op = "get" /\ r.tenant = t /\ r.stage = "sent"
    BY <1>1, <2>0, LoadIs DEF ConsoleTypeOK
  <2>4. /\ calls' = (calls \ {c}) \cup {r} /\ made' = made + 1
        /\ saving' \in BOOLEAN /\ ~saving' /\ current' = made + 1 /\ touched' \in BOOLEAN
        /\ overtaken' \in BOOLEAN
        /\ UNCHANGED <<server, managed, open, picked, disturbed>>
    BY <1>5, <2>2, <2>0 DEF PlanSaved
  <2>5. ConsoleTypeOK'
    BY <1>1, <2>1, <2>3, <2>4 DEF ConsoleTypeOK, server
  <2>6. \A e \in calls \ {c} : Behaves(e)'
    <3>1. \A e \in calls \ {c} : e.op # "set" /\ e.no \in Nat /\ e.no <= made /\ Behaves(e)
      BY <2>1 DEF ConsoleInv, ConsoleTypeOK, ApiCalls, Behaves
    <3>2. QED
      BY <1>1, <2>4, <3>1 DEF ConsoleTypeOK, Behaves, server
  <2>7. Behaves(r)'
    BY <1>1, <2>1, <2>2, <2>3, <2>4 DEF ConsoleTypeOK, Behaves, server
  <2>8. QED
    BY <1>1, <2>3, <2>4, <2>5, <2>6, <2>7 DEF ConsoleInv, ConsoleTypeOK
<1>6. CASE CallFails(c)
  <2>1. /\ calls' = calls \ {c} /\ UNCHANGED <<server, made, managed, open, current, touched, overtaken>>
        /\ (disturbed' <=> disturbed \/ c.op \in {"get", "set"}) /\ disturbed' \in BOOLEAN
        /\ (saving' <=> saving /\ c.op # "set") /\ saving' \in BOOLEAN
        /\ picked' = IF c.op = "get" THEN [picked EXCEPT !.tier = "free"] ELSE picked
    BY <1>1, <1>6 DEF CallFails, ConsoleTypeOK, others
  <2>2. picked' \in Picks
    BY <1>1, <2>1, FreeIsAPlan
  <2>3. CASE c.op # "set"
    <3>1. saving' = saving
      BY <1>1, <2>1, <2>3 DEF ConsoleTypeOK
    <3>2. QED
      BY <1>1, <2>1, <2>2, <2>3, <3>1, DropKeeps
  <2>4. CASE c.op = "set"
    <3>1. ConsoleTypeOK'
      BY <1>1, <2>1, <2>2, <2>4 DEF ConsoleTypeOK, server
    <3>2. \A e \in calls' : e.op # "set" /\ Behaves(e)
      BY <2>1, <2>4 DEF ConsoleInv
    <3>3. \A e \in calls' : Behaves(e)'
      BY <2>1, <2>4, <3>2 DEF Behaves, server
    <3>4. QED
      BY <2>1, <2>4, <3>1, <3>3 DEF ConsoleInv
  <2>5. QED
    BY <2>3, <2>4
<1>7. QED
  BY <1>2, <1>3, <1>4, <1>5, <1>6

LEMMA ConsoleKeeps ==
  ASSUME ConsoleInv, Console
  PROVE  ConsoleInv'
<1>1. /\ ConsoleTypeOK
      /\ \A c \in calls : Behaves(c) /\ c \in ApiCalls /\ c.no \in Nat \ {0} /\ c.no <= made
  BY DEF ConsoleInv, ConsoleTypeOK, ApiCalls, Behaves
<1>2. ASSUME NEW t \in Tenants, NEW email \in Emails,
             Suspend(t) \/ Activate(t) \/ Save(t, email)
      PROVE  ConsoleInv'
  <2>1. PICK op \in {"create", "suspend", "activate"}, m \in Emails \cup {NoEmail} :
          MakeCall(op, t, m, FreePlan)
    BY <1>2 DEF Suspend, Activate, Save
  <2>2. UNCHANGED <<server, dialog, overtaken, disturbed>>
    BY <1>2 DEF Suspend, Activate, Save, list, others
  <2>3. QED
    BY <2>1, <2>2, ListCallKeeps
<1>3. ASSUME NEW t \in Tenants, OpenManage(t) PROVE ConsoleInv'
  <2>1. PICK u \in Tenants \cup {NoTribe} : u = t
    OBVIOUS
  <2>2. PICK r : r = NewCall("get", u, NoEmail, FreePlan)
    OBVIOUS
  <2>3. r \in ApiCalls /\ r.no = made + 1 /\ r.op = "get" /\ r.tenant = u /\ r.stage = "sent"
    BY <1>1, <2>2, LoadIs DEF ConsoleTypeOK
  <2>4. /\ calls' = calls \cup {r} /\ made' = made + 1 /\ managed' = u /\ current' = made + 1
        /\ UNCHANGED <<server, picked, saving, disturbed>> /\ touched' \in BOOLEAN /\ open' \in BOOLEAN
        /\ overtaken' \in BOOLEAN
    BY <1>3, <2>1, <2>2 DEF OpenManage, MakeCall
  <2>5. ConsoleTypeOK'
    BY <1>1, <2>1, <2>3, <2>4 DEF ConsoleTypeOK, server
  <2>6. \A c \in calls \cup {r} : Behaves(c)'
    BY <1>1, <2>1, <2>3, <2>4 DEF Behaves, ConsoleTypeOK, server
  <2>7. QED
    BY <1>1, <2>3, <2>4, <2>5, <2>6 DEF ConsoleInv, ConsoleTypeOK
<1>4. CASE CloseManage
  <2>1. /\ UNCHANGED <<server, managed, picked, saving, calls, made, current, touched, overtaken, disturbed>>
        /\ open' \in BOOLEAN /\ ~open'
    BY <1>4 DEF CloseManage, others
  <2>2. QED
    BY <2>1 DEF ConsoleInv, ConsoleTypeOK, Behaves, server
<1>5. ASSUME NEW f \in Picks, Pick(f) PROVE ConsoleInv'
  <2>1. /\ UNCHANGED <<server, managed, open, saving, calls, made, current, overtaken, disturbed>>
        /\ picked' = f /\ touched' \in BOOLEAN /\ touched'
    BY <1>5 DEF Pick, others
  <2>2. QED
    BY <2>1 DEF ConsoleInv, ConsoleTypeOK, Behaves, server
<1>6. CASE SavePlan
  <2>1. PICK t \in Tenants \cup {NoTribe} : t = managed
    BY <1>1 DEF ConsoleTypeOK
  <2>0. PICK p \in Plans : p = PlanOf(picked)
    BY <1>1, <1>6, FieldsArePicked DEF SavePlan, ConsoleTypeOK
  <2>2. PICK r : r = NewCall("set", t, NoEmail, p)
    OBVIOUS
  <2>3. r \in ApiCalls /\ r.no = made + 1 /\ r.op = "set" /\ r.stage = "sent"
    <3>1. PICK email \in Emails \cup {NoEmail} : email = NoEmail
      OBVIOUS
    <3>2. PICK op \in {"create", "suspend", "activate", "list", "get", "set"} : op = "set"
      OBVIOUS
    <3>3. r = NewCall(op, t, email, p) /\ made \in Nat
      BY <1>1, <2>2, <3>1, <3>2 DEF ConsoleTypeOK
    <3>4. QED
      BY <3>2, <3>3, MakeIs
  <2>4. /\ calls' = calls \cup {r} /\ made' = made + 1 /\ saving' \in BOOLEAN /\ saving'
        /\ open /\ ~saving /\ UNCHANGED <<server, managed, open, picked, current, touched, overtaken, disturbed>>
    BY <1>6, <2>0, <2>1, <2>2 DEF SavePlan, MakeCall, others
  <2>5. ConsoleTypeOK'
    BY <1>1, <2>3, <2>4 DEF ConsoleTypeOK, server
  <2>6. \A c \in calls : c.op # "set"
    BY <1>1, <2>4 DEF Behaves
  <2>7. \A c \in calls \cup {r} : Behaves(c)'
    BY <1>1, <2>3, <2>4 DEF ConsoleInv, Behaves, ConsoleTypeOK, server
  <2>8. QED
    BY <1>1, <2>3, <2>4, <2>5, <2>6, <2>7 DEF ConsoleInv, ConsoleTypeOK
<1>7. QED
  BY <1>2, <1>3, <1>4, <1>5, <1>6, ConsoleConstantsOK DEF Console

LEMMA ConsoleStep == ConsoleInv /\ [ConsoleNext]_consoleVars => ConsoleInv'
<1> SUFFICES ASSUME ConsoleInv, [ConsoleNext]_consoleVars PROVE ConsoleInv'
  OBVIOUS
<1>1. CASE UNCHANGED consoleVars
  BY <1>1 DEF consoleVars, ConsoleInv, ConsoleTypeOK, Behaves
<1>2. QED
  BY <1>1, ConsoleKeeps, ApiKeeps, AnswerKeeps DEF ConsoleNext, Answers

\* subscription-manager.component.ts, load() and save(): the one dialog, reused for every tribe,
\* saves the tier and the day the tribe already has when it was loaded and nothing was changed, whatever the
\* order in which its calls are served and answered, as long as no answer is lost or late
\* and no other super admin sets the plan in between.
THEOREM UntouchedSavesChangeNothing == ConsoleSpec => UntouchedSaveKeepsPlan
<1>1. ConsoleInv /\ [ConsoleNext]_consoleVars =>
        [SavePlan /\ current = 0 /\ ~touched /\ ~overtaken /\ ~disturbed =>
           picked = FieldsOf(plan[managed])]_consoleVars
  BY DEF ConsoleInv, SavePlan
<1>2. ConsoleSpec => []ConsoleInv
  BY InitConsole, ConsoleStep, PTL DEF ConsoleSpec
<1>3. QED
  BY <1>1, <1>2, PTL DEF ConsoleSpec, UntouchedSaveKeepsPlan

-----------------------------------------------------------------------------
(* PersonForm.  A form holds what it has read of the person, but for what   *)
(* was typed and for a father still to come; a save carries what the form   *)
(* holds, so if the version it names is still the person's, whatever it     *)
(* changes was typed.                                                       *)

Dtos == UNION {[S -> Nat] : S \in SUBSET Fields}
JsonPatches == SUBSET [op : {"add", "replace", "remove"}, field : Fields]
Modes == {"closed", "new", "edit", "left"}
Saves == [pc : {"none", "sent", "insert", "answered"},
          kind : {"none", "update", "create", "propose", "submit"}, mode : Modes,
          dto : Dtos, version : Nat, patch : JsonPatches, typed : SUBSET Fields,
          ticked : BOOLEAN, sure : BOOLEAN, confirm : BOOLEAN,
          answer : {"none", "ok", "refused", "duplicates", "created"}]
FormScreens == [mode : Modes, canWrite : BOOLEAN,
                loading : {"none", "sent", "done", "failed"}, saving : BOOLEAN,
                showDuplicates : BOOLEAN]
Proposals == [id : Nat, mode : Modes, patch : JsonPatches,
              typed : SUBSET Fields, ticked : BOOLEAN, sure : BOOLEAN]

FormTyped ==
  /\ personRow \in [Fields \cup {"version"} -> Nat] /\ personRow["version"] # 0
  /\ similar \in Nat /\ unconfirmed \in Nat /\ crossed \in BOOLEAN
  /\ proposals \subseteq Proposals /\ IsFiniteSet(proposals)
  /\ screen \in FormScreens /\ saves \in [SaveIds -> Saves]
  /\ versionHeld \in Nat /\ form \in [Fields -> Nat] /\ typed \subseteq Fields
  /\ parentCall \in [pc : {"none", "sent", "done", "failed"}, id : Nat]

IsRead == screen.mode = "edit" /\ screen.loading = "done"

\* What the form holds of the person: as long as the version is the one it has
\* read, the person is as it was read, and so are the fields nobody has typed,
\* but for a father who is still to come.
Holds ==
  /\ IsRead =>
       /\ original \in [Fields -> Nat] /\ versionHeld \in 1..personRow["version"]
       /\ versionHeld = personRow["version"] => \A f \in Fields : original[f] = personRow[f]
       /\ \A f \in Fields \ typed :
            form[f] = original[f] \/ (f = "fatherId" /\ form[f] = Empty /\ parentCall.pc # "done")
       /\ parentCall.pc = "sent" => parentCall.id = original["fatherId"]
  /\ screen.mode \in {"closed", "new", "edit"} /\ ~IsRead =>
       /\ versionHeld = 0 /\ parentCall.pc = "none"
       /\ "fatherId" \notin typed => form["fatherId"] = Empty
  /\ screen.mode \in {"closed", "new"} => screen.loading = "none"

\* What may be in a proposal whose author typed t.
MayPropose(op, t, ticked) ==
  op.field \in t \/ (~ticked /\ op = [op |-> "remove", field |-> "deathDate"])

\* What a call under way carries: if its version is still the person's, nothing
\* it would change was left untyped.
Meant(c) ==
  /\ c.pc = "sent" /\ c.kind = "update" /\ c.version # 0 =>
       /\ c.version <= personRow["version"]
       /\ c.version = personRow["version"] =>
            \A f \in DOMAIN c.dto : f \in c.typed \/ c.dto[f] = personRow[f]
  /\ c.pc = "sent" /\ c.kind = "propose" /\ c.sure =>
       \A op \in c.patch : MayPropose(op, c.typed, c.ticked)

\* Unless two searches have crossed, one creation at most has found nobody,
\* and only before anybody was created.
CreatedOnce ==
  /\ unconfirmed <= similar
  /\ ~crossed =>
       /\ unconfirmed <= 1
       /\ \A n \in SaveIds : Searched(n) =>
            unconfirmed = 0 /\ \A m \in SaveIds : Searched(m) => m = n

SaveInv ==
  /\ FormTyped /\ Holds /\ CreatedOnce /\ \A n \in SaveIds : Meant(saves[n])
  /\ \A p \in proposals : p.mode = "edit" /\ p.sure =>
       \A op \in p.patch : MayPropose(op, p.typed, p.ticked)

LEMMA NoSaveFields ==
  /\ NoSave \in Saves /\ NoSave.pc = "none" /\ NoSave.kind = "none" /\ NoSave.version = 0
  /\ NoSave.answer = "none"
<1>1. NoDto \in Dtos
  <2>1. {} \in SUBSET Fields /\ NoDto \in [{} -> Nat]
    BY DEF NoDto
  <2>2. QED
    BY <2>1 DEF Dtos
<1>2. {} \in JsonPatches
  BY DEF JsonPatches
<1> HIDE DEF NoDto
<1>3. QED
  BY <1>1, <1>2 DEF NoSave, Saves, Modes

LEMMA FormStarts == FormInit => SaveInv
<1> SUFFICES ASSUME FormInit PROVE SaveInv
  OBVIOUS
<1>1. FormTyped
  <2>1. Blank \in [Fields -> Nat]
    BY DEF Blank, Empty, Unticked
  <2>2. personRow \in [Fields \cup {"version"} -> Nat] /\ personRow["version"] # 0
    BY DEF FormInit, Fields, Ticked
  <2>3. screen \in FormScreens
    BY DEF FormInit, FormScreens, Modes
  <2>4. QED
    BY <2>1, <2>2, <2>3, NoSaveFields, FS_EmptySet DEF FormInit, FormTyped, Empty
<1>2. Holds
  <2>1. "fatherId" \in Fields /\ form["fatherId"] = Empty
    BY DEF FormInit, Blank, Fields
  <2>2. screen.mode = "closed" /\ screen.loading = "none"
    BY DEF FormInit
  <2>3. QED
    BY <2>1, <2>2 DEF Holds, IsRead, FormInit
<1>3. /\ \A n \in SaveIds : saves[n] = NoSave
      /\ similar = 0 /\ unconfirmed = 0 /\ proposals = {}
  BY DEF FormInit
<1>4. CreatedOnce /\ \A n \in SaveIds : Meant(saves[n])
  BY <1>3, NoSaveFields DEF CreatedOnce, Searched, Meant
<1>5. QED
  BY <1>1, <1>2, <1>3, <1>4 DEF SaveInv

LEMMA ValuesAre == \A f \in Fields : Values(f) \subseteq Nat
BY DEF Values, Ticked, Unticked

LEMMA OthersUpdateKeeps ==
  ASSUME SaveInv, NEW f \in Fields, NEW v \in Values(f), OthersUpdate(f, v) PROVE SaveInv'
<1>1. v \in Nat
  BY ValuesAre
<1>2. /\ personRow' \in [Fields \cup {"version"} -> Nat]
      /\ personRow'["version"] = personRow["version"] + 1 /\ personRow["version"] \in Nat
  <2>1. "version" \in Fields \cup {"version"} /\ "version" \notin Fields
    BY DEF Fields
  <2>2. personRow' = [[personRow EXCEPT ![f] = v] EXCEPT !["version"] = personRow["version"] + 1]
    BY <2>1 DEF OthersUpdate, SaveInv, FormTyped
  <2>3. QED
    BY <1>1, <2>1, <2>2 DEF SaveInv, FormTyped
<1>3. UNCHANGED <<similar, unconfirmed, crossed, proposals, screen, original>>
      /\ UNCHANGED <<versionHeld, form, typed, keys, parentCall, saves, waiting>>
  BY DEF OthersUpdate, calling
<1>4. FormTyped'
  BY <1>2, <1>3 DEF SaveInv, FormTyped
<1>5. Holds'
  BY <1>2, <1>3 DEF SaveInv, Holds, IsRead
<1>6. \A n \in SaveIds : Meant(saves[n])'
  BY <1>2, <1>3 DEF SaveInv, FormTyped, Saves, Meant
<1>7. CreatedOnce'
  BY <1>3 DEF SaveInv, CreatedOnce, Searched
<1>8. QED
  BY <1>3, <1>4, <1>5, <1>6, <1>7 DEF SaveInv

\* A step of the client: it changes nothing of the person, the persons created
\* and the proposals, and what it changes of the calls, it means.
LEMMA FormSideKeeps ==
  ASSUME SaveInv, UNCHANGED serverSide, FormTyped', Holds',
         \A n \in SaveIds :
           saves'[n] = saves[n] \/ (saves'[n].pc # "insert" /\ Meant(saves'[n]))
  PROVE  SaveInv'
<1>1. UNCHANGED <<personRow, similar, unconfirmed, crossed, proposals>>
  BY DEF serverSide
<1>2. \A n \in SaveIds : Meant(saves[n])'
  BY <1>1 DEF SaveInv, Meant
<1>3. \A n \in SaveIds : Searched(n)' => Searched(n)
  BY DEF Searched
<1>4. CreatedOnce'
  BY <1>1, <1>3 DEF SaveInv, CreatedOnce
<1>5. QED
  BY <1>1, <1>2, <1>4 DEF SaveInv

LEMMA OthersCreateKeeps == ASSUME SaveInv, OthersCreate PROVE SaveInv'
<1>1. /\ UNCHANGED <<personRow, proposals, screen, original, versionHeld>>
      /\ UNCHANGED <<form, typed, keys, parentCall, saves, waiting>>
      /\ similar = 0 /\ similar' = 1 /\ unconfirmed' = 1
      /\ crossed' = (crossed \/ \E n \in SaveIds : Searched(n))
  BY DEF OthersCreate, calling
<1>2. FormTyped'
  BY <1>1 DEF SaveInv, FormTyped
<1>3. Holds' /\ \A n \in SaveIds : Meant(saves[n])'
  BY <1>1 DEF SaveInv, Holds, IsRead, Meant
<1>4. CreatedOnce'
  <2>1. \A n \in SaveIds : Searched(n)' <=> Searched(n)
    BY <1>1 DEF Searched
  <2>2. ASSUME ~crossed' PROVE ~crossed /\ \A n \in SaveIds : ~Searched(n)'
    BY <1>1, <2>1, <2>2
  <2>3. unconfirmed' <= similar' /\ unconfirmed' <= 1
    BY <1>1
  <2>4. QED
    BY <2>2, <2>3, Zenon DEF CreatedOnce
<1>5. QED
  BY <1>1, <1>2, <1>3, <1>4 DEF SaveInv

LEMMA OpenFormKeeps ==
  ASSUME SaveInv, NEW mode \in {"new", "edit"}, NEW w \in BOOLEAN, OpenForm(mode, w) PROVE SaveInv'
<1>1. /\ screen.mode = "closed" /\ UNCHANGED serverSide
      /\ UNCHANGED <<original, versionHeld, form, typed, keys, parentCall, saves>>
      /\ screen' = [screen EXCEPT !.mode = mode, !.canWrite = w,
                              !.loading = IF mode = "edit" THEN "sent" ELSE "none"]
  BY DEF OpenForm, calling
<1>2. PICK l \in {"sent", "none"} : l = IF mode = "edit" THEN "sent" ELSE "none"
  OBVIOUS
<1>3. screen' = [screen EXCEPT !.mode = mode, !.canWrite = w, !.loading = l]
  BY <1>1, <1>2
<1>4. screen' \in FormScreens /\ screen'.mode = mode /\ screen'.loading = l
  BY <1>3 DEF SaveInv, FormTyped, FormScreens, Modes
<1>5. FormTyped'
  BY <1>1, <1>4 DEF SaveInv, FormTyped, serverSide
<1>6. ~IsRead /\ ~IsRead'
  BY <1>1, <1>4 DEF IsRead
<1>7. Holds'
  BY <1>1, <1>2, <1>4, <1>6 DEF SaveInv, Holds
<1>8. QED
  BY <1>1, <1>5, <1>6, <1>7, FormSideKeeps

LEMMA PersonLoadedKeeps == ASSUME SaveInv, PersonLoaded PROVE SaveInv'
<1>1. /\ screen.loading = "sent" /\ screen.mode = "edit" /\ UNCHANGED serverSide
      /\ saves' = saves /\ keys' = keys /\ versionHeld' = personRow["version"]
      /\ original' = [f \in Fields |-> personRow[f]]
      /\ form' = [f \in Fields |-> IF f = "fatherId" THEN form[f] ELSE personRow[f]]
      /\ typed' = typed \cap {"fatherId"}
  BY DEF PersonLoaded, calling
<1>2. screen' \in FormScreens /\ screen'.mode = "edit" /\ screen'.loading = "done"
  BY <1>1 DEF PersonLoaded, SaveInv, FormTyped, FormScreens
<1>3. /\ personRow["fatherId"] \in Nat /\ parentCall.id \in Nat
      /\ parentCall' = IF personRow["fatherId"] = Empty THEN [parentCall EXCEPT !.pc = "done"]
                       ELSE [pc |-> "sent", id |-> personRow["fatherId"]]
  BY DEF PersonLoaded, SaveInv, FormTyped, Fields
<1>4. /\ parentCall' \in [pc : {"none", "sent", "done", "failed"}, id : Nat]
      /\ parentCall'.pc = "sent" => parentCall'.id = personRow["fatherId"]
      /\ parentCall'.pc = "done" => personRow["fatherId"] = Empty
  <2>1. CASE personRow["fatherId"] = Empty
    BY <1>3, <2>1 DEF SaveInv, FormTyped
  <2>2. CASE personRow["fatherId"] # Empty
    BY <1>3, <2>2
  <2>3. QED
    BY <2>1, <2>2
<1>5. /\ form' \in [Fields -> Nat] /\ original' \in [Fields -> Nat]
      /\ personRow["version"] \in Nat \ {0}
  BY <1>1 DEF SaveInv, FormTyped
<1>6. FormTyped'
  BY <1>1, <1>2, <1>4, <1>5 DEF SaveInv, FormTyped, serverSide
<1>7. ~IsRead /\ IsRead'
  BY <1>1, <1>2 DEF IsRead
<1>8. "fatherId" \notin typed => form["fatherId"] = Empty
  BY <1>1, <1>7 DEF SaveInv, Holds
<1>9. Holds'
  <2>1. versionHeld' \in 1..personRow'["version"]
    BY <1>1, <1>5 DEF serverSide
  <2>2. \A f \in Fields : original'[f] = personRow'[f]
    BY <1>1 DEF serverSide
  <2>3. ASSUME NEW f \in Fields \ typed'
        PROVE  \/ form'[f] = original'[f]
               \/ f = "fatherId" /\ form'[f] = Empty /\ parentCall'.pc # "done"
    <3>1. CASE f # "fatherId"
      BY <1>1, <3>1
    <3>2. CASE f = "fatherId"
      <4>1. form'[f] = Empty /\ original'[f] = personRow["fatherId"]
        BY <1>1, <1>8, <3>2
      <4>2. QED
        BY <1>4, <3>2, <4>1
    <3>3. QED
      BY <3>1, <3>2
  <2>4. original'["fatherId"] = personRow["fatherId"]
    BY <1>1 DEF Fields
  <2>5. QED
    BY <1>2, <1>4, <1>5, <1>7, <2>1, <2>2, <2>3, <2>4 DEF Holds
<1>10. QED
  BY <1>1, <1>6, <1>7, <1>9, FormSideKeeps

LEMMA LoadFailsKeeps == ASSUME SaveInv, LoadFails PROVE SaveInv'
<1>1. /\ screen.loading = "sent" /\ screen.mode = "edit" /\ UNCHANGED serverSide
      /\ UNCHANGED <<original, versionHeld, form, typed, keys, parentCall, saves>>
  BY DEF LoadFails, calling
<1>2. screen' \in FormScreens /\ screen'.mode = "edit" /\ screen'.loading = "failed"
  BY <1>1 DEF LoadFails, SaveInv, FormTyped, FormScreens
<1>3. FormTyped'
  BY <1>1, <1>2 DEF SaveInv, FormTyped, serverSide
<1>4. ~IsRead /\ ~IsRead'
  BY <1>1, <1>2 DEF IsRead
<1>5. Holds'
  BY <1>1, <1>2, <1>4 DEF SaveInv, Holds
<1>6. QED
  BY <1>1, <1>3, <1>4, <1>5, FormSideKeeps

LEMMA ParentAnswersKeeps ==
  ASSUME SaveInv, NEW found \in BOOLEAN, ParentAnswers(found) PROVE SaveInv'
<1>1. /\ parentCall.pc = "sent" /\ screen.mode = "edit" /\ UNCHANGED serverSide
      /\ UNCHANGED <<screen, original, versionHeld, keys, saves>>
      /\ found => /\ form' = [form EXCEPT !["fatherId"] = parentCall.id]
                  /\ typed' = typed \ {"fatherId"}
      /\ ~found => UNCHANGED <<form, typed>>
  BY DEF ParentAnswers, calling
<1>2. PICK pc \in {"done", "failed"} : pc = IF found THEN "done" ELSE "failed"
  OBVIOUS
<1>3. parentCall' = [parentCall EXCEPT !.pc = pc]
  BY <1>2 DEF ParentAnswers
<1>4. /\ parentCall' \in [pc : {"none", "sent", "done", "failed"}, id : Nat]
      /\ parentCall'.pc = pc /\ parentCall.id \in Nat
  BY <1>3 DEF SaveInv, FormTyped
<1>5. /\ form' \in [Fields -> Nat] /\ typed' \subseteq typed
      /\ \A f \in Fields \ {"fatherId"} : form'[f] = form[f] /\ (f \in typed => f \in typed')
      /\ found => form'["fatherId"] = parentCall.id
  <2>1. "fatherId" \in Fields
    BY DEF Fields
  <2>2. CASE found
    BY <1>1, <1>4, <2>1, <2>2 DEF SaveInv, FormTyped
  <2>3. CASE ~found
    BY <1>1, <2>3 DEF SaveInv, FormTyped
  <2>4. QED
    BY <2>2, <2>3
<1>6. FormTyped'
  BY <1>1, <1>4, <1>5 DEF SaveInv, FormTyped, serverSide
<1>7. IsRead /\ IsRead'
  BY <1>1 DEF SaveInv, Holds, IsRead
<1>8. Holds'
  <2>1. /\ parentCall.id = original["fatherId"]
        /\ \A f \in Fields \ typed :
            form[f] = original[f] \/ (f = "fatherId" /\ form[f] = Empty /\ parentCall.pc # "done")
    BY <1>1, <1>7 DEF SaveInv, Holds
  <2>2. ASSUME NEW f \in Fields \ typed'
        PROVE  form'[f] = original[f] \/ (f = "fatherId" /\ form'[f] = Empty /\ pc # "done")
    <3>1. CASE f # "fatherId"
      BY <1>5, <2>1, <3>1
    <3>2. CASE f = "fatherId" /\ found
      BY <1>5, <2>1, <3>2
    <3>3. CASE f = "fatherId" /\ ~found
      BY <1>1, <1>2, <2>1, <3>3
    <3>4. QED
      BY <3>1, <3>2, <3>3
  <2>3. QED
    BY <1>1, <1>4, <1>7, <2>2 DEF SaveInv, Holds, serverSide
<1>9. QED
  BY <1>1, <1>6, <1>7, <1>8, FormSideKeeps

LEMMA TypeIntoKeeps ==
  ASSUME SaveInv, NEW f \in Fields, NEW v \in Values(f), TypeInto(f, v) PROVE SaveInv'
<1>1. /\ screen.mode \in {"new", "edit"} /\ UNCHANGED serverSide
      /\ UNCHANGED <<screen, original, versionHeld, parentCall, saves>>
      /\ form' = [form EXCEPT ![f] = v] /\ typed' = typed \cup {f} /\ v \in Nat
  BY ValuesAre DEF TypeInto, calling
<1>2. /\ form' \in [Fields -> Nat] /\ \A g \in Fields \ {f} : form'[g] = form[g]
  BY <1>1 DEF SaveInv, FormTyped
<1>3. FormTyped'
  BY <1>1, <1>2 DEF SaveInv, FormTyped, serverSide
<1>4. Holds'
  <2>1. IsRead' = IsRead /\ "fatherId" \in Fields
    BY <1>1 DEF IsRead, Fields
  <2>2. QED
    BY <1>1, <1>2, <2>1 DEF SaveInv, Holds, serverSide
<1>5. QED
  BY <1>1, <1>3, <1>4, FormSideKeeps DEF IsRead

\* A save is sent; the form stays as it is.
LEMMA SaveSentKeeps ==
  ASSUME SaveInv, NEW c \in Saves, Send(c), Meant(c), c.pc = "sent" PROVE SaveInv'
<1>1. PICK n \in SaveIds : saves' = [saves EXCEPT ![n] = c]
  BY DEF Send
<1>2. UNCHANGED serverSide /\ UNCHANGED <<original, versionHeld, form, typed, keys, parentCall>>
  BY DEF Send
<1>3. screen' \in FormScreens /\ screen'.mode = screen.mode /\ screen'.loading = screen.loading
  BY DEF Send, SaveInv, FormTyped, FormScreens
<1>4. saves' \in [SaveIds -> Saves] /\ \A m \in SaveIds : saves'[m] = saves[m] \/ saves'[m] = c
  BY <1>1 DEF SaveInv, FormTyped
<1>5. FormTyped'
  BY <1>2, <1>3, <1>4 DEF SaveInv, FormTyped, serverSide
<1>6. Holds'
  BY <1>2, <1>3 DEF SaveInv, Holds, IsRead, serverSide
<1>7. QED
  BY <1>2, <1>4, <1>5, <1>6, FormSideKeeps

LEMMA DtoIs ==
  ASSUME SaveInv
  PROVE  /\ buildDto \in Dtos /\ DOMAIN buildDto \subseteq Fields
         /\ \A f \in DOMAIN buildDto : buildDto[f] = form[f] /\ form[f] # Empty
         /\ \A f \in Fields \ DOMAIN buildDto :
              form[f] = Empty \/ (f = "deathDate" /\ form["isDeceased"] # Ticked)
<1> DEFINE S == {g \in Fields : form[g] # Empty /\ (g = "deathDate" => form["isDeceased"] = Ticked)}
<1>1. S \in SUBSET Fields /\ \A f \in S : form[f] \in Nat
  BY DEF SaveInv, FormTyped
<1>2. buildDto = [f \in S |-> form[f]]
  BY DEF buildDto
<1>3. /\ \A f \in S : form[f] # Empty
      /\ \A f \in Fields \ S : form[f] = Empty \/ (f = "deathDate" /\ form["isDeceased"] # Ticked)
  OBVIOUS
<1> HIDE DEF S
<1>4. buildDto \in [S -> Nat]
  BY <1>1, <1>2
<1>5. QED
  BY <1>1, <1>2, <1>3, <1>4 DEF Dtos

LEMMA UpdateKeeps == ASSUME SaveInv, doUpdate PROVE SaveInv'
<1>1. PICK d, v, t : d = buildDto /\ v = versionHeld /\ t = typed
  OBVIOUS
<1>2. d \in Dtos /\ v \in Nat /\ t \in SUBSET Fields
  BY <1>1, DtoIs DEF SaveInv, FormTyped
<1>3. PICK c : c = [NoSave EXCEPT !.pc = "sent", !.kind = "update", !.dto = d,
                                  !.version = v, !.typed = t]
  OBVIOUS
<1>4. Send(c)
  BY <1>1, <1>3, Zenon DEF doUpdate
<1>5. /\ c \in Saves /\ c.pc = "sent" /\ c.kind = "update" /\ c.dto = d /\ c.version = v
      /\ c.typed = t
  BY <1>2, <1>3, NoSaveFields DEF Saves
<1>6. screen.mode = "edit"
  BY DEF doUpdate
<1>7. ASSUME v # 0
      PROVE  /\ v <= personRow["version"]
             /\ v = personRow["version"] => \A f \in DOMAIN d : f \in t \/ d[f] = personRow[f]
  <2>1. IsRead
    BY <1>1, <1>6, <1>7 DEF SaveInv, Holds
  <2>2. /\ versionHeld \in 1..personRow["version"] /\ personRow["version"] \in Nat
        /\ versionHeld = personRow["version"] => \A f \in Fields : original[f] = personRow[f]
        /\ \A f \in Fields \ typed :
            form[f] = original[f] \/ (f = "fatherId" /\ form[f] = Empty /\ parentCall.pc # "done")
    BY <2>1 DEF SaveInv, Holds, FormTyped
  <2>3. QED
    BY <1>1, <2>2, DtoIs
<1>8. Meant(c)
  BY <1>5, <1>7 DEF Meant
<1>9. QED
  BY <1>4, <1>5, <1>8, SaveSentKeeps

LEMMA CreateKeeps == ASSUME SaveInv, doCreate \/ confirmDuplicateCreate PROVE SaveInv'
<1>1. PICK confirm \in BOOLEAN : Send(Creating(confirm))
  BY DEF doCreate, confirmDuplicateCreate
<1>2. PICK c : c = Creating(confirm)
  OBVIOUS
<1>3. c \in Saves /\ c.pc = "sent" /\ c.kind = "create"
  BY <1>2, NoSaveFields DEF Creating, Saves
<1>4. Meant(c)
  BY <1>3 DEF Meant
<1>5. QED
  BY <1>1, <1>2, <1>3, <1>4, SaveSentKeeps

LEMMA ProposalIs ==
  ASSUME SaveInv
  PROVE  /\ buildUpdatePatch(original, buildDto) \in JsonPatches
         /\ buildCreatePatch(buildDto) \in JsonPatches
         /\ IsRead /\ parentCall.pc = "done" =>
              \A op \in buildUpdatePatch(original, buildDto) :
                MayPropose(op, typed, form["isDeceased"] = Ticked)
<1> DEFINE prev(f) == IF f \in DOMAIN original THEN original[f] ELSE Empty
           next(f) == IF f \in DOMAIN buildDto THEN buildDto[f] ELSE Empty
<1>1. buildUpdatePatch(original, buildDto) =
        {[op |-> IF next(f) = Empty THEN "remove" ELSE "replace", field |-> f] :
          f \in {g \in Fields : prev(g) # next(g)}}
  BY DEF buildUpdatePatch
<1>2. \A f \in Fields :
        next(f) = form[f] \/ (f = "deathDate" /\ form["isDeceased"] # Ticked /\ next(f) = Empty)
  BY DtoIs
<1>3. buildCreatePatch(buildDto) \in JsonPatches
  BY DtoIs DEF buildCreatePatch, JsonPatches
<1>4. ASSUME IsRead, parentCall.pc = "done", NEW g \in Fields, prev(g) # next(g)
      PROVE  g \in typed \/ (g = "deathDate" /\ form["isDeceased"] # Ticked /\ next(g) = Empty)
  <2>1. /\ original \in [Fields -> Nat]
        /\ \A f \in Fields \ typed :
            form[f] = original[f] \/ (f = "fatherId" /\ form[f] = Empty /\ parentCall.pc # "done")
    BY <1>4 DEF SaveInv, Holds
  <2>2. QED
    BY <1>2, <1>4, <2>1
<1> HIDE DEF prev, next
<1>5. buildUpdatePatch(original, buildDto) \in JsonPatches
  BY <1>1 DEF JsonPatches
<1>6. ASSUME IsRead, parentCall.pc = "done", NEW op \in buildUpdatePatch(original, buildDto)
      PROVE  MayPropose(op, typed, form["isDeceased"] = Ticked)
  <2>1. PICK g \in Fields : /\ prev(g) # next(g)
                            /\ op = [op |-> IF next(g) = Empty THEN "remove" ELSE "replace", field |-> g]
    BY <1>1, <1>6
  <2>2. CASE g \in typed
    BY <2>1, <2>2 DEF MayPropose
  <2>3. CASE g = "deathDate" /\ form["isDeceased"] # Ticked /\ next(g) = Empty
    BY <2>1, <2>3 DEF MayPropose
  <2>4. QED
    BY <1>4, <1>6, <2>1, <2>2, <2>3
<1>7. QED
  BY <1>3, <1>5, <1>6

LEMMA ProposeKeeps == ASSUME SaveInv, submitAsChangeRequest PROVE SaveInv'
<1>1. PICK patch \in JsonPatches :
        patch = IF screen.mode = "edit" THEN buildUpdatePatch(original, buildDto)
                ELSE buildCreatePatch(buildDto)
  BY ProposalIs
<1>2. PICK sure \in BOOLEAN : sure = (screen.loading = "done" /\ parentCall.pc = "done")
  OBVIOUS
<1>3. PICK t \in SUBSET Fields : t = typed
  BY DEF SaveInv, FormTyped
<1>10. PICK ticked \in BOOLEAN : ticked = (form["isDeceased"] = Ticked)
  OBVIOUS
<1>11. PICK mode \in Modes : mode = screen.mode
  BY DEF SaveInv, FormTyped, FormScreens
<1>4. PICK c : c = [NoSave EXCEPT !.pc = "sent", !.kind = "propose", !.mode = mode,
                                  !.patch = patch, !.typed = t, !.ticked = ticked, !.sure = sure]
  OBVIOUS
<1>5. Send(c)
  BY <1>1, <1>2, <1>3, <1>4, <1>10, <1>11, Zenon DEF submitAsChangeRequest
<1>6. /\ c \in Saves /\ c.pc = "sent" /\ c.kind = "propose" /\ c.patch = patch
      /\ c.typed = t /\ c.sure = sure /\ c.ticked = ticked
  BY <1>4, NoSaveFields DEF Saves
<1>7. sure => IsRead
  <2>1. screen.mode \in {"new", "edit"}
    BY DEF submitAsChangeRequest, CanSubmit
  <2>2. QED
    BY <1>2, <2>1 DEF SaveInv, Holds, IsRead
<1>8. sure => \A op \in patch : MayPropose(op, t, ticked)
  BY <1>1, <1>2, <1>3, <1>7, <1>10, ProposalIs DEF IsRead
<1>9. Meant(c)
  BY <1>6, <1>8 DEF Meant
<1>12. QED
  BY <1>5, <1>6, <1>9, SaveSentKeeps

LEMMA CancelKeeps == ASSUME SaveInv, cancelDuplicates PROVE SaveInv'
<1>1. /\ UNCHANGED serverSide
      /\ UNCHANGED <<original, versionHeld, form, typed, keys, parentCall, saves>>
  BY DEF cancelDuplicates, calling
<1>2. screen' \in FormScreens /\ screen'.mode = screen.mode /\ screen'.loading = screen.loading
  BY DEF cancelDuplicates, SaveInv, FormTyped, FormScreens
<1>3. FormTyped'
  BY <1>1, <1>2 DEF SaveInv, FormTyped, serverSide
<1>4. IsRead' = IsRead
  BY <1>2 DEF IsRead
<1>5. Holds'
  BY <1>1, <1>2, <1>4 DEF SaveInv, Holds, serverSide
<1>6. QED
  BY <1>1, <1>3, <1>4, <1>5, FormSideKeeps

\* The form learns how the save went, and either stays or is left.
LEMMA SaveEndsKeeps ==
  ASSUME SaveInv, NEW n \in SaveIds, SaveFails(n) \/ DuplicatesFound(n) PROVE SaveInv'
<1>1. /\ UNCHANGED serverSide /\ saves' \in {saves, [saves EXCEPT ![n] = NoSave]}
      /\ UNCHANGED <<original, versionHeld, form, typed, keys, parentCall>>
  BY DEF SaveFails, DuplicatesFound
<1>2. screen' \in FormScreens /\ screen'.mode = screen.mode /\ screen'.loading = screen.loading
  BY DEF SaveFails, DuplicatesFound, SaveInv, FormTyped, FormScreens
<1>3. /\ saves' \in [SaveIds -> Saves]
      /\ \A m \in SaveIds : saves'[m] = saves[m] \/ saves'[m] = NoSave
  BY <1>1, NoSaveFields DEF SaveInv, FormTyped
<1>4. FormTyped'
  BY <1>1, <1>2, <1>3 DEF SaveInv, FormTyped, serverSide
<1>5. Holds'
  BY <1>1, <1>2 DEF SaveInv, Holds, IsRead, serverSide
<1>6. QED
  BY <1>1, <1>3, <1>4, <1>5, NoSaveFields, FormSideKeeps DEF Meant

LEMMA SavedKeeps == ASSUME SaveInv, NEW n \in SaveIds, Saved(n) PROVE SaveInv'
<1>1. /\ UNCHANGED serverSide /\ saves' = [saves EXCEPT ![n] = NoSave] /\ form' = Blank
      /\ typed' = {} /\ versionHeld' = 0 /\ parentCall' = [pc |-> "none", id |-> Empty]
  BY DEF Saved
<1>2. screen' \in FormScreens /\ screen'.mode = "left"
  BY DEF Saved, SaveInv, FormTyped, FormScreens, Modes
<1>3. Blank \in [Fields -> Nat]
  BY DEF Blank, Empty, Unticked
<1>4. /\ saves' \in [SaveIds -> Saves]
      /\ \A m \in SaveIds : saves'[m] = saves[m] \/ saves'[m] = NoSave
  BY <1>1, NoSaveFields DEF SaveInv, FormTyped
<1>5. FormTyped'
  BY <1>1, <1>2, <1>3, <1>4 DEF SaveInv, FormTyped, serverSide, Empty
<1>6. Holds'
  BY <1>2 DEF Holds, IsRead
<1>7. QED
  BY <1>1, <1>4, <1>5, <1>6, NoSaveFields, FormSideKeeps DEF Meant

\* The server answers: the form is as it was.
LEMMA AnswerIs ==
  ASSUME SaveInv, NEW n \in SaveIds,
         NEW a \in {"ok", "refused", "duplicates", "created"}, Answering(n, a)
  PROVE  /\ saves' \in [SaveIds -> Saves] /\ saves'[n].pc \in {"none", "answered"}
         /\ \A m \in SaveIds \ {n} : saves'[m] = saves[m]
<1>1. PICK c : c = IF waiting = n THEN [saves[n] EXCEPT !.pc = "answered", !.answer = a] ELSE NoSave
  OBVIOUS
<1>2. saves' = [saves EXCEPT ![n] = c]
  BY <1>1, Zenon DEF Answering
<1>3. c \in Saves /\ c.pc \in {"none", "answered"}
  BY <1>1, NoSaveFields DEF SaveInv, FormTyped, Saves
<1>4. QED
  BY <1>2, <1>3 DEF SaveInv, FormTyped

\* A call that is not "sent" is meant, whatever it carries.
LEMMA OthersMeant ==
  ASSUME SaveInv, NEW n \in SaveIds, saves'[n].pc # "sent", UNCHANGED personRow,
         \A m \in SaveIds \ {n} : saves'[m] = saves[m]
  PROVE  \A m \in SaveIds : Meant(saves[m])'
BY DEF SaveInv, Meant

\* What ServeUpdate writes.
LEMMA UpdateWrites ==
  ASSUME SaveInv, NEW n \in SaveIds, ServeUpdate(n)
  PROVE  /\ saves[n].pc = "sent" /\ saves[n].kind = "update"
         /\ \/ personRow' = personRow
            \/ /\ saves[n].version = personRow["version"]
               /\ personRow' \in [Fields \cup {"version"} -> Nat]
               /\ personRow'["version"] = personRow["version"] + 1
               /\ \A f \in Fields : personRow'[f] # personRow[f] =>
                    f \in DOMAIN saves[n].dto /\ personRow'[f] = saves[n].dto[f]
<1>1. PICK d : d = saves[n].dto
  OBVIOUS
<1>2. d \in Dtos /\ personRow \in [Fields \cup {"version"} -> Nat] /\ "version" \notin Fields
  BY <1>1 DEF SaveInv, FormTyped, Saves, Fields
<1>3. \A f \in DOMAIN d : d[f] \in Nat
  BY <1>2 DEF Dtos
<1>4. ASSUME saves[n].version = personRow["version"],
             personRow' = [f \in DOMAIN personRow |->
                 IF f = "version" THEN personRow["version"] + 1
                 ELSE IF f \in DOMAIN d THEN d[f] ELSE personRow[f]]
      PROVE  /\ personRow' \in [Fields \cup {"version"} -> Nat]
             /\ personRow'["version"] = personRow["version"] + 1
             /\ \A f \in Fields : personRow'[f] # personRow[f] =>
                    f \in DOMAIN d /\ personRow'[f] = d[f]
  BY <1>2, <1>3, <1>4
<1>5. \/ personRow' = personRow
      \/ /\ saves[n].version = personRow["version"]
         /\ personRow' = [f \in DOMAIN personRow |->
                 IF f = "version" THEN personRow["version"] + 1
                 ELSE IF f \in DOMAIN d THEN d[f] ELSE personRow[f]]
  BY <1>1 DEF ServeUpdate
<1>6. saves[n].pc = "sent" /\ saves[n].kind = "update"
  BY DEF ServeUpdate
<1>7. QED
  BY <1>1, <1>4, <1>5, <1>6

LEMMA ServeUpdateKeeps == ASSUME SaveInv, NEW n \in SaveIds, ServeUpdate(n) PROVE SaveInv'
<1>1. UNCHANGED <<similar, unconfirmed, crossed, proposals>> /\ ClientWaits
  BY DEF ServeUpdate
<1>2. \E a \in {"ok", "refused"} : Answering(n, a)
  BY DEF ServeUpdate
<1>3. /\ saves' \in [SaveIds -> Saves] /\ saves'[n].pc \in {"none", "answered"}
      /\ \A m \in SaveIds \ {n} : saves'[m] = saves[m]
  BY <1>2, AnswerIs
<1>4. /\ personRow' \in [Fields \cup {"version"} -> Nat] /\ personRow["version"] \in Nat
      /\ \/ personRow' = personRow
         \/ personRow'["version"] = personRow["version"] + 1
  BY UpdateWrites DEF SaveInv, FormTyped
<1>5. FormTyped'
  BY <1>1, <1>3, <1>4 DEF SaveInv, FormTyped, ClientWaits
<1>6. Holds'
  BY <1>1, <1>4 DEF SaveInv, Holds, IsRead, ClientWaits
<1>7. \A m \in SaveIds : Meant(saves[m])'
  <2>1. CASE personRow' = personRow
    BY <1>3, <2>1, OthersMeant
  <2>2. CASE personRow'["version"] = personRow["version"] + 1
    BY <1>3, <1>4, <2>2 DEF SaveInv, FormTyped, Saves, Meant
  <2>3. QED
    BY <1>4, <2>1, <2>2
<1>8. CreatedOnce'
  BY <1>1, <1>3 DEF SaveInv, CreatedOnce, Searched
<1>9. QED
  BY <1>1, <1>5, <1>6, <1>7, <1>8 DEF SaveInv

LEMMA FindDuplicatesKeeps == ASSUME SaveInv, NEW n \in SaveIds, FindDuplicates(n) PROVE SaveInv'
<1>1. UNCHANGED <<personRow, similar, unconfirmed, proposals>> /\ ClientWaits
  BY DEF FindDuplicates
<1>2. /\ saves' \in [SaveIds -> Saves] /\ saves'[n].pc # "sent"
      /\ \A m \in SaveIds \ {n} : saves'[m] = saves[m]
      /\ crossed' \in BOOLEAN /\ CreatedOnce'
  <2>1. CASE similar > 0 /\ ~saves[n].confirm
    <3>1. Answering(n, "duplicates") /\ crossed' = crossed
      BY <2>1 DEF FindDuplicates
    <3>2. /\ saves' \in [SaveIds -> Saves] /\ saves'[n].pc \in {"none", "answered"}
          /\ \A m \in SaveIds \ {n} : saves'[m] = saves[m]
      BY <3>1, AnswerIs
    <3>3. QED
      BY <1>1, <3>1, <3>2 DEF SaveInv, FormTyped, CreatedOnce, Searched
  <2>2. CASE ~(similar > 0 /\ ~saves[n].confirm)
    <3>1. /\ saves' = [saves EXCEPT ![n].pc = "insert"]
          /\ crossed' = (crossed \/ (~saves[n].confirm /\ \E m \in SaveIds : Searched(m)))
      BY <2>2 DEF FindDuplicates
    <3>2. /\ saves' \in [SaveIds -> Saves] /\ saves'[n].pc = "insert"
          /\ saves'[n].confirm = saves[n].confirm
          /\ \A m \in SaveIds \ {n} : saves'[m] = saves[m]
      BY <3>1 DEF SaveInv, FormTyped, Saves
    <3>3. /\ \A m \in SaveIds \ {n} : Searched(m)' <=> Searched(m)
          /\ Searched(n)' <=> ~saves[n].confirm
      BY <3>2 DEF Searched
    <3>4. similar \in Nat /\ unconfirmed \in Nat /\ crossed \in BOOLEAN /\ CreatedOnce
      BY DEF SaveInv, FormTyped
    <3>5. ASSUME saves[n].confirm PROVE CreatedOnce'
      <4>1. (crossed' <=> crossed) /\ \A m \in SaveIds : Searched(m)' => Searched(m)
        BY <3>1, <3>3, <3>5
      <4>2. unconfirmed' <= similar' /\ (unconfirmed <= 1 => unconfirmed' <= 1)
            /\ (unconfirmed = 0 => unconfirmed' = 0)
        BY <1>1, <3>4 DEF CreatedOnce
      <4>3. ASSUME ~crossed', NEW k \in SaveIds, Searched(k)'
            PROVE  unconfirmed' = 0 /\ \A m \in SaveIds : Searched(m)' => m = k
        BY <3>4, <4>1, <4>2, <4>3 DEF CreatedOnce
      <4>4. ~crossed' => unconfirmed' <= 1
        BY <3>4, <4>1, <4>2 DEF CreatedOnce
      <4>5. QED
        BY <4>2, <4>3, <4>4, Zenon DEF CreatedOnce
    <3>6. ASSUME ~saves[n].confirm PROVE CreatedOnce'
      <4>1. ASSUME ~crossed'
            PROVE  ~crossed /\ \A m \in SaveIds : Searched(m)' => m = n
        BY <3>1, <3>3, <3>6, <4>1
      <4>2. unconfirmed' = 0 /\ unconfirmed' <= 1 /\ unconfirmed' <= similar'
        BY <1>1, <2>2, <3>4, <3>6 DEF CreatedOnce
      <4>3. ASSUME ~crossed', NEW k \in SaveIds, Searched(k)'
            PROVE  unconfirmed' = 0 /\ \A m \in SaveIds : Searched(m)' => m = k
        BY <4>1, <4>2, <4>3
      <4>4. QED
        BY <4>2, <4>3, Zenon DEF CreatedOnce
    <3>7. QED
      BY <3>1, <3>2, <3>4, <3>5, <3>6
  <2>3. QED
    BY <2>1, <2>2
<1>3. FormTyped'
  BY <1>1, <1>2 DEF SaveInv, FormTyped, ClientWaits
<1>4. Holds'
  BY <1>1 DEF SaveInv, Holds, IsRead, ClientWaits
<1>5. QED
  BY <1>1, <1>2, <1>3, <1>4, OthersMeant DEF SaveInv

LEMMA InsertPersonKeeps == ASSUME SaveInv, NEW n \in SaveIds, InsertPerson(n) PROVE SaveInv'
<1>1. UNCHANGED <<personRow, crossed, proposals>> /\ ClientWaits /\ Answering(n, "ok")
  BY DEF InsertPerson
<1>2. /\ saves' \in [SaveIds -> Saves] /\ saves'[n].pc \in {"none", "answered"}
      /\ \A m \in SaveIds \ {n} : saves'[m] = saves[m]
  BY <1>1, AnswerIs
<1>3. /\ ~Searched(n)'
      /\ Searched(n) <=> ~saves[n].confirm
      /\ \A m \in SaveIds \ {n} : Searched(m)' <=> Searched(m)
  BY <1>2 DEF InsertPerson, Searched
<1>4. similar' = similar + 1 /\ unconfirmed' = unconfirmed + (IF saves[n].confirm THEN 0 ELSE 1)
  BY DEF InsertPerson
<1>5. similar \in Nat /\ unconfirmed \in Nat /\ CreatedOnce
  BY DEF SaveInv, FormTyped
<1>6. similar' \in Nat /\ unconfirmed' \in Nat /\ CreatedOnce'
  <2>1. CASE saves[n].confirm
    <3>1. similar' = similar + 1 /\ unconfirmed' = unconfirmed
      BY <1>4, <1>5, <2>1
    <3>2. \A m \in SaveIds : Searched(m)' => Searched(m)
      BY <1>3
    <3>3. QED
      BY <1>1, <1>5, <3>1, <3>2 DEF CreatedOnce
  <2>2. CASE ~saves[n].confirm
    BY <1>1, <1>3, <1>4, <1>5, <2>2 DEF CreatedOnce
  <2>3. QED
    BY <2>1, <2>2
<1>7. FormTyped'
  BY <1>1, <1>2, <1>6 DEF SaveInv, FormTyped, ClientWaits
<1>8. Holds'
  BY <1>1 DEF SaveInv, Holds, IsRead, ClientWaits
<1>9. QED
  BY <1>1, <1>2, <1>6, <1>7, <1>8, OthersMeant DEF SaveInv

LEMMA ServeProposeKeeps == ASSUME SaveInv, NEW n \in SaveIds, ServePropose(n) PROVE SaveInv'
<1>1. UNCHANGED <<personRow, similar, unconfirmed, crossed>> /\ ClientWaits
      /\ Answering(n, "created")
  BY DEF ServePropose
<1>2. PICK id \in Nat : id = Cardinality(proposals) + 1
  BY FS_CardinalityType DEF SaveInv, FormTyped
<1>3. PICK c \in Saves : c = saves[n]
  BY DEF SaveInv, FormTyped
<1>4. PICK p : p = [id |-> id, mode |-> c.mode, patch |-> c.patch, typed |-> c.typed,
                    ticked |-> c.ticked, sure |-> c.sure]
  OBVIOUS
<1>5. proposals' = proposals \cup {p} /\ c.pc = "sent" /\ c.kind = "propose"
  BY <1>2, <1>3, <1>4 DEF ServePropose
<1>6. p \in Proposals /\ p.sure = c.sure /\ p.patch = c.patch /\ p.typed = c.typed
      /\ p.ticked = c.ticked
  BY <1>4 DEF Saves, Proposals
<1>7. /\ saves' \in [SaveIds -> Saves] /\ saves'[n].pc \in {"none", "answered"}
      /\ \A m \in SaveIds \ {n} : saves'[m] = saves[m]
  BY <1>1, AnswerIs
<1>8. FormTyped'
  <2>1. IsFiniteSet(proposals')
    BY <1>5, FS_AddElement DEF SaveInv, FormTyped
  <2>2. QED
    BY <1>1, <1>5, <1>6, <1>7, <2>1 DEF SaveInv, FormTyped, ClientWaits
<1>9. Holds'
  BY <1>1 DEF SaveInv, Holds, IsRead, ClientWaits
<1>10. p.sure => \A op \in p.patch : MayPropose(op, p.typed, p.ticked)
  BY <1>3, <1>5, <1>6 DEF SaveInv, Meant
<1>11. CreatedOnce'
  BY <1>1, <1>7 DEF SaveInv, CreatedOnce, Searched
<1>12. QED
  BY <1>1, <1>5, <1>7, <1>8, <1>9, <1>10, <1>11, OthersMeant DEF SaveInv

LEMMA ProposalCreatedKeeps == ASSUME SaveInv, NEW n \in SaveIds, ProposalCreated(n) PROVE SaveInv'
<1>1. UNCHANGED serverSide /\ ClientWaits /\ saves[n].pc = "answered"
      /\ saves' = [saves EXCEPT ![n].kind = "submit", ![n].answer = "ok"]
  BY DEF ProposalCreated, Heard
<1>2. /\ saves' \in [SaveIds -> Saves] /\ saves'[n].pc = "answered"
      /\ \A m \in SaveIds \ {n} : saves'[m] = saves[m]
  <2>1. PICK c \in Saves : c = saves[n]
    BY DEF SaveInv, FormTyped
  <2>2. PICK d : d = [c EXCEPT !.kind = "submit", !.answer = "ok"]
    OBVIOUS
  <2>3. saves' = [saves EXCEPT ![n] = d]
    BY <1>1, <2>1, <2>2 DEF SaveInv, FormTyped
  <2>4. d \in Saves /\ d.pc = "answered"
    BY <1>1, <2>1, <2>2 DEF Saves
  <2>5. QED
    BY <2>3, <2>4 DEF SaveInv, FormTyped
<1>3. FormTyped'
  BY <1>1, <1>2 DEF SaveInv, FormTyped, ClientWaits, serverSide
<1>4. Holds'
  BY <1>1 DEF SaveInv, Holds, IsRead, ClientWaits, serverSide
<1>5. QED
  BY <1>1, <1>2, <1>3, <1>4, FormSideKeeps DEF Meant

LEMMA SaveNextKeeps == ASSUME SaveInv, NEW n \in SaveIds, SaveNext(n) PROVE SaveInv'
BY ServeUpdateKeeps, FindDuplicatesKeeps, InsertPersonKeeps, ServeProposeKeeps,
   ProposalCreatedKeeps, SavedKeeps, SaveEndsKeeps DEF SaveNext

LEMMA SaveStepKeeps == ASSUME SaveInv, [FormNext]_formVars PROVE SaveInv'
<1>1. CASE UNCHANGED formVars
  <2>1. UNCHANGED <<personRow, similar, unconfirmed, crossed, proposals, screen, original>>
        /\ UNCHANGED <<versionHeld, form, typed, keys, parentCall, saves>>
    BY <1>1 DEF formVars
  <2>2. FormTyped' /\ Holds' /\ UNCHANGED serverSide
    BY <2>1 DEF SaveInv, FormTyped, Holds, IsRead, serverSide
  <2>3. QED
    BY <2>1, <2>2, FormSideKeeps
<1>2. ASSUME NEW f \in Fields, NEW v \in Values(f), OthersUpdate(f, v) \/ TypeInto(f, v)
      PROVE  SaveInv'
  BY <1>2, OthersUpdateKeeps, TypeIntoKeeps
<1>3. ASSUME NEW mode \in {"new", "edit"}, NEW w \in BOOLEAN, OpenForm(mode, w)
      PROVE  SaveInv'
  BY <1>3, OpenFormKeeps
<1>4. CASE OthersCreate \/ PersonLoaded \/ LoadFails \/ \E found \in BOOLEAN : ParentAnswers(found)
  BY <1>4, OthersCreateKeeps, PersonLoadedKeeps, LoadFailsKeeps, ParentAnswersKeeps
<1>5. CASE doUpdate \/ doCreate \/ confirmDuplicateCreate \/ submitAsChangeRequest
  BY <1>5, UpdateKeeps, CreateKeeps, ProposeKeeps
<1>6. CASE cancelDuplicates
  BY <1>6, CancelKeeps
<1>7. ASSUME NEW n \in SaveIds, SaveNext(n) PROVE SaveInv'
  BY <1>7, SaveNextKeeps
<1>8. QED
  BY <1>1, <1>2, <1>3, <1>4, <1>5, <1>6, <1>7, Zenon DEF FormNext

\* An update that the server has accepted has written what was meant.
LEMMA UpdateIsMeant ==
  ASSUME SaveInv, NEW n \in SaveIds, ServeUpdate(n),
         NEW f \in Fields, personRow'[f] # personRow[f]
  PROVE  f \in saves[n].typed
<1>1. /\ saves[n].pc = "sent" /\ saves[n].kind = "update"
      /\ saves[n].version = personRow["version"] /\ personRow["version"] # 0
      /\ f \in DOMAIN saves[n].dto /\ personRow'[f] = saves[n].dto[f]
  BY UpdateWrites DEF SaveInv, FormTyped
<1>2. f \in saves[n].typed \/ saves[n].dto[f] = personRow[f]
  BY <1>1 DEF SaveInv, Meant
<1>3. QED
  BY <1>1, <1>2

LEMMA SaveStepIsMeant ==
  ASSUME SaveInv, SaveInv'
  PROVE  /\ \A f \in Fields, n \in SaveIds :
              ServeUpdate(n) /\ personRow'[f] # personRow[f] => f \in saves[n].typed
         /\ \A p \in proposals' : p.mode = "edit" /\ p.sure =>
              \A op \in p.patch : \/ op.field \in p.typed
                                  \/ ~p.ticked /\ op = [op |-> "remove", field |-> "deathDate"]
         /\ (crossed' \/ unconfirmed' <= 1)
<1>1. \A f \in Fields, n \in SaveIds :
        ServeUpdate(n) /\ personRow'[f] # personRow[f] => f \in saves[n].typed
  BY UpdateIsMeant
<1>2. \A p \in proposals' : p.mode = "edit" /\ p.sure =>
        \A op \in p.patch : \/ op.field \in p.typed
                            \/ ~p.ticked /\ op = [op |-> "remove", field |-> "deathDate"]
  BY DEF SaveInv, MayPropose
<1>3. crossed' \/ unconfirmed' <= 1
  BY DEF SaveInv, CreatedOnce
<1>4. QED
  BY <1>1, <1>2, <1>3

\* person-form.component.ts, submit() and what the server makes of it: an update changes
\* only fields its user typed; a proposal made of a person that was read touches only
\* such fields, or removes the date of death of somebody not ticked as deceased; and a
\* similar person is created twice only if somebody confirmed it or two creations
\* crossed, whatever was still being read, failed, was given up or was written by
\* others meanwhile.
THEOREM SavesDoWhatWasMeant == FormSpec => SavesAreMeant
<1>1. FormInit => SaveInv
  BY FormStarts
<1>2. SaveInv /\ [FormNext]_formVars => SaveInv'
  BY SaveStepKeeps
<1>3. SaveInv /\ [FormNext]_formVars /\ SaveInv' =>
        [/\ \A f \in Fields, n \in SaveIds :
              ServeUpdate(n) /\ personRow'[f] # personRow[f] => f \in saves[n].typed
         /\ \A p \in proposals' : p.mode = "edit" /\ p.sure =>
              \A op \in p.patch : \/ op.field \in p.typed
                                  \/ ~p.ticked /\ op = [op |-> "remove", field |-> "deathDate"]
         /\ (crossed' \/ unconfirmed' <= 1)]_formVars
  BY SaveStepIsMeant
<1>4. QED
  BY <1>1, <1>2, <1>3, PTL DEF FormSpec, SavesAreMeant

-----------------------------------------------------------------------------
(* ScreenAccess.  Navigation stays among the screens that the known roles    *)
(* show; what those load and offer is looked up in the matrix, call by call. *)

\* The roles that may make a call, by the matrix alone.
Required(ctl, h) == PermissionMatrix[Api[ctl][h]]

\* The matrix, looked up for the cs of the screens.
LEMMA ReadPermissions ==
  \A perm \in {"person_read", "tribalUnit_read", "tree_read", "changeRequest_create",
               "changeRequest_read", "notification_read", "export_read", "reputation_read"} :
    PermissionMatrix[perm] = ReadRoles
BY DEF PermissionMatrix

LEMMA WritePermissions ==
  \A perm \in {"person_create", "person_update", "import_read", "import_create",
               "document_read", "document_write"} :
    PermissionMatrix[perm] \in {ReadRoles, WriteRoles}
BY DEF PermissionMatrix

LEMMA AdminPermissions ==
  \A perm \in {"person_delete", "tribalUnit_write", "tenant_update", "import_rollback",
               "workflowSettings_read", "workflowSettings_update", "visibilitySettings_read",
               "visibilitySettings_update", "viewRequest_manage", "stats_read",
               "reputation_manage"} :
    PermissionMatrix[perm] = Admins
BY DEF PermissionMatrix

LEMMA ReviewPermission == PermissionMatrix["changeRequest_review"] = Admins \cup {"reviewer"}
BY DEF PermissionMatrix

LEMMA Controllers ==
  /\ Api["persons"] = PersonsController /\ Api["tribalUnits"] = TribalUnitsController
  /\ Api["changeRequests"] = ChangeRequestController
  /\ Api["workflow"] = WorkflowSettingsController
  /\ Api["visibility"] = VisibilitySettingsController
  /\ Api["tenant"] = TenantSettingsController /\ Api["stats"] = StatsController
  /\ Api["exports"] = ExportController /\ Api["reputation"] = ReputationController
  /\ Api["notifications"] = NotificationController /\ Api["imports"] = ImportController
  /\ Api["viewRequests"] = ViewRequestController /\ Api["documents"] = DocumentController
  /\ Api["tree"] = LineageController
BY DEF Api

\* What each call of a screen requires.
LEMMA OfPersons ==
  /\ Required("persons", "list") = ReadRoles /\ Required("persons", "findOne") = ReadRoles
  /\ Required("persons", "create") \in {ReadRoles, WriteRoles}
  /\ Required("persons", "update") \in {ReadRoles, WriteRoles}
  /\ Required("persons", "remove") = Admins
<1>1. /\ PersonsController["list"] = "person_read" /\ PersonsController["findOne"] = "person_read"
      /\ PersonsController["create"] = "person_create"
      /\ PersonsController["update"] = "person_update"
      /\ PersonsController["remove"] = "person_delete"
  BY DEF PersonsController
<1>2. QED
  BY <1>1, Controllers, ReadPermissions, WritePermissions, AdminPermissions DEF Required

LEMMA OfUnitsAndRequests ==
  /\ Required("tribalUnits", "findAll") = ReadRoles
  /\ \A h \in {"create", "update", "remove"} : Required("tribalUnits", h) = Admins
  /\ \A h \in {"list", "findOne", "create", "update", "submit"} :
       Required("changeRequests", h) = ReadRoles
  /\ Required("changeRequests", "review") = Admins \cup {"reviewer"}
<1>1. /\ TribalUnitsController["findAll"] = "tribalUnit_read"
      /\ \A h \in {"create", "update", "remove"} : TribalUnitsController[h] = "tribalUnit_write"
  BY DEF TribalUnitsController
<1>2. /\ \A h \in {"list", "findOne", "create", "update", "submit"} :
           ChangeRequestController[h] \in {"changeRequest_create", "changeRequest_read"}
      /\ ChangeRequestController["review"] = "changeRequest_review"
  BY DEF ChangeRequestController
<1>3. QED
  BY <1>1, <1>2, Controllers, ReadPermissions, AdminPermissions, ReviewPermission DEF Required

LEMMA OfReads ==
  /\ Required("tree", "getTree") = ReadRoles
  /\ \A h \in {"treePdf", "treePng", "personsXlsx", "personsCsv"} :
       Required("exports", h) = ReadRoles
  /\ \A h \in {"list", "markRead", "markAllRead"} : Required("notifications", h) = ReadRoles
  /\ Required("reputation", "me") = ReadRoles
<1>1. LineageController["getTree"] = "tree_read" /\ ReputationController["me"] = "reputation_read"
  BY DEF LineageController, ReputationController
<1>2. \A h \in {"treePdf", "treePng", "personsXlsx", "personsCsv"} :
        ExportController[h] = "export_read"
  BY DEF ExportController
<1>3. \A h \in {"list", "markRead", "markAllRead"} : NotificationController[h] = "notification_read"
  BY DEF NotificationController
<1>4. QED
  BY <1>1, <1>2, <1>3, Controllers, ReadPermissions DEF Required

LEMMA OfWrites ==
  /\ \A h \in {"template", "upload", "list", "get", "rows", "updateRow", "submit"} :
       Required("imports", h) \in {ReadRoles, WriteRoles}
  /\ \A h \in {"presign", "confirm", "list", "remove"} :
       Required("documents", h) \in {ReadRoles, WriteRoles}
<1>1. \A h \in {"template", "upload", "list", "get", "rows", "updateRow", "submit"} :
        ImportController[h] \in {"import_read", "import_create"}
  BY DEF ImportController
<1>2. \A h \in {"presign", "confirm", "list", "remove"} :
        DocumentController[h] \in {"document_read", "document_write"}
  BY DEF DocumentController
<1>3. QED
  BY <1>1, <1>2, Controllers, WritePermissions DEF Required

LEMMA OfAdmins ==
  /\ \A h \in {"get", "update"} :
       Required("workflow", h) = Admins /\ Required("visibility", h) = Admins
  /\ \A h \in {"update", "logoUpload"} : Required("tenant", h) = Admins
  /\ Required("stats", "tribe") = Admins /\ Required("imports", "rollback") = Admins
  /\ \A h \in {"list", "getThresholds", "updateThresholds"} : Required("reputation", h) = Admins
  /\ \A h \in {"list", "approve", "reject"} : Required("viewRequests", h) = Admins
<1>1. \A h \in {"get", "update"} :
        /\ WorkflowSettingsController[h] \in {"workflowSettings_read", "workflowSettings_update"}
        /\ VisibilitySettingsController[h] \in
             {"visibilitySettings_read", "visibilitySettings_update"}
  BY DEF WorkflowSettingsController, VisibilitySettingsController
<1>2. /\ \A h \in {"update", "logoUpload"} : TenantSettingsController[h] = "tenant_update"
      /\ StatsController["tribe"] = "stats_read" /\ ImportController["rollback"] = "import_rollback"
  BY DEF TenantSettingsController, StatsController, ImportController
<1>3. /\ \A h \in {"list", "getThresholds", "updateThresholds"} :
           ReputationController[h] = "reputation_manage"
      /\ \A h \in {"list", "approve", "reject"} : ViewRequestController[h] = "viewRequest_manage"
  BY DEF ReputationController, ViewRequestController
<1>4. QED
  BY <1>1, <1>2, <1>3, Controllers, AdminPermissions DEF Required

\* Every call of these is permitted.
Fine(roles, cs) == \A call \in cs : Permits(roles, call)

LEMMA OnIsFine ==
  ASSUME NEW roles, NEW ctl, NEW hs,
         \A h \in hs : roles \cap Required(ctl, h) # {},
         "create" \in hs /\ ctl = "changeRequests" => roles \cap ContributorRoles # {}
  PROVE  Fine(roles, On(ctl, hs))
<1> SUFFICES ASSUME NEW call \in On(ctl, hs) PROVE Permits(roles, call)
  BY DEF Fine
<1>1. PICK h \in hs : call = <<ctl, h>>
  BY DEF On
<1>2. roles \cap PermissionMatrix[Api[call[1]][call[2]]] # {}
  BY <1>1 DEF Required
<1>3. call = <<"changeRequests", "create">> => roles \cap ContributorRoles # {}
  BY <1>1
<1>4. QED
  BY <1>2, <1>3 DEF Permits

LEMMA UnionIsFine ==
  ASSUME NEW roles, NEW a, NEW b, Fine(roles, a), Fine(roles, b) PROVE Fine(roles, a \cup b)
BY DEF Fine

LEMMA WhenIsFine ==
  ASSUME NEW roles, NEW gate \in BOOLEAN, NEW cs, gate => Fine(roles, cs)
  PROVE  Fine(roles, When(gate, cs))
BY DEF Fine, When

LEMMA EmptyIsFine == ASSUME NEW roles PROVE Fine(roles, {})
BY DEF Fine

\* What the roles amount to.
LEMMA RolesAre ==
  ASSUME NEW r, NEW roles, r \subseteq roles
  PROVE  /\ CanWrite(r) \in BOOLEAN /\ CanReview(r) \in BOOLEAN /\ IsTribeAdmin(r) \in BOOLEAN
         /\ CanWrite(r) => roles \cap WriteRoles # {} /\ roles \cap ReadRoles # {}
         /\ IsTribeAdmin(r) => roles \cap Admins # {} /\ roles \cap ReadRoles # {}
         /\ CanWrite(r) /\ ("branch_admin" \in r => r \cap Admins # {}) => roles \cap Admins # {}
         /\ CanReview(r) /\ ("branch_admin" \in r => r \cap Admins # {}) =>
              roles \cap (Admins \cup {"reviewer"}) # {}
BY DEF CanWrite, CanReview, IsTribeAdmin, Admins, WriteRoles, ReadRoles

\* The screens of the sidebar and what they lead to.
Reachable(r) == NavItems(r) \cup {"person", "change-request"}
              \cup When(CanWrite(r), {"import", "import-new"})

\* Navigation stays among them, and a lapsed session has no grants.
AccessInv ==
  /\ signed /\ reached = "nav" => page \in Reachable(knownRoles)
  /\ lapsed => granted = {}

LEMMA LinksAreShown ==
  ASSUME NEW r, NEW from \in Reachable(r), NEW to \in Links(from) PROVE to \in Reachable(r)
<1>1. CASE from \in {"imports", "import-new"}
  BY <1>1 DEF Links, Reachable, NavItems, When
<1>2. CASE from \notin {"imports", "import-new"}
  BY <1>2 DEF Links, Reachable
<1>3. QED
  BY <1>1, <1>2

LEMMA LandKeeps ==
  ASSUME NEW route, NEW how, NEW r, NEW cs, Land(route, how, r, cs),
         UNCHANGED <<granted, lapsed>>, AccessInv,
         how = "nav" => route \in Reachable(r)
  PROVE  AccessInv'
<1>1. CASE lapsed
  BY <1>1 DEF Land, DropSession, AccessInv
<1>2. CASE ~lapsed
  BY <1>2 DEF Land, AccessInv
<1>3. QED
  BY <1>1, <1>2

LEMMA AccessStepKeeps == ASSUME AccessInv, [AccessNext]_accessVars PROVE AccessInv'
<1>1. CASE SignIn
  BY <1>1 DEF SignIn, AccessInv, Reachable, NavItems
<1>2. CASE SignOut
  BY <1>2 DEF SignOut, DropSession, AccessInv
<1>3. CASE GrantLapses
  BY <1>3 DEF GrantLapses, AccessInv
<1>4. ASSUME NEW route \in Routes, Reload(route) PROVE AccessInv'
  BY <1>4, LandKeeps DEF Reload
<1>5. ASSUME NEW route \in Routes, FollowNav(route) PROVE AccessInv'
  BY <1>5, LandKeeps DEF FollowNav, Reachable
<1>6. ASSUME NEW route \in Routes, FollowLink(route) PROVE AccessInv'
  BY <1>6, LandKeeps, LinksAreShown DEF FollowLink, AccessInv
<1>7. ASSUME NEW call, Act(call) PROVE AccessInv'
  BY <1>7 DEF Act, DropSession, AccessInv
<1>8. ASSUME NEW roles \in Grants, ChangeGrants(roles) PROVE AccessInv'
  BY <1>8 DEF ChangeGrants, AccessInv
<1>9. CASE UNCHANGED accessVars
  BY <1>9 DEF accessVars, AccessInv
<1>10. QED
  BY <1>1, <1>2, <1>3, <1>4, <1>5, <1>6, <1>7, <1>8, <1>9, Zenon DEF AccessNext

LEMMA Screens ==
  ASSUME NEW r
  PROVE  /\ ScreenOf("persons", r) = PersonsList(r) /\ ScreenOf("person", r) = PersonFormScreen(r)
         /\ ScreenOf("tribal-units", r) = TribalUnitsScreen(r) /\ ScreenOf("tree", r) = TreeScreen(r)
         /\ ScreenOf("change-requests", r) = QueueScreen(r)
         /\ ScreenOf("change-request", r) = RequestScreen(r)
         /\ ScreenOf("my-requests", r) = MineScreen(r) /\ ScreenOf("imports", r) = ImportsScreen(r)
         /\ ScreenOf("import-new", r) = WizardScreen(r) /\ ScreenOf("import", r) = BatchScreen(r)
         /\ ScreenOf("settings", r) = SettingsScreen(r)
         /\ ScreenOf("workflow-settings", r) = WorkflowScreen(r)
         /\ ScreenOf("visibility-settings", r) = VisibilityScreen(r)
         /\ ScreenOf("view-requests", r) = ViewersScreen(r)
         /\ ScreenOf("dashboard", r) = DashboardScreen(r)
         /\ ScreenOf("reputation", r) = ContributorsScreen(r)
         /\ ScreenOf("my-reputation", r) = MyReputationScreen(r)
BY DEF ScreenOf

LEMMA ScreenHas ==
  ASSUME NEW a, NEW b PROVE Screen(a, b).loads = a /\ Screen(a, b).offers = b
BY DEF Screen

\* Calls that everybody with a tribe's role may make, and that the admins may.
LEMMA ReadersMay ==
  ASSUME NEW roles, roles \cap ReadRoles # {}
  PROVE  /\ Fine(roles, On("persons", {"list"})) /\ Fine(roles, On("persons", {"list", "findOne"}))
         /\ Fine(roles, On("persons", {"findOne"})) /\ Fine(roles, On("tribalUnits", {"findAll"}))
         /\ Fine(roles, On("tree", {"getTree"})) /\ Fine(roles, On("changeRequests", {"list"}))
         /\ Fine(roles, On("changeRequests", {"findOne"}))
         /\ Fine(roles, On("changeRequests", {"update", "submit"}))
         /\ Fine(roles, On("reputation", {"me"}))
         /\ Fine(roles, On("notifications", {"markRead", "markAllRead"}))
         /\ Fine(roles, On("exports", {"treePdf", "treePng"}))
         /\ Fine(roles, On("exports", {"personsXlsx", "personsCsv"}))
BY OnIsFine, OfPersons, OfUnitsAndRequests, OfReads

LEMMA WritersMay ==
  ASSUME NEW roles, roles \cap WriteRoles # {}, roles \cap ReadRoles # {}
  PROVE  /\ Fine(roles, On("persons", {"create", "update"}))
         /\ Fine(roles, On("documents", {"list", "presign", "confirm", "remove"}))
         /\ Fine(roles, On("imports", {"list"})) /\ Fine(roles, On("imports", {"get"}))
         /\ Fine(roles, On("imports", {"template", "upload", "rows", "updateRow", "submit"}))
         /\ Fine(roles, On("imports", {"rows", "updateRow", "submit"}))
BY OnIsFine, OfPersons, OfWrites

LEMMA AdminsMay ==
  ASSUME NEW roles, roles \cap Admins # {}
  PROVE  /\ Fine(roles, On("persons", {"remove"}))
         /\ Fine(roles, On("tribalUnits", {"create", "update", "remove"}))
         /\ Fine(roles, On("imports", {"rollback"}))
         /\ Fine(roles, On("tenant", {"update", "logoUpload"}))
         /\ Fine(roles, On("workflow", {"get"})) /\ Fine(roles, On("workflow", {"update"}))
         /\ Fine(roles, On("visibility", {"get"})) /\ Fine(roles, On("visibility", {"update"}))
         /\ Fine(roles, On("viewRequests", {"list"}))
         /\ Fine(roles, On("viewRequests", {"approve", "reject"}))
         /\ Fine(roles, On("stats", {"tribe"}))
         /\ Fine(roles, On("reputation", {"list", "getThresholds"}))
         /\ Fine(roles, On("reputation", {"updateThresholds"}))
BY OnIsFine, OfPersons, OfUnitsAndRequests, OfAdmins

LEMMA ReviewersMay ==
  ASSUME NEW roles, roles \cap (Admins \cup {"reviewer"}) # {}
  PROVE  Fine(roles, On("changeRequests", {"review"}))
BY OnIsFine, OfUnitsAndRequests

LEMMA ContributorsMay ==
  ASSUME NEW roles, roles \cap ContributorRoles # {}
  PROVE  Fine(roles, On("changeRequests", {"create", "submit"})) /\ roles \cap ReadRoles # {}
<1>1. roles \cap ReadRoles # {}
  BY DEF ContributorRoles
<1>2. QED
  BY <1>1, OnIsFine, OfUnitsAndRequests

\* What the sidebar's screens load is well-formed.
LEMMA LoadsAreWellFormed ==
  ASSUME NEW r, NEW route \in NavItems(r) \ {"settings", "tree"}, NEW call \in LoadsOf(route, r)
  PROVE  call \notin IllFormed
<1>1. /\ PersonsList(r).loads = On("persons", {"list"})
      /\ TribalUnitsScreen(r).loads = On("tribalUnits", {"findAll"})
      /\ MineScreen(r).loads = On("changeRequests", {"list"})
      /\ QueueScreen(r).loads = On("changeRequests", {"list"})
      /\ MyReputationScreen(r).loads = On("reputation", {"me"})
      /\ DashboardScreen(r).loads = On("stats", {"tribe"})
      /\ WorkflowScreen(r).loads = On("workflow", {"get"})
      /\ VisibilityScreen(r).loads = On("visibility", {"get"})
      /\ ContributorsScreen(r).loads = On("reputation", {"list", "getThresholds"})
      /\ ViewersScreen(r).loads = On("viewRequests", {"list"})
      /\ ImportsScreen(r).loads = On("imports", {"list"})
  BY DEF PersonsList, TribalUnitsScreen, MineScreen, QueueScreen, MyReputationScreen,
         DashboardScreen, WorkflowScreen, VisibilityScreen, ContributorsScreen, ViewersScreen,
         ImportsScreen, Screen
<1>2. route \in {"persons", "tribal-units", "my-requests", "my-reputation", "change-requests",
                "dashboard", "workflow-settings", "visibility-settings", "reputation",
                "view-requests", "imports"}
  BY DEF NavItems, When
<1>3. call[1] \in {"persons", "tribalUnits", "changeRequests", "reputation", "stats", "workflow",
                  "visibility", "viewRequests", "imports"}
  BY <1>1, <1>2, Screens DEF LoadsOf, On
<1>4. \A c \in IllFormed : c[1] \in {"tree", "exports", "tenant"}
  BY DEF IllFormed, On
<1>5. QED
  BY <1>3, <1>4

\* The screens of the sidebar load.
LEMMA ShownLoads ==
  ASSUME NEW r, NEW roles, r \subseteq roles, roles \cap ReadRoles # {},
         NEW route \in NavItems(r) \ {"settings", "tree"}
  PROVE  Fine(roles, LoadsOf(route, r))
<1>1. CASE route \in {"persons", "tribal-units", "my-requests", "my-reputation",
                      "change-requests"}
  <2>1. /\ LoadsOf("persons", r) = On("persons", {"list"})
        /\ LoadsOf("tribal-units", r) = On("tribalUnits", {"findAll"})
    <3>1. /\ PersonsList(r).loads = On("persons", {"list"})
          /\ TribalUnitsScreen(r).loads = On("tribalUnits", {"findAll"})
      BY DEF PersonsList, TribalUnitsScreen, Screen
    <3>2. QED
      BY <3>1, Screens DEF LoadsOf
  <2>2. /\ LoadsOf("my-requests", r) = On("changeRequests", {"list"})
        /\ LoadsOf("change-requests", r) = On("changeRequests", {"list"})
        /\ LoadsOf("my-reputation", r) = On("reputation", {"me"})
    BY Screens, ScreenHas DEF LoadsOf, MineScreen, MyReputationScreen, QueueScreen
  <2>3. QED
    BY <1>1, <2>1, <2>2, ReadersMay
<1>2. CASE route \in {"dashboard", "workflow-settings", "visibility-settings", "reputation",
                      "view-requests"}
  <2>1. IsTribeAdmin(r)
    BY <1>2 DEF NavItems, When
  <2>2. roles \cap Admins # {}
    BY <2>1, RolesAre
  <2>3. QED
    BY <1>2, <2>2, Screens, ScreenHas, AdminsMay
       DEF LoadsOf, DashboardScreen, WorkflowScreen, VisibilityScreen, ContributorsScreen,
           ViewersScreen
<1>3. CASE route = "imports"
  <2>1. CanWrite(r)
    BY <1>3 DEF NavItems, When
  <2>2. QED
    <3>1. roles \cap WriteRoles # {}
      BY <2>1, RolesAre
    <3>2. LoadsOf("imports", r) = On("imports", {"list"})
      BY Screens, ScreenHas DEF LoadsOf, ImportsScreen
    <3>3. QED
      BY <1>3, <3>1, <3>2, WritersMay
<1>4. QED
  BY <1>1, <1>2, <1>3 DEF NavItems, When

\* What the screens that are shown offer is accepted.
LEMMA ShownOffers ==
  ASSUME NEW r, NEW roles, r \subseteq roles, roles \cap ContributorRoles # {},
         "branch_admin" \in r => r \cap Admins # {}, NEW route \in Reachable(r)
  PROVE  Fine(roles, ScreenOf(route, r).offers)
<1>1. /\ CanWrite(r) \in BOOLEAN /\ CanReview(r) \in BOOLEAN /\ IsTribeAdmin(r) \in BOOLEAN
      /\ roles \cap ReadRoles # {}
      /\ CanWrite(r) => roles \cap WriteRoles # {} /\ roles \cap Admins # {}
      /\ IsTribeAdmin(r) => roles \cap Admins # {}
      /\ CanReview(r) => roles \cap (Admins \cup {"reviewer"}) # {}
  BY RolesAre, ContributorsMay
<1>2. CASE route \in {"persons", "tribal-units", "tree", "settings"}
  <2>1. /\ Fine(roles, On("exports", {"personsXlsx", "personsCsv"}))
        /\ Fine(roles, On("exports", {"treePdf", "treePng"}))
    BY <1>1, ReadersMay
  <2>2. /\ Fine(roles, When(CanWrite(r), On("persons", {"remove"})))
        /\ Fine(roles, When(CanWrite(r), On("tribalUnits", {"create", "update", "remove"})))
        /\ Fine(roles, When(CanWrite(r), On("tenant", {"update", "logoUpload"})))
    BY <1>1, WhenIsFine, AdminsMay
  <2>3. Fine(roles, On("exports", {"personsXlsx", "personsCsv"})
                    \cup When(CanWrite(r), On("persons", {"remove"})))
    BY <2>1, <2>2, UnionIsFine
  <2>4. /\ PersonsList(r).offers = On("exports", {"personsXlsx", "personsCsv"})
                                     \cup When(CanWrite(r), On("persons", {"remove"}))
        /\ TribalUnitsScreen(r).offers =
             When(CanWrite(r), On("tribalUnits", {"create", "update", "remove"}))
        /\ TreeScreen(r).offers = On("exports", {"treePdf", "treePng"})
        /\ SettingsScreen(r).offers = When(CanWrite(r), On("tenant", {"update", "logoUpload"}))
    BY DEF PersonsList, TribalUnitsScreen, TreeScreen, SettingsScreen, Screen
  <2>5. QED
    BY <1>2, <2>1, <2>2, <2>3, <2>4, Screens
<1>3. CASE route = "person"
  <2>1. CASE CanWrite(r)
    <3>1. Fine(roles, On("persons", {"create", "update"})
                      \cup On("documents", {"list", "presign", "confirm", "remove"}))
      BY <1>1, <2>1, WritersMay, UnionIsFine
    <3>2. PersonFormScreen(r).offers =
            On("persons", {"create", "update"})
              \cup On("documents", {"list", "presign", "confirm", "remove"})
      BY <2>1 DEF PersonFormScreen, Screen
    <3>3. QED
      BY <1>3, <3>1, <3>2, Screens
  <2>2. CASE ~CanWrite(r)
    <3>1. PersonFormScreen(r).offers = On("changeRequests", {"create", "submit"})
      BY <2>2 DEF PersonFormScreen, Screen
    <3>2. QED
      BY <1>3, <3>1, Screens, ContributorsMay
  <2>3. QED
    BY <2>1, <2>2
<1>4. CASE route \in {"my-requests", "my-reputation", "change-requests", "dashboard", "imports"}
  BY <1>4, Screens, ScreenHas, EmptyIsFine
     DEF MineScreen, MyReputationScreen, QueueScreen, DashboardScreen, ImportsScreen
<1>5. CASE route = "change-request"
  <2> DEFINE editing == viewed.own /\ viewed.status \in {"editable", "conflict"}
             reviewing == CanReview(r) /\ ~viewed.own /\ viewed.status = "active"
  <2>1. Fine(roles, When(editing, Edits))
    BY <1>1, ReadersMay DEF Edits, When, Fine
  <2>2. Fine(roles, When(reviewing, On("changeRequests", {"review"})))
    <3>1. CASE reviewing
      BY <1>1, <3>1, ReviewersMay DEF When
    <3>2. CASE ~reviewing
      BY <3>2, EmptyIsFine DEF When
    <3>3. QED
      BY <3>1, <3>2
  <2>3. ScreenOf("change-request", r).offers =
          When(editing, Edits) \cup When(reviewing, On("changeRequests", {"review"}))
    <3>1. RequestScreen(r).offers =
            When(editing, Edits) \cup When(reviewing, On("changeRequests", {"review"}))
      BY DEF RequestScreen, Screen, Edits
    <3>2. QED
      BY <3>1, Screens
  <2> HIDE DEF editing, reviewing
  <2>4. QED
    BY <1>5, <2>1, <2>2, <2>3, UnionIsFine
<1>6. CASE route \in {"import", "import-new"}
  <2>1. CanWrite(r)
    BY <1>6 DEF Reachable, NavItems, When
  <2>2. /\ Fine(roles, On("imports", {"template", "upload", "rows", "updateRow", "submit"}))
        /\ Fine(roles, On("imports", {"rows", "updateRow", "submit"}))
    BY <1>1, <2>1, WritersMay
  <2>3. Fine(roles, When(IsTribeAdmin(r), On("imports", {"rollback"})))
    BY <1>1, WhenIsFine, AdminsMay
  <2>4. /\ ScreenOf("import-new", r).offers =
             On("imports", {"template", "upload", "rows", "updateRow", "submit"})
        /\ ScreenOf("import", r).offers =
             On("imports", {"rows", "updateRow", "submit"})
               \cup When(IsTribeAdmin(r), On("imports", {"rollback"}))
    <3>1. /\ WizardScreen(r).offers =
               On("imports", {"template", "upload", "rows", "updateRow", "submit"})
          /\ BatchScreen(r).offers =
               On("imports", {"rows", "updateRow", "submit"})
                 \cup When(IsTribeAdmin(r), On("imports", {"rollback"}))
      BY DEF WizardScreen, BatchScreen, Screen
    <3>2. QED
      BY <3>1, Screens
  <2>5. QED
    BY <1>6, <2>2, <2>3, <2>4, UnionIsFine
<1>7. CASE route \in {"workflow-settings", "visibility-settings", "reputation", "view-requests"}
  <2>1. IsTribeAdmin(r)
    BY <1>7 DEF Reachable, NavItems, When
  <2>2. QED
    BY <1>1, <1>7, <2>1, Screens, ScreenHas, AdminsMay
       DEF WorkflowScreen, VisibilityScreen, ContributorsScreen, ViewersScreen
<1>8. QED
  BY <1>2, <1>3, <1>4, <1>5, <1>6, <1>7 DEF Reachable, NavItems, When

\* What the page of a request offers goes with the request, unless it is in conflict.
LEMMA OffersSuit ==
  ASSUME NEW r, NEW call \in Offered(r),
         ~(page = "change-request" /\ viewed.status = "conflict" /\ call \in Edits)
  PROVE  Suits(call)
<1> SUFFICES ASSUME page = "change-request"
             PROVE  /\ call \in Edits => viewed.own /\ viewed.status = "editable"
                    /\ call = Review => ~viewed.own /\ viewed.status = "active"
  BY DEF Suits
<1>1. page \in Routes
  BY DEF Routes
<1>2. RequestScreen(r).offers =
        When(viewed.own /\ viewed.status \in {"editable", "conflict"}, Edits)
          \cup When(CanReview(r) /\ ~viewed.own /\ viewed.status = "active", {Review})
  <2>1. On("changeRequests", {"review"}) = {Review}
    BY DEF On, Review
  <2>2. QED
    BY <2>1 DEF RequestScreen, Screen, Edits
<1>3. call \in ShellOffers \cup RequestScreen(r).offers
  BY <1>1, Screens DEF Offered
<1>4. /\ \A c \in ShellOffers : c \notin Edits /\ c # Review
      /\ Review \notin Edits
  BY DEF ShellOffers, Edits, Review, On
<1>5. CASE call \in Edits
  <2>1. viewed.own /\ viewed.status \in {"editable", "conflict"}
    BY <1>2, <1>3, <1>4, <1>5 DEF When
  <2>2. QED
    BY <1>4, <1>5, <2>1
<1>6. CASE call = Review
  <2>1. ~viewed.own /\ viewed.status = "active"
    BY <1>2, <1>3, <1>4, <1>6 DEF When
  <2>2. QED
    BY <1>4, <1>6, <2>1
<1>7. QED
  BY <1>5, <1>6

LEMMA OfferIsAccepted ==
  ASSUME AccessInv, knownRoles \subseteq granted, reached = "nav",
         granted \cap ContributorRoles # {}, NEW call \in Offered(knownRoles) \ IllFormed,
         Act(call),
         ~(page = "change-request" /\ viewed.status = "conflict" /\ call \in Edits),
         "branch_admin" \in knownRoles => knownRoles \cap Admins # {}
  PROVE  answer' = "ok"
<1>1. ~lapsed /\ page \in Reachable(knownRoles)
  BY DEF AccessInv, Act
<1>2. Fine(granted, ScreenOf(page, knownRoles).offers)
  BY <1>1, ShownOffers
<1>3. Fine(granted, ShellOffers)
  BY ContributorsMay, ReadersMay DEF ShellOffers
<1>4. Permits(granted, call)
  BY <1>2, <1>3 DEF Offered, Fine
<1>5. Serves(call) /\ Suits(call)
  BY <1>4, OffersSuit DEF Serves
<1>6. QED
  BY <1>1, <1>5 DEF Act

LEMMA NavIsServed ==
  ASSUME knownRoles \subseteq granted, NEW route \in Routes \ {"settings", "tree"}, FollowNav(route),
         granted \cap ReadRoles # {}, ~lapsed
  PROVE  answer' = "ok"
<1>1. Fine(granted, LoadsOf(route, knownRoles))
  BY ShownLoads DEF FollowNav
<1>2. \A call \in LoadsOf(route, knownRoles) : call \notin IllFormed
  BY LoadsAreWellFormed DEF FollowNav
<1>3. QED
  BY <1>1, <1>2 DEF FollowNav, Land, Respond, Serves, Fine

\* shell.component.ts, navItems against permissions.ts: as long as the roles the client
\* knows are still granted, the API serves the screens the sidebar leads to and accepts
\* what they and the screens behind their links offer, whichever roles those are and
\* however they were granted, withdrawn or lapsed before.  Not /settings and /tree, the
\* calls the client never forms as the API wants them, and a request in conflict.
THEOREM ShownScreensWork == AccessSpec => OffersWork
<1>1. AccessInit => AccessInv
  BY DEF AccessInit, AccessInv
<1>2. AccessInv /\ [AccessNext]_accessVars => AccessInv'
  BY AccessStepKeeps
<1>3. AccessInv =>
        [knownRoles \subseteq granted =>
           /\ \A route \in Routes \ {"settings", "tree"} :
                FollowNav(route) /\ granted \cap ReadRoles # {} /\ ~lapsed => answer' = "ok"
           /\ reached = "nav" /\ granted \cap ContributorRoles # {} =>
                \A call \in Offered(knownRoles) \ IllFormed :
                  /\ Act(call)
                  /\ ~(page = "change-request" /\ viewed.status = "conflict" /\ call \in Edits)
                  /\ "branch_admin" \in knownRoles => knownRoles \cap Admins # {}
                  => answer' = "ok"]_accessVars
  BY NavIsServed, OfferIsAccepted
<1>4. QED
  BY <1>1, <1>2, <1>3, PTL DEF AccessSpec, OffersWork

=============================================================================
