-------------------------- MODULE GeocodeRequests --------------------------
(***************************************************************************)
(* Concurrent writers of the geocoding tables: POST /geocode and           *)
(* POST /geocode/{hash}/refresh, both paths of                             *)
(* PUT /geocode/{hash}/official, and one feature of "geo-import".          *)
(*                                                                         *)
(* CASCADE_ENABLED is a setting of the worker that serves a request, and   *)
(* workers with and without it can run side by side while it is changed:   *)
(* an operation says which of the two paths its worker takes.              *)
(*                                                                         *)
(* Each request is one database transaction, and each action is one        *)
(* statement of it together with the computation up to the next one.       *)
(* PostgreSQL runs at READ COMMITTED: a statement sees the committed       *)
(* tables and its own writes, and a write that meets another transaction's *)
(* uncommitted row of the same unique key waits for that transaction.      *)
(* Rows are named by (address, provider): the unique constraint and the    *)
(* absence of DELETE make that the same thing as the row id.               *)
(***************************************************************************)
EXTENDS Naturals, Sequences, FiniteSets

CONSTANTS
  Addresses,      \* canonical address hashes
  Requests,       \* requests that can be in flight together
  Remote,         \* providers with is_local = FALSE
  Local,          \* providers with is_local = TRUE
  Fuzzy,          \* the provider names "fuzzy_<source>"
  Admin,          \* the provider name "admin_override"
  Gis,            \* the provider name "bibb_county_gis"
  NoProvider,     \* no official_geocoding row; no winner
  RemoteOrder,    \* Remote in the order of app.state.providers
  Ops             \* the operations this instance exercises

Geocoders  == Remote \cup Local \cup Fuzzy
Provider   == Geocoders \cup {Admin, Gis}
CascadeOps == {"geocode", "dry_run", "refresh"}
LegacyOps  == {"legacy", "legacy_refresh"}  \* it has no dry run
GeocodeOps == CascadeOps \cup LegacyOps
AllOps     == GeocodeOps \cup {"select", "override", "import"}

(* The paths of this instance, as the ledger tells them apart. *)
Path(o) == IF o \in LegacyOps THEN "legacy" ELSE "cascade"
Paths   == {Path(o) : o \in Ops \cap GeocodeOps}

(* "absent": no row. "NO_MATCH": confidence 0 and NULL coordinates. *)
Row == {"absent", "NO_MATCH", "MATCH"}

ASSUME NamesAreDistinct ==
  /\ NoProvider \notin Provider
  /\ Admin \notin Geocoders /\ Gis \notin Geocoders /\ Admin # Gis
  /\ Remote \cap Local = {} /\ Remote \cap Fuzzy = {} /\ Local \cap Fuzzy = {}
ASSUME OrderListsRemote == RemoteOrder \in Seq(Remote)
ASSUME OpsAreKnown == Ops \subseteq AllOps

VARIABLES
  address, rows, official, override, \* the committed tables
  pc, op, addr,  \* where request r is, its operation and its address
  found,         \* found[r][p]: remote answer still to be written
  seen,          \* seen[r][p]: the row as the session's identity map holds it
  winner,        \* provider of the row the request is about to make official
  broken,        \* legacy: a swallowed SQL error aborted the transaction
  txAddr, txRow, txOff, txOvr \* rows written by r and not yet committed

tables  == <<address, rows, official, override>>
writes  == <<txAddr, txRow, txOff, txOvr>>
vars    == <<tables, pc, op, addr, found, seen, winner, broken, writes>>

(* The committed tables are the ledger's; what a request is at, found, saw *)
(* and has not yet committed is no part of it.                             *)
Ledger == INSTANCE OfficialLedger WITH
  address <- address, rows <- rows, official <- official, override <- override

NoRows == [p \in Provider |-> "absent"]
NoneFound == [p \in Remote |-> "absent"]

PCs == {"idle", "lookup", "create", "cached", "exact", "remote", "admin",
        "persist", "official", "insert", "ovrRow", "ovrRecord",
        "impAddress", "impRow", "impCheck", "commit"}

TypeOK ==
  /\ address  \in [Addresses -> BOOLEAN]
  /\ rows     \in [Addresses -> [Provider -> Row]]
  /\ official \in [Addresses -> Provider \cup {NoProvider}]
  /\ override \in [Addresses -> BOOLEAN]
  /\ pc     \in [Requests -> PCs]
  /\ op     \in [Requests -> AllOps]
  /\ addr   \in [Requests -> Addresses]
  /\ found  \in [Requests -> [Remote -> Row]]
  /\ seen   \in [Requests -> [Provider -> Row]]
  /\ winner \in [Requests -> Provider \cup {NoProvider}]
  /\ broken \in [Requests -> BOOLEAN]
  /\ txAddr \in [Requests -> BOOLEAN]
  /\ txRow  \in [Requests -> [Provider -> Row]]
  /\ txOff  \in [Requests -> Provider \cup {NoProvider}]
  /\ txOvr  \in [Requests -> BOOLEAN]

(* The tables start empty but for addresses that POST /validate, or a      *)
(* geocoding no provider answered, has already created.                    *)
Init ==
  /\ address  \in [Addresses -> BOOLEAN]
  /\ rows     = [a \in Addresses |-> NoRows]
  /\ official = [a \in Addresses |-> NoProvider]
  /\ override = [a \in Addresses |-> FALSE]
  /\ pc     = [r \in Requests |-> "idle"]
  /\ op     = [r \in Requests |-> "geocode"]
  /\ addr   \in [Requests -> Addresses]
  /\ found  = [r \in Requests |-> NoneFound]
  /\ seen   = [r \in Requests |-> NoRows]
  /\ winner = [r \in Requests |-> NoProvider]
  /\ broken = [r \in Requests |-> FALSE]
  /\ txAddr = [r \in Requests |-> FALSE]
  /\ txRow  = [r \in Requests |-> NoRows]
  /\ txOff  = [r \in Requests |-> NoProvider]
  /\ txOvr  = [r \in Requests |-> FALSE]

-----------------------------------------------------------------------------
(* What a transaction sees, and what makes its next write wait. *)

Others(r) == {s \in Requests \ {r} : addr[s] = addr[r]}

SeesAddress(r) == address[addr[r]] \/ txAddr[r]
AddressFree(r) == \A s \in Others(r) : ~txAddr[s]
RowFree(r, p)  == \A s \in Others(r) : txRow[s][p] = "absent"
OfficialFree(r) == \A s \in Others(r) : txOff[s] = NoProvider
OverrideFree(r) == \A s \in Others(r) : ~txOvr[s]

(* p is the next remote provider whose answer the request writes. *)
NextRemote(r, p) ==
  \E i \in DOMAIN RemoteOrder :
    /\ RemoteOrder[i] = p
    /\ found[r][p] # "absent"
    /\ \A j \in 1 .. (i - 1) : found[r][RemoteOrder[j]] = "absent"
AllWritten(r) == found[r] = NoneFound

Goto(r, l) == pc' = [pc EXCEPT ![r] = l]

(* The session closes: what is not committed is rolled back. *)
Close(r) ==
  /\ pc'     = [pc     EXCEPT ![r] = "idle"]
  /\ op'     = [op     EXCEPT ![r] = "geocode"]
  /\ found'  = [found  EXCEPT ![r] = NoneFound]
  /\ seen'   = [seen   EXCEPT ![r] = NoRows]
  /\ winner' = [winner EXCEPT ![r] = NoProvider]
  /\ broken' = [broken EXCEPT ![r] = FALSE]
  /\ txAddr' = [txAddr EXCEPT ![r] = FALSE]
  /\ txRow'  = [txRow  EXCEPT ![r] = NoRows]
  /\ txOff'  = [txOff  EXCEPT ![r] = NoProvider]
  /\ txOvr'  = [txOvr  EXCEPT ![r] = FALSE]
  /\ UNCHANGED addr

(* A request arrives for address a and executes its first statement. *)
Begin(r, o, a, l) ==
  /\ pc[r] = "idle"
  /\ o \in Ops
  /\ op'   = [op EXCEPT ![r] = o]
  /\ addr' = [addr EXCEPT ![r] = a]
  /\ Goto(r, l)
  /\ UNCHANGED <<tables, found, seen, broken, writes>>

-----------------------------------------------------------------------------
(* POST /geocode and POST /geocode/{hash}/refresh. *)

GeocodeBegin(r, o, a) ==
  Begin(r, o, a, "lookup") /\ UNCHANGED winner

(* Only a known address can be refreshed (404 otherwise). *)
RefreshBegin(r, o, a) ==
  address[a] /\ Begin(r, o, a, "lookup") /\ UNCHANGED winner

(* force_refresh reaches _legacy_geocode but not CascadeOrchestrator.run. *)
UsesCache(r) == rows[addr[r]] # NoRows /\ op[r] # "legacy_refresh"

(* selectinload brings the rows of the address into the session. *)
Lookup(r) ==
  /\ pc[r] = "lookup"
  /\ Goto(r, IF ~address[addr[r]] THEN "create"
             ELSE IF UsesCache(r) THEN "cached" ELSE "exact")
  /\ seen' = [seen EXCEPT ![r] = rows[addr[r]]]
  /\ UNCHANGED <<tables, op, addr, found, winner, broken, writes>>

(* Mutant: a duplicate is retried without looking the address up again. *)
RetryCreate(r) ==
  /\ pc[r] = "create"
  /\ AddressFree(r)
  /\ \/ /\ ~address[addr[r]]
        /\ txAddr' = [txAddr EXCEPT ![r] = TRUE]
        /\ Goto(r, "exact")
     \/ address[addr[r]] /\ UNCHANGED <<pc, txAddr>>
  /\ UNCHANGED <<tables, op, addr, found, seen, winner, broken, txRow, txOff, txOvr>>

(* INSERT INTO addresses by the ORM flush: it waits for a rival insert and *)
(* raises IntegrityError if that one has committed.                        *)
CreateAddress(r) ==
  /\ pc[r] = "create"
  /\ AddressFree(r)
  /\ \/ /\ ~address[addr[r]]
        /\ txAddr' = [txAddr EXCEPT ![r] = TRUE]
        /\ Goto(r, "exact")
        /\ UNCHANGED <<op, addr, found, seen, winner, broken, txRow, txOff, txOvr>>
     \/ address[addr[r]] /\ Close(r)
  /\ UNCHANGED tables

(* Cached rows are answered as they are: local providers and consensus run *)
(* for the reply only, and the commit has nothing to write.                *)
CacheHit(r) ==
  /\ pc[r] = "cached"
  /\ Close(r)
  /\ UNCHANGED tables

(* Mutant: a timeout is recorded as if it were an answer. *)
KeepTimeouts(r) ==
  /\ pc[r] = "exact"
  /\ \E answers \in [Remote -> Row \cup {"TIMEOUT"}] :
       found' = [found EXCEPT ![r] = answers]
  /\ Goto(r, "remote")
  /\ UNCHANGED <<tables, op, addr, seen, winner, broken, writes>>

(* Each remote provider answers; a timeout or an error leaves no answer. *)
CallProviders(r) ==
  /\ pc[r] = "exact"
  /\ \E answers \in [Remote -> Row] : found' = [found EXCEPT ![r] = answers]
  /\ Goto(r, "remote")
  /\ UNCHANGED <<tables, op, addr, seen, winner, broken, writes>>

(* The re-query after an upsert gives the object the session already has   *)
(* for that row, with the values it was first loaded with.                 *)
Requeried(r, p) == IF seen[r][p] = "absent" THEN found[r][p] ELSE seen[r][p]

(* INSERT ... ON CONFLICT DO UPDATE of the answer of the next provider and *)
(* the re-query of its row.                                                *)
WriteAnswer(r, p) ==
  /\ RowFree(r, p)
  /\ txRow' = [txRow EXCEPT ![r][p] = found[r][p]]
  /\ seen'  = [seen  EXCEPT ![r][p] = Requeried(r, p)]
  /\ found' = [found EXCEPT ![r][p] = "absent"]
  /\ UNCHANGED <<tables, pc, op, addr, broken, txAddr, txOff, txOvr>>

CascadeUpsert(r) ==
  /\ op[r] \in CascadeOps /\ pc[r] = "remote"
  /\ \E p \in Remote : NextRemote(r, p) /\ WriteAnswer(r, p)
  /\ UNCHANGED winner

(* The stages between the last upsert and the admin check touch no shared  *)
(* table: local and fuzzy matches, LLM re-verification and consensus elect *)
(* one candidate w, or nobody.  A candidate in high has confidence >= 0.80;*)
(* a fuzzy one never does.                                                 *)
Elects(r, w) ==
  \E l \in SUBSET Local, f \in SUBSET Fuzzy, m \in SUBSET (Remote \cup Local),
     high \in SUBSET (Remote \cup Local) :
    LET exact == {p \in Remote : txRow[r][p] = "MATCH"} \cup l
        all   == exact \cup f \cup m
    IN /\ f # {} => Cardinality(f) = 1 /\ exact \cap high = {}
       /\ m # {} => exact \cup f = {}
       /\ IF all = {} \/ (Cardinality(all) = 1 /\ all \cap high = {})
          THEN w = NoProvider
          ELSE w \in all

Resolve(r) ==
  /\ op[r] \in CascadeOps /\ pc[r] = "remote" /\ AllWritten(r)
  /\ \E w \in Geocoders \cup {NoProvider} :
       /\ Elects(r, w)
       /\ winner' = [winner EXCEPT ![r] = w]
       /\ Goto(r, IF w = NoProvider THEN "commit" ELSE "admin")
  /\ UNCHANGED <<tables, op, addr, found, seen, broken, writes>>

AfterPersist(r) == IF op[r] = "dry_run" THEN "commit" ELSE "official"

(* Mutant: the admin check looks at the official pointer only. *)
CheckPointerOnly(r) ==
  /\ pc[r] = "admin"
  /\ Goto(r, IF official[addr[r]] = Admin THEN "commit"
             ELSE IF txRow[r][winner[r]] = "MATCH" THEN AfterPersist(r)
             ELSE "persist")
  /\ UNCHANGED <<tables, op, addr, found, seen, winner, broken, writes>>

(* A remote exact match already has its row; any other winner needs one,   *)
(* on a dry run too.                                                       *)
AdminCheck(r) ==
  /\ pc[r] = "admin"
  /\ Goto(r, IF official[addr[r]] = Admin \/ override[addr[r]] THEN "commit"
             ELSE IF txRow[r][winner[r]] = "MATCH" THEN AfterPersist(r)
             ELSE "persist")
  /\ UNCHANGED <<tables, op, addr, found, seen, winner, broken, writes>>

(* Mutant: ON CONFLICT DO NOTHING when the winner is persisted. *)
PersistIfAbsent(r) ==
  /\ pc[r] = "persist"
  /\ RowFree(r, winner[r])
  /\ txRow' = [txRow EXCEPT ![r][winner[r]] = IF @ = "absent" THEN "MATCH" ELSE @]
  /\ Goto(r, AfterPersist(r))
  /\ UNCHANGED <<tables, op, addr, found, seen, winner, broken, txAddr, txOff, txOvr>>

PersistWinner(r) ==
  /\ pc[r] = "persist"
  /\ RowFree(r, winner[r])
  /\ txRow' = [txRow EXCEPT ![r][winner[r]] = "MATCH"]
  /\ Goto(r, AfterPersist(r))
  /\ UNCHANGED <<tables, op, addr, found, seen, winner, broken, txAddr, txOff, txOvr>>

(* ON CONFLICT (address_id) DO UPDATE *)
WriteOfficial(r) ==
  /\ pc[r] = "official"
  /\ OfficialFree(r)
  /\ txOff' = [txOff EXCEPT ![r] = winner[r]]
  /\ Goto(r, "commit")
  /\ UNCHANGED <<tables, op, addr, found, seen, winner, broken, txAddr, txRow, txOvr>>

(* Mutant: DO UPDATE where the code says DO NOTHING. *)
InsertOrReplace(r) ==
  /\ pc[r] = "insert"
  /\ OfficialFree(r)
  /\ txOff' = [txOff EXCEPT ![r] = winner[r]]
  /\ Goto(r, "commit")
  /\ UNCHANGED <<tables, op, addr, found, seen, winner, broken, txAddr, txRow, txOvr>>

(* ON CONFLICT (address_id) DO NOTHING *)
InsertOfficial(r) ==
  /\ pc[r] = "insert"
  /\ OfficialFree(r)
  /\ txOff' = [txOff EXCEPT ![r] =
                  IF official[addr[r]] = NoProvider THEN winner[r] ELSE @]
  /\ Goto(r, "commit")
  /\ UNCHANGED <<tables, op, addr, found, seen, winner, broken, txAddr, txRow, txOvr>>

(* The legacy loop remembers the first row that reads as a match. In a     *)
(* transaction that a swallowed error has aborted, every later upsert      *)
(* fails and is swallowed.                                                 *)
LegacyUpsert(r) ==
  /\ op[r] \in LegacyOps /\ pc[r] = "remote"
  /\ \E p \in Remote :
       /\ NextRemote(r, p)
       /\ \/ /\ ~broken[r]
             /\ WriteAnswer(r, p)
             /\ winner' = [winner EXCEPT ![r] =
                  IF @ = NoProvider /\ Requeried(r, p) = "MATCH" THEN p ELSE @]
          \/ /\ broken[r]
             /\ found' = [found EXCEPT ![r][p] = "absent"]
             /\ UNCHANGED <<tables, pc, op, addr, seen, winner, broken, writes>>

LegacyElect(r) ==
  /\ op[r] \in LegacyOps /\ pc[r] = "remote" /\ AllWritten(r)
  /\ \/ /\ winner[r] # NoProvider /\ broken[r]
        /\ Close(r)
     \/ /\ winner[r] = NoProvider \/ ~broken[r]
        /\ Goto(r, IF winner[r] = NoProvider THEN "commit" ELSE "insert")
        /\ UNCHANGED <<op, addr, found, seen, winner, broken, writes>>
  /\ UNCHANGED tables

-----------------------------------------------------------------------------
(* PUT /geocode/{hash}/official. *)

(* GEO-06: the named result exists and belongs to the address. *)
SelectBegin(r, a, p) ==
  /\ address[a] /\ rows[a][p] # "absent"
  /\ Begin(r, "select", a, "official")
  /\ winner' = [winner EXCEPT ![r] = p]

(* GEO-07: the admin_override result, then the override record, then the   *)
(* official pointer.                                                       *)
OverrideBegin(r, a) ==
  /\ address[a]
  /\ Begin(r, "override", a, "ovrRow")
  /\ winner' = [winner EXCEPT ![r] = Admin]

(* Mutant: admin_overrides is never written. *)
OverrideWithoutRecord(r) ==
  /\ pc[r] = "ovrRow"
  /\ RowFree(r, Admin)
  /\ txRow' = [txRow EXCEPT ![r][Admin] = "MATCH"]
  /\ Goto(r, "official")
  /\ UNCHANGED <<tables, op, addr, found, seen, winner, broken, txAddr, txOff, txOvr>>

OverrideRow(r) ==
  /\ pc[r] = "ovrRow"
  /\ RowFree(r, Admin)
  /\ txRow' = [txRow EXCEPT ![r][Admin] = "MATCH"]
  /\ Goto(r, "ovrRecord")
  /\ UNCHANGED <<tables, op, addr, found, seen, winner, broken, txAddr, txOff, txOvr>>

OverrideRecord(r) ==
  /\ pc[r] = "ovrRecord"
  /\ OverrideFree(r)
  /\ txOvr' = [txOvr EXCEPT ![r] = TRUE]
  /\ Goto(r, "official")
  /\ UNCHANGED <<tables, op, addr, found, seen, winner, broken, txAddr, txRow, txOff>>

-----------------------------------------------------------------------------
(* One feature of geo-import, in a transaction of its own. *)

ImportBegin(r, a) ==
  /\ Begin(r, "import", a, "impAddress")
  /\ winner' = [winner EXCEPT ![r] = Gis]

ImportAddress(r) ==
  /\ pc[r] = "impAddress"
  /\ AddressFree(r)
  /\ txAddr' = [txAddr EXCEPT ![r] = ~address[addr[r]]]
  /\ Goto(r, "impRow")
  /\ UNCHANGED <<tables, op, addr, found, seen, winner, broken, txRow, txOff, txOvr>>

ImportRow(r) ==
  /\ pc[r] = "impRow"
  /\ RowFree(r, Gis)
  /\ txRow' = [txRow EXCEPT ![r][Gis] = "MATCH"]
  /\ Goto(r, "impCheck")
  /\ UNCHANGED <<tables, op, addr, found, seen, winner, broken, txAddr, txOff, txOvr>>

ImportCheck(r) ==
  /\ pc[r] = "impCheck"
  /\ Goto(r, IF override[addr[r]] THEN "commit" ELSE "insert")
  /\ UNCHANGED <<tables, op, addr, found, seen, winner, broken, writes>>

-----------------------------------------------------------------------------
(* The end of a transaction. *)

Commit(r) ==
  /\ pc[r] = "commit"
  /\ LET a == addr[r] IN
       /\ address'  = [address EXCEPT ![a] = @ \/ txAddr[r]]
       /\ rows'     = [rows EXCEPT ![a] = [p \in Provider |->
                        IF txRow[r][p] = "absent" THEN @[p] ELSE txRow[r][p]]]
       /\ official' = [official EXCEPT ![a] =
                        IF txOff[r] = NoProvider THEN @ ELSE txOff[r]]
       /\ override' = [override EXCEPT ![a] = @ \/ txOvr[r]]
  /\ Close(r)

(* An exception the handler does not catch, a lost connection or a killed  *)
(* worker: the transaction is rolled back.                                 *)
Abort(r) ==
  /\ pc[r] # "idle"
  /\ Close(r)
  /\ UNCHANGED tables

(* The legacy loop's "except Exception: continue" also covers its upsert:  *)
(* an SQL error aborts the whole transaction and the loop goes on.         *)
SwallowError(r) ==
  /\ op[r] \in LegacyOps /\ pc[r] = "remote"
  /\ \E p \in Remote : /\ NextRemote(r, p)
                       /\ found' = [found EXCEPT ![r][p] = "absent"]
  /\ broken' = [broken EXCEPT ![r] = TRUE]
  /\ txAddr' = [txAddr EXCEPT ![r] = FALSE]
  /\ txRow'  = [txRow  EXCEPT ![r] = NoRows]
  /\ UNCHANGED <<tables, pc, op, addr, seen, winner, txOff, txOvr>>

(* r's next statement waits for s. *)
WaitsFor(r, s) ==
  /\ s \in Others(r)
  /\ \/ pc[r] \in {"create", "impAddress"} /\ txAddr[s]
     \/ /\ pc[r] = "remote" /\ ~broken[r]
        /\ \E p \in Remote : NextRemote(r, p) /\ txRow[s][p] # "absent"
     \/ pc[r] \in {"persist", "ovrRow", "impRow"}
          /\ txRow[s][winner[r]] # "absent"
     \/ pc[r] = "ovrRecord" /\ txOvr[s]
     \/ pc[r] \in {"official", "insert"} /\ txOff[s] # NoProvider

(* PostgreSQL's deadlock detector fails the statement of one transaction of *)
(* a cycle of waits.                                                       *)
InWaitCycle(r) ==
  \E S \in SUBSET Requests :
    /\ r \in S
    /\ \A s \in S : (\E t \in S : WaitsFor(s, t)) /\ (\E t \in S : WaitsFor(t, s))

Deadlock(r) ==
  /\ InWaitCycle(r)
  /\ IF pc[r] = "remote" /\ op[r] \in LegacyOps THEN SwallowError(r) ELSE Abort(r)

-----------------------------------------------------------------------------
Start(r) ==
  \E a \in Addresses :
    \/ \E o \in {"geocode", "dry_run", "legacy"} : GeocodeBegin(r, o, a)
    \/ \E o \in {"refresh", "legacy_refresh"} : RefreshBegin(r, o, a)
    \/ \E p \in Provider : SelectBegin(r, a, p)
    \/ OverrideBegin(r, a)
    \/ ImportBegin(r, a)

Advance(r) ==
  \/ Lookup(r) \/ CreateAddress(r) \/ CacheHit(r) \/ CallProviders(r)
  \/ CascadeUpsert(r) \/ Resolve(r) \/ AdminCheck(r) \/ PersistWinner(r)
  \/ LegacyUpsert(r) \/ LegacyElect(r)
  \/ OverrideRow(r) \/ OverrideRecord(r)
  \/ ImportAddress(r) \/ ImportRow(r) \/ ImportCheck(r)
  \/ WriteOfficial(r) \/ InsertOfficial(r) \/ Commit(r)

Next == \E r \in Requests :
  Start(r) \/ Advance(r) \/ Abort(r) \/ SwallowError(r) \/ Deadlock(r)

Spec == Init /\ [][Next]_vars

(* A provider call ends: it answers, fails or times out. PostgreSQL grants *)
(* a row in the order of the waiting transactions, so a statement that can *)
(* run again and again does run; and its deadlock detector wakes up.       *)
Fairness == \A r \in Requests : SF_vars(Advance(r)) /\ WF_vars(Deadlock(r))

FairSpec == Spec /\ Fairness

-----------------------------------------------------------------------------
(* The official pointer of every address names a result row that exists:   *)
(* whatever interleaves, no request publishes a pointer to a row that was  *)
(* rolled back, never written or another address's (models/geocoding.py,   *)
(* the foreign key the code must never trip).                              *)
OfficialHasRow ==
  \A a \in Addresses :
    official[a] # NoProvider => rows[a][official[a]] # "absent"

(* The admin_override result and the admin_overrides record of an address  *)
(* appear together and with an official pointer. The cascade's and the     *)
(* import's checks look at the record only once the pointer names another  *)
(* row, so a result without its record would be unprotected.               *)
OverrideIsComplete ==
  \A a \in Addresses :
    /\ (rows[a][Admin] # "absent") <=> override[a]
    /\ override[a] => official[a] # NoProvider

(* r may still displace the official row of its address: it is past the    *)
(* check for an admin override, or cannot be told to have failed it.       *)
PastAdminCheck(r) ==
  \/ op[r] \in GeocodeOps /\ pc[r] \in {"persist", "official"}
  \/ op[r] \in GeocodeOps /\ pc[r] = "commit" /\ txOff[r] # NoProvider

Protected(a) ==
  override[a] /\ \A r \in Requests : addr[r] = a => ~PastAdminCheck(r)

ByAdmin(a) ==
  \E r \in Requests : /\ pc[r] = "commit" /\ addr[r] = a
                     /\ op[r] \in {"select", "override"}

(* Once an override is committed and no geocoding that checked before it   *)
(* is left in flight, the official row of the address is the admin's: no   *)
(* later geocoding or import gets past the checks, and only an admin       *)
(* request changes the pointer (cascade.py D-22, cli DATA-03).             *)
OverrideSettles ==
  [][\A a \in Addresses : Protected(a) =>
       /\ Protected(a)'
       /\ official'[a] = official[a] \/ ByAdmin(a)]_vars

(* ON CONFLICT DO NOTHING: an import, or a geocoding without the cascade,  *)
(* never displaces an official row, not even one that another transaction  *)
(* committed while this one was running (cli import_gis: "any existing     *)
(* official record is preserved").                                         *)
InsertNeverDisplaces ==
  [][\A a \in Addresses : official[a] # NoProvider /\ official'[a] # official[a] =>
       \E r \in Requests :
         /\ pc[r] = "commit" /\ addr[r] = a
         /\ op[r] \notin LegacyOps \cup {"import"}]_vars

(* Each change a reader can see is one whole operation on one address. *)
Atomic == Ledger!Spec

(* Every request is answered: no set of requests waits on one another for  *)
(* ever.                                                                   *)
EveryRequestEnds == \A r \in Requests : pc[r] # "idle" ~> pc[r] = "idle"

(* A refresh is never answered from the stored rows (api/geocoding.py,     *)
(* refresh_geocode: "Bypasses the cache and calls every registered         *)
(* provider"; GEO-08). The cascade is not told that it is one.             *)
RefreshAsksProviders ==
  \A r \in Requests : op[r] \in {"refresh", "legacy_refresh"} => pc[r] # "cached"

(* cascade.py D-22: "admin_override never overwritten". *)
AdminOverrideNeverOverwritten ==
  [][\A a \in Addresses :
       official[a] = Admin => official'[a] = Admin \/ ByAdmin(a)]_vars
=============================================================================
