---------------------------- MODULE LedgerProofs ----------------------------
(***************************************************************************)
(* What every interleaving of the requests of GeocodeRequests does to the  *)
(* committed tables: it is one whole operation of OfficialLedger at a      *)
(* time, an insert displaces nothing, and an override settles.             *)
(***************************************************************************)
EXTENDS GeocodeRequestsProofs

(* Only a commit changes what another session can see. *)
LEMMA TablesStep ==
  ASSUME [Next]_vars
  PROVE  UNCHANGED tables \/ \E r \in Requests : Commit(r)
<1>1. CASE UNCHANGED vars
  BY <1>1 DEF vars
<1>2. ASSUME NEW r \in Requests, Start(r)
      PROVE  UNCHANGED tables
  BY <1>2 DEF Start, GeocodeBegin, RefreshBegin, SelectBegin, OverrideBegin, ImportBegin, Begin
<1>3. ASSUME NEW r \in Requests, Advance(r), ~Commit(r)
      PROVE  UNCHANGED tables
  BY <1>3 DEF Advance, Lookup, CreateAddress, CacheHit, CallProviders, CascadeUpsert,
     WriteAnswer, Resolve, AdminCheck, PersistWinner, LegacyUpsert, LegacyElect,
     OverrideRow, OverrideRecord, ImportAddress, ImportRow, ImportCheck,
     WriteOfficial, InsertOfficial
<1>4. ASSUME NEW r \in Requests, Abort(r) \/ SwallowError(r)
      PROVE  UNCHANGED tables
  BY <1>4 DEF Abort, SwallowError
<1>. QED BY <1>1, <1>2, <1>3, <1>4 DEF Next, Deadlock

(* The commit of r as a step of the ledger. *)
LEMMA CommitTables ==
  ASSUME NEW r \in Requests, IInv, Commit(r)
  PROVE  /\ addr[r] \in Addresses /\ pc[r] = "commit"
         /\ address' = [address EXCEPT ![addr[r]] = address[addr[r]] \/ txAddr[r]]
         /\ official' = [official EXCEPT ![addr[r]] =
                           IF txOff[r] = NoProvider THEN official[addr[r]] ELSE txOff[r]]
         /\ override' = [override EXCEPT ![addr[r]] = override[addr[r]] \/ txOvr[r]]
         /\ rows' = [rows EXCEPT ![addr[r]] = [p \in Provider |->
                       IF txRow[r][p] = "absent" THEN rows[addr[r]][p] ELSE txRow[r][p]]]
BY DEF IInv, TypeOK, Commit

LEMMA UnwrittenTables ==
  ASSUME NEW r \in Requests, IInv, Commit(r)
  PROVE  /\ ~txAddr[r] => address' = address
         /\ txRow[r] = NoRows => rows' = rows
         /\ txOff[r] = NoProvider => official' = official
         /\ ~txOvr[r] => override' = override
<1>1. /\ addr[r] \in Addresses
      /\ address \in [Addresses -> BOOLEAN] /\ override \in [Addresses -> BOOLEAN]
      /\ rows \in [Addresses -> [Provider -> Row]]
      /\ official \in [Addresses -> Provider \cup {NoProvider}]
      /\ txAddr[r] \in BOOLEAN /\ txOvr[r] \in BOOLEAN
  BY DEF IInv, TypeOK
<1>2. /\ address' \in [Addresses -> BOOLEAN] /\ override' \in [Addresses -> BOOLEAN]
      /\ rows' \in [Addresses -> [Provider -> Row]]
      /\ official' \in [Addresses -> Provider \cup {NoProvider}]
  BY AdvanceTypeOK DEF IInv, Advance, TypeOK
<1>3. ASSUME ~txAddr[r] PROVE address' = address
  <2>1. address' = [address EXCEPT ![addr[r]] = address[addr[r]] \/ txAddr[r]]
    BY CommitTables
  <2>2. \A b \in Addresses : address'[b] <=> address[b]
    BY <1>1, <1>3, <2>1
  <2>. QED BY <1>1, <1>2, <2>2
<1>4. ASSUME ~txOvr[r] PROVE override' = override
  <2>1. override' = [override EXCEPT ![addr[r]] = override[addr[r]] \/ txOvr[r]]
    BY CommitTables
  <2>2. \A b \in Addresses : override'[b] <=> override[b]
    BY <1>1, <1>4, <2>1
  <2>. QED BY <1>1, <1>2, <2>2
<1>5. ASSUME txOff[r] = NoProvider PROVE official' = official
  <2>1. \A b \in Addresses : official'[b] = official[b]
    BY <1>1, <1>5, CommitEffect
  <2>. QED BY <1>1, <1>2, <2>1
<1>6. ASSUME txRow[r] = NoRows PROVE rows' = rows
  <2>1. \A p \in Provider : rows'[addr[r]][p] = rows[addr[r]][p]
    BY <1>6, CommitEffect DEF NoRows
  <2>2. rows'[addr[r]] = rows[addr[r]]
    BY <1>1, <1>2, <2>1
  <2>3. \A b \in Addresses : rows'[b] = rows[b]
    BY <2>2, CommitEffect
  <2>. QED BY <1>1, <1>2, <2>3
<1>. QED BY <1>3, <1>4, <1>5, <1>6

LEMMA CommitGains ==
  ASSUME NEW r \in Requests, IInv, Commit(r), NEW S,
         \A p \in Provider : txRow[r][p] # "absent" => p \in S
  PROVE  Ledger!Gains(addr[r], S)
<1>1. \A b \in Addresses \ {addr[r]} : rows'[b] = rows[b]
  BY CommitEffect
<1>2. \A p \in Provider :
        rows'[addr[r]][p] # rows[addr[r]][p] => p \in S /\ rows'[addr[r]][p] # "absent"
  BY CommitEffect
<1>. QED
  BY <1>1, <1>2 DEF Ledger!Gains, Ledger!Provider, Ledger!Geocoders, Provider, Geocoders

(* A transaction with nothing to commit leaves the tables alone. *)
LEMMA EmptyCommit ==
  ASSUME NEW r \in Requests, IInv, Commit(r), NoWrites(r)
  PROVE  UNCHANGED tables
BY UnwrittenTables DEF NoWrites, tables

(* A request that is under way runs an operation of this instance, so that *)
(* the ledger knows the path it takes.                                     *)
RunsKnownOps == \A r \in Requests : pc[r] # "idle" => op[r] \in Ops

LEMMA RunsKnownOpsStep == TypeOK /\ RunsKnownOps /\ [Next]_vars => RunsKnownOps'
<1>. USE DEF RunsKnownOps
<1>1. ASSUME TypeOK, RunsKnownOps, NEW r \in Requests, Start(r)
      PROVE  RunsKnownOps'
  <2>1. ASSUME NEW o, NEW a, NEW l, Begin(r, o, a, l)
        PROVE  RunsKnownOps'
    BY <1>1, <2>1 DEF TypeOK, Begin, Goto
  <2>2. \E o, a, l : Begin(r, o, a, l)
    BY <1>1 DEF Start, GeocodeBegin, RefreshBegin, SelectBegin, OverrideBegin, ImportBegin
  <2>. QED BY <2>1, <2>2
<1>2. ASSUME TypeOK, RunsKnownOps, NEW r \in Requests, Close(r)
      PROVE  RunsKnownOps'
  BY <1>2 DEF TypeOK, Close
<1>3. ASSUME TypeOK, RunsKnownOps, NEW r \in Requests, Advance(r), ~Close(r)
      PROVE  RunsKnownOps'
  <2>1. UNCHANGED op
    BY <1>3 DEF Advance, Lookup, CreateAddress, CacheHit, CallProviders,
       CascadeUpsert, WriteAnswer, Resolve, AdminCheck, PersistWinner, LegacyUpsert,
       LegacyElect, OverrideRow, OverrideRecord, ImportAddress, ImportRow, ImportCheck,
       WriteOfficial, InsertOfficial, Commit
  <2>2. pc[r] # "idle"
    BY <1>3 DEF Advance, Lookup, CreateAddress, CacheHit, CallProviders,
       CascadeUpsert, LegacyUpsert, Resolve, AdminCheck, PersistWinner,
       LegacyElect, OverrideRow, OverrideRecord, ImportAddress, ImportRow, ImportCheck,
       WriteOfficial, InsertOfficial, Commit
  <2>3. \A q \in Requests \ {r} : pc'[q] = pc[q]
    BY <1>3 DEF TypeOK, Advance, Lookup, CreateAddress, CacheHit, CallProviders,
       CascadeUpsert, WriteAnswer, Resolve, AdminCheck, PersistWinner, LegacyUpsert,
       LegacyElect, OverrideRow, OverrideRecord, ImportAddress, ImportRow, ImportCheck,
       WriteOfficial, InsertOfficial, Commit, Goto
  <2>. QED BY <1>3, <2>1, <2>2, <2>3
<1>4. ASSUME TypeOK, RunsKnownOps, NEW r \in Requests, SwallowError(r)
      PROVE  RunsKnownOps'
  BY <1>4 DEF SwallowError
<1>5. ASSUME RunsKnownOps, UNCHANGED vars
      PROVE  RunsKnownOps'
  BY <1>5 DEF vars
<1>. QED BY <1>1, <1>2, <1>3, <1>4, <1>5 DEF Next, Abort, Deadlock

LEMMA RunsKnownOpsHolds == Spec => []RunsKnownOps
<1>1. Init => RunsKnownOps
  BY DEF Init, RunsKnownOps
<1>. QED BY <1>1, RunsKnownOpsStep, TypesHold, PTL DEF Spec

LEMMA GeocodeCommit ==
  ASSUME NEW r \in Requests, IInv, RunsKnownOps, Commit(r),
         op[r] \in GeocodeOps, ~broken[r]
  PROVE  Ledger!Geocode(addr[r])
<1>1. GeocodeInv(r) /\ pc[r] = "commit" /\ addr[r] \in Addresses
  BY CommitTables DEF IInv, SessionInv
<1>2. address' = [address EXCEPT ![addr[r]] = TRUE]
  BY <1>1, CommitTables DEF GeocodeInv, SeesAddress, IInv, TypeOK
<1>3. Ledger!Gains(addr[r], Ledger!Geocoders)
  BY <1>1, CommitGains DEF GeocodeInv, Ledger!Geocoders, Geocoders, Provider
<1>4. override' = override
  BY <1>1, UnwrittenTables DEF GeocodeInv
<1>5. CASE txOff[r] = NoProvider
  <2>1. official' = official
    BY <1>5, UnwrittenTables
  <2>. QED BY <1>2, <1>3, <1>4, <2>1 DEF Ledger!Geocode
<1>6. CASE txOff[r] # NoProvider
  <2>1. op[r] \in LegacyOps => official[addr[r]] = NoProvider
    BY <1>6 DEF IInv, PendingInsertIsFirst, InsertsOnly
  <2>2. /\ txOff[r] \in Ledger!Geocoders /\ rows'[addr[r]][txOff[r]] # "absent"
        /\ op[r] \in CascadeOps => rows'[addr[r]][txOff[r]] = "MATCH"
    BY <1>1, <1>6, CommitEffect DEF GeocodeInv, Geocoders, Provider, Ledger!Geocoders
  <2>3. official' = [official EXCEPT ![addr[r]] = txOff[r]]
    BY <1>6, CommitTables
  <2>4. Path(op[r]) \in Paths
    BY <1>1 DEF RunsKnownOps, Paths
  <2>5. Ledger!Electable(addr[r], txOff[r])
    BY <2>1, <2>2, <2>4 DEF Ledger!Electable, Path, GeocodeOps
  <2>. QED BY <1>2, <1>3, <1>4, <2>2, <2>3, <2>5 DEF Ledger!Geocode
<1>. QED BY <1>5, <1>6

LEMMA SelectCommit ==
  ASSUME NEW r \in Requests, IInv, Commit(r), op[r] = "select"
  PROVE  Ledger!Select(addr[r])
<1>1. SelectInv(r) /\ pc[r] = "commit" /\ addr[r] \in Addresses
  BY CommitTables DEF IInv, SessionInv
<1>3. address' = address /\ override' = override /\ rows' = rows
  BY <1>1, UnwrittenTables DEF SelectInv
<1>4. winner[r] \in Provider /\ winner[r] # NoProvider /\ txOff[r] = winner[r]
      /\ rows[addr[r]][winner[r]] # "absent" /\ address[addr[r]]
  BY <1>1, NamesAreDistinct DEF SelectInv
<1>5. official' = [official EXCEPT ![addr[r]] = winner[r]]
  BY <1>4, CommitTables
<1>. QED
  BY <1>3, <1>4, <1>5 DEF Ledger!Select, Ledger!Provider, Ledger!Geocoders, Provider, Geocoders

LEMMA OverrideCommit ==
  ASSUME NEW r \in Requests, IInv, Commit(r), op[r] = "override"
  PROVE  Ledger!Override(addr[r])
<1>1. OverrideInv(r) /\ pc[r] = "commit" /\ addr[r] \in Addresses
  BY CommitTables DEF IInv, SessionInv
<1>2. Admin \in Provider /\ Admin # NoProvider
  BY NamesAreDistinct DEF Provider
<1>3. address' = address /\ address[addr[r]]
  BY <1>1, UnwrittenTables DEF OverrideInv
<1>4. Ledger!Gains(addr[r], {Admin})
  BY <1>1, CommitGains DEF OverrideInv
<1>5. rows'[addr[r]][Admin] = "MATCH"
  BY <1>1, <1>2, CommitEffect DEF OverrideInv
<1>6. official' = [official EXCEPT ![addr[r]] = Admin]
  BY <1>1, <1>2, CommitTables DEF OverrideInv
<1>7. override' = [override EXCEPT ![addr[r]] = TRUE]
  BY <1>1, CommitTables DEF IInv, TypeOK, OverrideInv
<1>. QED BY <1>3, <1>4, <1>5, <1>6, <1>7 DEF Ledger!Override

LEMMA ImportCommit ==
  ASSUME NEW r \in Requests, IInv, Commit(r), op[r] = "import"
  PROVE  Ledger!Import(addr[r])
<1>1. ImportInv(r) /\ pc[r] = "commit" /\ addr[r] \in Addresses
  BY CommitTables DEF IInv, SessionInv
<1>2. Gis \in Provider /\ Gis # NoProvider
  BY NamesAreDistinct DEF Provider
<1>3. address' = [address EXCEPT ![addr[r]] = TRUE]
  BY <1>1, CommitTables DEF ImportInv, SeesAddress, IInv, TypeOK
<1>4. Ledger!Gains(addr[r], {Gis})
  BY <1>1, CommitGains DEF ImportInv
<1>5. rows'[addr[r]][Gis] = "MATCH"
  BY <1>1, <1>2, CommitEffect DEF ImportInv
<1>6. txOff[r] = IF official[addr[r]] = NoProvider THEN Gis ELSE NoProvider
  BY <1>1 DEF ImportInv, IInv, PendingInsertIsFirst, InsertsOnly
<1>7. official' = [official EXCEPT ![addr[r]] =
                     IF official[addr[r]] = NoProvider THEN Gis ELSE official[addr[r]]]
  BY <1>2, <1>6, CommitTables
<1>8. override' = override
  BY <1>1, UnwrittenTables DEF ImportInv
<1>. QED BY <1>3, <1>4, <1>5, <1>7, <1>8 DEF Ledger!Import

LEMMA LedgerStep == IInv /\ RunsKnownOps /\ [Next]_vars => [Ledger!Next]_(Ledger!vars)
<1>. SUFFICES ASSUME IInv, RunsKnownOps, [Next]_vars PROVE [Ledger!Next]_(Ledger!vars)
  OBVIOUS
<1>1. CASE UNCHANGED tables
  BY <1>1 DEF tables, Ledger!vars
<1>2. ASSUME NEW r \in Requests, Commit(r)
      PROVE  [Ledger!Next]_(Ledger!vars)
  <2>1. addr[r] \in Addresses /\ op[r] \in AllOps
    BY <1>2 DEF IInv, TypeOK
  <2>2. CASE op[r] \in GeocodeOps /\ broken[r]
    BY <1>1, <1>2, <2>2, EmptyCommit DEF IInv, SessionInv, BrokenInv, tables, Ledger!vars
  <2>3. CASE op[r] \in GeocodeOps /\ ~broken[r]
    BY <1>2, <2>1, <2>3, GeocodeCommit DEF Ledger!Next
  <2>4. CASE op[r] = "select"
    BY <1>2, <2>1, <2>4, SelectCommit DEF Ledger!Next
  <2>5. CASE op[r] = "override"
    BY <1>2, <2>1, <2>5, OverrideCommit DEF Ledger!Next
  <2>6. CASE op[r] = "import"
    BY <1>2, <2>1, <2>6, ImportCommit DEF Ledger!Next
  <2>. QED BY <2>1, <2>2, <2>3, <2>4, <2>5, <2>6 DEF AllOps
<1>. QED BY <1>1, <1>2, TablesStep

(* The requests implement the ledger: at READ COMMITTED, with the locks of *)
(* the unique constraints alone, every change a reader can see is one whole*)
(* geocoding, selection, override or import of one address.                *)
THEOREM AtomicHolds == Spec => Atomic
<1>1. Init => Ledger!Init
  BY DEF Init, Ledger!Init, NoRows, Provider, Geocoders, Ledger!Provider, Ledger!Geocoders
<1>. QED
  BY <1>1, LedgerStep, InvHolds, RunsKnownOpsHolds, PTL DEF Spec, Atomic, Ledger!Spec
-----------------------------------------------------------------------------
LEMMA InsertStep ==
  ASSUME IInv, [Next]_vars, NEW a \in Addresses,
         official[a] # NoProvider, official'[a] # official[a]
  PROVE  \E r \in Requests : /\ pc[r] = "commit" /\ addr[r] = a
                             /\ op[r] \notin LegacyOps \cup {"import"}
<1>1. PICK r \in Requests : Commit(r)
  BY TablesStep DEF tables
<1>2. addr[r] = a /\ txOff[r] # NoProvider /\ pc[r] = "commit"
  BY <1>1, CommitEffect DEF Commit
<1>3. ~InsertsOnly(r)
  BY <1>2 DEF IInv, PendingInsertIsFirst
<1>. QED BY <1>2, <1>3 DEF InsertsOnly

(* An import, or a geocoding without the cascade, never displaces an       *)
(* official row: ON CONFLICT DO NOTHING keeps the one that was there       *)
(* first, committed before the request or while it ran.                    *)
THEOREM InsertNeverDisplacesHolds == Spec => InsertNeverDisplaces
<1>1. IInv /\ [Next]_vars =>
        [\A a \in Addresses : official[a] # NoProvider /\ official'[a] # official[a] =>
           \E r \in Requests :
             /\ pc[r] = "commit" /\ addr[r] = a
             /\ op[r] \notin LegacyOps \cup {"import"}]_vars
  BY InsertStep
<1>. QED BY <1>1, InvHolds, PTL DEF Spec, InsertNeverDisplaces

-----------------------------------------------------------------------------
(* Nobody gets past the check for an admin override once it is committed.  *)

LEMMA ClosedIsNotPast ==
  ASSUME NEW r \in Requests, TypeOK, Close(r)
  PROVE  /\ ~PastAdminCheck(r)'
         /\ \A s \in Requests \ {r} :
              pc'[s] = pc[s] /\ op'[s] = op[s] /\ addr'[s] = addr[s] /\ txOff'[s] = txOff[s]
BY DEF TypeOK, Close, PastAdminCheck

LEMMA StartIsNotPast ==
  ASSUME NEW r \in Requests, IInv, Start(r)
  PROVE  /\ ~PastAdminCheck(r)' /\ UNCHANGED tables
         /\ \A s \in Requests \ {r} :
              pc'[s] = pc[s] /\ op'[s] = op[s] /\ addr'[s] = addr[s] /\ txOff'[s] = txOff[s]
<1>1. PICK a \in Addresses, o \in AllOps, l \in PCs :
        Begin(r, o, a, l) /\ (o \in GeocodeOps => l = "lookup")
  BY DEF Start, GeocodeBegin, RefreshBegin, SelectBegin, OverrideBegin, ImportBegin,
     AllOps, GeocodeOps, CascadeOps, LegacyOps, PCs
<1>2. op'[r] = o /\ pc'[r] = l
  BY <1>1 DEF IInv, TypeOK, Begin, Goto
<1>. QED BY <1>1, <1>2 DEF IInv, TypeOK, Begin, Goto, PastAdminCheck, writes

LEMMA AdvanceIsNotPast ==
  ASSUME NEW r \in Requests, IInv, Advance(r), ~Commit(r), ~Close(r),
         override[addr[r]], ~PastAdminCheck(r)
  PROVE  /\ ~PastAdminCheck(r)' /\ UNCHANGED tables
         /\ \A s \in Requests \ {r} :
              pc'[s] = pc[s] /\ op'[s] = op[s] /\ addr'[s] = addr[s] /\ txOff'[s] = txOff[s]
<1>. USE DEF Goto, PastAdminCheck
<1>1. TypeOK /\ op[r] \in AllOps /\ (op[r] \in GeocodeOps => GeocodeInv(r))
      /\ official[addr[r]] # NoProvider
  BY DEF IInv, TypeOK, SessionInv, OverrideIsComplete
<1>2. CASE Lookup(r) \/ CreateAddress(r) \/ CallProviders(r)
  BY <1>1, <1>2 DEF TypeOK, Lookup, CreateAddress, CallProviders, writes, tables
<1>3. CASE CascadeUpsert(r) \/ LegacyUpsert(r)
  BY <1>1, <1>3 DEF TypeOK, CascadeUpsert, LegacyUpsert, WriteAnswer, writes, tables
<1>4. CASE Resolve(r) \/ LegacyElect(r)
  BY <1>1, <1>4 DEF TypeOK, Resolve, LegacyElect, GeocodeInv, writes, tables
<1>5. CASE AdminCheck(r)
  BY <1>1, <1>5 DEF TypeOK, AdminCheck, GeocodeInv, writes, tables
<1>6. CASE PersistWinner(r) \/ WriteOfficial(r)
  BY <1>1, <1>6 DEF TypeOK, PersistWinner, WriteOfficial, AfterPersist, writes, tables
<1>7. CASE InsertOfficial(r)
  BY <1>1, <1>7 DEF TypeOK, InsertOfficial, GeocodeInv, writes, tables
<1>8. CASE OverrideRow(r) \/ OverrideRecord(r)
  <2>1. op[r] \notin GeocodeOps
    BY <1>8, OperationAt DEF OverrideRow, OverrideRecord, GeocodeOps, CascadeOps, LegacyOps
  <2>. QED BY <1>1, <1>8, <2>1 DEF TypeOK, OverrideRow, OverrideRecord, writes, tables
<1>9. CASE ImportAddress(r) \/ ImportRow(r) \/ ImportCheck(r)
  <2>1. op[r] \notin GeocodeOps
    BY <1>9, OperationAt DEF ImportAddress, ImportRow, ImportCheck, GeocodeOps, CascadeOps, LegacyOps
  <2>. QED BY <1>1, <1>9, <2>1 DEF TypeOK, ImportAddress, ImportRow, ImportCheck, writes, tables
<1>. QED
  BY <1>2, <1>3, <1>4, <1>5, <1>6, <1>7, <1>8, <1>9 DEF Advance, CacheHit

(* A step that is not r's commit neither changes the tables nor takes r    *)
(* past a check that fails.                                                *)
LEMMA StepIsNotPast ==
  ASSUME NEW r \in Requests, IInv, override[addr[r]], ~PastAdminCheck(r),
         Start(r) \/ (Advance(r) /\ ~Commit(r)) \/ Abort(r) \/ SwallowError(r)
  PROVE  /\ ~PastAdminCheck(r)'
         /\ \A s \in Requests \ {r} :
              pc'[s] = pc[s] /\ op'[s] = op[s] /\ addr'[s] = addr[s] /\ txOff'[s] = txOff[s]
<1>1. CASE Start(r)
  BY <1>1, StartIsNotPast
<1>2. CASE Close(r)
  BY <1>2, ClosedIsNotPast DEF IInv
<1>3. CASE Advance(r) /\ ~Commit(r) /\ ~Close(r)
  BY <1>3, AdvanceIsNotPast
<1>4. CASE SwallowError(r)
  BY <1>4 DEF SwallowError, PastAdminCheck, IInv, TypeOK
<1>. QED BY <1>1, <1>2, <1>3, <1>4 DEF Abort

(* The same for a request that works on another address. *)
LEMMA OtherSessions ==
  ASSUME NEW r \in Requests, IInv,
         Start(r) \/ Advance(r) \/ Abort(r) \/ SwallowError(r)
  PROVE  \A s \in Requests \ {r} :
           pc'[s] = pc[s] /\ op'[s] = op[s] /\ addr'[s] = addr[s] /\ txOff'[s] = txOff[s]
<1>1. CASE Start(r)
  BY <1>1, StartIsNotPast
<1>2. CASE Abort(r) \/ CacheHit(r) \/ Commit(r)
  BY <1>2, ClosedIsNotPast DEF IInv, Abort, CacheHit, Commit
<1>3. CASE SwallowError(r)
  BY <1>3 DEF SwallowError
<1>4. CASE Advance(r) /\ ~CacheHit(r) /\ ~Commit(r) /\ ~Close(r)
  BY <1>4 DEF IInv, TypeOK, Advance, Lookup, CreateAddress, CallProviders, CascadeUpsert,
     WriteAnswer, Resolve, AdminCheck, PersistWinner, LegacyUpsert, LegacyElect,
     OverrideRow, OverrideRecord, ImportAddress, ImportRow, ImportCheck,
     WriteOfficial, InsertOfficial, Goto, writes
<1>5. CASE Close(r)
  BY <1>5, ClosedIsNotPast DEF IInv
<1>. QED BY <1>1, <1>2, <1>3, <1>4, <1>5

(* Where r's session is after the step it is not past a check, whichever   *)
(* address it was working on.                                              *)
LEMMA StaysNotPast ==
  ASSUME NEW r \in Requests, NEW a \in Addresses, IInv, override[a],
         addr[r] = a => ~PastAdminCheck(r), addr'[r] = a,
         Start(r) \/ Advance(r) \/ Abort(r) \/ SwallowError(r)
  PROVE  ~PastAdminCheck(r)'
<1>1. CASE Start(r)
  BY <1>1, StartIsNotPast
<1>2. CASE Commit(r)
  BY <1>2, ClosedIsNotPast DEF IInv, Commit
<1>3. CASE ~Start(r) /\ ~Commit(r)
  <2>1. addr' = addr
    BY <1>3 DEF Advance, Lookup, CreateAddress, CacheHit, CallProviders, CascadeUpsert,
       WriteAnswer, Resolve, AdminCheck, PersistWinner, LegacyUpsert, LegacyElect,
       OverrideRow, OverrideRecord, ImportAddress, ImportRow, ImportCheck,
       WriteOfficial, InsertOfficial, Abort, SwallowError, Close
  <2>. QED BY <1>3, <2>1, StepIsNotPast
<1>. QED BY <1>1, <1>2, <1>3

LEMMA SettledStep ==
  ASSUME IInv, [Next]_vars, NEW a \in Addresses, Protected(a)
  PROVE  /\ Protected(a)'
         /\ official'[a] = official[a] \/ ByAdmin(a)
<1>1. override[a] /\ \A s \in Requests : addr[s] = a => ~PastAdminCheck(s)
  BY DEF Protected
<1>2. override'[a]
  BY <1>1, TablesStep, CommitEffect DEF tables
<1>3. ASSUME NEW s \in Requests, addr'[s] = a
      PROVE  ~PastAdminCheck(s)'
  <2>1. CASE UNCHANGED vars
    BY <1>1, <1>3, <2>1 DEF vars, writes, PastAdminCheck
  <2>2. ASSUME NEW r \in Requests, Start(r) \/ Advance(r) \/ Abort(r) \/ SwallowError(r)
        PROVE  ~PastAdminCheck(s)'
    <3>1. CASE s = r
      BY <1>1, <1>3, <2>2, <3>1, StaysNotPast
    <3>2. CASE s # r
      BY <1>1, <1>3, <2>2, <3>2, OtherSessions DEF PastAdminCheck
    <3>. QED BY <3>1, <3>2
  <2>. QED BY <2>1, <2>2 DEF Next, Deadlock
<1>4. ASSUME official'[a] # official[a]
      PROVE  ByAdmin(a)
  <2>1. PICK r \in Requests : Commit(r)
    BY <1>4, TablesStep DEF tables
  <2>2. addr[r] = a /\ txOff[r] # NoProvider /\ pc[r] = "commit"
    BY <1>4, <2>1, CommitEffect DEF Commit
  <2>3. op[r] \notin GeocodeOps
    BY <1>1, <2>2 DEF PastAdminCheck
  <2>4. official[a] # NoProvider
    BY <1>1 DEF IInv, OverrideIsComplete
  <2>5. op[r] # "import"
    BY <2>2, <2>4 DEF IInv, PendingInsertIsFirst, InsertsOnly
  <2>6. op[r] \in AllOps
    BY DEF IInv, TypeOK
  <2>. QED BY <2>2, <2>3, <2>5, <2>6 DEF AllOps, ByAdmin
<1>. QED BY <1>2, <1>3, <1>4 DEF Protected

(* Once an admin override is committed and the geocodings that had checked *)
(* before it are gone, only an admin request moves the official pointer of *)
(* that address again.                                                     *)
THEOREM OverrideSettlesHolds == Spec => OverrideSettles
<1>1. IInv /\ [Next]_vars =>
        [\A a \in Addresses : Protected(a) =>
           /\ Protected(a)'
           /\ official'[a] = official[a] \/ ByAdmin(a)]_vars
  BY SettledStep
<1>. QED BY <1>1, InvHolds, PTL DEF Spec, OverrideSettles
=============================================================================
