----------------------- MODULE GeocodeRequestsProofs -----------------------
(***************************************************************************)
(* Proofs about GeocodeRequests for any sets of addresses, requests and    *)
(* providers: the types, the inductive invariant, the safety properties    *)
(* and the implementation of OfficialLedger.                               *)
(***************************************************************************)
EXTENDS GeocodeRequests, TLAPS

(* Types. *)

LEMMA CloseTypeOK ==
  ASSUME NEW r \in Requests, TypeOK, Close(r), UNCHANGED tables
  PROVE  TypeOK'
BY DEF TypeOK, Close, tables, AllOps,
     GeocodeOps, CascadeOps, LegacyOps, PCs, NoRows, NoneFound, Row

LEMMA BeginTypeOK ==
  ASSUME NEW r \in Requests, NEW a \in Addresses, NEW o \in AllOps,
         NEW l \in PCs, NEW w \in Provider \cup {NoProvider},
         TypeOK, Begin(r, o, a, l), winner' = [winner EXCEPT ![r] = w]
  PROVE  TypeOK'
BY DEF TypeOK, Begin, Goto, tables, writes

LEMMA StartTypeOK ==
  ASSUME NEW r \in Requests, TypeOK, Start(r)
  PROVE  TypeOK'
<1>. PICK a \in Addresses :
       \/ \E o \in {"geocode", "dry_run", "legacy"} : GeocodeBegin(r, o, a)
       \/ \E o \in {"refresh", "legacy_refresh"} : RefreshBegin(r, o, a)
       \/ \E p \in Provider : SelectBegin(r, a, p)
       \/ OverrideBegin(r, a)
       \/ ImportBegin(r, a)
  BY DEF Start
<1>1. winner[r] \in Provider \cup {NoProvider} /\ winner = [winner EXCEPT ![r] = winner[r]]
  BY DEF TypeOK
<1>2. CASE \E o \in {"geocode", "dry_run", "legacy"} : GeocodeBegin(r, o, a)
  BY <1>1, <1>2, BeginTypeOK DEF GeocodeBegin, AllOps,
       GeocodeOps, CascadeOps, LegacyOps, PCs
<1>3. CASE \E o \in {"refresh", "legacy_refresh"} : RefreshBegin(r, o, a)
  BY <1>1, <1>3, BeginTypeOK DEF RefreshBegin, AllOps,
       GeocodeOps, CascadeOps, LegacyOps, PCs
<1>4. CASE \E p \in Provider : SelectBegin(r, a, p)
  BY <1>4, BeginTypeOK DEF SelectBegin, AllOps, PCs
<1>5. CASE OverrideBegin(r, a)
  BY <1>5, BeginTypeOK DEF OverrideBegin, AllOps, PCs, Provider
<1>6. CASE ImportBegin(r, a)
  BY <1>6, BeginTypeOK DEF ImportBegin, AllOps, PCs, Provider
<1>. QED BY <1>2, <1>3, <1>4, <1>5, <1>6

LEMMA WriteAnswerTypeOK ==
  ASSUME NEW r \in Requests, NEW p \in Remote, NEW w \in Provider \cup {NoProvider},
         TypeOK, WriteAnswer(r, p), winner' = [winner EXCEPT ![r] = w]
  PROVE  TypeOK'
<1>1. p \in Provider /\ "absent" \in Row /\ found[r][p] \in Row
  BY DEF Provider, Geocoders, Row, TypeOK
<1>2. txRow' \in [Requests -> [Provider -> Row]]
  BY <1>1 DEF TypeOK, WriteAnswer
<1>3. found' \in [Requests -> [Remote -> Row]]
  BY <1>1 DEF TypeOK, WriteAnswer
<1>4. seen' \in [Requests -> [Provider -> Row]]
  <2>1. Requeried(r, p) \in Row
    BY <1>1 DEF Requeried, TypeOK
  <2>2. seen' = [seen EXCEPT ![r][p] = Requeried(r, p)]
    BY DEF WriteAnswer
  <2>. QED BY <1>1, <2>1, <2>2 DEF TypeOK
<1>. QED BY <1>2, <1>3, <1>4 DEF TypeOK, WriteAnswer, tables

LEMMA AdvanceTypeOK ==
  ASSUME NEW r \in Requests, TypeOK, Advance(r)
  PROVE  TypeOK'
<1>. USE DEF TypeOK, tables, writes, Goto, PCs, Row
<1>1. CASE Lookup(r)
  BY <1>1 DEF Lookup
<1>2. CASE CreateAddress(r)
  BY <1>2, CloseTypeOK DEF CreateAddress
<1>3. CASE CacheHit(r)
  BY <1>3, CloseTypeOK DEF CacheHit
<1>4. CASE CallProviders(r)
  BY <1>4 DEF CallProviders
<1>5. CASE CascadeUpsert(r)
  <2>. PICK p \in Remote : WriteAnswer(r, p)
    BY <1>5 DEF CascadeUpsert
  <2>. winner' = [winner EXCEPT ![r] = winner[r]]
    BY <1>5 DEF CascadeUpsert
  <2>. QED BY WriteAnswerTypeOK
<1>6. CASE Resolve(r)
  <2>1. PICK w \in Geocoders \cup {NoProvider} :
            /\ winner' = [winner EXCEPT ![r] = w]
            /\ Goto(r, IF w = NoProvider THEN "commit" ELSE "admin")
    BY <1>6 DEF Resolve
  <2>2. w \in Provider \cup {NoProvider}
    BY DEF Provider
  <2>3. UNCHANGED <<tables, op, addr, found, seen, broken, writes>>
    BY <1>6 DEF Resolve
  <2>. QED BY <2>1, <2>2, <2>3
<1>7. CASE AdminCheck(r)
  BY <1>7 DEF AdminCheck, AfterPersist
<1>8. CASE PersistWinner(r)
  BY <1>8 DEF PersistWinner, AfterPersist
<1>9. CASE LegacyUpsert(r)
  <2>1. PICK p \in Remote :
          \/ /\ WriteAnswer(r, p)
             /\ winner' = [winner EXCEPT ![r] =
                  IF @ = NoProvider /\ Requeried(r, p) = "MATCH" THEN p ELSE @]
          \/ /\ found' = [found EXCEPT ![r][p] = "absent"]
             /\ UNCHANGED <<tables, pc, op, addr, seen, winner, broken, writes>>
    BY <1>9 DEF LegacyUpsert
  <2>2. p \in Provider \cup {NoProvider}
    BY DEF Provider, Geocoders
  <2>3. CASE /\ WriteAnswer(r, p)
             /\ winner' = [winner EXCEPT ![r] =
                  IF @ = NoProvider /\ Requeried(r, p) = "MATCH" THEN p ELSE @]
    <3>. DEFINE w == IF winner[r] = NoProvider /\ Requeried(r, p) = "MATCH"
                     THEN p ELSE winner[r]
    <3>1. w \in Provider \cup {NoProvider} /\ winner' = [winner EXCEPT ![r] = w]
      BY <2>2, <2>3
    <3>. HIDE DEF w
    <3>. QED BY <2>3, <3>1, WriteAnswerTypeOK
  <2>4. CASE /\ found' = [found EXCEPT ![r][p] = "absent"]
             /\ UNCHANGED <<tables, pc, op, addr, seen, winner, broken, writes>>
    BY <2>4
  <2>. QED BY <2>1, <2>3, <2>4
<1>10. CASE LegacyElect(r)
  BY <1>10, CloseTypeOK DEF LegacyElect
<1>11. CASE OverrideRow(r)
  BY <1>11 DEF OverrideRow
<1>12. CASE OverrideRecord(r)
  BY <1>12 DEF OverrideRecord
<1>13. CASE ImportAddress(r)
  BY <1>13 DEF ImportAddress
<1>14. CASE ImportRow(r)
  BY <1>14 DEF ImportRow
<1>15. CASE ImportCheck(r)
  BY <1>15 DEF ImportCheck
<1>16. CASE WriteOfficial(r)
  BY <1>16 DEF WriteOfficial
<1>17. CASE InsertOfficial(r)
  BY <1>17 DEF InsertOfficial
<1>18. CASE Commit(r)
  BY <1>18 DEF Commit, Close, AllOps,
       GeocodeOps, CascadeOps, LegacyOps, NoRows, NoneFound
<1>. QED
  BY <1>1, <1>2, <1>3, <1>4, <1>5, <1>6, <1>7, <1>8, <1>9, <1>10, <1>11, <1>12,
     <1>13, <1>14, <1>15, <1>16, <1>17, <1>18 DEF Advance

LEMMA FailureTypeOK ==
  ASSUME NEW r \in Requests, TypeOK, Abort(r) \/ SwallowError(r)
  PROVE  TypeOK'
<1>1. CASE Abort(r)
  BY <1>1, CloseTypeOK DEF Abort
<1>2. CASE SwallowError(r)
  BY <1>2 DEF SwallowError, TypeOK, tables, NoRows, Row
<1>. QED BY <1>1, <1>2

LEMMA InitTypeOK == Init => TypeOK
BY DEF Init, TypeOK, NoRows, NoneFound, Row, PCs, AllOps,
     GeocodeOps, CascadeOps, LegacyOps

LEMMA NextTypeOK == TypeOK /\ [Next]_vars => TypeOK'
<1>1. ASSUME TypeOK, NEW r \in Requests,
             Start(r) \/ Advance(r) \/ Abort(r) \/ SwallowError(r) \/ Deadlock(r)
      PROVE  TypeOK'
  BY <1>1, StartTypeOK, AdvanceTypeOK, FailureTypeOK DEF Deadlock
<1>2. ASSUME TypeOK, UNCHANGED vars
      PROVE  TypeOK'
  BY <1>2 DEF TypeOK, vars, tables, writes
<1>. QED BY <1>1, <1>2 DEF Next

(* The tables and the sessions always have their types. *)
THEOREM TypesHold == Spec => []TypeOK
BY InitTypeOK, NextTypeOK, PTL DEF Spec

-----------------------------------------------------------------------------
(* The inductive invariant: what each open transaction holds, by the       *)
(* operation it runs and the statement it has reached.                     *)

NoWrites(r) == txRow[r] = NoRows /\ ~txAddr[r] /\ ~txOvr[r] /\ txOff[r] = NoProvider

IdleInv(r) == op[r] = "geocode" /\ NoWrites(r) /\ winner[r] = NoProvider /\ ~broken[r]

(* A transaction that a swallowed error has aborted writes nothing. *)
BrokenInv(r) == pc[r] \in {"remote", "commit"} /\ NoWrites(r) /\ op[r] \in LegacyOps

GeocodePcs == {"idle", "lookup", "create", "cached", "exact", "remote", "admin",
               "persist", "official", "insert", "commit"}

GeocodeInv(r) ==
  /\ pc[r] \in GeocodePcs
  /\ ~txOvr[r] /\ txRow[r][Admin] = "absent" /\ txRow[r][Gis] = "absent"
  /\ pc[r] # "commit" => txOff[r] = NoProvider
  /\ txOff[r] # NoProvider =>
       /\ txOff[r] \in Geocoders /\ txRow[r][txOff[r]] # "absent"
       /\ op[r] \in CascadeOps => txRow[r][txOff[r]] = "MATCH"
  /\ pc[r] \in {"lookup", "create", "cached", "exact"} => winner[r] = NoProvider
  /\ pc[r] \in {"admin", "persist", "official", "insert"} => winner[r] \in Geocoders
  /\ pc[r] = "official" => txRow[r][winner[r]] = "MATCH"
  /\ pc[r] = "insert" => txRow[r][winner[r]] # "absent"
  /\ pc[r] \in {"admin", "persist", "official"} => op[r] \in CascadeOps
  /\ pc[r] = "insert" => op[r] \in LegacyOps
  /\ op[r] \in LegacyOps /\ pc[r] = "remote" /\ winner[r] # NoProvider =>
       /\ winner[r] \in Remote /\ found[r][winner[r]] = "absent"
       /\ broken[r] \/ txRow[r][winner[r]] # "absent"
  /\ pc[r] \notin {"idle", "lookup", "create", "cached"} /\ ~broken[r] => SeesAddress(r)

SelectInv(r) ==
  /\ pc[r] \in {"official", "commit"}
  /\ address[addr[r]] /\ txRow[r] = NoRows /\ ~txAddr[r] /\ ~txOvr[r]
  /\ winner[r] \in Provider /\ rows[addr[r]][winner[r]] # "absent"
  /\ txOff[r] = IF pc[r] = "commit" THEN winner[r] ELSE NoProvider

OverrideInv(r) ==
  /\ pc[r] \in {"ovrRow", "ovrRecord", "official", "commit"}
  /\ address[addr[r]] /\ ~txAddr[r] /\ winner[r] = Admin
  /\ \A p \in Provider \ {Admin} : txRow[r][p] = "absent"
  /\ txRow[r][Admin] = IF pc[r] = "ovrRow" THEN "absent" ELSE "MATCH"
  /\ txOvr[r] <=> pc[r] \in {"official", "commit"}
  /\ txOff[r] = IF pc[r] = "commit" THEN Admin ELSE NoProvider

ImportInv(r) ==
  /\ pc[r] \in {"impAddress", "impRow", "impCheck", "insert", "commit"}
  /\ ~txOvr[r] /\ winner[r] = Gis
  /\ pc[r] # "impAddress" => SeesAddress(r)
  /\ \A p \in Provider \ {Gis} : txRow[r][p] = "absent"
  /\ pc[r] \in {"impCheck", "insert", "commit"} => txRow[r][Gis] = "MATCH"
  /\ pc[r] # "commit" => txOff[r] = NoProvider
  /\ txOff[r] \in {Gis, NoProvider}
  /\ pc[r] = "commit" /\ txOff[r] = NoProvider => official[addr[r]] # NoProvider

SessionInv(r) ==
  /\ pc[r] = "idle" => IdleInv(r)
  /\ broken[r] => BrokenInv(r) /\ op[r] \in GeocodeOps
  /\ op[r] \in GeocodeOps => GeocodeInv(r)
  /\ op[r] = "select"   => SelectInv(r)
  /\ op[r] = "override" => OverrideInv(r)
  /\ op[r] = "import"   => ImportInv(r)

(* An operation that inserts with ON CONFLICT DO NOTHING. *)
InsertsOnly(r) == op[r] = "import" \/ op[r] \in LegacyOps

(* A pending insert of the official row meets no committed one ... *)
PendingInsertIsFirst ==
  \A r \in Requests :
    InsertsOnly(r) /\ txOff[r] # NoProvider => official[addr[r]] = NoProvider

(* ... because no other transaction can have one pending. *)
OnePendingOfficial ==
  \A r, s \in Requests :
    r # s /\ addr[r] = addr[s] => txOff[r] = NoProvider \/ txOff[s] = NoProvider

IInv ==
  /\ TypeOK
  /\ \A r \in Requests : SessionInv(r)
  /\ OnePendingOfficial
  /\ PendingInsertIsFirst
  /\ OfficialHasRow
  /\ OverrideIsComplete

-----------------------------------------------------------------------------
(* A step of r other than its commit touches nothing but r's session. *)
OwnSession(r) ==
  /\ UNCHANGED tables
  /\ \A s \in Requests \ {r} :
       /\ pc'[s] = pc[s] /\ op'[s] = op[s] /\ addr'[s] = addr[s]
       /\ found'[s] = found[s] /\ seen'[s] = seen[s] /\ winner'[s] = winner[s] /\ broken'[s] = broken[s]
       /\ txAddr'[s] = txAddr[s] /\ txRow'[s] = txRow[s]
       /\ txOff'[s] = txOff[s] /\ txOvr'[s] = txOvr[s]

(* The pending official row of r after the step is none, or the one r had, *)
(* or a new one that no other transaction contends for.                    *)
OfficialStep(r) ==
  \/ txOff'[r] = NoProvider
  \/ /\ addr'[r] = addr[r]
     /\ OfficialFree(r)
     /\ InsertsOnly(r)' => official[addr[r]] = NoProvider

LEMMA OwnStepInv ==
  ASSUME NEW r \in Requests, IInv, TypeOK', OwnSession(r), OfficialStep(r),
         SessionInv(r)'
  PROVE  IInv'
<1>1. ASSUME NEW s \in Requests \ {r}
      PROVE  SessionInv(s)'
  <2>. /\ SessionInv(s) /\ UNCHANGED tables
       /\ pc'[s] = pc[s] /\ op'[s] = op[s] /\ addr'[s] = addr[s]
       /\ found'[s] = found[s] /\ seen'[s] = seen[s] /\ winner'[s] = winner[s] /\ broken'[s] = broken[s]
       /\ txAddr'[s] = txAddr[s] /\ txRow'[s] = txRow[s]
       /\ txOff'[s] = txOff[s] /\ txOvr'[s] = txOvr[s]
    BY DEF IInv, OwnSession
  <2>1. NoWrites(s)' <=> NoWrites(s)
    BY DEF NoWrites
  <2>2. GeocodeInv(s) => GeocodeInv(s)'
    BY DEF GeocodeInv, SeesAddress, tables
  <2>3. SelectInv(s) => SelectInv(s)'
    BY DEF SelectInv, tables
  <2>4. OverrideInv(s) => OverrideInv(s)'
    BY DEF OverrideInv, tables
  <2>5. ImportInv(s) => ImportInv(s)'
    BY DEF ImportInv, SeesAddress, tables
  <2>. QED BY <2>1, <2>2, <2>3, <2>4, <2>5 DEF SessionInv, IdleInv, BrokenInv
<1>2. OnePendingOfficial'
  <2>1. ASSUME NEW s \in Requests \ {r}, addr'[s] = addr'[r]
        PROVE  txOff'[r] = NoProvider \/ txOff'[s] = NoProvider
    BY <2>1 DEF OwnSession, OfficialStep, OfficialFree, Others
  <2>2. ASSUME NEW s \in Requests \ {r}, NEW t \in Requests \ {r},
               s # t, addr'[s] = addr'[t]
        PROVE  txOff'[s] = NoProvider \/ txOff'[t] = NoProvider
    BY <2>2 DEF IInv, OwnSession, OnePendingOfficial
  <2>. QED BY <2>1, <2>2 DEF OnePendingOfficial
<1>3. PendingInsertIsFirst'
  BY DEF IInv, OwnSession, OfficialStep, PendingInsertIsFirst, InsertsOnly, tables
<1>4. OfficialHasRow' /\ OverrideIsComplete'
  BY DEF IInv, OwnSession, OfficialHasRow, OverrideIsComplete, tables
<1>. QED BY <1>1, <1>2, <1>3, <1>4 DEF IInv

LEMMA CloseInv ==
  ASSUME NEW r \in Requests, IInv, Close(r), UNCHANGED tables
  PROVE  IInv'
<1>1. TypeOK'
  BY CloseTypeOK DEF IInv
<1>2. OwnSession(r)
  BY DEF IInv, TypeOK, Close, OwnSession
<1>3. txOff'[r] = NoProvider /\ SessionInv(r)'
  BY NamesAreDistinct DEF IInv, TypeOK, Close, SessionInv, IdleInv, NoWrites,
     GeocodeInv, GeocodePcs, GeocodeOps, CascadeOps, LegacyOps, NoRows, Provider
<1>. QED BY <1>1, <1>2, <1>3, OwnStepInv DEF OfficialStep

LEMMA StartInv ==
  ASSUME NEW r \in Requests, IInv, Start(r)
  PROVE  IInv'
<1>1. TypeOK'
  BY StartTypeOK DEF IInv
<1>2. PICK a \in Addresses :
        \/ \E o \in {"geocode", "dry_run", "legacy"} : GeocodeBegin(r, o, a)
        \/ \E o \in {"refresh", "legacy_refresh"} : RefreshBegin(r, o, a)
        \/ \E p \in Provider : SelectBegin(r, a, p)
        \/ OverrideBegin(r, a)
        \/ ImportBegin(r, a)
  BY DEF Start
<1>3. OwnSession(r) /\ txOff'[r] = txOff[r] /\ txRow'[r] = txRow[r]
      /\ txAddr'[r] = txAddr[r] /\ txOvr'[r] = txOvr[r] /\ broken'[r] = broken[r]
  BY <1>2 DEF IInv, TypeOK, GeocodeBegin, RefreshBegin, SelectBegin, OverrideBegin,
     ImportBegin, Begin, Goto, OwnSession, writes
<1>4. NoWrites(r) /\ ~broken[r] /\ winner[r] = NoProvider
  BY <1>2 DEF IInv, SessionInv, IdleInv, GeocodeBegin, RefreshBegin, SelectBegin,
     OverrideBegin, ImportBegin, Begin
<1>5. NoWrites(r)' /\ ~broken'[r]
  BY <1>3, <1>4 DEF NoWrites
<1>6. SessionInv(r)'
  <2>1. ASSUME NEW o \in {"geocode", "dry_run", "legacy"}, GeocodeBegin(r, o, a)
        PROVE  SessionInv(r)'
    <3>1. op'[r] = o /\ pc'[r] = "lookup" /\ winner'[r] = NoProvider
      BY <1>4, <2>1 DEF IInv, TypeOK, GeocodeBegin, Begin, Goto
    <3>. QED BY <1>5, <3>1, NamesAreDistinct DEF SessionInv, GeocodeInv, GeocodePcs,
                GeocodeOps, CascadeOps, LegacyOps, NoWrites, NoRows, Provider
  <2>2. ASSUME NEW o \in {"refresh", "legacy_refresh"}, RefreshBegin(r, o, a)
        PROVE  SessionInv(r)'
    <3>1. op'[r] = o /\ pc'[r] = "lookup" /\ winner'[r] = NoProvider
      BY <1>4, <2>2 DEF IInv, TypeOK, RefreshBegin, Begin, Goto
    <3>. QED BY <1>5, <3>1, NamesAreDistinct DEF SessionInv, GeocodeInv, GeocodePcs,
                GeocodeOps, CascadeOps, LegacyOps, NoWrites, NoRows, Provider
  <2>3. ASSUME NEW p \in Provider, SelectBegin(r, a, p)
        PROVE  SessionInv(r)'
    <3>1. /\ op'[r] = "select" /\ pc'[r] = "official" /\ winner'[r] = p
          /\ addr'[r] = a /\ address'[a] /\ rows'[a][p] # "absent"
      BY <2>3 DEF IInv, TypeOK, SelectBegin, Begin, Goto, tables
    <3>. QED BY <1>5, <3>1 DEF SessionInv, SelectInv,
         GeocodeOps, CascadeOps, LegacyOps, NoWrites
  <2>4. CASE OverrideBegin(r, a)
    <3>1. /\ op'[r] = "override" /\ pc'[r] = "ovrRow" /\ winner'[r] = Admin
          /\ addr'[r] = a /\ address'[a]
      BY <2>4 DEF IInv, TypeOK, OverrideBegin, Begin, Goto, tables
    <3>. QED BY <1>5, <3>1 DEF SessionInv, OverrideInv,
         GeocodeOps, CascadeOps, LegacyOps, NoWrites, NoRows, Provider
  <2>5. CASE ImportBegin(r, a)
    <3>1. op'[r] = "import" /\ pc'[r] = "impAddress" /\ winner'[r] = Gis
      BY <2>5 DEF IInv, TypeOK, ImportBegin, Begin, Goto
    <3>. QED BY <1>5, <3>1 DEF SessionInv, ImportInv,
         GeocodeOps, CascadeOps, LegacyOps, NoWrites, NoRows, Provider
  <2>. QED BY <1>2, <2>1, <2>2, <2>3, <2>4, <2>5
<1>. QED BY <1>1, <1>3, <1>4, <1>6, OwnStepInv DEF OfficialStep, NoWrites
-----------------------------------------------------------------------------
(* The statement a session has reached tells which operation it runs. *)

LEMMA OperationAt ==
  ASSUME NEW r \in Requests, IInv
  PROVE  /\ pc[r] \in {"lookup", "create", "cached", "exact", "remote", "admin", "persist"}
              => op[r] \in GeocodeOps /\ GeocodeInv(r)
         /\ pc[r] \in {"ovrRow", "ovrRecord"} => op[r] = "override" /\ OverrideInv(r)
         /\ pc[r] \in {"impAddress", "impRow", "impCheck"} => op[r] = "import" /\ ImportInv(r)
         /\ pc[r] = "official" => \/ op[r] \in GeocodeOps /\ GeocodeInv(r)
                                  \/ op[r] = "select" /\ SelectInv(r)
                                  \/ op[r] = "override" /\ OverrideInv(r)
         /\ pc[r] = "insert" => \/ op[r] \in GeocodeOps /\ GeocodeInv(r)
                                \/ op[r] = "import" /\ ImportInv(r)
         /\ broken[r] => op[r] \in GeocodeOps /\ BrokenInv(r)
<1>1. /\ op[r] \in GeocodeOps \/ op[r] = "select" \/ op[r] = "override" \/ op[r] = "import"
      /\ op[r] \in GeocodeOps => GeocodeInv(r)
      /\ op[r] = "select" => SelectInv(r)
      /\ op[r] = "override" => OverrideInv(r)
      /\ op[r] = "import" => ImportInv(r)
      /\ broken[r] => op[r] \in GeocodeOps /\ BrokenInv(r)
  BY DEF IInv, TypeOK, AllOps, SessionInv
<1>2. /\ op[r] \in GeocodeOps => pc[r] \in GeocodePcs
      /\ op[r] = "select" => pc[r] \in {"official", "commit"}
      /\ op[r] = "override" => pc[r] \in {"ovrRow", "ovrRecord", "official", "commit"}
      /\ op[r] = "import" => pc[r] \in {"impAddress", "impRow", "impCheck", "insert", "commit"}
  BY <1>1 DEF GeocodeInv, SelectInv, OverrideInv, ImportInv
<1>3. /\ pc[r] \in {"lookup", "create", "cached", "exact", "remote", "admin", "persist"}
           => op[r] \in GeocodeOps
      /\ pc[r] \in {"ovrRow", "ovrRecord"} => op[r] = "override"
      /\ pc[r] \in {"impAddress", "impRow", "impCheck"} => op[r] = "import"
      /\ pc[r] = "official" => op[r] \in GeocodeOps \/ op[r] \in {"select", "override"}
      /\ pc[r] = "insert" => op[r] \in GeocodeOps \/ op[r] = "import"
  BY <1>1, <1>2 DEF GeocodePcs
<1>. QED BY <1>1, <1>3

(* A step inside a geocoding only has to keep that geocoding's facts. *)
LEMMA GeocodeStepInv ==
  ASSUME NEW r \in Requests, IInv, TypeOK', OwnSession(r), OfficialStep(r),
         op'[r] \in GeocodeOps, pc'[r] # "idle", GeocodeInv(r)',
         broken'[r] => BrokenInv(r)'
  PROVE  IInv'
BY OwnStepInv DEF SessionInv, GeocodeOps, CascadeOps, LegacyOps

LEMMA LookupInv ==
  ASSUME NEW r \in Requests, IInv, Lookup(r)
  PROVE  IInv'
<1>1. TypeOK'
  BY AdvanceTypeOK DEF IInv, Advance
<1>2. /\ OwnSession(r) /\ op'[r] = op[r]
      /\ \/ pc'[r] = "exact" /\ address[addr[r]]
         \/ pc'[r] \in {"create", "cached"}
  BY DEF IInv, TypeOK, Lookup, Goto, OwnSession, writes
<1>3. op[r] \in GeocodeOps /\ GeocodeInv(r) /\ ~broken[r]
  BY OperationAt DEF Lookup, BrokenInv
<1>4. GeocodeInv(r)' /\ txOff'[r] = NoProvider
  BY <1>2, <1>3 DEF Lookup, GeocodeInv, GeocodePcs, SeesAddress, tables, writes
<1>. QED
  BY <1>1, <1>2, <1>3, <1>4, GeocodeStepInv DEF Lookup, OfficialStep

LEMMA CreateAddressInv ==
  ASSUME NEW r \in Requests, IInv, CreateAddress(r)
  PROVE  IInv'
<1>1. CASE Close(r)
  BY <1>1, CloseInv DEF CreateAddress
<1>2. CASE /\ txAddr' = [txAddr EXCEPT ![r] = TRUE]
           /\ Goto(r, "exact")
           /\ UNCHANGED <<op, addr, found, seen, winner, broken, txRow, txOff, txOvr>>
  <2>1. TypeOK'
    BY AdvanceTypeOK DEF IInv, Advance
  <2>2. OwnSession(r) /\ txAddr'[r] /\ pc'[r] = "exact"
    BY <1>2 DEF IInv, TypeOK, CreateAddress, Goto, OwnSession
  <2>3. op[r] \in GeocodeOps /\ GeocodeInv(r) /\ ~broken[r]
    BY OperationAt DEF CreateAddress, BrokenInv
  <2>4. GeocodeInv(r)' /\ txOff'[r] = NoProvider
    BY <1>2, <2>2, <2>3 DEF CreateAddress, GeocodeInv, GeocodePcs, SeesAddress
  <2>. QED BY <1>2, <2>1, <2>2, <2>3, <2>4, GeocodeStepInv DEF OfficialStep
<1>. QED BY <1>1, <1>2 DEF CreateAddress

LEMMA CallProvidersInv ==
  ASSUME NEW r \in Requests, IInv, CallProviders(r)
  PROVE  IInv'
<1>1. TypeOK'
  BY AdvanceTypeOK DEF IInv, Advance
<1>2. OwnSession(r) /\ op'[r] = op[r] /\ pc'[r] = "remote"
  BY DEF IInv, TypeOK, CallProviders, Goto, OwnSession, writes
<1>3. op[r] \in GeocodeOps /\ GeocodeInv(r) /\ ~broken[r]
  BY OperationAt DEF CallProviders, BrokenInv
<1>4. GeocodeInv(r)' /\ txOff'[r] = NoProvider
  BY <1>2, <1>3 DEF CallProviders, GeocodeInv, GeocodePcs, SeesAddress, tables, writes
<1>. QED
  BY <1>1, <1>2, <1>3, <1>4, GeocodeStepInv DEF CallProviders, OfficialStep

LEMMA WriteAnswerInv ==
  ASSUME NEW r \in Requests, NEW p \in Remote, NEW w \in Provider \cup {NoProvider},
         IInv, TypeOK', pc[r] = "remote", ~broken[r], NextRemote(r, p), WriteAnswer(r, p),
         winner' = [winner EXCEPT ![r] = w],
         w = winner[r] \/ w = p
  PROVE  IInv'
<1>1. p \in Provider /\ p # Admin /\ p # Gis
  BY NamesAreDistinct DEF Provider, Geocoders
<1>2. OwnSession(r)
  BY DEF IInv, TypeOK, WriteAnswer, OwnSession, tables
<1>3. /\ op'[r] = op[r] /\ addr'[r] = addr[r] /\ pc'[r] = "remote" /\ broken'[r] = broken[r]
      /\ winner'[r] = w /\ txAddr'[r] = txAddr[r] /\ txOff'[r] = txOff[r]
      /\ txOvr'[r] = txOvr[r] /\ address' = address
  BY DEF IInv, TypeOK, WriteAnswer, tables
<1>4. /\ txRow'[r] = [txRow[r] EXCEPT ![p] = found[r][p]]
      /\ found'[r] = [found[r] EXCEPT ![p] = "absent"]
      /\ txRow[r] \in [Provider -> Row] /\ found[r] \in [Remote -> Row]
      /\ found[r][p] # "absent"
  BY DEF IInv, TypeOK, WriteAnswer, NextRemote
<1>5. op[r] \in GeocodeOps /\ GeocodeInv(r)
  BY OperationAt
<1>6. /\ txRow'[r][Admin] = txRow[r][Admin] /\ txRow'[r][Gis] = txRow[r][Gis]
      /\ txRow'[r][p] = found[r][p] /\ found'[r][p] = "absent"
      /\ \A q \in Remote \ {p} : found'[r][q] = found[r][q] /\ txRow'[r][q] = txRow[r][q]
  BY <1>1, <1>4 DEF Provider, Geocoders
<1>7. GeocodeInv(r)'
  <2>1. pc'[r] \in GeocodePcs /\ ~txOvr'[r] /\ txRow'[r][Admin] = "absent"
        /\ txRow'[r][Gis] = "absent" /\ txOff'[r] = NoProvider /\ SeesAddress(r)'
    BY <1>3, <1>5, <1>6 DEF GeocodeInv, GeocodePcs, SeesAddress
  <2>2. op'[r] \in LegacyOps /\ winner'[r] # NoProvider =>
          /\ winner'[r] \in Remote /\ found'[r][winner'[r]] = "absent"
          /\ txRow'[r][winner'[r]] # "absent"
    BY <1>3, <1>4, <1>5, <1>6 DEF GeocodeInv
  <2>. QED BY <1>3, <2>1, <2>2 DEF GeocodeInv
<1>8. txOff'[r] = NoProvider
  BY <1>3, <1>5 DEF GeocodeInv
<1>. QED BY <1>2, <1>3, <1>5, <1>7, <1>8, GeocodeStepInv DEF OfficialStep

LEMMA CascadeUpsertInv ==
  ASSUME NEW r \in Requests, IInv, CascadeUpsert(r)
  PROVE  IInv'
<1>1. TypeOK'
  BY AdvanceTypeOK DEF IInv, Advance
<1>2. PICK p \in Remote : NextRemote(r, p) /\ WriteAnswer(r, p)
  BY DEF CascadeUpsert
<1>3. winner' = [winner EXCEPT ![r] = winner[r]] /\ winner[r] \in Provider \cup {NoProvider}
  BY DEF CascadeUpsert, IInv, TypeOK
<1>4. pc[r] = "remote" /\ ~broken[r]
  BY OperationAt DEF CascadeUpsert, BrokenInv, CascadeOps, LegacyOps
<1>. QED BY <1>1, <1>2, <1>3, <1>4, WriteAnswerInv

LEMMA LegacyUpsertInv ==
  ASSUME NEW r \in Requests, IInv, LegacyUpsert(r)
  PROVE  IInv'
<1>1. TypeOK'
  BY AdvanceTypeOK DEF IInv, Advance
<1>2. PICK p \in Remote :
        /\ NextRemote(r, p)
        /\ \/ /\ ~broken[r]
              /\ WriteAnswer(r, p)
              /\ winner' = [winner EXCEPT ![r] =
                   IF @ = NoProvider /\ Requeried(r, p) = "MATCH" THEN p ELSE @]
           \/ /\ broken[r]
              /\ found' = [found EXCEPT ![r][p] = "absent"]
              /\ UNCHANGED <<tables, pc, op, addr, seen, winner, broken, writes>>
  BY DEF LegacyUpsert
<1>3. pc[r] = "remote" /\ p \in Provider
  BY DEF LegacyUpsert, Provider, Geocoders
<1>4. CASE ~broken[r]
  <2>. DEFINE w == IF winner[r] = NoProvider /\ Requeried(r, p) = "MATCH" THEN p ELSE winner[r]
  <2>1. w \in Provider \cup {NoProvider} /\ winner' = [winner EXCEPT ![r] = w]
        /\ (w = winner[r] \/ w = p)
    BY <1>2, <1>3, <1>4 DEF IInv, TypeOK
  <2>. HIDE DEF w
  <2>. QED BY <1>1, <1>2, <1>3, <1>4, <2>1, WriteAnswerInv
<1>5. CASE broken[r]
  <2>1. op[r] \in GeocodeOps /\ GeocodeInv(r) /\ BrokenInv(r)
    BY <1>3, <1>5, OperationAt
  <2>2. OwnSession(r)
    BY <1>2, <1>5 DEF IInv, TypeOK, OwnSession, tables, writes
  <2>3. /\ UNCHANGED <<tables, pc, op, addr, seen, winner, broken, writes>>
        /\ found'[r] = [found[r] EXCEPT ![p] = "absent"] /\ found[r] \in [Remote -> Row]
    BY <1>2, <1>5 DEF IInv, TypeOK
  <2>4. GeocodeInv(r)' /\ BrokenInv(r)' /\ txOff'[r] = NoProvider
    BY <1>3, <1>5, <2>1, <2>3 DEF GeocodeInv, BrokenInv, NoWrites, tables, writes, SeesAddress
  <2>. QED BY <1>1, <1>3, <2>1, <2>2, <2>3, <2>4, GeocodeStepInv DEF OfficialStep
<1>. QED BY <1>4, <1>5

LEMMA ResolveInv ==
  ASSUME NEW r \in Requests, IInv, Resolve(r)
  PROVE  IInv'
<1>1. TypeOK'
  BY AdvanceTypeOK DEF IInv, Advance
<1>2. PICK w \in Geocoders \cup {NoProvider} :
        /\ winner' = [winner EXCEPT ![r] = w]
        /\ Goto(r, IF w = NoProvider THEN "commit" ELSE "admin")
  BY DEF Resolve
<1>3. /\ OwnSession(r) /\ winner'[r] = w
      /\ pc'[r] = IF w = NoProvider THEN "commit" ELSE "admin"
      /\ UNCHANGED <<tables, op, addr, found, seen, broken, writes>>
  BY <1>2 DEF IInv, TypeOK, Resolve, Goto, OwnSession, writes
<1>4. /\ op[r] \in GeocodeOps /\ GeocodeInv(r)
      /\ op[r] \in CascadeOps /\ ~broken[r] /\ pc[r] = "remote"
  BY OperationAt DEF Resolve, BrokenInv, CascadeOps, LegacyOps
<1>5. GeocodeInv(r)' /\ txOff'[r] = NoProvider
  BY <1>3, <1>4 DEF GeocodeInv, GeocodePcs, SeesAddress, tables, writes
<1>. QED BY <1>1, <1>3, <1>4, <1>5, GeocodeStepInv DEF OfficialStep

LEMMA AdminCheckInv ==
  ASSUME NEW r \in Requests, IInv, AdminCheck(r)
  PROVE  IInv'
<1>1. TypeOK'
  BY AdvanceTypeOK DEF IInv, Advance
<1>2. /\ OwnSession(r)
      /\ pc'[r] \in {"commit", "persist"}
           \/ (pc'[r] = "official" /\ txRow[r][winner[r]] = "MATCH")
      /\ UNCHANGED <<tables, op, addr, found, seen, winner, broken, writes>>
  BY DEF IInv, TypeOK, AdminCheck, AfterPersist, Goto, OwnSession, writes
<1>3. op[r] \in GeocodeOps /\ GeocodeInv(r) /\ ~broken[r] /\ pc[r] = "admin"
  BY OperationAt DEF AdminCheck, BrokenInv
<1>4. GeocodeInv(r)' /\ txOff'[r] = NoProvider
  BY <1>2, <1>3 DEF GeocodeInv, GeocodePcs, SeesAddress, tables, writes
<1>. QED BY <1>1, <1>2, <1>3, <1>4, GeocodeStepInv DEF OfficialStep

LEMMA PersistWinnerInv ==
  ASSUME NEW r \in Requests, IInv, PersistWinner(r)
  PROVE  IInv'
<1>1. TypeOK'
  BY AdvanceTypeOK DEF IInv, Advance
<1>2. op[r] \in GeocodeOps /\ GeocodeInv(r) /\ ~broken[r] /\ pc[r] = "persist"
  BY OperationAt DEF PersistWinner, BrokenInv
<1>3. winner[r] \in Geocoders /\ winner[r] # Admin /\ winner[r] # Gis
  BY <1>2, NamesAreDistinct DEF GeocodeInv
<1>4. /\ OwnSession(r) /\ pc'[r] \in {"commit", "official"}
      /\ txRow'[r] = [txRow[r] EXCEPT ![winner[r]] = "MATCH"] /\ txRow[r] \in [Provider -> Row]
      /\ UNCHANGED <<tables, op, addr, found, seen, winner, broken, txAddr, txOff, txOvr>>
  BY DEF IInv, TypeOK, PersistWinner, AfterPersist, Goto, OwnSession
<1>5. /\ txRow'[r][winner[r]] = "MATCH" /\ txRow'[r][Admin] = txRow[r][Admin]
      /\ txRow'[r][Gis] = txRow[r][Gis]
  BY <1>3, <1>4 DEF Provider
<1>6. GeocodeInv(r)' /\ txOff'[r] = NoProvider
  BY <1>2, <1>4, <1>5 DEF GeocodeInv, GeocodePcs, SeesAddress, tables
<1>. QED BY <1>1, <1>2, <1>4, <1>6, GeocodeStepInv DEF OfficialStep

LEMMA LegacyElectInv ==
  ASSUME NEW r \in Requests, IInv, LegacyElect(r)
  PROVE  IInv'
<1>1. CASE Close(r)
  BY <1>1, CloseInv DEF LegacyElect
<1>2. CASE /\ winner[r] = NoProvider \/ ~broken[r]
           /\ Goto(r, IF winner[r] = NoProvider THEN "commit" ELSE "insert")
           /\ UNCHANGED <<op, addr, found, seen, winner, broken, writes>>
  <2>1. TypeOK'
    BY AdvanceTypeOK DEF IInv, Advance
  <2>2. /\ OwnSession(r)
        /\ pc'[r] = IF winner[r] = NoProvider THEN "commit" ELSE "insert"
        /\ UNCHANGED <<tables, op, addr, found, seen, winner, broken, writes>>
    BY <1>2 DEF IInv, TypeOK, LegacyElect, Goto, OwnSession, writes
  <2>3. op[r] \in GeocodeOps /\ GeocodeInv(r) /\ pc[r] = "remote" /\ op[r] \in LegacyOps
    BY OperationAt DEF LegacyElect
  <2>4. broken[r] => BrokenInv(r) /\ winner[r] = NoProvider
    BY <1>2, OperationAt
  <2>5. winner[r] # NoProvider => winner[r] \in Geocoders /\ txRow[r][winner[r]] # "absent"
    BY <2>3, <2>4 DEF GeocodeInv, Geocoders
  <2>6. GeocodeInv(r)' /\ txOff'[r] = NoProvider
    BY <2>2, <2>3, <2>5 DEF GeocodeInv, GeocodePcs, SeesAddress, tables, writes
  <2>7. broken'[r] => BrokenInv(r)'
    BY <2>2, <2>4 DEF BrokenInv, NoWrites, writes
  <2>. QED BY <2>1, <2>2, <2>3, <2>6, <2>7, GeocodeStepInv DEF OfficialStep
<1>. QED BY <1>1, <1>2 DEF LegacyElect

LEMMA SwallowErrorInv ==
  ASSUME NEW r \in Requests, IInv, SwallowError(r)
  PROVE  IInv'
<1>1. TypeOK'
  BY FailureTypeOK DEF IInv
<1>2. op[r] \in GeocodeOps /\ GeocodeInv(r) /\ pc[r] = "remote" /\ op[r] \in LegacyOps
  BY OperationAt DEF SwallowError
<1>3. PICK p \in Remote : found' = [found EXCEPT ![r][p] = "absent"]
  BY DEF SwallowError
<1>4. /\ OwnSession(r) /\ txRow'[r] = NoRows /\ ~txAddr'[r] /\ broken'[r]
      /\ found'[r] = [found[r] EXCEPT ![p] = "absent"] /\ found[r] \in [Remote -> Row]
      /\ UNCHANGED <<tables, pc, op, addr, winner, txOff, txOvr>>
  BY <1>3 DEF IInv, TypeOK, SwallowError, OwnSession
<1>5. txRow'[r][Admin] = "absent" /\ txRow'[r][Gis] = "absent"
  BY <1>4 DEF NoRows, Provider
<1>6. \A q \in Remote : found[r][q] = "absent" => found'[r][q] = "absent"
  BY <1>4
<1>7. GeocodeInv(r)' /\ txOff'[r] = NoProvider
  BY <1>2, <1>4, <1>5, <1>6 DEF GeocodeInv
<1>8. BrokenInv(r)'
  BY <1>2, <1>4 DEF GeocodeInv, BrokenInv, NoWrites
<1>. QED BY <1>1, <1>2, <1>4, <1>7, <1>8, GeocodeStepInv DEF OfficialStep

LEMMA OverrideRowInv ==
  ASSUME NEW r \in Requests, IInv, OverrideRow(r)
  PROVE  IInv'
<1>1. TypeOK'
  BY AdvanceTypeOK DEF IInv, Advance
<1>2. /\ OwnSession(r) /\ pc'[r] = "ovrRecord"
      /\ txRow'[r] = [txRow[r] EXCEPT ![Admin] = "MATCH"] /\ txRow[r] \in [Provider -> Row]
      /\ UNCHANGED <<tables, op, addr, found, seen, winner, broken, txAddr, txOff, txOvr>>
  BY DEF IInv, TypeOK, OverrideRow, Goto, OwnSession
<1>3. op[r] = "override" /\ OverrideInv(r) /\ ~broken[r] /\ pc[r] = "ovrRow"
  BY OperationAt DEF OverrideRow, BrokenInv
<1>4. txRow'[r][Admin] = "MATCH" /\ \A q \in Provider \ {Admin} : txRow'[r][q] = "absent"
  BY <1>2, <1>3 DEF OverrideInv, Provider
<1>5. OverrideInv(r)' /\ txOff'[r] = NoProvider
  BY <1>2, <1>3, <1>4 DEF OverrideInv, tables
<1>. QED
  BY <1>1, <1>2, <1>3, <1>5, OwnStepInv DEF OfficialStep, SessionInv,
       GeocodeOps, CascadeOps, LegacyOps

LEMMA OverrideRecordInv ==
  ASSUME NEW r \in Requests, IInv, OverrideRecord(r)
  PROVE  IInv'
<1>1. TypeOK'
  BY AdvanceTypeOK DEF IInv, Advance
<1>2. /\ OwnSession(r) /\ pc'[r] = "official" /\ txOvr'[r]
      /\ UNCHANGED <<tables, op, addr, found, seen, winner, broken, txAddr, txRow, txOff>>
  BY DEF IInv, TypeOK, OverrideRecord, Goto, OwnSession
<1>3. op[r] = "override" /\ OverrideInv(r) /\ ~broken[r] /\ pc[r] = "ovrRecord"
  BY OperationAt DEF OverrideRecord, BrokenInv
<1>4. OverrideInv(r)' /\ txOff'[r] = NoProvider
  BY <1>2, <1>3 DEF OverrideInv, tables
<1>. QED
  BY <1>1, <1>2, <1>3, <1>4, OwnStepInv DEF OfficialStep, SessionInv,
       GeocodeOps, CascadeOps, LegacyOps

LEMMA ImportAddressInv ==
  ASSUME NEW r \in Requests, IInv, ImportAddress(r)
  PROVE  IInv'
<1>1. TypeOK'
  BY AdvanceTypeOK DEF IInv, Advance
<1>2. /\ OwnSession(r) /\ pc'[r] = "impRow" /\ txAddr'[r] = ~address[addr[r]]
      /\ UNCHANGED <<tables, op, addr, found, seen, winner, broken, txRow, txOff, txOvr>>
  BY DEF IInv, TypeOK, ImportAddress, Goto, OwnSession
<1>3. op[r] = "import" /\ ImportInv(r) /\ ~broken[r] /\ pc[r] = "impAddress"
  BY OperationAt DEF ImportAddress, BrokenInv
<1>4. ImportInv(r)' /\ txOff'[r] = NoProvider
  BY <1>2, <1>3 DEF ImportInv, SeesAddress, tables
<1>. QED
  BY <1>1, <1>2, <1>3, <1>4, OwnStepInv DEF OfficialStep, SessionInv,
       GeocodeOps, CascadeOps, LegacyOps

LEMMA ImportRowInv ==
  ASSUME NEW r \in Requests, IInv, ImportRow(r)
  PROVE  IInv'
<1>1. TypeOK'
  BY AdvanceTypeOK DEF IInv, Advance
<1>2. /\ OwnSession(r) /\ pc'[r] = "impCheck"
      /\ txRow'[r] = [txRow[r] EXCEPT ![Gis] = "MATCH"] /\ txRow[r] \in [Provider -> Row]
      /\ UNCHANGED <<tables, op, addr, found, seen, winner, broken, txAddr, txOff, txOvr>>
  BY DEF IInv, TypeOK, ImportRow, Goto, OwnSession
<1>3. op[r] = "import" /\ ImportInv(r) /\ ~broken[r] /\ pc[r] = "impRow"
  BY OperationAt DEF ImportRow, BrokenInv
<1>4. txRow'[r][Gis] = "MATCH" /\ \A q \in Provider \ {Gis} : txRow'[r][q] = "absent"
  BY <1>2, <1>3 DEF ImportInv, Provider
<1>5. ImportInv(r)' /\ txOff'[r] = NoProvider
  BY <1>2, <1>3, <1>4 DEF ImportInv, SeesAddress, tables
<1>. QED
  BY <1>1, <1>2, <1>3, <1>5, OwnStepInv DEF OfficialStep, SessionInv,
       GeocodeOps, CascadeOps, LegacyOps

(* The import that is told of an override has nothing to insert: the       *)
(* override came with an official row.                                     *)
LEMMA ImportCheckInv ==
  ASSUME NEW r \in Requests, IInv, ImportCheck(r)
  PROVE  IInv'
<1>1. TypeOK'
  BY AdvanceTypeOK DEF IInv, Advance
<1>2. /\ OwnSession(r)
      /\ pc'[r] = IF override[addr[r]] THEN "commit" ELSE "insert"
      /\ UNCHANGED <<tables, op, addr, found, seen, winner, broken, writes>>
  BY DEF IInv, TypeOK, ImportCheck, Goto, OwnSession, writes
<1>3. op[r] = "import" /\ ImportInv(r) /\ ~broken[r] /\ pc[r] = "impCheck"
  BY OperationAt DEF ImportCheck, BrokenInv
<1>4. override[addr[r]] => official[addr[r]] # NoProvider
  BY DEF IInv, TypeOK, OverrideIsComplete
<1>5. ImportInv(r)' /\ txOff'[r] = NoProvider
  BY <1>2, <1>3, <1>4 DEF ImportInv, SeesAddress, tables, writes
<1>. QED
  BY <1>1, <1>2, <1>3, <1>5, OwnStepInv DEF OfficialStep, SessionInv,
       GeocodeOps, CascadeOps, LegacyOps

LEMMA WriteOfficialInv ==
  ASSUME NEW r \in Requests, IInv, WriteOfficial(r)
  PROVE  IInv'
<1>1. TypeOK'
  BY AdvanceTypeOK DEF IInv, Advance
<1>2. /\ OwnSession(r) /\ pc'[r] = "commit" /\ txOff'[r] = winner[r]
      /\ UNCHANGED <<tables, op, addr, found, seen, winner, broken, txAddr, txRow, txOvr>>
  BY DEF IInv, TypeOK, WriteOfficial, Goto, OwnSession
<1>3. pc[r] = "official" /\ ~broken[r] /\ OfficialFree(r)
  BY OperationAt DEF WriteOfficial, BrokenInv
<1>4. CASE op[r] \in GeocodeOps /\ GeocodeInv(r)
  <2>1. GeocodeInv(r)' /\ ~InsertsOnly(r)'
    BY <1>2, <1>3, <1>4 DEF GeocodeInv, GeocodePcs, SeesAddress, tables, InsertsOnly,
         GeocodeOps, CascadeOps, LegacyOps
  <2>. QED BY <1>1, <1>2, <1>3, <1>4, <2>1, GeocodeStepInv DEF OfficialStep
<1>5. CASE op[r] = "select" /\ SelectInv(r)
  <2>1. SelectInv(r)' /\ ~InsertsOnly(r)'
    BY <1>2, <1>3, <1>5 DEF SelectInv, tables, InsertsOnly,
         GeocodeOps, CascadeOps, LegacyOps
  <2>. QED BY <1>1, <1>2, <1>3, <1>5, <2>1, OwnStepInv DEF OfficialStep, SessionInv,
       GeocodeOps, CascadeOps, LegacyOps
<1>6. CASE op[r] = "override" /\ OverrideInv(r)
  <2>1. OverrideInv(r)' /\ ~InsertsOnly(r)'
    BY <1>2, <1>3, <1>6 DEF OverrideInv, tables, InsertsOnly,
         GeocodeOps, CascadeOps, LegacyOps
  <2>. QED BY <1>1, <1>2, <1>3, <1>6, <2>1, OwnStepInv DEF OfficialStep, SessionInv,
       GeocodeOps, CascadeOps, LegacyOps
<1>. QED BY <1>3, <1>4, <1>5, <1>6, OperationAt

LEMMA InsertOfficialInv ==
  ASSUME NEW r \in Requests, IInv, InsertOfficial(r)
  PROVE  IInv'
<1>1. TypeOK'
  BY AdvanceTypeOK DEF IInv, Advance
<1>2. /\ OwnSession(r) /\ pc'[r] = "commit"
      /\ txOff'[r] = IF official[addr[r]] = NoProvider THEN winner[r] ELSE txOff[r]
      /\ UNCHANGED <<tables, op, addr, found, seen, winner, broken, txAddr, txRow, txOvr>>
  BY DEF IInv, TypeOK, InsertOfficial, Goto, OwnSession
<1>3. pc[r] = "insert" /\ ~broken[r] /\ OfficialFree(r)
  BY OperationAt DEF InsertOfficial, BrokenInv
<1>4. CASE op[r] \in GeocodeOps /\ GeocodeInv(r)
  <2>1. txOff'[r] = IF official[addr[r]] = NoProvider THEN winner[r] ELSE NoProvider
    BY <1>2, <1>3, <1>4 DEF GeocodeInv
  <2>2. GeocodeInv(r)'
    BY <1>2, <1>3, <1>4, <2>1 DEF GeocodeInv, GeocodePcs, SeesAddress, tables,
       CascadeOps, LegacyOps
  <2>3. OfficialStep(r)
    BY <1>2, <1>3, <2>1 DEF OfficialStep
  <2>. QED BY <1>1, <1>2, <1>3, <1>4, <2>2, <2>3, GeocodeStepInv
<1>5. CASE op[r] = "import" /\ ImportInv(r)
  <2>1. txOff'[r] = IF official[addr[r]] = NoProvider THEN Gis ELSE NoProvider
    BY <1>2, <1>3, <1>5 DEF ImportInv
  <2>2. ImportInv(r)'
    BY <1>2, <1>3, <1>5, <2>1, NamesAreDistinct DEF ImportInv, SeesAddress, tables, Provider
  <2>3. OfficialStep(r)
    BY <1>2, <1>3, <2>1 DEF OfficialStep
  <2>. QED BY <1>1, <1>2, <1>3, <1>5, <2>2, <2>3, OwnStepInv DEF SessionInv,
       GeocodeOps, CascadeOps, LegacyOps
<1>. QED BY <1>3, <1>4, <1>5, OperationAt

-----------------------------------------------------------------------------
(* A transaction that commits names a row that exists then, and writes the *)
(* override record exactly when it writes the admin_override result.       *)
LEMMA CommittedWrites ==
  ASSUME NEW r \in Requests, IInv, pc[r] = "commit"
  PROVE  /\ txOff[r] # NoProvider =>
              txRow[r][txOff[r]] # "absent" \/ rows[addr[r]][txOff[r]] # "absent"
         /\ (txRow[r][Admin] # "absent") <=> txOvr[r]
         /\ txOvr[r] => txOff[r] # NoProvider
<1>1. Admin \in Provider /\ Admin # Gis /\ Admin # NoProvider
  BY NamesAreDistinct DEF Provider
<1>2. op[r] \in AllOps /\ SessionInv(r)
  BY DEF IInv, TypeOK
<1>3. CASE op[r] \in GeocodeOps
  BY <1>2, <1>3 DEF SessionInv, GeocodeInv
<1>4. CASE op[r] = "select"
  BY <1>1, <1>2, <1>4 DEF SessionInv, SelectInv, NoRows
<1>5. CASE op[r] = "override"
  BY <1>1, <1>2, <1>5 DEF SessionInv, OverrideInv
<1>6. CASE op[r] = "import"
  BY <1>1, <1>2, <1>6 DEF SessionInv, ImportInv
<1>. QED BY <1>2, <1>3, <1>4, <1>5, <1>6 DEF AllOps

(* What a commit does to the tables, and that it leaves other sessions be. *)
LEMMA CommitEffect ==
  ASSUME NEW r \in Requests, IInv, Commit(r)
  PROVE  /\ \A b \in Addresses : address[b] => address'[b]
         /\ \A b \in Addresses : b # addr[r] =>
              rows'[b] = rows[b] /\ official'[b] = official[b] /\ override'[b] = override[b]
         /\ \A p \in Provider : rows'[addr[r]][p] =
              IF txRow[r][p] = "absent" THEN rows[addr[r]][p] ELSE txRow[r][p]
         /\ official'[addr[r]] = IF txOff[r] = NoProvider THEN official[addr[r]] ELSE txOff[r]
         /\ override'[addr[r]] <=> override[addr[r]] \/ txOvr[r]
         /\ addr' = addr /\ pc'[r] = "idle" /\ txOff'[r] = NoProvider
         /\ \A s \in Requests \ {r} :
              /\ pc'[s] = pc[s] /\ op'[s] = op[s]
              /\ found'[s] = found[s] /\ seen'[s] = seen[s] /\ winner'[s] = winner[s] /\ broken'[s] = broken[s]
              /\ txAddr'[s] = txAddr[s] /\ txRow'[s] = txRow[s]
              /\ txOff'[s] = txOff[s] /\ txOvr'[s] = txOvr[s]
<1>. USE DEF IInv, TypeOK, Commit
<1>1. addr[r] \in Addresses
  OBVIOUS
<1>2. \A b \in Addresses : address[b] => address'[b]
  BY <1>1
<1>3. \A b \in Addresses : b # addr[r] =>
        rows'[b] = rows[b] /\ official'[b] = official[b] /\ override'[b] = override[b]
  BY <1>1
<1>4. \A p \in Provider : rows'[addr[r]][p] =
        IF txRow[r][p] = "absent" THEN rows[addr[r]][p] ELSE txRow[r][p]
  BY <1>1
<1>5. official'[addr[r]] = IF txOff[r] = NoProvider THEN official[addr[r]] ELSE txOff[r]
  BY <1>1
<1>6. override'[addr[r]] <=> override[addr[r]] \/ txOvr[r]
  BY <1>1
<1>7. /\ addr' = addr /\ pc'[r] = "idle" /\ txOff'[r] = NoProvider
      /\ \A s \in Requests \ {r} :
           /\ pc'[s] = pc[s] /\ op'[s] = op[s]
           /\ found'[s] = found[s] /\ seen'[s] = seen[s] /\ winner'[s] = winner[s] /\ broken'[s] = broken[s]
           /\ txAddr'[s] = txAddr[s] /\ txRow'[s] = txRow[s]
           /\ txOff'[s] = txOff[s] /\ txOvr'[s] = txOvr[s]
  BY DEF Close
<1>. QED BY <1>2, <1>3, <1>4, <1>5, <1>6, <1>7

LEMMA ClosedSessionInv ==
  ASSUME NEW r \in Requests, TypeOK, Close(r)
  PROVE  SessionInv(r)'
BY NamesAreDistinct DEF TypeOK, Close, SessionInv, IdleInv, NoWrites,
     GeocodeInv, GeocodePcs, GeocodeOps, CascadeOps, LegacyOps, NoRows, Provider

LEMMA CommitInv ==
  ASSUME NEW r \in Requests, IInv, Commit(r)
  PROVE  IInv'
<1>1. TypeOK'
  BY AdvanceTypeOK DEF IInv, Advance
<1>2. addr[r] \in Addresses /\ pc[r] = "commit" /\ Close(r)
  BY DEF IInv, TypeOK, Commit
<1>3. SessionInv(r)'
  BY <1>2, ClosedSessionInv DEF IInv
<1>4. /\ \A b \in Addresses, p \in Provider : rows[b][p] # "absent" => rows'[b][p] # "absent"
      /\ \A b \in Addresses : official[b] # NoProvider => official'[b] # NoProvider
  BY CommitEffect
<1>5. ASSUME NEW s \in Requests \ {r}
      PROVE  SessionInv(s)'
  <2>1. /\ SessionInv(s) /\ addr[s] \in Addresses
        /\ pc'[s] = pc[s] /\ op'[s] = op[s] /\ addr'[s] = addr[s]
        /\ found'[s] = found[s] /\ seen'[s] = seen[s] /\ winner'[s] = winner[s] /\ broken'[s] = broken[s]
        /\ txAddr'[s] = txAddr[s] /\ txRow'[s] = txRow[s]
        /\ txOff'[s] = txOff[s] /\ txOvr'[s] = txOvr[s]
    <3>1. SessionInv(s) /\ addr[s] \in Addresses
      BY DEF IInv, TypeOK
    <3>2. addr' = addr
      BY CommitEffect
    <3>. QED BY <3>1, <3>2, CommitEffect
  <2>2. /\ address[addr[s]] => address'[addr[s]]
        /\ SeesAddress(s) => SeesAddress(s)'
    BY <2>1, CommitEffect DEF SeesAddress
  <2>3. NoWrites(s)' <=> NoWrites(s)
    BY <2>1 DEF NoWrites
  <2>4. GeocodeInv(s) => GeocodeInv(s)'
    BY <2>1, <2>2 DEF GeocodeInv
  <2>5. SelectInv(s) => SelectInv(s)'
    BY <1>4, <2>1, <2>2 DEF SelectInv
  <2>6. OverrideInv(s) => OverrideInv(s)'
    BY <2>1, <2>2 DEF OverrideInv
  <2>7. ImportInv(s) => ImportInv(s)'
    BY <1>4, <2>1, <2>2 DEF ImportInv
  <2>. QED BY <2>1, <2>3, <2>4, <2>5, <2>6, <2>7 DEF SessionInv, IdleInv, BrokenInv
<1>6. OnePendingOfficial'
  BY CommitEffect DEF IInv, OnePendingOfficial
<1>7. PendingInsertIsFirst'
  <2>. SUFFICES ASSUME NEW s \in Requests, InsertsOnly(s)', txOff'[s] # NoProvider
                PROVE  official'[addr'[s]] = NoProvider
    BY DEF PendingInsertIsFirst
  <2>1. s # r /\ addr'[s] = addr[s] /\ addr[s] \in Addresses /\ txOff[s] # NoProvider
    BY CommitEffect DEF IInv, TypeOK
  <2>2. official[addr[s]] = NoProvider
    BY <2>1, CommitEffect DEF IInv, PendingInsertIsFirst, InsertsOnly
  <2>3. addr[s] = addr[r] => txOff[r] = NoProvider
    BY <2>1 DEF IInv, OnePendingOfficial
  <2>. QED BY <2>1, <2>2, <2>3, CommitEffect
<1>8. OfficialHasRow'
  <2>1. /\ \A b \in Addresses : official[b] # NoProvider => rows[b][official[b]] # "absent"
        /\ \A b \in Addresses : official[b] \in Provider \cup {NoProvider}
        /\ txOff[r] \in Provider \cup {NoProvider}
    BY DEF IInv, TypeOK, OfficialHasRow
  <2>2. ASSUME NEW b \in Addresses, b # addr[r], official'[b] # NoProvider
        PROVE  rows'[b][official'[b]] # "absent"
    BY <2>1, <2>2, CommitEffect
  <2>3. ASSUME official'[addr[r]] # NoProvider
        PROVE  rows'[addr[r]][official'[addr[r]]] # "absent"
    <3>1. CASE txOff[r] = NoProvider
      BY <1>2, <1>4, <2>1, <2>3, <3>1, CommitEffect
    <3>2. CASE txOff[r] # NoProvider
      BY <1>2, <2>1, <3>2, CommitEffect, CommittedWrites
    <3>. QED BY <3>1, <3>2
  <2>. QED BY <2>2, <2>3 DEF OfficialHasRow
<1>9. OverrideIsComplete'
  <2>1. Admin \in Provider
    BY DEF Provider
  <2>2. \A b \in Addresses :
          /\ (rows[b][Admin] # "absent") <=> override[b]
          /\ override[b] => official[b] # NoProvider
    BY DEF IInv, OverrideIsComplete
  <2>3. ASSUME NEW b \in Addresses, b # addr[r]
        PROVE  /\ (rows'[b][Admin] # "absent") <=> override'[b]
               /\ override'[b] => official'[b] # NoProvider
    BY <2>2, <2>3, CommitEffect
  <2>4. /\ (rows'[addr[r]][Admin] # "absent") <=> override'[addr[r]]
        /\ override'[addr[r]] => official'[addr[r]] # NoProvider
    BY <1>2, <2>1, <2>2, CommitEffect, CommittedWrites
  <2>. QED BY <2>3, <2>4 DEF OverrideIsComplete
<1>. QED BY <1>1, <1>3, <1>5, <1>6, <1>7, <1>8, <1>9 DEF IInv

-----------------------------------------------------------------------------
LEMMA InitInv == Init => IInv
<1>. SUFFICES ASSUME Init PROVE IInv
  OBVIOUS
<1>1. TypeOK
  BY InitTypeOK
<1>2. ASSUME NEW r \in Requests PROVE SessionInv(r)
  BY NamesAreDistinct DEF Init, SessionInv, IdleInv, NoWrites, GeocodeInv, GeocodePcs,
     GeocodeOps, CascadeOps, LegacyOps, NoRows, Provider
<1>3. OnePendingOfficial /\ PendingInsertIsFirst
  BY DEF Init, OnePendingOfficial, PendingInsertIsFirst, InsertsOnly
<1>4. OfficialHasRow /\ OverrideIsComplete
  BY DEF Init, OfficialHasRow, OverrideIsComplete, NoRows, Provider
<1>. QED BY <1>1, <1>2, <1>3, <1>4 DEF IInv

LEMMA AdvanceInv ==
  ASSUME NEW r \in Requests, IInv, Advance(r)
  PROVE  IInv'
<1>1. CASE CacheHit(r)
  BY <1>1, CloseInv DEF CacheHit
<1>. QED
  BY <1>1, LookupInv, CreateAddressInv, CallProvidersInv, CascadeUpsertInv, ResolveInv,
     AdminCheckInv, PersistWinnerInv, LegacyUpsertInv, LegacyElectInv, OverrideRowInv,
     OverrideRecordInv, ImportAddressInv, ImportRowInv, ImportCheckInv,
     WriteOfficialInv, InsertOfficialInv, CommitInv DEF Advance

LEMMA NextInv == IInv /\ [Next]_vars => IInv'
<1>1. ASSUME IInv, NEW r \in Requests, Abort(r)
      PROVE  IInv'
  BY <1>1, CloseInv DEF Abort
<1>2. ASSUME IInv, NEW r \in Requests,
             Start(r) \/ Advance(r) \/ Abort(r) \/ SwallowError(r) \/ Deadlock(r)
      PROVE  IInv'
  BY <1>1, <1>2, StartInv, AdvanceInv, SwallowErrorInv DEF Deadlock
<1>3. ASSUME IInv, UNCHANGED vars
      PROVE  IInv'
  <2>. USE DEF vars, tables, writes
  <2>1. TypeOK'
    BY <1>3 DEF IInv, TypeOK
  <2>2. ASSUME NEW s \in Requests PROVE SessionInv(s)'
    BY <1>3 DEF IInv, SessionInv, IdleInv, BrokenInv, NoWrites, GeocodeInv, SelectInv,
       OverrideInv, ImportInv, SeesAddress
  <2>3. OnePendingOfficial' /\ PendingInsertIsFirst' /\ OfficialHasRow' /\ OverrideIsComplete'
    BY <1>3 DEF IInv, OnePendingOfficial, PendingInsertIsFirst, InsertsOnly,
       OfficialHasRow, OverrideIsComplete
  <2>. QED BY <2>1, <2>2, <2>3 DEF IInv
<1>. QED BY <1>2, <1>3 DEF Next

LEMMA InvHolds == Spec => []IInv
BY InitInv, NextInv, PTL DEF Spec

(* Whatever requests interleave, and wherever they fail, the committed     *)
(* official pointer of an address names a committed result row of it.      *)
THEOREM OfficialHasRowHolds == Spec => []OfficialHasRow
<1>1. IInv => OfficialHasRow
  BY DEF IInv
<1>. QED BY <1>1, InvHolds, PTL

(* The admin_override result, its admin_overrides record and an official   *)
(* pointer are committed together.                                         *)
THEOREM OverrideIsCompleteHolds == Spec => []OverrideIsComplete
<1>1. IInv => OverrideIsComplete
  BY DEF IInv
<1>. QED BY <1>1, InvHolds, PTL

=============================================================================
