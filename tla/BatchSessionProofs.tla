------------------------- MODULE BatchSessionProofs -------------------------
(***************************************************************************)
(* Proofs about BatchSession, for every size of a batch and every limit.   *)
(* At most one item is ever in the pipeline; the invariant says where it   *)
(* stands with the session, and what its transaction holds by then.        *)
(***************************************************************************)
EXTENDS BatchSession, TLAPS, FiniteSetTheorems

Busy(i) == pc[i] \notin Idle \cup Answered

(* Tasks begin in order, and the first holds the others off meanwhile. *)
OrderInv ==
  /\ \A i \in Item : pc[i] = "created" <=> i > begun
  /\ begun = 0 => session = "closed"
  /\ begun \in 1 .. (N - 1) => pc[1] = "connect"

(* One item at a time is past its start; with room for two, all but the    *)
(* first fail at once, while the session is connecting for the first.      *)
SoloInv ==
  /\ \A i, j \in Item : Busy(i) /\ Busy(j) => i = j
  /\ limit > 1 => /\ pc[1] # "queued"
                  /\ \A i \in Item \ {1} : pc[i] \in {"created", "failed"}

SessionInv ==
  /\ session # "open" => newAddress = {} /\ newRows = {}
  /\ session \in {"aborted", "inactive"} => own # {}
  /\ \A i \in Item :
       /\ pc[i] \in {"connect", "reload"} => session = "closed"
       /\ pc[i] = "find" => session \in {"open", "aborted"}
       /\ Busy(i) /\ pc[i] \notin {"connect", "reload", "find"} => session = "open"

Found == {"refresh", "local", "cached", "remote", "upsert", "requery", "later",
          "official", "elect", "commit", "publish"}

WrittenInv ==
  \A i \in Item :
    /\ pc[i] \in Found => of[i] \in address \cup newAddress
    /\ ~geocoding => pc[i] \notin {"refresh", "later", "official", "elect", "publish", "reload"}
    /\ ~geocoding /\ pc[i] \in {"requery", "commit"} => of[i] \in rows \cup newRows
    /\ pc[i] = "publish" => of[i] \in newRows
    /\ pc[i] = "reload" => of[i] \in address \cap stored

StoredInv ==
  stored # {} => \E i \in Item : \/ pc[i] \in {"ok", "reload"}
                                 \/ geocoding /\ i \in own /\ of[i] \in stored

SomeoneInv ==
  begun > 0 /\ own = {} => \E i \in Item : pc[i] \notin Idle \cup {"failed"}

ReplyInv ==
  /\ reply # "none" => AllAnswered
  /\ reply = "422" => \A i \in Item : pc[i] = "failed"

IInv == /\ TypeOK /\ OrderInv /\ SoloInv /\ SessionInv /\ WrittenInv
        /\ StoredInv /\ SomeoneInv /\ ReplyInv /\ OkIsStored

-----------------------------------------------------------------------------
LEMMA FirstIsItem == 1 \in Item /\ N \in Item
BY NAssumption DEF Item

LEMMA HoldersAreFew ==
  ASSUME TypeOK, SoloInv
  PROVE  /\ limit \in Nat \ {0}
         /\ Cardinality(Holders) < limit /\ limit = 1 => \A i \in Item : ~Busy(i)
         /\ ~(Cardinality(Holders) < limit) => limit = 1 /\ \E i \in Item : Busy(i)
<1>1. limit \in Nat \ {0}
  BY LimitsAssumption DEF TypeOK
<1>2. Holders = {i \in Item : Busy(i)}
  BY DEF Holders, Busy
<1>3. CASE \A i \in Item : ~Busy(i)
  <2>1. Holders = {}
    BY <1>2, <1>3
  <2>2. Cardinality(Holders) = 0
    BY <2>1, FS_EmptySet
  <2>. QED BY <1>1, <1>3, <2>2
<1>4. CASE \E i \in Item : Busy(i)
  <2>1. PICK i \in Item : Busy(i)
    BY <1>4
  <2>2. Holders = {i}
    BY <1>2, <2>1 DEF SoloInv
  <2>3. Cardinality(Holders) = 1
    BY <2>2, FS_Singleton
  <2>. QED BY <1>1, <1>4, <2>3
<1>. QED BY <1>3, <1>4

LEMMA InitIInv == Init => IInv
<1>. SUFFICES ASSUME Init PROVE IInv
  OBVIOUS
<1>. USE DEF Init
<1>1. TypeOK
  BY NAssumption DEF TypeOK, PCs, Idle
<1>2. OrderInv /\ SoloInv
  BY NAssumption DEF OrderInv, SoloInv, Busy, Idle, Item
<1>3. SessionInv /\ WrittenInv
  BY DEF SessionInv, WrittenInv, Busy, Idle, Found
<1>4. StoredInv /\ SomeoneInv /\ ReplyInv /\ OkIsStored
  BY DEF StoredInv, SomeoneInv, ReplyInv, OkIsStored
<1>. QED BY <1>1, <1>2, <1>3, <1>4 DEF IInv

-----------------------------------------------------------------------------
(* What a step of the item in the pipeline leaves true, whatever it does.  *)
LEMMA StepKeepsOrder ==
  ASSUME IInv, NEW i \in Item, AllBegun, Busy(i),
         NEW l \in PCs \ Idle, Goto(i, l),
         UNCHANGED <<request, begun, reply>>
  PROVE  /\ pc' \in [Item -> PCs] /\ OrderInv' /\ SoloInv' /\ ReplyInv'
         /\ \A j \in Item \ {i} : pc'[j] = pc[j] /\ pc[j] \in Idle \cup Answered
         /\ pc'[i] = l
<1>1. /\ pc \in [Item -> PCs] /\ begun = N /\ begun' = N /\ limit' = limit
      /\ of' = of /\ geocoding' = geocoding /\ reply' = reply
  BY DEF IInv, TypeOK, AllBegun, request
<1>2. pc' = [pc EXCEPT ![i] = l]
  BY DEF Goto
<1>3. pc' \in [Item -> PCs] /\ pc'[i] = l /\ \A j \in Item \ {i} : pc'[j] = pc[j]
  BY <1>1, <1>2
<1>4. \A j \in Item \ {i} : pc[j] \in Idle \cup Answered
  BY DEF IInv, SoloInv, Busy
<1>5. pc[i] # "created" /\ l # "created" /\ l # "queued"
  BY DEF Busy, Idle
<1>6. OrderInv'
  BY <1>1, <1>3, <1>5, NAssumption DEF IInv, OrderInv, Item
<1>7. limit > 1 => i = 1
  BY DEF IInv, SoloInv, Busy, Idle, Answered
<1>8. SoloInv'
  BY <1>1, <1>3, <1>4, <1>5, <1>7 DEF IInv, SoloInv, Busy
<1>9. reply = "none"
  BY DEF IInv, ReplyInv, AllAnswered, Busy
<1>10. ReplyInv'
  BY <1>1, <1>9 DEF ReplyInv
<1>. QED BY <1>3, <1>4, <1>6, <1>8, <1>10

(* A step that changes nothing but where its item is. *)
LEMMA QuietStep ==
  ASSUME IInv, NEW i \in Item, AllBegun, Busy(i), pc[i] # "reload", session = "open",
         NEW l \in (Found \ {"publish"}) \cup {"create"}, Goto(i, l),
         UNCHANGED <<request, begun, tables, tx, reply, own, stored>>,
         l \in Found => of[i] \in address \cup newAddress,
         ~geocoding => l \notin {"refresh", "later", "official", "elect"},
         ~geocoding /\ l \in {"requery", "commit"} => of[i] \in rows \cup newRows
  PROVE  IInv'
<1>1. l \in PCs \ Idle /\ l \notin Answered /\ l \notin {"connect", "find", "reload", "publish"}
  BY DEF Found, PCs, Idle, Answered, Statements, Commits
<1>2. /\ address' = address /\ rows' = rows /\ newAddress' = newAddress /\ newRows' = newRows
      /\ session' = session /\ own' = own /\ stored' = stored /\ reply' = reply
      /\ of' = of /\ limit' = limit /\ geocoding' = geocoding /\ begun' = begun
  BY DEF tables, tx, request
<1>3. /\ pc' \in [Item -> PCs] /\ OrderInv' /\ SoloInv' /\ ReplyInv' /\ pc'[i] = l
      /\ \A j \in Item \ {i} : pc'[j] = pc[j] /\ pc[j] \in Idle \cup Answered
  BY <1>1, <1>2, StepKeepsOrder
<1>4. TypeOK'
  BY <1>2, <1>3 DEF IInv, TypeOK
<1>5. \A j \in Item \ {i} : pc[j] \in Idle \cup Answered
  BY <1>3
<1>6. SessionInv'
  BY <1>1, <1>2, <1>3 DEF IInv, SessionInv, Busy, Idle, Answered
<1>7. WrittenInv'
  BY <1>1, <1>2, <1>3 DEF IInv, WrittenInv, Idle, Answered, Found
<1>8. pc[i] \notin {"ok", "failed"}
  BY DEF Busy, Answered
<1>9. StoredInv'
  BY <1>2, <1>3, <1>8 DEF IInv, StoredInv
<1>10. SomeoneInv'
  BY <1>1, <1>2, <1>3 DEF SomeoneInv, Answered
<1>11. OkIsStored'
  BY <1>1, <1>2, <1>3 DEF IInv, OkIsStored, Answered
<1>. QED BY <1>3, <1>4, <1>6, <1>7, <1>9, <1>10, <1>11 DEF IInv

(* A step whose item fails by itself. *)
LEMMA FailStep ==
  ASSUME IInv, NEW i \in Item, AllBegun, Busy(i),
         NEW after \in {"closed", "open", "aborted", "inactive"}, FailsAt(i, after),
         after = "open" => session = "open",
         pc[i] = "reload" => geocoding
  PROVE  IInv'
<1>1. "failed" \in PCs \ Idle
  BY DEF PCs, Idle, Answered
<1>2. /\ address' = address /\ rows' = rows
      /\ session' = after /\ own' = own \cup {i} /\ stored' = stored /\ reply' = reply
      /\ of' = of /\ limit' = limit /\ geocoding' = geocoding /\ begun' = begun
      /\ Goto(i, "failed")
  BY DEF tables, request, FailsAt
<1>3. \/ newAddress' = newAddress /\ newRows' = newRows /\ after = "open"
      \/ newAddress' = {} /\ newRows' = {}
  BY DEF FailsAt
<1>4. /\ pc' \in [Item -> PCs] /\ OrderInv' /\ SoloInv' /\ ReplyInv' /\ pc'[i] = "failed"
      /\ \A j \in Item \ {i} : pc'[j] = pc[j] /\ pc[j] \in Idle \cup Answered
  BY <1>1, <1>2, StepKeepsOrder DEF request
<1>5. TypeOK'
  BY <1>2, <1>3, <1>4 DEF IInv, TypeOK
<1>6. SessionInv'
  BY <1>2, <1>3, <1>4 DEF SessionInv, Busy, Idle, Answered
<1>7. WrittenInv'
  BY <1>2, <1>4 DEF WrittenInv, Idle, Answered, Found
<1>8. StoredInv'
  BY <1>2, <1>4 DEF IInv, StoredInv, WrittenInv, Busy, Answered
<1>9. SomeoneInv'
  BY <1>2 DEF SomeoneInv
<1>10. OkIsStored'
  BY <1>2, <1>4 DEF IInv, OkIsStored
<1>. QED BY <1>4, <1>5, <1>6, <1>7, <1>8, <1>9, <1>10 DEF IInv

(* The steps that change the session, its transaction or the tables. *)
LEMMA ConnectKeeps ==
  ASSUME IInv, NEW i \in Item, Connect(i)
  PROVE  IInv'
<1>1. AllBegun /\ Busy(i) /\ pc[i] = "connect"
  BY DEF Connect, At, Busy, Idle, Answered, Commits
<1>2. PICK l \in PCs \ Idle : Goto(i, l) /\ l = "find"
  BY <1>1 DEF Connect, At, PCs, Idle, Answered, Statements, Commits
<1>3. UNCHANGED <<request, begun, reply>>
  BY DEF Connect
<1>4. /\ pc' \in [Item -> PCs] /\ OrderInv' /\ SoloInv' /\ ReplyInv' /\ pc'[i] = l
      /\ \A j \in Item \ {i} : pc'[j] = pc[j] /\ pc[j] \in Idle \cup Answered
  BY <1>1, <1>2, <1>3, StepKeepsOrder
<1>5. of' = of /\ limit' = limit /\ geocoding' = geocoding /\ begun' = begun
  BY <1>3 DEF request
<1>6. TypeOK'
  BY <1>1, <1>4, <1>5 DEF IInv, TypeOK, Connect, tables
<1>7. SessionInv'
  BY <1>1, <1>2, <1>4 DEF IInv, SessionInv, Busy, Idle, Answered, Connect, tables
<1>8. WrittenInv'
  BY <1>1, <1>2, <1>4, <1>5 DEF IInv, WrittenInv, TypeOK, Idle, Answered, Found, Commits, Connect, tables
<1>9. StoredInv'
  BY <1>1, <1>2, <1>4, <1>5 DEF IInv, StoredInv, Answered, Commits, Connect, tables
<1>10. SomeoneInv'
  BY <1>2, <1>4, <1>5 DEF SomeoneInv, Idle, Connect
<1>11. OkIsStored'
  BY <1>1, <1>2, <1>4, <1>5 DEF IInv, OkIsStored, WrittenInv, TypeOK, Found, Commits, Connect, tables
<1>. QED BY <1>4, <1>6, <1>7, <1>8, <1>9, <1>10, <1>11 DEF IInv

LEMMA CreateKeeps ==
  ASSUME IInv, NEW i \in Item, CreateAddress(i)
  PROVE  IInv'
<1>1. AllBegun /\ Busy(i) /\ pc[i] = "create"
  BY DEF CreateAddress, At, Busy, Idle, Answered, Commits
<1>2. PICK l \in PCs \ Idle : Goto(i, l) /\ l = (IF geocoding THEN "refresh" ELSE "local")
  BY <1>1 DEF CreateAddress, At, PCs, Idle, Answered, Statements, Commits
<1>3. UNCHANGED <<request, begun, reply>>
  BY DEF CreateAddress
<1>4. /\ pc' \in [Item -> PCs] /\ OrderInv' /\ SoloInv' /\ ReplyInv' /\ pc'[i] = l
      /\ \A j \in Item \ {i} : pc'[j] = pc[j] /\ pc[j] \in Idle \cup Answered
  BY <1>1, <1>2, <1>3, StepKeepsOrder
<1>5. of' = of /\ limit' = limit /\ geocoding' = geocoding /\ begun' = begun
  BY <1>3 DEF request
<1>6. TypeOK'
  BY <1>1, <1>4, <1>5 DEF IInv, TypeOK, CreateAddress, tables
<1>7. SessionInv'
  BY <1>1, <1>2, <1>4 DEF IInv, SessionInv, Busy, Idle, Answered, CreateAddress, tables
<1>8. WrittenInv'
  BY <1>1, <1>2, <1>4, <1>5 DEF IInv, WrittenInv, TypeOK, Idle, Answered, Found, Commits, CreateAddress, tables
<1>9. StoredInv'
  BY <1>1, <1>2, <1>4, <1>5 DEF IInv, StoredInv, Answered, Commits, CreateAddress, tables
<1>10. SomeoneInv'
  BY <1>2, <1>4, <1>5 DEF SomeoneInv, Idle, CreateAddress
<1>11. OkIsStored'
  BY <1>1, <1>2, <1>4, <1>5 DEF IInv, OkIsStored, WrittenInv, TypeOK, Found, Commits, CreateAddress, tables
<1>. QED BY <1>4, <1>6, <1>7, <1>8, <1>9, <1>10, <1>11 DEF IInv

LEMMA UpsertKeeps ==
  ASSUME IInv, NEW i \in Item, UpsertRows(i)
  PROVE  IInv'
<1>1. AllBegun /\ Busy(i) /\ pc[i] = "upsert"
  BY DEF UpsertRows, At, Busy, Idle, Answered, Commits
<1>2. PICK l \in PCs \ Idle : Goto(i, l) /\ l = "requery"
  BY <1>1 DEF UpsertRows, At, PCs, Idle, Answered, Statements, Commits
<1>3. UNCHANGED <<request, begun, reply>>
  BY DEF UpsertRows
<1>4. /\ pc' \in [Item -> PCs] /\ OrderInv' /\ SoloInv' /\ ReplyInv' /\ pc'[i] = l
      /\ \A j \in Item \ {i} : pc'[j] = pc[j] /\ pc[j] \in Idle \cup Answered
  BY <1>1, <1>2, <1>3, StepKeepsOrder
<1>5. of' = of /\ limit' = limit /\ geocoding' = geocoding /\ begun' = begun
  BY <1>3 DEF request
<1>6. TypeOK'
  BY <1>1, <1>4, <1>5 DEF IInv, TypeOK, WrittenInv, Found, UpsertRows, tables
<1>7. SessionInv'
  BY <1>1, <1>2, <1>4 DEF IInv, SessionInv, Busy, Idle, Answered, UpsertRows, tables
<1>8. WrittenInv'
  BY <1>1, <1>2, <1>4, <1>5 DEF IInv, WrittenInv, TypeOK, Idle, Answered, Found, Commits, UpsertRows, tables
<1>9. StoredInv'
  BY <1>1, <1>2, <1>4, <1>5 DEF IInv, StoredInv, Answered, Commits, UpsertRows, tables
<1>10. SomeoneInv'
  BY <1>2, <1>4, <1>5 DEF SomeoneInv, Idle, UpsertRows
<1>11. OkIsStored'
  BY <1>1, <1>2, <1>4, <1>5 DEF IInv, OkIsStored, WrittenInv, TypeOK, Found, Commits, UpsertRows, tables
<1>. QED BY <1>4, <1>6, <1>7, <1>8, <1>9, <1>10, <1>11 DEF IInv

LEMMA SetOfficialKeeps ==
  ASSUME IInv, NEW i \in Item, SetOfficial(i)
  PROVE  IInv'
<1>1. AllBegun /\ Busy(i) /\ pc[i] = "elect"
  BY DEF SetOfficial, At, Busy, Idle, Answered, Commits
<1>2. PICK l \in PCs \ Idle : Goto(i, l) /\ l = "publish"
  BY <1>1 DEF SetOfficial, At, PCs, Idle, Answered, Statements, Commits
<1>3. UNCHANGED <<request, begun, reply>>
  BY DEF SetOfficial
<1>4. /\ pc' \in [Item -> PCs] /\ OrderInv' /\ SoloInv' /\ ReplyInv' /\ pc'[i] = l
      /\ \A j \in Item \ {i} : pc'[j] = pc[j] /\ pc[j] \in Idle \cup Answered
  BY <1>1, <1>2, <1>3, StepKeepsOrder
<1>5. of' = of /\ limit' = limit /\ geocoding' = geocoding /\ begun' = begun
  BY <1>3 DEF request
<1>6. TypeOK'
  BY <1>1, <1>4, <1>5 DEF IInv, TypeOK, WrittenInv, Found, SetOfficial, tables
<1>7. SessionInv'
  BY <1>1, <1>2, <1>4 DEF IInv, SessionInv, Busy, Idle, Answered, SetOfficial, tables
<1>8. WrittenInv'
  BY <1>1, <1>2, <1>4, <1>5 DEF IInv, WrittenInv, TypeOK, Idle, Answered, Found, Commits, SetOfficial, tables
<1>9. StoredInv'
  BY <1>1, <1>2, <1>4, <1>5 DEF IInv, StoredInv, Answered, Commits, SetOfficial, tables
<1>10. SomeoneInv'
  BY <1>2, <1>4, <1>5 DEF SomeoneInv, Idle, SetOfficial
<1>11. OkIsStored'
  BY <1>1, <1>2, <1>4, <1>5 DEF IInv, OkIsStored, WrittenInv, TypeOK, Found, Commits, SetOfficial, tables
<1>. QED BY <1>4, <1>6, <1>7, <1>8, <1>9, <1>10, <1>11 DEF IInv

LEMMA CommitKeeps ==
  ASSUME IInv, NEW i \in Item, CommitSession(i)
  PROVE  IInv'
<1>1. AllBegun /\ Busy(i) /\ pc[i] \in Commits
  BY DEF CommitSession, At, Busy, Idle, Answered, Commits
<1>2. PICK l \in PCs \ Idle : Goto(i, l) /\ l = (IF pc[i] = "publish" THEN "reload" ELSE "ok")
  BY <1>1 DEF CommitSession, At, PCs, Idle, Answered, Statements, Commits
<1>3. UNCHANGED <<request, begun, reply>>
  BY DEF CommitSession
<1>4. /\ pc' \in [Item -> PCs] /\ OrderInv' /\ SoloInv' /\ ReplyInv' /\ pc'[i] = l
      /\ \A j \in Item \ {i} : pc'[j] = pc[j] /\ pc[j] \in Idle \cup Answered
  BY <1>1, <1>2, <1>3, StepKeepsOrder
<1>5. of' = of /\ limit' = limit /\ geocoding' = geocoding /\ begun' = begun
  BY <1>3 DEF request
<1>6. TypeOK'
  BY <1>1, <1>4, <1>5 DEF IInv, TypeOK, CommitSession, tables
<1>7. SessionInv'
  BY <1>1, <1>2, <1>4 DEF IInv, SessionInv, Busy, Idle, Answered, CommitSession, tables
<1>8. WrittenInv'
  BY <1>1, <1>2, <1>4, <1>5 DEF IInv, WrittenInv, TypeOK, Idle, Answered, Found, Commits, CommitSession, tables
<1>9. StoredInv'
  BY <1>1, <1>2, <1>4, <1>5 DEF IInv, StoredInv, Answered, Commits, CommitSession, tables
<1>10. SomeoneInv'
  BY <1>2, <1>4, <1>5 DEF SomeoneInv, Idle, CommitSession
<1>11. OkIsStored'
  BY <1>1, <1>2, <1>4, <1>5 DEF IInv, OkIsStored, WrittenInv, TypeOK, Found, Commits, CommitSession, tables
<1>. QED BY <1>4, <1>6, <1>7, <1>8, <1>9, <1>10, <1>11 DEF IInv

LEMMA ReloadKeeps ==
  ASSUME IInv, NEW i \in Item, ReloadOfficial(i)
  PROVE  IInv'
<1>1. AllBegun /\ Busy(i) /\ pc[i] = "reload"
  BY DEF ReloadOfficial, At, Busy, Idle, Answered, Commits
<1>2. PICK l \in PCs \ Idle : Goto(i, l) /\ l = "ok"
  BY <1>1 DEF ReloadOfficial, At, PCs, Idle, Answered, Statements, Commits
<1>3. UNCHANGED <<request, begun, reply>>
  BY DEF ReloadOfficial
<1>4. /\ pc' \in [Item -> PCs] /\ OrderInv' /\ SoloInv' /\ ReplyInv' /\ pc'[i] = l
      /\ \A j \in Item \ {i} : pc'[j] = pc[j] /\ pc[j] \in Idle \cup Answered
  BY <1>1, <1>2, <1>3, StepKeepsOrder
<1>5. of' = of /\ limit' = limit /\ geocoding' = geocoding /\ begun' = begun
  BY <1>3 DEF request
<1>6. TypeOK'
  BY <1>1, <1>4, <1>5 DEF IInv, TypeOK, ReloadOfficial, tables
<1>7. SessionInv'
  BY <1>1, <1>2, <1>4 DEF IInv, SessionInv, Busy, Idle, Answered, ReloadOfficial, tables
<1>8. WrittenInv'
  BY <1>1, <1>2, <1>4, <1>5 DEF IInv, WrittenInv, TypeOK, Idle, Answered, Found, Commits, ReloadOfficial, tables
<1>9. StoredInv'
  BY <1>1, <1>2, <1>4, <1>5 DEF IInv, StoredInv, Answered, Commits, ReloadOfficial, tables
<1>10. SomeoneInv'
  BY <1>2, <1>4, <1>5 DEF SomeoneInv, Idle, ReloadOfficial
<1>11. OkIsStored'
  BY <1>1, <1>2, <1>4, <1>5 DEF IInv, OkIsStored, WrittenInv, TypeOK, Found, Commits, ReloadOfficial, tables
<1>. QED BY <1>4, <1>6, <1>7, <1>8, <1>9, <1>10, <1>11 DEF IInv

(* An item is admitted: it goes to the session or is refused. *)
LEMMA EnterKeeps ==
  ASSUME IInv, NEW i \in Item, pc[i] \in Idle, Enter(i), reply = "none",
         \/ begun' = begun /\ pc[i] = "queued" /\ begun = N
         \/ begun' = i /\ i = begun + 1,
         Cardinality(Holders) < limit
  PROVE  IInv'
<1>1. /\ address' = address /\ rows' = rows /\ newAddress' = newAddress /\ newRows' = newRows
      /\ session' = session /\ own' = own /\ stored' = stored /\ reply' = reply
      /\ of' = of /\ limit' = limit /\ geocoding' = geocoding
  BY DEF Enter, tables, tx, request
<1>2. PICK l \in {"failed", "connect", "find"} :
        /\ Goto(i, l)
        /\ l = "failed" => \/ session = "inactive"
                           \/ \E j \in Item : pc[j] \in {"connect", "reload"}
        /\ l # "failed" => ~(\E j \in Item : pc[j] \in {"connect", "reload"})
        /\ l = "connect" => session = "closed"
        /\ l = "find" => session \notin {"closed", "inactive"}
  BY DEF Enter
<1>3. pc \in [Item -> PCs] /\ begun \in 0 .. N /\ session \in {"closed", "open", "aborted", "inactive"}
  BY DEF IInv, TypeOK
<1>4. pc' \in [Item -> PCs] /\ pc'[i] = l /\ \A j \in Item \ {i} : pc'[j] = pc[j]
  BY <1>2, <1>3 DEF Goto, PCs, Answered, Statements
<1>5. /\ limit \in Nat \ {0}
      /\ limit = 1 => \A j \in Item : ~Busy(j)
  BY HoldersAreFew DEF IInv
<1>6. limit > 1 => i = 1 \/ l = "failed"
  <2>1. ASSUME limit > 1, i # 1 PROVE l = "failed"
    <3>1. pc[i] = "created"
      BY <2>1 DEF IInv, SoloInv, Idle
    <3>2. begun \in 1 .. (N - 1)
      <4>1. ~(begun' = begun) \/ pc[i] # "queued"
        BY <3>1
      <4>2. i = begun + 1
        BY <3>1, <4>1
      <4>. QED BY <2>1, <4>2, <1>3, NAssumption DEF Item
    <3>3. pc[1] = "connect"
      BY <3>2 DEF IInv, OrderInv
    <3>. QED BY <1>2, <3>3, FirstIsItem
  <2>. QED BY <2>1
<1>7. l # "failed" => \A j \in Item : ~Busy(j)
  <2>1. CASE limit = 1
    BY <1>5, <2>1
  <2>2. ASSUME limit > 1, l # "failed" PROVE \A j \in Item : ~Busy(j)
    <3>1. i = 1
      BY <1>6, <2>2
    <3>. QED BY <2>2, <3>1 DEF IInv, SoloInv, Busy, Idle, Answered
  <2>. QED BY <1>5, <2>1, <2>2
<1>8. TypeOK'
  <2>1. begun' \in 0 .. N
    BY <1>3 DEF Item
  <2>. QED BY <1>1, <1>4, <2>1 DEF IInv, TypeOK
<1>9. OrderInv'
  <2>1. \A j \in Item : pc'[j] = "created" <=> j > begun'
    BY <1>3, <1>4 DEF IInv, OrderInv, Item
  <2>2. ASSUME begun' \in 1 .. (N - 1) PROVE pc'[1] = "connect"
    <3>1. begun' = i /\ i = begun + 1
      BY <2>2, <1>3, NAssumption DEF Item
    <3>2. CASE begun = 0
      <4>1. i = 1
        BY <3>1, <3>2
      <4>2. \A j \in Item : pc[j] = "created"
        BY <3>2 DEF IInv, OrderInv, Item
      <4>3. session = "closed"
        BY <3>2 DEF IInv, OrderInv
      <4>. QED BY <1>2, <1>4, <4>1, <4>2, <4>3
    <3>3. CASE begun # 0
      <4>1. begun \in 1 .. (N - 1) /\ i # 1
        BY <2>2, <3>1, <3>3, <1>3, NAssumption DEF Item
      <4>. QED BY <4>1, <1>4, FirstIsItem DEF IInv, OrderInv
    <3>. QED BY <3>2, <3>3
  <2>3. begun' # 0
    BY <1>3, FirstIsItem, NAssumption DEF Item
  <2>. QED BY <2>1, <2>2, <2>3 DEF OrderInv
<1>10. l # "created" /\ l # "queued" /\ l # "ok" /\ l # "reload" /\ l \notin Found \cup Idle
  BY DEF Found, Idle
<1>11. SoloInv'
  <2>1. \A j, k \in Item : Busy(j)' /\ Busy(k)' => j = k
    BY <1>4, <1>5, <1>7 DEF IInv, SoloInv, Busy, Answered
  <2>2. limit' > 1 => /\ pc'[1] # "queued"
                      /\ \A j \in Item \ {1} : pc'[j] \in {"created", "failed"}
    BY <1>1, <1>4, <1>6, <1>10, FirstIsItem DEF IInv, SoloInv
  <2>. QED BY <2>1, <2>2 DEF SoloInv
<1>12. SessionInv'
  BY <1>1, <1>2, <1>3, <1>4 DEF IInv, SessionInv, Busy, Idle, Answered
<1>13. WrittenInv'
  BY <1>1, <1>2, <1>4, <1>10 DEF IInv, WrittenInv, Found
<1>14. StoredInv'
  BY <1>1, <1>4 DEF IInv, StoredInv, Idle
<1>15. SomeoneInv'
  <2>1. ASSUME own = {} PROVE \E j \in Item : pc'[j] \notin Idle \cup {"failed"}
    <3>1. session # "inactive"
      BY <2>1 DEF IInv, SessionInv
    <3>2. CASE l = "failed"
      BY <1>2, <1>4, <3>1, <3>2 DEF Idle
    <3>3. CASE l # "failed"
      BY <1>4, <1>10, <3>3
    <3>. QED BY <3>2, <3>3
  <2>. QED BY <1>1, <2>1 DEF SomeoneInv
<1>16. ReplyInv' /\ OkIsStored'
  BY <1>1, <1>4, <1>10 DEF IInv, ReplyInv, OkIsStored
<1>. QED BY <1>8, <1>9, <1>11, <1>12, <1>13, <1>14, <1>15, <1>16 DEF IInv

LEMMA BeginKeeps ==
  ASSUME IInv, NEW i \in Item, BeginItem(i)
  PROVE  IInv'
<1>1. i = begun + 1 /\ begun' = i /\ begun \in 0 .. N /\ pc \in [Item -> PCs]
  BY DEF BeginItem, IInv, TypeOK
<1>2. pc[i] = "created"
  BY <1>1 DEF IInv, OrderInv, Item
<1>3. reply = "none"
  BY <1>2 DEF IInv, ReplyInv, AllAnswered, Answered
<1>4. CASE Cardinality(Holders) < limit
  BY <1>1, <1>2, <1>3, <1>4, EnterKeeps DEF BeginItem, Idle
<1>5. CASE ~(Cardinality(Holders) < limit)
  <2>1. limit = 1 /\ \E j \in Item : Busy(j)
    BY <1>5, HoldersAreFew DEF IInv
  <2>2. /\ address' = address /\ rows' = rows /\ newAddress' = newAddress /\ newRows' = newRows
        /\ session' = session /\ own' = own /\ stored' = stored /\ reply' = reply
        /\ of' = of /\ limit' = limit /\ geocoding' = geocoding
        /\ Goto(i, "queued")
    BY <1>5 DEF BeginItem, tables, tx, request
  <2>3. pc' \in [Item -> PCs] /\ pc'[i] = "queued" /\ \A j \in Item \ {i} : pc'[j] = pc[j]
    BY <1>1, <2>2 DEF Goto, PCs, Idle
  <2>4. begun # 0
    BY <2>1 DEF IInv, OrderInv, Item, Busy, Idle
  <2>5. TypeOK'
    BY <1>1, <2>2, <2>3 DEF IInv, TypeOK, Item
  <2>6. OrderInv'
    <3>1. \A j \in Item : pc'[j] = "created" <=> j > begun'
      BY <1>1, <2>3 DEF IInv, OrderInv, Item
    <3>2. i # 1 /\ begun' # 0
      BY <1>1, <2>4
    <3>3. begun' \in 1 .. (N - 1) => begun \in 1 .. (N - 1)
      BY <1>1, <2>4, NAssumption
    <3>. QED BY <2>3, <3>1, <3>2, <3>3, FirstIsItem DEF IInv, OrderInv
  <2>7. SoloInv'
    BY <2>1, <2>2, <2>3 DEF IInv, SoloInv, Busy, Idle
  <2>8. SessionInv'
    BY <2>2, <2>3 DEF IInv, SessionInv, Busy, Idle
  <2>9. WrittenInv' /\ StoredInv'
    BY <1>2, <2>2, <2>3 DEF IInv, WrittenInv, StoredInv, Found
  <2>10. SomeoneInv'
    BY <1>1, <1>2, <2>2, <2>3, <2>4 DEF IInv, SomeoneInv, Idle
  <2>11. ReplyInv' /\ OkIsStored'
    BY <1>3, <2>2, <2>3 DEF IInv, ReplyInv, OkIsStored
  <2>. QED BY <2>5, <2>6, <2>7, <2>8, <2>9, <2>10, <2>11 DEF IInv
<1>. QED BY <1>4, <1>5

LEMMA WakeKeeps ==
  ASSUME IInv, NEW i \in Item, WakeItem(i)
  PROVE  IInv'
<1>1. begun = N /\ begun' = begun /\ pc[i] = "queued" /\ Cardinality(Holders) < limit /\ Enter(i)
  BY DEF WakeItem, AllBegun
<1>2. reply = "none"
  BY <1>1 DEF IInv, ReplyInv, AllAnswered, Answered
<1>. QED BY <1>1, <1>2, EnterKeeps DEF Idle

LEMMA FindsAbortedKeeps ==
  ASSUME IInv, NEW i \in Item, FindsAborted(i)
  PROVE  IInv'
<1>1. AllBegun /\ Busy(i) /\ pc[i] = "find" /\ session = "aborted" /\ Goto(i, "failed")
  BY DEF FindsAborted, At, Busy, Idle, Answered
<1>2. /\ address' = address /\ rows' = rows /\ newAddress' = newAddress /\ newRows' = newRows
      /\ session' = session /\ own' = own /\ stored' = stored /\ reply' = reply
      /\ of' = of /\ limit' = limit /\ geocoding' = geocoding /\ begun' = begun
  BY DEF FindsAborted, tables, tx, request
<1>3. "failed" \in PCs \ Idle
  BY DEF PCs, Idle, Answered
<1>4. /\ pc' \in [Item -> PCs] /\ OrderInv' /\ SoloInv' /\ ReplyInv' /\ pc'[i] = "failed"
      /\ \A j \in Item \ {i} : pc'[j] = pc[j]
  BY <1>1, <1>2, <1>3, StepKeepsOrder DEF request
<1>5. own # {}
  BY <1>1 DEF IInv, SessionInv
<1>6. TypeOK'
  BY <1>2, <1>4 DEF IInv, TypeOK
<1>7. SessionInv'
  BY <1>2, <1>4 DEF IInv, SessionInv, Busy, Idle, Answered
<1>8. WrittenInv' /\ StoredInv' /\ OkIsStored'
  BY <1>1, <1>2, <1>4 DEF IInv, WrittenInv, StoredInv, OkIsStored, Found
<1>9. SomeoneInv'
  BY <1>2, <1>5 DEF SomeoneInv
<1>. QED BY <1>4, <1>6, <1>7, <1>8, <1>9 DEF IInv

LEMMA RespondKeeps == IInv /\ Respond => IInv'
<1>. SUFFICES ASSUME IInv, Respond PROVE IInv'
  OBVIOUS
<1>1. /\ address' = address /\ rows' = rows /\ newAddress' = {} /\ newRows' = {}
      /\ session' = "closed" /\ own' = own /\ stored' = stored /\ pc' = pc
      /\ of' = of /\ limit' = limit /\ geocoding' = geocoding /\ begun' = begun
  BY DEF Respond, tables, request
<1>2. /\ reply' \in {"200", "422"} /\ AllAnswered
      /\ reply' = "422" => \A i \in Item : pc[i] = "failed"
  BY DEF Respond
<1>3. TypeOK'
  BY <1>1, <1>2 DEF IInv, TypeOK
<1>4. OrderInv' /\ SoloInv'
  BY <1>1 DEF IInv, OrderInv, SoloInv, Busy
<1>5. SessionInv' /\ WrittenInv'
  BY <1>1, <1>2 DEF AllAnswered, SessionInv, WrittenInv, Busy, Found, Answered
<1>6. StoredInv' /\ SomeoneInv' /\ OkIsStored'
  BY <1>1 DEF IInv, StoredInv, SomeoneInv, OkIsStored
<1>7. ReplyInv'
  BY <1>1, <1>2 DEF ReplyInv, AllAnswered
<1>. QED BY <1>3, <1>4, <1>5, <1>6, <1>7 DEF IInv

LEMMA OthersKeep ==
  ASSUME IInv, NEW a \in Addresses, OtherCommits(a)
  PROVE  IInv'
<1>1. /\ newAddress' = newAddress /\ newRows' = newRows /\ session' = session
      /\ own' = own /\ stored' = stored /\ pc' = pc /\ reply' = reply
      /\ of' = of /\ limit' = limit /\ geocoding' = geocoding /\ begun' = begun
      /\ address' = address \cup {a} /\ rows' \in {rows, rows \cup {a}}
  BY DEF OtherCommits, tx, request
<1>2. TypeOK'
  BY <1>1 DEF IInv, TypeOK
<1>3. OrderInv' /\ SoloInv' /\ SessionInv'
  BY <1>1 DEF IInv, OrderInv, SoloInv, SessionInv, Busy
<1>4. WrittenInv'
  BY <1>1 DEF IInv, WrittenInv
<1>5. StoredInv' /\ SomeoneInv' /\ ReplyInv' /\ OkIsStored'
  BY <1>1 DEF IInv, StoredInv, SomeoneInv, ReplyInv, AllAnswered, OkIsStored
<1>. QED BY <1>2, <1>3, <1>4, <1>5 DEF IInv

-----------------------------------------------------------------------------
(* The steps that only read, or write nothing at all. *)
LEMMA ReadsKeep ==
  ASSUME IInv, NEW i \in Item, NEW at \in Statements, Reads(i, at, "create")
           \/ \E l \in Found \ {"publish"} :
                /\ Reads(i, at, l)
                /\ of[i] \in address \cup newAddress
                /\ ~geocoding => l \notin {"refresh", "later", "official", "elect"}
                /\ ~geocoding /\ l \in {"requery", "commit"} => of[i] \in rows \cup newRows
  PROVE  IInv'
<1>1. AllBegun /\ Busy(i) /\ pc[i] # "reload" /\ session = "open"
  BY DEF Reads, At, Busy, Idle, Answered, Statements
<1>2. CASE Reads(i, at, "create")
  <2>1. "create" \notin Found
    BY DEF Found
  <2>. QED BY <1>1, <1>2, <2>1, QuietStep DEF Reads
<1>3. CASE ~Reads(i, at, "create")
  <2>1. PICK l \in Found \ {"publish"} :
                /\ Reads(i, at, l)
                /\ of[i] \in address \cup newAddress
                /\ ~geocoding => l \notin {"refresh", "later", "official", "elect"}
                /\ ~geocoding /\ l \in {"requery", "commit"} => of[i] \in rows \cup newRows
    BY <1>3
  <2>. QED BY <1>1, <2>1, QuietStep DEF Reads
<1>. QED BY <1>2, <1>3

LEMMA FindKeeps ==
  ASSUME IInv, NEW i \in Item,
         \/ FindAddress(i) \/ RefreshAddress(i) \/ LookInCache(i) \/ GetOfficial(i) \/ Requery(i)
  PROVE  IInv'
<1>1. CASE FindAddress(i)
  <2>1. CASE ~Known(of[i])
    BY <1>1, <2>1, ReadsKeep DEF FindAddress, Statements
  <2>2. CASE Known(of[i])
    <3>1. Reads(i, "find", "local") \/ (geocoding /\ Reads(i, "find", "remote"))
      BY <1>1, <2>2 DEF FindAddress
    <3>. QED BY <2>2, <3>1, ReadsKeep DEF Known, Found, Statements
  <2>. QED BY <2>1, <2>2
<1>2. CASE RefreshAddress(i)
  <2>1. Reads(i, "refresh", "remote") /\ of[i] \in address \cup newAddress
    BY <1>2 DEF RefreshAddress, Reads, At, IInv, WrittenInv, Found
  <2>. QED BY <2>1, ReadsKeep DEF Found, Statements
<1>3. CASE LookInCache(i)
  <2>1. /\ (Reads(i, "cached", "commit") /\ of[i] \in rows \cup newRows) \/ Reads(i, "cached", "remote")
        /\ of[i] \in address \cup newAddress
    BY <1>3 DEF LookInCache, Cached, Reads, At, IInv, WrittenInv, Found
  <2>. QED BY <2>1, ReadsKeep DEF Found, Statements
<1>4. CASE GetOfficial(i)
  <2>1. Reads(i, "official", "commit") /\ of[i] \in address \cup newAddress /\ geocoding
    BY <1>4 DEF GetOfficial, Reads, At, IInv, WrittenInv, Found
  <2>. QED BY <2>1, ReadsKeep DEF Found, Statements
<1>5. CASE Requery(i)
  <2>1. /\ \/ geocoding /\ Reads(i, "requery", "later")
           \/ Reads(i, "requery", "commit") /\ ~geocoding /\ of[i] \in rows \cup newRows
        /\ of[i] \in address \cup newAddress
    BY <1>5 DEF Requery, Reads, At, IInv, WrittenInv, Found
  <2>. QED BY <2>1, ReadsKeep DEF Found, Statements
<1>. QED BY <1>1, <1>2, <1>3, <1>4, <1>5

LEMMA CallKeeps ==
  ASSUME IInv, NEW i \in Item, CallLocal(i) \/ CallRemote(i) \/ LaterStages(i)
  PROVE  IInv'
<1>1. /\ AllBegun /\ pc[i] \in {"local", "remote", "later"}
      /\ UNCHANGED <<request, begun, tables, tx, reply, own, stored>>
  BY DEF CallLocal, CallRemote, LaterStages, At
<1>2. Busy(i) /\ pc[i] # "reload" /\ pc[i] \in Found
  BY <1>1 DEF Busy, Idle, Answered, Found
<1>3. session = "open" /\ of[i] \in address \cup newAddress
  BY <1>1, <1>2 DEF IInv, SessionInv, WrittenInv
<1>4. pc[i] = "later" => geocoding
  BY DEF IInv, WrittenInv
<1>5. PICK l \in {"official", "cached", "upsert", "later", "elect", "commit"} :
        Goto(i, l) /\ (~geocoding => l \in {"cached", "upsert"})
  BY <1>4 DEF CallLocal, CallRemote, LaterStages, At
<1>6. l \in Found \ {"publish"}
  BY DEF Found
<1>7. ~geocoding => l \notin {"refresh", "later", "official", "elect", "requery", "commit"}
  BY <1>5
<1>. QED BY <1>1, <1>2, <1>3, <1>5, <1>6, <1>7, QuietStep

(* The failures. *)
LEMMA FailKeeps ==
  ASSUME IInv, NEW i \in Item, Fail(i)
  PROVE  IInv'
<1>1. CASE FindsAborted(i)
  BY <1>1, FindsAbortedKeeps
<1>2. CASE ~FindsAborted(i)
  <2>1. PICK after \in {"closed", "open", "aborted", "inactive"} :
          /\ AllBegun /\ FailsAt(i, after)
          /\ pc[i] \in Statements \cup Commits \cup {"connect", "create", "local", "remote", "later", "reload"}
          /\ after = "open" => pc[i] \in {"local", "remote", "later"}
    BY <1>2 DEF Fail, ConnectFails, ProviderFails, StatementFails, FlushFails, CommitFails, At
  <2>2. Busy(i)
    BY <2>1 DEF Busy, Idle, Answered, Statements, Commits
  <2>3. after = "open" => session = "open"
    BY <2>1, <2>2 DEF IInv, SessionInv
  <2>4. pc[i] = "reload" => geocoding
    BY DEF IInv, WrittenInv
  <2>. QED BY <2>1, <2>2, <2>3, <2>4, FailStep
<1>. QED BY <1>1, <1>2

LEMMA ProceedKeeps ==
  ASSUME IInv, NEW i \in Item, Proceed(i)
  PROVE  IInv'
<1>1. CASE BeginItem(i) \/ WakeItem(i)
  BY <1>1, BeginKeeps, WakeKeeps
<1>2. CASE Connect(i) \/ CreateAddress(i) \/ UpsertRows(i) \/ SetOfficial(i)
  BY <1>2, ConnectKeeps, CreateKeeps, UpsertKeeps, SetOfficialKeeps
<1>3. CASE CommitSession(i) \/ ReloadOfficial(i)
  BY <1>3, CommitKeeps, ReloadKeeps
<1>4. CASE \/ FindAddress(i) \/ RefreshAddress(i) \/ LookInCache(i) \/ GetOfficial(i) \/ Requery(i)
  BY <1>4, FindKeeps
<1>5. CASE CallLocal(i) \/ CallRemote(i) \/ LaterStages(i)
  BY <1>5, CallKeeps
<1>. QED BY <1>1, <1>2, <1>3, <1>4, <1>5 DEF Proceed

LEMMA NextIInv == IInv /\ [Next]_vars => IInv'
<1>. SUFFICES ASSUME IInv, [Next]_vars PROVE IInv'
  OBVIOUS
<1>1. CASE \E i \in Item : Proceed(i) \/ Fail(i)
  BY <1>1, ProceedKeeps, FailKeeps
<1>2. CASE Respond
  BY <1>2, RespondKeeps
<1>3. CASE \E a \in Addresses : OtherCommits(a)
  BY <1>3, OthersKeep
<1>4. CASE UNCHANGED vars
  <2>. USE <1>4 DEF vars, request, tables, tx
  <2>1. TypeOK' /\ OrderInv' /\ SoloInv'
    BY DEF IInv, TypeOK, OrderInv, SoloInv, Busy
  <2>2. SessionInv' /\ WrittenInv' /\ StoredInv'
    BY DEF IInv, SessionInv, WrittenInv, StoredInv, Busy
  <2>3. SomeoneInv' /\ ReplyInv' /\ OkIsStored'
    BY DEF IInv, SomeoneInv, ReplyInv, OkIsStored, AllAnswered
  <2>. QED BY <2>1, <2>2, <2>3 DEF IInv
<1>. QED BY <1>1, <1>2, <1>3, <1>4 DEF Next

LEMMA SpecIInv == Spec => []IInv
BY InitIInv, NextIInv, PTL DEF Spec

-----------------------------------------------------------------------------
(* The variables keep their types, and an address has rows only if it is   *)
(* in the table (services/validation.py: validate).                        *)
THEOREM TypesHold == Spec => []TypeOK
<1>1. IInv => TypeOK
  BY DEF IInv
<1>. QED BY <1>1, SpecIInv, PTL

(* An answered item is in the database, whatever happens to the others of  *)
(* its batch (services/validation.py: validate).                           *)
THEOREM AnsweredItemsAreStored == Spec => []OkIsStored
<1>1. IInv => OkIsStored
  BY DEF IInv
<1>. QED BY <1>1, SpecIInv, PTL

(* A 422 has no effect, but for a geocoding that failed after it had       *)
(* committed (api: batch_validate, database.py: get_db).                   *)
THEOREM RejectionsAreClean == Spec => []RejectedLeavesNothing
<1>1. IInv => RejectedLeavesNothing
  BY DEF IInv, ReplyInv, StoredInv, RejectedLeavesNothing
<1>. QED BY <1>1, SpecIInv, PTL

(* A batch fails as a whole only when an item failed by itself             *)
(* (api: batch_geocode).                                                   *)
THEOREM SharingAloneRejectsNothing == Spec => []SomeItemIsServed
<1>1. IInv => SomeItemIsServed
  <2>. SUFFICES ASSUME IInv, reply = "422" PROVE own # {}
    BY DEF SomeItemIsServed
  <2>1. \A i \in Item : pc[i] = "failed"
    BY DEF IInv, ReplyInv
  <2>2. begun \in 0 .. N /\ ~(1 > begun)
    BY <2>1, FirstIsItem DEF IInv, TypeOK, OrderInv
  <2>. QED BY <2>1, <2>2 DEF IInv, SomeoneInv
<1>. QED BY <1>1, SpecIInv, PTL
=============================================================================
