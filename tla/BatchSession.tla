---------------------------- MODULE BatchSession ----------------------------
(***************************************************************************)
(* POST /geocode/batch and POST /validate/batch (and, for one item, POST   *)
(* /validate): every item runs the pipeline of the single endpoint in a    *)
(* task of its own, and all of them in one AsyncSession.                   *)
(*                                                                         *)
(* asyncio.gather lets each task run up to its first await before any of   *)
(* them goes on.  That await is the session's first statement, for which   *)
(* the session must take a connection out of the pool; while it does, it   *)
(* refuses every other call ("this session is provisioning a new           *)
(* connection").                                                           *)
(***************************************************************************)
EXTENDS Naturals, FiniteSets

CONSTANTS
  N,          \* items of the batch
  Addresses,  \* canonical address hashes
  Limits      \* values of settings.batch_concurrency_limit

ASSUME NAssumption      == N \in Nat \ {0}
ASSUME LimitsAssumption == Limits \subseteq Nat \ {0}

Item == 1 .. N

VARIABLES
  of,         \* the address of an item
  limit,      \* settings.batch_concurrency_limit
  geocoding,  \* the endpoint: /geocode/batch or /validate/batch
  begun,      \* tasks that have run up to their first await
  pc,         \* where an item is
  address, rows,     \* committed: addresses, and addresses with result rows
  newAddress, newRows, \* the same, in the session's transaction
  session,    \* state of the session
  reply,      \* the response of the batch
  own,        \* history: items failed by a provider or statement of their own
  stored      \* history: addresses this session has committed something of

request == <<of, limit, geocoding>>
tables  == <<address, rows>>
tx      == <<newAddress, newRows, session>>
vars    == <<request, begun, pc, tables, tx, reply, own, stored>>

Statements == {"find", "refresh", "cached", "upsert", "requery", "official", "elect"}
Commits    == {"commit", "publish"}
Idle       == {"created", "queued"}
Answered   == {"ok", "failed"}
PCs == Statements \cup Commits \cup Idle \cup Answered
         \cup {"connect", "create", "local", "remote", "later", "reload"}

TypeOK ==
  /\ of \in [Item -> Addresses] /\ limit \in Limits /\ geocoding \in BOOLEAN
  /\ begun \in 0 .. N
  /\ pc \in [Item -> PCs]
  /\ address \subseteq Addresses /\ rows \subseteq address
  /\ newAddress \subseteq Addresses /\ newRows \subseteq address \cup newAddress
  /\ session \in {"closed", "open", "aborted", "inactive"}
  /\ reply \in {"none", "200", "422"}
  /\ own \subseteq Item /\ stored \subseteq Addresses

Init ==
  /\ of \in [Item -> Addresses] /\ limit \in Limits /\ geocoding \in BOOLEAN
  /\ begun = 0
  /\ pc = [i \in Item |-> "created"]
  /\ address \in SUBSET Addresses /\ rows \in SUBSET address
  /\ newAddress = {} /\ newRows = {}
  /\ session = "closed"
  /\ reply = "none"
  /\ own = {} /\ stored = {}

AllBegun == begun = N
Known(a) == a \in address \cup newAddress
Cached(a) == a \in rows \cup newRows

(* Mutant: an item that fails keeps its place. *)
FailedHoldToo == {i \in Item : pc[i] \notin Idle \cup {"ok"}}

(* The items inside "async with semaphore". *)
Holders == {i \in Item : pc[i] \notin Idle \cup Answered}

Goto(i, l) == pc' = [pc EXCEPT ![i] = l]

-----------------------------------------------------------------------------
(* An item inside the semaphore asks for its address.  The session refuses *)
(* while it takes a connection, and for good after a failed flush or       *)
(* commit.                                                                 *)
Enter(i) ==
  /\ IF session = "inactive" \/ \E j \in Item : pc[j] \in {"connect", "reload"}
     THEN Goto(i, "failed")
     ELSE Goto(i, IF session = "closed" THEN "connect" ELSE "find")
  /\ UNCHANGED <<request, tables, tx, reply, own, stored>>

(* The first run of a task: it takes a place or queues for one. *)
BeginItem(i) ==
  /\ i = begun + 1
  /\ begun' = i
  /\ IF Cardinality(Holders) < limit
     THEN Enter(i)
     ELSE /\ Goto(i, "queued")
          /\ UNCHANGED <<request, tables, tx, reply, own, stored>>

(* The longest waiting item gets the place that became free. *)
WakeItem(i) ==
  /\ AllBegun
  /\ pc[i] = "queued"
  /\ \A j \in 1 .. (i - 1) : pc[j] # "queued"
  /\ Cardinality(Holders) < limit
  /\ Enter(i)
  /\ UNCHANGED begun

(* A step of the pipeline, at l. *)
At(i, l) == AllBegun /\ pc[i] = l

(* The statement at l succeeds and writes nothing. *)
Reads(i, l, next) ==
  /\ At(i, l)
  /\ session = "open"
  /\ Goto(i, next)
  /\ UNCHANGED <<request, begun, tables, tx, reply, own, stored>>

Connect(i) ==
  /\ At(i, "connect")
  /\ session' = "open"
  /\ Goto(i, "find")
  /\ UNCHANGED <<request, begun, tables, newAddress, newRows, reply, own, stored>>

(* The select of a geocoding loads the results too; but an address that is *)
(* still an object of the session keeps the results it was loaded with.    *)
FindAddress(i) ==
  LET a == of[i] IN
    \/ ~Known(a) /\ Reads(i, "find", "create")
    \/ Known(a) /\ ~geocoding /\ Reads(i, "find", "local")
    \/ Known(a) /\ geocoding /\ Cached(a) /\ Reads(i, "find", "local")
    \/ /\ Known(a) /\ geocoding
       /\ ~Cached(a) \/ a \in newAddress
       /\ Reads(i, "find", "remote")

(* Mutant: commit instead of flush. *)
CreateCommitted(i) ==
  /\ At(i, "create")
  /\ of[i] \notin address
  /\ address' = address \cup newAddress \cup {of[i]}
  /\ rows'    = rows \cup newRows
  /\ stored'  = stored \cup newAddress \cup newRows \cup {of[i]}
  /\ newAddress' = {} /\ newRows' = {}
  /\ Goto(i, IF geocoding THEN "refresh" ELSE "local")
  /\ UNCHANGED <<request, begun, session, reply, own>>

(* Mutant: the address is not added to the session. *)
ForgetAddress(i) ==
  /\ At(i, "create")
  /\ Goto(i, IF geocoding THEN "refresh" ELSE "local")
  /\ UNCHANGED <<request, begun, tables, tx, reply, own, stored>>

(* INSERT of the address, by flush. *)
CreateAddress(i) ==
  /\ At(i, "create")
  /\ of[i] \notin address
  /\ newAddress' = newAddress \cup {of[i]}
  /\ Goto(i, IF geocoding THEN "refresh" ELSE "local")
  /\ UNCHANGED <<request, begun, tables, newRows, session, reply, own, stored>>

RefreshAddress(i) == Reads(i, "refresh", "remote")

(* No statement: providers have sessions of their own. *)
CallLocal(i) ==
  /\ At(i, "local")
  /\ Goto(i, IF geocoding THEN "official" ELSE "cached")
  /\ UNCHANGED <<request, begun, tables, tx, reply, own, stored>>

LookInCache(i) == Reads(i, "cached", IF Cached(of[i]) THEN "commit" ELSE "remote")

GetOfficial(i) == Reads(i, "official", "commit")

(* A geocoding goes on when no remote provider answers. *)
CallRemote(i) ==
  /\ At(i, "remote")
  /\ Goto(i, "upsert") \/ (geocoding /\ Goto(i, "later"))
  /\ UNCHANGED <<request, begun, tables, tx, reply, own, stored>>

UpsertRows(i) ==
  /\ At(i, "upsert")
  /\ session = "open"
  /\ newRows' = newRows \cup {of[i]}
  /\ Goto(i, "requery")
  /\ UNCHANGED <<request, begun, tables, newAddress, session, reply, own, stored>>

Requery(i) == Reads(i, "requery", IF geocoding THEN "later" ELSE "commit")

(* The fuzzy and LLM stages and the consensus, which may find no winner. *)
LaterStages(i) ==
  /\ At(i, "later")
  /\ Goto(i, "elect") \/ Goto(i, "commit")
  /\ UNCHANGED <<request, begun, tables, tx, reply, own, stored>>

(* The winner's row, if it has none yet, and the official pointer. *)
SetOfficial(i) ==
  /\ At(i, "elect")
  /\ session = "open"
  /\ newRows' = newRows \cup {of[i]}
  /\ Goto(i, "publish")
  /\ UNCHANGED <<request, begun, tables, newAddress, session, reply, own, stored>>

(* Everything the session wrote is committed, whichever item wrote it, and *)
(* its connection returns to the pool.                                     *)
CommitSession(i) ==
  /\ AllBegun
  /\ pc[i] \in Commits
  /\ address' = address \cup newAddress
  /\ rows'    = rows \cup newRows
  /\ stored'  = stored \cup newAddress \cup newRows
  /\ newAddress' = {} /\ newRows' = {}
  /\ session' = "closed"
  /\ Goto(i, IF pc[i] = "publish" THEN "reload" ELSE "ok")
  /\ UNCHANGED <<request, begun, reply, own>>

(* The official result is read again, with a connection taken anew. *)
ReloadOfficial(i) ==
  /\ At(i, "reload")
  /\ session' = "open"
  /\ Goto(i, "ok")
  /\ UNCHANGED <<request, begun, tables, newAddress, newRows, reply, own, stored>>

-----------------------------------------------------------------------------
(* Failures, which the task turns into the item's status and nobody rolls  *)
(* back.                                                                   *)
FailsAt(i, after) ==
  /\ Goto(i, "failed")
  /\ own' = own \cup {i}
  /\ session' = after
  /\ IF after = "open" THEN UNCHANGED <<newAddress, newRows>>
                       ELSE newAddress' = {} /\ newRows' = {}
  /\ UNCHANGED <<request, begun, tables, reply, stored>>

(* No connection: the session stays usable. *)
ConnectFails(i) ==
  /\ AllBegun
  /\ pc[i] \in {"connect", "reload"}
  /\ FailsAt(i, "closed")

(* A provider rejects the address, or a later stage of a geocoding raises. *)
ProviderFails(i) ==
  /\ AllBegun
  /\ \/ ~geocoding /\ pc[i] \in {"local", "remote"}
     \/ geocoding /\ pc[i] = "later"
  /\ FailsAt(i, "open")

(* An SQL error: PostgreSQL ignores what follows until a rollback. *)
StatementFails(i) ==
  /\ AllBegun
  /\ pc[i] \in Statements \cup {"reload"}
  /\ session # "aborted"
  /\ FailsAt(i, "aborted")

(* A flush that fails rolls back and leaves the session inactive; it does  *)
(* when another request has just inserted the address.  A failed commit    *)
(* leaves it as unusable.                                                  *)
FlushFails(i) == At(i, "create") /\ FailsAt(i, "inactive")

(* Mutant: an error of the commit is ignored. *)
CommitErrorIgnored(i) ==
  /\ AllBegun
  /\ pc[i] \in Commits
  /\ Goto(i, "ok")
  /\ session' = "inactive"
  /\ newAddress' = {} /\ newRows' = {}
  /\ UNCHANGED <<request, begun, tables, reply, own, stored>>

CommitFails(i) ==
  /\ AllBegun
  /\ pc[i] \in Commits
  /\ FailsAt(i, "inactive")

(* The first statement of an item in a transaction another one aborted. *)
FindsAborted(i) ==
  /\ At(i, "find")
  /\ session = "aborted"
  /\ Goto(i, "failed")
  /\ UNCHANGED <<request, begun, tables, tx, reply, own, stored>>

-----------------------------------------------------------------------------
AllAnswered == \A i \in Item : pc[i] \in Answered

(* Mutant: 422 as soon as one item failed. *)
RespondStrictly ==
  /\ AllAnswered
  /\ reply = "none"
  /\ reply' = IF \E i \in Item : pc[i] = "failed" THEN "422" ELSE "200"
  /\ newAddress' = {} /\ newRows' = {} /\ session' = "closed"
  /\ UNCHANGED <<request, begun, pc, tables, own, stored>>

(* The response is made and get_db closes the session: what is uncommitted *)
(* is rolled back.                                                         *)
Respond ==
  /\ AllAnswered
  /\ reply = "none"
  /\ reply' = IF \A i \in Item : pc[i] = "failed" THEN "422" ELSE "200"
  /\ newAddress' = {} /\ newRows' = {} /\ session' = "closed"
  /\ UNCHANGED <<request, begun, pc, tables, own, stored>>

(* Other requests geocode or validate the same addresses. *)
OtherCommits(a) ==
  /\ reply = "none"
  /\ a \notin newAddress
  /\ address' = address \cup {a}
  /\ rows' \in {rows, rows \cup {a}}
  /\ UNCHANGED <<request, begun, pc, tx, reply, own, stored>>

Proceed(i) ==
  \/ BeginItem(i) \/ WakeItem(i) \/ Connect(i) \/ FindAddress(i) \/ CreateAddress(i)
  \/ RefreshAddress(i) \/ CallLocal(i) \/ LookInCache(i) \/ GetOfficial(i)
  \/ CallRemote(i) \/ UpsertRows(i) \/ Requery(i) \/ LaterStages(i) \/ SetOfficial(i)
  \/ CommitSession(i) \/ ReloadOfficial(i)

Fail(i) ==
  \/ ConnectFails(i) \/ ProviderFails(i) \/ StatementFails(i) \/ FlushFails(i)
  \/ CommitFails(i) \/ FindsAborted(i)

Next ==
  \/ \E i \in Item : Proceed(i) \/ Fail(i)
  \/ Respond
  \/ \E a \in Addresses : OtherCommits(a)

Spec == Init /\ [][Next]_vars

(* The event loop runs every task that can go on; an awaited connection,   *)
(* statement or provider answers or fails.                                 *)
FairSpec ==
  /\ Spec
  /\ \A i \in Item : WF_vars(Proceed(i) \/ Fail(i))
  /\ WF_vars(Respond)

-----------------------------------------------------------------------------
(* An item answered with 200 has its address in the database, and a        *)
(* validation its rows too: neither the transaction it shares nor another  *)
(* item's failure takes them away (services/validation.py: validate).      *)
OkIsStored ==
  \A i \in Item : pc[i] = "ok" =>
    of[i] \in address /\ (~geocoding => of[i] \in rows)

(* A batch answered 422 has left nothing behind: a failed item's address   *)
(* and rows are committed only together with those of an item that got as  *)
(* far as its own commit (api: batch_validate, database.py: get_db).       *)
RejectedLeavesNothing ==
  reply = "422" => \/ stored = {}
                   \/ geocoding /\ \E i \in own : of[i] \in stored

(* Sharing the session never fails a whole batch: when all items failed,   *)
(* one of them failed by itself (api: batch_geocode, batch_validate).      *)
SomeItemIsServed == reply = "422" => own # {}

(* What the endpoints document: "One item failing does not affect other    *)
(* items". An item fails only by a provider or statement of its own.       *)
ItemsFailAlone == \A i \in Item : pc[i] = "failed" => i \in own

(* Every batch is answered: no item waits for ever for its place, for the  *)
(* session or for another item.                                            *)
EveryBatchIsAnswered == <>(reply # "none")
=============================================================================
