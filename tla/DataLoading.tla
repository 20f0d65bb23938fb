---------------------------- MODULE DataLoading ----------------------------
(***************************************************************************)
(* The data commands of "geo-import", the rebuild of spell_dictionary that *)
(* most of them end with, and the start of an API worker, which registers  *)
(* the providers that have data, rebuilds an empty dictionary and reads it *)
(* into memory.                                                            *)
(*                                                                         *)
(* A process has one connection, and a step is one statement of it.  A row *)
(* is its unique key and the one street word it carries, if it has a       *)
(* street name; rows the parsers skip, file formats and counters are left  *)
(* out.                                                                    *)
(***************************************************************************)
EXTENDS Naturals, Sequences, FiniteSets

CONSTANTS
  MaxStarts,  \* bound: processes started, commands and API workers
  Oa, Macon,  \* staging tables filled row by row
  Nad,        \* the staging table filled by COPY and one upsert
  Parcels,    \* the parcel table: no street names
  Gis,        \* the geocoding tables "import" writes
  Items,      \* the entries of files: records [id, word, at]
  NoId, NoPoint, \* an entry without an identifier, without coordinates
  Words,      \* street words
  NoWord,     \* in place of one: no street name, or none of two letters
  CensusWords,\* the words of TIGER/Line
  OldFiles,   \* what may have been loaded into the sources before: entries of each
  Tiger,      \* the Tiger providers
  Probed,     \* providers registered when an HTTP probe answers
  AskOrder,   \* the order in which a starting worker decides on providers
  BatchSize,  \* rows per transaction of a load
  MaxRows,    \* bound: rows of one file
  TigerStates,\* whether tiger.featnames may exist at first
  None        \* in place of words: app.state.spell_corrector is None

Procs   == 1 .. MaxStarts       \* a process is named by its turn
Nobody  == 0                    \* no holder of a lock
Sources == {Oa, Macon, Nad}     \* the tables with street names
Tables  == Sources \cup {Parcels, Gis}
AnyItem == Items \cup UNION {UNION {old[t] : t \in Sources} : old \in OldFiles}
Row     == [key : {<<f.id>> : f \in AnyItem} \cup {<<f.id, f.at>> : f \in AnyItem},
            word : Words \cup {NoWord}]

ASSUME ItemsAreEntries ==
  \A f \in AnyItem : /\ DOMAIN f = {"id", "word", "at"}
                     /\ f.word \in Words \cup {NoWord}
ASSUME CensusWordsAreWords == CensusWords \subseteq Words
ASSUME TablesAreDistinct ==
  /\ Oa # Macon /\ Nad \notin {Oa, Macon}
  /\ Parcels \notin Sources /\ Gis \notin Sources \cup {Parcels}
  /\ {"rebuild", "setup_tiger", "serve", "none"} \cap Tables = {}
ASSUME ProvidersAreDistinct == Sources \cap ({Tiger} \cup Probed) = {}
ASSUME OrderIsKnown == AskOrder \in Seq(Sources \cup {Tiger} \cup Probed)
ASSUME BoundsAreNat == BatchSize \in Nat \ {0} /\ MaxRows \in Nat /\ MaxStarts \in Nat
ASSUME NoneIsNoWord == None \notin Words /\ NoWord \notin Words
ASSUME TigerIsOptional == TigerStates \subseteq BOOLEAN

VARIABLES
  table,      \* committed rows of each table
  tiger,      \* tiger.featnames exists
  featnames,  \* words of tiger.featnames
  dict,       \* committed words of spell_dictionary
  share, excl,\* holders of ACCESS SHARE and ACCESS EXCLUSIVE on it
  pc, cmd,    \* where a process is, and what it runs
  todo,       \* rows of the batch that are still to be written
  pending,    \* rows of the open transaction: it holds their locks
  read,       \* rows of the file read so far
  broken,     \* the open transaction is aborted
  fresh,      \* words the rebuild in progress has inserted
  asked, registered, corrector, \* of a worker: app.state
  wrote, lost, skipped, wordless
  \* history: source words committed by a running command; by one that failed
  \* before its rebuild; in a rebuild that was rolled back unnoticed; processes
  \* since whose start, or TRUNCATE, the sources have been without any word

data    == <<table, tiger, featnames>>
lock    == <<share, excl>>
local   == <<todo, pending, read, broken>>
app     == <<asked, registered, corrector>>
history == <<wrote, lost, skipped, wordless>>
vars    == <<data, dict, lock, pc, cmd, local, fresh, app, history>>

Unloaded      == {None}

(* Mutant: rows without a street name are not filtered out. *)
AnyWordOf(rows) == {r.word : r \in rows}

(* WHERE street_name IS NOT NULL, and words of two letters and more. *)
WordsOf(rows) == {r.word : r \in rows} \cap Words

SourceWords   == UNION {WordsOf(table[t]) : t \in Sources}
NoOneElse(p)  == share \subseteq {p} /\ excl \in {p, Nobody}
Readable(p)   == excl \in {p, Nobody}

(* The row a parser makes of an entry; none when it skips the entry.  The  *)
(* county's hash takes in the coordinates, and needs no identifier.        *)
RowBy(key, f)  == {[key |-> key, word |-> f.word]}
OaRow(f)       == IF f.at = NoPoint \/ f.id = NoId THEN {} ELSE RowBy(<<f.id>>, f)
NadRow(f)      == IF f.at = NoPoint \/ f.id = NoId THEN {} ELSE RowBy(<<f.id>>, f)
ParcelRow(f)   == IF f.id = NoId \/ f.at = NoPoint THEN {} ELSE RowBy(<<f.id>>, f)
MaconRow(f)    == IF f.at = NoPoint THEN {} ELSE RowBy(<<f.id, f.at>>, f)

(* ON CONFLICT (source_hash) DO UPDATE: a new row replaces its key's. *)
Merge(old, new) == {r \in old : \A n \in new : n.key # r.key} \cup new

(* A write to a key waits for the transactions that have written it. *)
Rivals(p, k) ==
  {q \in Procs \ {p} : cmd[q] = cmd[p] /\ \E r \in pending[q] : r.key = k}

PCs == {"new", "read", "upsert", "extension", "script", "truncate", "insert", "tiger",
        "commit", "ask", "staging", "load", "serving", "done"}
Commands == Tables \cup {"rebuild", "setup_tiger", "serve", "none"}

TypeOK ==
  /\ table \in [Tables -> SUBSET Row]
  /\ tiger \in BOOLEAN /\ featnames \subseteq Words /\ dict \subseteq Words
  /\ share \subseteq Procs /\ excl \in Procs \cup {Nobody}
  /\ pc \in [Procs -> PCs] /\ cmd \in [Procs -> Commands]
  /\ pending \in [Procs -> SUBSET Row]
  /\ todo \in [Procs -> Seq(Row)] /\ \A p \in Procs : Len(todo[p]) <= BatchSize
  /\ read \in [Procs -> 0 .. MaxRows]
  /\ broken \in [Procs -> BOOLEAN] /\ fresh \in [Procs -> SUBSET Words]
  /\ asked \in [Procs -> 0 .. Len(AskOrder)]
  /\ registered \in [Procs -> SUBSET (Sources \cup {Tiger} \cup Probed)]
  /\ corrector \in [Procs -> (SUBSET Words) \cup {Unloaded}]
  /\ wrote \in [Procs -> SUBSET Words]
  /\ lost \subseteq Words /\ skipped \subseteq Words /\ wordless \subseteq Procs

(* Staging rows may be older than the dictionary (it was added by a later   *)
(* migration), or left by a load that failed: their words count as lost.    *)
Init ==
  /\ \E old \in OldFiles :
       table = [t \in Tables |->
                  CASE t \in {Oa, Nad} -> UNION {OaRow(f) : f \in old[t]}
                    [] t = Macon       -> UNION {MaconRow(f) : f \in old[t]}
                    [] OTHER           -> {}]
  /\ tiger \in TigerStates
  /\ featnames = {} /\ dict = {}
  /\ share = {} /\ excl = Nobody
  /\ pc = [p \in Procs |-> "new"] /\ cmd = [p \in Procs |-> "none"]
  /\ todo = [p \in Procs |-> <<>>] /\ pending = [p \in Procs |-> {}]
  /\ read = [p \in Procs |-> 0]
  /\ broken = [p \in Procs |-> FALSE] /\ fresh = [p \in Procs |-> {}]
  /\ asked = [p \in Procs |-> 0] /\ registered = [p \in Procs |-> {}]
  /\ corrector = [p \in Procs |-> Unloaded]
  /\ wrote = [p \in Procs |-> {}]
  /\ lost = SourceWords /\ skipped = {} /\ wordless = {}

Goto(p, l) == pc' = [pc EXCEPT ![p] = l]

(* The connection closes: an open transaction rolls back. *)
Close(p) ==
  /\ share'   = share \ {p}
  /\ excl'    = IF excl = p THEN Nobody ELSE excl
  /\ todo'    = [todo    EXCEPT ![p] = <<>>]
  /\ pending' = [pending EXCEPT ![p] = {}]
  /\ read'    = [read    EXCEPT ![p] = 0]
  /\ broken'  = [broken  EXCEPT ![p] = FALSE]
  /\ fresh'   = [fresh   EXCEPT ![p] = {}]
  /\ wrote'   = [wrote   EXCEPT ![p] = {}]
  /\ UNCHANGED cmd

WordlessFrom(p) == IF SourceWords = {} THEN wordless \cup {p} ELSE wordless \ {p}

Begin(p, c, l) ==
  /\ pc[p] = "new"
  /\ \A q \in 1 .. (p - 1) : pc[q] # "new"
  /\ cmd' = [cmd EXCEPT ![p] = c]
  /\ wordless' = WordlessFrom(p)
  /\ Goto(p, l)
  /\ UNCHANGED <<data, dict, lock, local, fresh, app, wrote, lost, skipped>>

-----------------------------------------------------------------------------
(* Loading a table. *)

BeginLoad(p, t) == Begin(p, t, "read")

Batches(rows) == UNION {[1 .. n -> rows] : n \in 1 .. BatchSize}

(* The parsed rows of a batch, in the order of the file; a batch that is   *)
(* not full is the last, but for features "import" has skipped.            *)
ReadBatch(p, batch) ==
  /\ pc[p] = "read"
  /\ read[p] + Len(batch) <= MaxRows
  /\ todo' = [todo EXCEPT ![p] = batch]
  /\ read' = [read EXCEPT ![p] =
                IF Len(batch) = BatchSize \/ cmd[p] = Gis THEN @ + Len(batch) ELSE MaxRows]
  /\ Goto(p, "upsert")
  /\ UNCHANGED <<data, dict, lock, cmd, pending, broken, fresh, app, history>>

Writing(p) == pc[p] = "upsert" /\ todo[p] # <<>>

(* The next row of the batch, which waits while its key is locked; NAD's   *)
(* one INSERT ... SELECT of a batch locks its keys one by one as well.     *)
UpsertRow(p) ==
  /\ Writing(p) /\ ~broken[p]
  /\ Rivals(p, Head(todo[p]).key) = {}
  /\ pending' = [pending EXCEPT ![p] = Merge(@, {Head(todo[p])})]
  /\ todo'    = [todo EXCEPT ![p] = Tail(@)]
  /\ UNCHANGED <<data, dict, lock, pc, cmd, read, broken, fresh, app, history>>

(* A feature's exception is caught and counted, but an SQL error has       *)
(* aborted the transaction of the batch: its rows and locks are gone, and  *)
(* each later feature of the batch fails too.                              *)
FeatureFails(p) ==
  /\ cmd[p] = Gis
  /\ Writing(p)
  /\ broken'  = [broken EXCEPT ![p] = TRUE]
  /\ pending' = [pending EXCEPT ![p] = {}]
  /\ todo'    = [todo EXCEPT ![p] = Tail(@)]
  /\ UNCHANGED <<data, dict, lock, pc, cmd, read, fresh, app, history>>

(* COMMIT of an aborted transaction is a rollback and no error. *)
CommitBatch(p) ==
  /\ pc[p] = "upsert" /\ todo[p] = <<>>
  /\ table' = [table EXCEPT ![cmd[p]] = Merge(@, pending[p])]
  /\ wrote' = IF cmd[p] \in Sources
              THEN [wrote EXCEPT ![p] = @ \cup WordsOf(pending[p])]
              ELSE wrote
  /\ wordless' = IF SourceWords' = {} THEN Procs ELSE wordless
  /\ pending'  = [pending EXCEPT ![p] = {}]
  /\ broken'   = [broken EXCEPT ![p] = FALSE]
  /\ Goto(p, "read")
  /\ UNCHANGED <<tiger, featnames, dict, lock, cmd, todo, read, fresh, app, lost, skipped>>

EndOfFile(p) ==
  /\ pc[p] = "read"
  /\ Goto(p, "truncate")
  /\ UNCHANGED <<data, dict, lock, cmd, local, fresh, app, history>>

(* load-oa-parcels ends here, and load-nad when no row is of its states. *)
EndWithoutRebuild(p) ==
  /\ pc[p] = "read"
  /\ Goto(p, "done")
  /\ Close(p)
  /\ UNCHANGED <<data, dict, app, lost, skipped, wordless>>

(* An error, a failed row or an interrupt ends a command: what it has      *)
(* committed stays, and no rebuild follows.                                *)
LoadFails(p) ==
  /\ cmd[p] # "serve"
  /\ pc[p] \notin {"new", "done"}
  /\ Goto(p, "done")
  /\ Close(p)
  /\ lost' = lost \cup wrote[p]
  /\ UNCHANGED <<data, dict, app, skipped, wordless>>

-----------------------------------------------------------------------------
(* setup-tiger: no rebuild at its end. *)

BeginSetupTiger(p) == Begin(p, "setup_tiger", "extension")

CreateExtension(p) ==
  /\ pc[p] = "extension"
  /\ tiger' = TRUE
  /\ Goto(p, "script")
  /\ UNCHANGED <<table, featnames, dict, lock, cmd, local, fresh, app, history>>

(* The loader script of a state, over the files a download brought, if     *)
(* any did; an empty script is skipped, a failed one is LoadFails.         *)
RunScript(p, words) ==
  /\ pc[p] = "script"
  /\ featnames' = featnames \cup words
  /\ Goto(p, "done")
  /\ Close(p)
  /\ UNCHANGED <<table, tiger, dict, app, lost, skipped, wordless>>

-----------------------------------------------------------------------------
(* rebuild_dictionary *)

BeginRebuild(p) == Begin(p, "rebuild", "truncate")

(* Mutant: DELETE instead of TRUNCATE, which waits for no reader or rebuild. *)
DeleteWords(p) ==
  /\ pc[p] = "truncate"
  /\ excl'  = p
  /\ fresh' = [fresh EXCEPT ![p] = {}]
  /\ wordless' = WordlessFrom(p)
  /\ Goto(p, "insert")
  /\ UNCHANGED <<data, dict, share, cmd, local, app, wrote, lost, skipped>>

(* Mutant: the emptied table is committed before the words are inserted. *)
TruncateAndCommit(p) ==
  /\ pc[p] = "truncate"
  /\ NoOneElse(p)
  /\ excl'  = p
  /\ dict'  = {}
  /\ fresh' = [fresh EXCEPT ![p] = {}]
  /\ wordless' = WordlessFrom(p)
  /\ Goto(p, "insert")
  /\ UNCHANGED <<data, share, cmd, local, app, wrote, lost, skipped>>

Truncate(p) ==
  /\ pc[p] = "truncate"
  /\ NoOneElse(p)
  /\ excl'  = p
  /\ fresh' = [fresh EXCEPT ![p] = {}]
  /\ wordless' = WordlessFrom(p)
  /\ Goto(p, "insert")
  /\ UNCHANGED <<data, dict, share, cmd, local, app, wrote, lost, skipped>>

InsertWords(p) ==
  /\ pc[p] = "insert"
  /\ fresh' = [fresh EXCEPT ![p] = SourceWords]
  /\ Goto(p, "tiger")
  /\ UNCHANGED <<data, dict, lock, cmd, local, app, history>>

(* Without the table the statement fails, as it may for any reason; the    *)
(* exception is dropped, and the transaction stays aborted.                *)
InsertTiger(p) ==
  /\ pc[p] = "tiger"
  /\ \/ /\ tiger
        /\ fresh' = [fresh EXCEPT ![p] = @ \cup featnames]
        /\ UNCHANGED broken
     \/ /\ broken' = [broken EXCEPT ![p] = TRUE]
        /\ UNCHANGED fresh
  /\ Goto(p, "commit")
  /\ UNCHANGED <<data, dict, lock, cmd, todo, pending, read, app, history>>

CommitDictionary(p) ==
  /\ pc[p] = "commit"
  /\ IF broken[p]
     THEN /\ skipped' = skipped \cup fresh[p]
          /\ UNCHANGED <<dict, lost>>
     ELSE /\ dict'    = fresh[p]
          /\ lost'    = lost \ fresh[p]
          /\ skipped' = skipped \ fresh[p]
  /\ Goto(p, IF cmd[p] = "serve" THEN "load" ELSE "done")
  /\ Close(p)
  /\ UNCHANGED <<data, app, wordless>>

-----------------------------------------------------------------------------
(* An API worker: lifespan. *)

StartWorker(w) == Begin(w, "serve", "ask")

(* Each check is a session of its own, and any error of it means no; a     *)
(* probe answers or does not.                                              *)
Available ==
  {t \in Sources : table[t] # {}} \cup {x \in {Tiger} : tiger} \cup Probed

AskNext(w) ==
  /\ pc[w] = "ask"
  /\ asked[w] < Len(AskOrder)
  /\ asked' = [asked EXCEPT ![w] = @ + 1]
  /\ \E new \in SUBSET (Available \cap {AskOrder[asked'[w]]}) :
       registered' = [registered EXCEPT ![w] = @ \cup new]
  /\ UNCHANGED <<data, dict, lock, pc, cmd, local, fresh, corrector, history>>

Decided(w) == pc[w] = "ask" /\ asked[w] = Len(AskOrder)

CountWords(w) ==
  /\ Decided(w)
  /\ Readable(w)
  /\ share' = share \cup {w}
  /\ Goto(w, IF dict = {} THEN "staging" ELSE "load")
  /\ UNCHANGED <<data, dict, excl, cmd, local, fresh, app, history>>

(* Mutant: only the NAD table is asked. *)
CountNadOnly(w) ==
  /\ pc[w] = "staging"
  /\ Goto(w, IF table[Nad] # {} THEN "truncate" ELSE "load")
  /\ UNCHANGED <<data, dict, lock, cmd, local, fresh, app, history>>

CountStaging(w) ==
  /\ pc[w] = "staging"
  /\ Goto(w, IF \E t \in Sources : table[t] # {} THEN "truncate" ELSE "load")
  /\ UNCHANGED <<data, dict, lock, cmd, local, fresh, app, history>>

Serve(w, words) ==
  /\ corrector' = [corrector EXCEPT ![w] = words]
  /\ Goto(w, "serving")
  /\ Close(w)
  /\ UNCHANGED <<data, dict, asked, registered, lost, skipped, wordless>>

LoadCorrector(w) ==
  /\ pc[w] = "load"
  /\ Readable(w)
  /\ Serve(w, dict)

(* Any exception from the engine to the corrector: a lost connection, a    *)
(* failed statement or commit, a missing table.  The worker serves without *)
(* a corrector.  One of the insert of Tiger's words does not get here.     *)
SpellBlockFails(w) ==
  /\ cmd[w] = "serve"
  /\ Decided(w) \/ pc[w] \in {"staging", "truncate", "insert", "commit", "load"}
  /\ Serve(w, Unloaded)

(* Shutdown, or a crash: app.state is gone. *)
StopWorker(w) ==
  /\ cmd[w] = "serve"
  /\ pc[w] # "done"
  /\ asked'      = [asked EXCEPT ![w] = 0]
  /\ registered' = [registered EXCEPT ![w] = {}]
  /\ corrector'  = [corrector EXCEPT ![w] = Unloaded]
  /\ Goto(w, "done")
  /\ Close(w)
  /\ UNCHANGED <<data, dict, lost, skipped, wordless>>

-----------------------------------------------------------------------------
(* p's next statement waits for q: a row for the load that has written its *)
(* key, TRUNCATE for those who hold a lock of the dictionary, the others   *)
(* for a TRUNCATE.                                                         *)
WaitsFor(p, q) ==
  /\ q # p
  /\ \/ Writing(p) /\ ~broken[p] /\ q \in Rivals(p, Head(todo[p]).key)
     \/ pc[p] = "truncate" /\ q \in share \cup {excl}
     \/ (Decided(p) \/ pc[p] = "load") /\ q = excl

InWaitCycle(p) ==
  \E S \in SUBSET Procs :
    /\ p \in S
    /\ \A r \in S : (\E q \in S : WaitsFor(r, q)) /\ (\E q \in S : WaitsFor(q, r))

(* Mutant: nobody detects the deadlock. *)
NoVictim(p) == FALSE /\ FeatureFails(p)

(* PostgreSQL's detector fails the statement of one process of a cycle: of *)
(* two loads that lock keys in opposite orders, or of two workers that     *)
(* hold the lock of their COUNT and both ask for TRUNCATE's.               *)
DeadlockVictim(p) ==
  /\ InWaitCycle(p)
  /\ IF cmd[p] = "serve" THEN SpellBlockFails(p)
     ELSE IF cmd[p] = Gis /\ Writing(p) THEN FeatureFails(p)
     ELSE LoadFails(p)

-----------------------------------------------------------------------------
RowsOf(Parse(_)) == UNION {Parse(f) : f \in Items}

LoadOa(p) ==
  /\ cmd[p] = Oa
  /\ \/ \E batch \in Batches(RowsOf(OaRow)) : ReadBatch(p, batch)
     \/ UpsertRow(p)
     \/ CommitBatch(p)
     \/ EndOfFile(p)

LoadMacon(p) ==
  /\ cmd[p] = Macon
  /\ \/ \E batch \in Batches(RowsOf(MaconRow)) : ReadBatch(p, batch)
     \/ UpsertRow(p)
     \/ CommitBatch(p)
     \/ EndOfFile(p)

(* A batch that names a key twice is an error of its statement: LoadFails. *)
LoadNad(p) ==
  /\ cmd[p] = Nad
  /\ \/ \E batch \in Batches(RowsOf(NadRow)) :
          /\ \A i, j \in DOMAIN batch : batch[i].key = batch[j].key => i = j
          /\ ReadBatch(p, batch)
     \/ UpsertRow(p)
     \/ CommitBatch(p)
     \/ EndOfFile(p)
     \/ read[p] = 0 /\ EndWithoutRebuild(p)

LoadParcels(p) ==
  /\ cmd[p] = Parcels
  /\ \/ \E batch \in Batches(RowsOf(ParcelRow)) : ReadBatch(p, batch)
     \/ UpsertRow(p)
     \/ CommitBatch(p)
     \/ EndWithoutRebuild(p)

ImportGis(p) ==
  /\ cmd[p] = Gis
  /\ \/ \E batch \in Batches(RowsOf(OaRow)) : ReadBatch(p, batch)
     \/ UpsertRow(p)
     \/ FeatureFails(p)
     \/ CommitBatch(p)
     \/ EndOfFile(p)

SetupTiger(p) ==
  CreateExtension(p) \/ \E ws \in {{}, CensusWords} : RunScript(p, ws)

Rebuild(p) ==
  Truncate(p) \/ InsertWords(p) \/ InsertTiger(p) \/ CommitDictionary(p)

StartUp(w) == AskNext(w) \/ CountWords(w) \/ CountStaging(w) \/ LoadCorrector(w)

Start(p) ==
  \/ \E t \in Tables : BeginLoad(p, t)
  \/ BeginSetupTiger(p)
  \/ BeginRebuild(p)
  \/ StartWorker(p)
Step(p) ==
  \/ LoadOa(p) \/ LoadMacon(p) \/ LoadNad(p) \/ LoadParcels(p) \/ ImportGis(p)
  \/ SetupTiger(p) \/ Rebuild(p) \/ StartUp(p)

Fail(p) == LoadFails(p) \/ SpellBlockFails(p) \/ StopWorker(p)

Next == \E p \in Procs : Start(p) \/ Step(p) \/ DeadlockVictim(p) \/ Fail(p)

Spec == Init /\ [][Next]_vars

(* As long as a process that runs can go on, one does: a connection        *)
(* answers, a lock that is free is granted, and PostgreSQL's deadlock      *)
(* detector wakes up.  Nobody need start, fail or stop.                    *)
Fairness == WF_vars(\E p \in Procs : Step(p) \/ DeadlockVictim(p))

FairSpec == Spec /\ Fairness

-----------------------------------------------------------------------------
InFlight == UNION {wrote[p] : p \in Procs}

(* A street word in the staging tables is in the dictionary, or else a     *)
(* running load has just committed it, or a load died before its rebuild,  *)
(* or a rebuild was rolled back unnoticed: concurrent loads and rebuilds   *)
(* never lose a word of each other (corrector.py: rebuild_dictionary).     *)
DictionaryCoversLoads == SourceWords \subseteq dict \cup InFlight \cup lost \cup skipped

(* What corrector.py promises (D-10, and Tiger as an optional source): the *)
(* same with no word missing because Tiger is not installed.               *)
DictionaryCoversAllLoads == SourceWords \subseteq dict \cup InFlight \cup lost

(* A rebuild truncates the table, yet no reader and no failure ever finds  *)
(* a dictionary that had words without any, unless the staging tables had  *)
(* none themselves at some time after that rebuild's TRUNCATE              *)
(* (corrector.py: rebuild_dictionary).                                     *)
DictionaryNeverEmptied ==
  [][dict # {} /\ dict' = {} => \E p \in wordless : pc[p] = "commit"]_dict

(* A worker repairs an empty dictionary before it reads it, whatever loads *)
(* and rebuilds run beside it: its corrector knows no word only if the     *)
(* sources had none at some time since the worker started, or a rebuild    *)
(* was rolled back unnoticed (main.py: lifespan, DEBT-03).                 *)
WantOfWordsIsExplained ==
  [][\A w \in Procs :
       pc[w] # "serving" /\ pc'[w] = "serving" /\ corrector'[w] = {} =>
         w \in wordless \/ skipped # {}]_pc

(* Every command that is started ends, and every worker comes to serve:    *)
(* the waits of loads for each other's rows, in whatever order they write  *)
(* them, and the waits for the dictionary's lock always end.               *)
EveryProcessEnds ==
  \A p \in Procs : pc[p] # "new" ~> pc[p] \in {"serving", "done"}
=============================================================================
