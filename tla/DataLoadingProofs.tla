-------------------------- MODULE DataLoadingProofs -------------------------
(***************************************************************************)
(* Proofs about DataLoading, for any number of commands and workers, any   *)
(* files, batches and statements in any order.                             *)
(***************************************************************************)
EXTENDS DataLoading, TLAPS

Rebuilding == {"insert", "tiger", "commit"}
Inserted   == {"tiger", "commit"}

(* Where a process is tells what it runs, and a rebuild has the lock. *)
PlaceInv ==
  \A p \in Procs :
    /\ pc[p] = "new" => cmd[p] = "none"
    /\ pc[p] \in {"read", "upsert"} => cmd[p] \in Tables
    /\ pc[p] \in {"extension", "script"} => cmd[p] = "setup_tiger"
    /\ pc[p] \in {"ask", "staging", "load", "serving"} => cmd[p] = "serve"
    /\ p \in share => cmd[p] = "serve"
    /\ pc[p] \in Rebuilding => excl = p

(* Only a load of street names has words under way, and only after a row. *)
WroteInv ==
  \A p \in Procs :
    /\ cmd[p] \notin Sources => wrote[p] = {}
    /\ read[p] = 0 => wrote[p] = {}
    /\ pc[p] = "upsert" => read[p] # 0

Others(p) == UNION {wrote[q] : q \in Procs \ {p}}

(* A rebuild that has inserted the words of the staging tables may lack    *)
(* those that others commit meanwhile, and they still have to rebuild.     *)
CoverInv ==
  /\ DictionaryCoversLoads
  /\ \A p \in Procs : pc[p] \in Inserted =>
       SourceWords \subseteq fresh[p] \cup Others(p) \cup lost \cup skipped

(* Once a process has started, or truncated, the sources have had words    *)
(* ever since, or it is marked.  A rebuild that found none is marked, and  *)
(* so is each worker that is about to read what it leaves.                 *)
Empty(p) == pc[p] \in Inserted /\ fresh[p] = {}
WordsInv ==
  \A p \in Procs :
    /\ pc[p] # "new" => SourceWords # {} \/ p \in wordless
    /\ Empty(p) => \A w \in Procs : w = p \/ pc[w] = "load" => w \in wordless
    /\ pc[p] = "load" => dict # {} \/ skipped # {} \/ p \in wordless

IInv == TypeOK /\ PlaceInv /\ WroteInv /\ CoverInv /\ WordsInv

-----------------------------------------------------------------------------
LEMMA ProcsAreNat == Procs \subseteq Nat \ {0}
BY BoundsAreNat DEF Procs

LEMMA SourceWordsAreWords == SourceWords \subseteq Words
BY DEF SourceWords, WordsOf

LEMMA RowsAreRows ==
  ASSUME NEW f \in AnyItem
  PROVE  /\ OaRow(f) \subseteq Row /\ MaconRow(f) \subseteq Row
         /\ NadRow(f) \subseteq Row /\ ParcelRow(f) \subseteq Row
<1>1. f.word \in Words \cup {NoWord}
  BY ItemsAreEntries
<1>2. [key |-> <<f.id>>, word |-> f.word] \in Row
  BY <1>1 DEF Row
<1>3. [key |-> <<f.id, f.at>>, word |-> f.word] \in Row
  BY <1>1 DEF Row
<1>. QED BY <1>2, <1>3 DEF OaRow, MaconRow, NadRow, ParcelRow, RowBy

LEMMA ItemsAreItems == Items \subseteq AnyItem
BY DEF AnyItem

LEMMA MergeKeepsRows ==
  ASSUME NEW S, NEW old \in SUBSET S, NEW new \in SUBSET S
  PROVE  Merge(old, new) \in SUBSET S /\ new \subseteq Merge(old, new)
BY DEF Merge

-----------------------------------------------------------------------------
(* Types *)

LEMMA InitTypes == Init => TypeOK
<1>. SUFFICES ASSUME Init PROVE TypeOK
  OBVIOUS
<1>1. table \in [Tables -> SUBSET Row]
  <2>1. PICK old \in OldFiles :
          table = [t \in Tables |->
                  CASE t \in {Oa, Nad} -> UNION {OaRow(f) : f \in old[t]}
                    [] t = Macon       -> UNION {MaconRow(f) : f \in old[t]}
                    [] OTHER           -> {}]
    BY DEF Init
  <2>2. \A t \in Sources : \A f \in old[t] : f \in AnyItem
    BY DEF AnyItem
  <2>3. \A t \in {Oa, Nad} : UNION {OaRow(f) : f \in old[t]} \in SUBSET Row
    BY <2>2, RowsAreRows DEF Sources
  <2>4. UNION {MaconRow(f) : f \in old[Macon]} \in SUBSET Row
    BY <2>2, RowsAreRows DEF Sources
  <2>. QED BY <2>1, <2>3, <2>4
<1>2. lost \subseteq Words /\ wordless \subseteq Procs
  BY SourceWordsAreWords DEF Init
<1>3. asked \in [Procs -> 0 .. Len(AskOrder)]
  <2>1. 0 \in 0 .. Len(AskOrder)
    BY OrderIsKnown
  <2>. QED BY <2>1 DEF Init
<1>4. /\ todo \in [Procs -> Seq(Row)] /\ \A p \in Procs : Len(todo[p]) <= BatchSize
      /\ read \in [Procs -> 0 .. MaxRows]
  BY BoundsAreNat DEF Init
<1>5. /\ pc \in [Procs -> PCs] /\ cmd \in [Procs -> Commands]
      /\ pending \in [Procs -> SUBSET Row] /\ broken \in [Procs -> BOOLEAN]
      /\ fresh \in [Procs -> SUBSET Words] /\ wrote \in [Procs -> SUBSET Words]
  BY DEF Init, PCs, Commands
<1>6. /\ registered \in [Procs -> SUBSET (Sources \cup {Tiger} \cup Probed)]
      /\ corrector \in [Procs -> (SUBSET Words) \cup {Unloaded}]
  BY DEF Init
<1>7. /\ tiger \in BOOLEAN /\ featnames \subseteq Words /\ dict \subseteq Words
      /\ share \subseteq Procs /\ excl \in Procs \cup {Nobody} /\ skipped \subseteq Words
  BY TigerIsOptional DEF Init
<1>. QED BY <1>1, <1>2, <1>3, <1>4, <1>5, <1>6, <1>7 DEF TypeOK

LEMMA CloseTypes ==
  ASSUME TypeOK, NEW p \in Procs, Close(p)
  PROVE  /\ share' \subseteq Procs /\ excl' \in Procs \cup {Nobody}
         /\ cmd' \in [Procs -> Commands] /\ pending' \in [Procs -> SUBSET Row]
         /\ todo' \in [Procs -> Seq(Row)] /\ \A q \in Procs : Len(todo'[q]) <= BatchSize
         /\ read' \in [Procs -> 0 .. MaxRows]
         /\ broken' \in [Procs -> BOOLEAN] /\ fresh' \in [Procs -> SUBSET Words]
         /\ wrote' \in [Procs -> SUBSET Words]
<1>1. todo' \in [Procs -> Seq(Row)] /\ \A q \in Procs : Len(todo'[q]) <= BatchSize
  BY BoundsAreNat DEF TypeOK, Close
<1>. QED BY <1>1, BoundsAreNat DEF TypeOK, Close

LEMMA BeginTypes ==
  ASSUME TypeOK, NEW p \in Procs, NEW c \in Commands, NEW l \in PCs, Begin(p, c, l)
  PROVE  TypeOK'
BY DEF TypeOK, Begin, WordlessFrom, Goto, data, lock, local, app

LEMMA StartTypes == ASSUME TypeOK, NEW p \in Procs, Start(p) PROVE TypeOK'
<1>1. \A c \in Commands, l \in PCs : Begin(p, c, l) => TypeOK'
  BY BeginTypes
<1>. QED BY <1>1 DEF Start, BeginLoad, BeginSetupTiger, BeginRebuild, StartWorker, Commands, PCs

(* A batch as the parsers make it. *)
ReadRows(p) ==
  \E batch \in Seq(Row) : Len(batch) \in 1 .. BatchSize /\ ReadBatch(p, batch)

LEMMA ReadRowsTypes == ASSUME TypeOK, NEW p \in Procs, ReadRows(p) PROVE TypeOK'
<1>1. PICK batch \in Seq(Row) : Len(batch) \in 1 .. BatchSize /\ ReadBatch(p, batch)
  BY DEF ReadRows
<1>2. read[p] + Len(batch) \in 0 .. MaxRows /\ MaxRows \in 0 .. MaxRows
  BY <1>1, BoundsAreNat DEF TypeOK, ReadBatch
<1>3. read' \in [Procs -> 0 .. MaxRows]
  BY <1>1, <1>2 DEF TypeOK, ReadBatch
<1>4. todo' \in [Procs -> Seq(Row)] /\ \A q \in Procs : Len(todo'[q]) <= BatchSize
  BY <1>1, BoundsAreNat DEF TypeOK, ReadBatch
<1>. QED BY <1>1, <1>3, <1>4 DEF TypeOK, ReadBatch, Goto, data, lock, app, history, PCs

LEMMA TailTypes ==
  ASSUME TypeOK, NEW p \in Procs, todo[p] # <<>>
  PROVE  /\ Head(todo[p]) \in Row
         /\ [todo EXCEPT ![p] = Tail(@)] \in [Procs -> Seq(Row)]
         /\ \A q \in Procs : Len([todo EXCEPT ![p] = Tail(@)][q]) <= BatchSize
<1>1. todo[p] \in Seq(Row) /\ Len(todo[p]) <= BatchSize
  BY DEF TypeOK
<1>2. /\ Head(todo[p]) \in Row /\ Tail(todo[p]) \in Seq(Row)
      /\ Len(Tail(todo[p])) <= BatchSize
  BY <1>1, BoundsAreNat
<1>. QED BY <1>2 DEF TypeOK

LEMMA UpsertRowTypes == ASSUME TypeOK, NEW p \in Procs, UpsertRow(p) PROVE TypeOK'
<1>1. todo[p] # <<>> /\ todo' = [todo EXCEPT ![p] = Tail(@)]
  BY DEF UpsertRow, Writing
<1>2. Merge(pending[p], {Head(todo[p])}) \in SUBSET Row
  <2>1. pending[p] \in SUBSET Row /\ {Head(todo[p])} \in SUBSET Row
    BY <1>1, TailTypes DEF TypeOK
  <2>. QED BY <2>1, MergeKeepsRows
<1>3. pending' \in [Procs -> SUBSET Row]
  BY <1>2 DEF TypeOK, UpsertRow
<1>4. todo' \in [Procs -> Seq(Row)] /\ \A q \in Procs : Len(todo'[q]) <= BatchSize
  BY <1>1, TailTypes
<1>. QED BY <1>3, <1>4 DEF TypeOK, UpsertRow, data, lock, app, history

LEMMA FeatureFailsTypes == ASSUME TypeOK, NEW p \in Procs, FeatureFails(p) PROVE TypeOK'
<1>1. todo[p] # <<>> /\ todo' = [todo EXCEPT ![p] = Tail(@)]
  BY DEF FeatureFails, Writing
<1>2. todo' \in [Procs -> Seq(Row)] /\ \A q \in Procs : Len(todo'[q]) <= BatchSize
  BY <1>1, TailTypes
<1>. QED BY <1>2 DEF TypeOK, FeatureFails, data, lock, app, history

LEMMA CommitBatchTypes ==
  ASSUME TypeOK, NEW p \in Procs, cmd[p] \in Tables, CommitBatch(p) PROVE TypeOK'
<1>1. Merge(table[cmd[p]], pending[p]) \in SUBSET Row
  <2>1. pending[p] \in SUBSET Row /\ table[cmd[p]] \in SUBSET Row
    BY DEF TypeOK
  <2>. QED BY <2>1, MergeKeepsRows
<1>2. table' \in [Tables -> SUBSET Row]
  BY <1>1 DEF TypeOK, CommitBatch
<1>3. WordsOf(pending[p]) \subseteq Words
  BY DEF WordsOf
<1>4. wrote' \in [Procs -> SUBSET Words]
  BY <1>3 DEF TypeOK, CommitBatch
<1>5. wordless' \subseteq Procs /\ pc' \in [Procs -> PCs]
  BY DEF TypeOK, CommitBatch, Goto, PCs
<1>. QED BY <1>2, <1>4, <1>5 DEF TypeOK, CommitBatch, lock, app

LEMMA EndOfFileTypes == ASSUME TypeOK, NEW p \in Procs, EndOfFile(p) PROVE TypeOK'
BY DEF TypeOK, EndOfFile, Goto, data, lock, local, app, history, PCs

LEMMA EndingTypes ==
  ASSUME TypeOK, NEW p \in Procs,
         EndWithoutRebuild(p) \/ LoadFails(p) \/ \E ws \in {{}, CensusWords} : RunScript(p, ws)
  PROVE  TypeOK'
<1>1. Close(p) /\ pc' = [pc EXCEPT ![p] = "done"] 
      /\ UNCHANGED <<table, tiger, dict, app, skipped, wordless>>
  BY DEF EndWithoutRebuild, LoadFails, RunScript, Goto, data
<1>2. featnames' \subseteq Words /\ lost' \subseteq Words
  BY CensusWordsAreWords DEF EndWithoutRebuild, LoadFails, RunScript, TypeOK, data
<1>. QED BY <1>1, <1>2, CloseTypes DEF TypeOK, app, PCs

LEMMA StopWorkerTypes == ASSUME TypeOK, NEW p \in Procs, StopWorker(p) PROVE TypeOK'
<1>1. 0 \in 0 .. Len(AskOrder)
  BY OrderIsKnown
<1>2. /\ asked' \in [Procs -> 0 .. Len(AskOrder)]
      /\ registered' \in [Procs -> SUBSET (Sources \cup {Tiger} \cup Probed)]
      /\ corrector' \in [Procs -> (SUBSET Words) \cup {Unloaded}]
  <2>1. asked' \in [Procs -> 0 .. Len(AskOrder)]
    BY <1>1 DEF TypeOK, StopWorker
  <2>2. registered' \in [Procs -> SUBSET (Sources \cup {Tiger} \cup Probed)]
    BY DEF TypeOK, StopWorker
  <2>3. corrector' \in [Procs -> (SUBSET Words) \cup {Unloaded}]
    BY DEF TypeOK, StopWorker
  <2>. QED BY <2>1, <2>2, <2>3
<1>3. Close(p) /\ pc' \in [Procs -> PCs] /\ UNCHANGED <<data, dict, lost, skipped, wordless>>
  BY DEF TypeOK, StopWorker, Goto, PCs
<1>. QED BY <1>2, <1>3, CloseTypes DEF TypeOK, data

LEMMA ServeTypes ==
  ASSUME TypeOK, NEW p \in Procs, NEW ws \in (SUBSET Words) \cup {Unloaded}, Serve(p, ws)
  PROVE  TypeOK'
<1>1. Close(p) /\ pc' \in [Procs -> PCs] /\ corrector' \in [Procs -> (SUBSET Words) \cup {Unloaded}]
      /\ UNCHANGED <<data, dict, asked, registered, lost, skipped, wordless>>
  BY DEF TypeOK, Serve, Goto, PCs
<1>. QED BY <1>1, CloseTypes DEF TypeOK, data

LEMMA StartUpTypes == ASSUME TypeOK, NEW p \in Procs, StartUp(p) PROVE TypeOK'
<1>1. CASE AskNext(p)
  <2>1. asked[p] + 1 \in 0 .. Len(AskOrder)
    BY <1>1, OrderIsKnown DEF TypeOK, AskNext
  <2>2. asked' \in [Procs -> 0 .. Len(AskOrder)]
    BY <1>1, <2>1 DEF TypeOK, AskNext
  <2>4. registered' \in [Procs -> SUBSET (Sources \cup {Tiger} \cup Probed)]
    <3>. DEFINE S == Sources \cup {Tiger} \cup Probed
    <3>1. PICK new \in SUBSET Available : registered' = [registered EXCEPT ![p] = @ \cup new]
      BY <1>1 DEF AskNext
    <3>2. new \in SUBSET S /\ registered \in [Procs -> SUBSET S]
      BY <3>1 DEF TypeOK, Available
    <3>. HIDE DEF S
    <3>3. registered' \in [Procs -> SUBSET S]
      BY <3>1, <3>2
    <3>. QED BY <3>3 DEF S
  <2>. QED BY <1>1, <2>2, <2>4 DEF TypeOK, AskNext, data, lock, local, history
<1>2. CASE CountWords(p)
  BY <1>2 DEF TypeOK, CountWords, Goto, data, local, app, history, PCs
<1>3. CASE CountStaging(p)
  BY <1>3 DEF TypeOK, CountStaging, Goto, data, lock, local, app, history, PCs
<1>4. CASE LoadCorrector(p)
  <2>1. \E ws \in (SUBSET Words) \cup {Unloaded} : Serve(p, ws)
    <3>1. dict \in SUBSET Words
      BY DEF TypeOK
    <3>. QED BY <1>4, <3>1 DEF LoadCorrector
  <2>2. PICK ws \in (SUBSET Words) \cup {Unloaded} : Serve(p, ws)
    BY <2>1
  <2>. QED BY <2>2, ServeTypes
<1>. QED BY <1>1, <1>2, <1>3, <1>4 DEF StartUp

LEMMA RebuildTypes == ASSUME TypeOK, NEW p \in Procs, Rebuild(p) PROVE TypeOK'
<1>1. CASE Truncate(p)
  BY <1>1 DEF TypeOK, Truncate, WordlessFrom, Goto, data, local, app, PCs
<1>2. CASE InsertWords(p)
  BY <1>2, SourceWordsAreWords DEF TypeOK, InsertWords, Goto, data, lock, local, app, history, PCs
<1>3. CASE InsertTiger(p)
  <2>1. fresh' \in [Procs -> SUBSET Words] /\ broken' \in [Procs -> BOOLEAN]
    BY <1>3 DEF TypeOK, InsertTiger
  <2>. QED BY <1>3, <2>1 DEF TypeOK, InsertTiger, Goto, data, lock, app, history, PCs
<1>4. CASE CommitDictionary(p)
  <2>1. dict' \subseteq Words /\ lost' \subseteq Words /\ skipped' \subseteq Words
    BY <1>4 DEF TypeOK, CommitDictionary
  <2>2. pc' \in [Procs -> PCs] /\ Close(p) /\ UNCHANGED <<data, app, wordless>>
    BY <1>4 DEF TypeOK, CommitDictionary, Goto, PCs
  <2>. QED BY <2>1, <2>2, CloseTypes DEF TypeOK, data, app
<1>. QED BY <1>1, <1>2, <1>3, <1>4 DEF Rebuild

LEMMA SpellBlockFailsTypes ==
  ASSUME TypeOK, NEW p \in Procs, SpellBlockFails(p) PROVE TypeOK'
<1>1. Serve(p, Unloaded)
  BY DEF SpellBlockFails
<1>. QED BY <1>1, ServeTypes

-----------------------------------------------------------------------------
(* The single statements a step can be, and those that fail one. *)
EndUnrebuilt(p) == EndWithoutRebuild(p) /\ (cmd[p] \notin Sources \/ read[p] = 0)
AnyScript(p)    == \E ws \in {{}, CensusWords} : RunScript(p, ws)
Statement(p) ==
  \/ ReadRows(p) \/ UpsertRow(p) \/ FeatureFails(p) \/ CommitBatch(p) \/ EndOfFile(p)
  \/ EndUnrebuilt(p) \/ CreateExtension(p) \/ AnyScript(p) \/ Rebuild(p) \/ StartUp(p)
  \/ SpellBlockFails(p)

LEMMA BatchesAreRows ==
  ASSUME NEW rows \in SUBSET Row, NEW batch \in Batches(rows)
  PROVE  batch \in Seq(Row) /\ Len(batch) \in 1 .. BatchSize
<1>1. PICK n \in 1 .. BatchSize : batch \in [1 .. n -> rows]
  BY DEF Batches
<1>2. n \in Nat /\ batch \in [1 .. n -> Row]
  BY <1>1, BoundsAreNat
<1>3. batch \in Seq(Row) /\ Len(batch) = n
  BY <1>2
<1>. QED BY <1>1, <1>3

LEMMA StepIsStatement == ASSUME NEW p \in Procs, Step(p) PROVE Statement(p)
<1>1. /\ RowsOf(OaRow) \in SUBSET Row /\ RowsOf(MaconRow) \in SUBSET Row
      /\ RowsOf(NadRow) \in SUBSET Row /\ RowsOf(ParcelRow) \in SUBSET Row
  BY RowsAreRows, ItemsAreItems DEF RowsOf
<1>2. ASSUME NEW rows \in SUBSET Row, NEW batch \in Batches(rows), ReadBatch(p, batch)
      PROVE  ReadRows(p)
  BY <1>2, BatchesAreRows DEF ReadRows
<1>3. CASE LoadOa(p)
  BY <1>1, <1>2, <1>3 DEF LoadOa, Statement
<1>4. CASE LoadMacon(p)
  BY <1>1, <1>2, <1>4 DEF LoadMacon, Statement
<1>5. CASE LoadParcels(p)
  <2>1. cmd[p] \notin Sources
    BY <1>5, TablesAreDistinct DEF LoadParcels
  <2>. QED BY <1>1, <1>2, <1>5, <2>1 DEF LoadParcels, Statement, EndUnrebuilt
<1>6. CASE ImportGis(p)
  BY <1>1, <1>2, <1>6 DEF ImportGis, Statement
<1>7. CASE LoadNad(p)
  BY <1>1, <1>2, <1>7 DEF LoadNad, Statement, EndUnrebuilt
<1>8. CASE SetupTiger(p) \/ Rebuild(p) \/ StartUp(p)
  BY <1>8 DEF SetupTiger, Statement, AnyScript
<1>. QED BY <1>3, <1>4, <1>5, <1>6, <1>7, <1>8 DEF Step

LEMMA StatementTypes ==
  ASSUME TypeOK, PlaceInv, NEW p \in Procs, Statement(p) PROVE TypeOK'
<1>1. CASE ReadRows(p) \/ UpsertRow(p) \/ FeatureFails(p) \/ SpellBlockFails(p)
  BY <1>1, ReadRowsTypes, UpsertRowTypes, FeatureFailsTypes, SpellBlockFailsTypes
<1>2. CASE CommitBatch(p)
  <2>1. cmd[p] \in Tables
    BY <1>2 DEF CommitBatch, PlaceInv
  <2>. QED BY <1>2, <2>1, CommitBatchTypes
<1>3. CASE CreateExtension(p)
  BY <1>3 DEF TypeOK, CreateExtension, Goto, lock, local, app, history, PCs
<1>4. CASE EndUnrebuilt(p) \/ AnyScript(p)
  BY <1>4, EndingTypes DEF EndUnrebuilt, AnyScript
<1>. QED BY <1>1, <1>2, <1>3, <1>4, EndOfFileTypes, RebuildTypes, StartUpTypes
   DEF Statement

-----------------------------------------------------------------------------
(* Places and the lock *)

(* What a step of one process leaves of another's place. *)
OthersStay(p) ==
  \A q \in Procs \ {p} :
    /\ pc'[q] = pc[q] /\ cmd'[q] = cmd[q]
    /\ q \in share' => q \in share
    /\ excl = q => excl' = q

PlaceOf(p) ==
  /\ pc[p] = "new" => cmd[p] = "none"
  /\ pc[p] \in {"read", "upsert"} => cmd[p] \in Tables
  /\ pc[p] \in {"extension", "script"} => cmd[p] = "setup_tiger"
  /\ pc[p] \in {"ask", "staging", "load", "serving"} => cmd[p] = "serve"
  /\ p \in share => cmd[p] = "serve"
  /\ pc[p] \in Rebuilding => excl = p

LEMMA PlacesKept ==
  ASSUME PlaceInv, NEW p \in Procs, OthersStay(p), PlaceOf(p)' PROVE PlaceInv'
<1>1. ASSUME NEW q \in Procs PROVE PlaceOf(q)'
  <2>1. CASE q = p
    BY <2>1
  <2>2. CASE q # p
    BY <2>2 DEF PlaceInv, OthersStay, PlaceOf
  <2>. QED BY <2>1, <2>2
<1>. QED BY <1>1 DEF PlaceInv, PlaceOf

(* A process that closes its connection and ends, or serves. *)
LEMMA ClosingPlaces ==
  ASSUME TypeOK, PlaceInv, NEW p \in Procs, Close(p), NEW l, Goto(p, l),
         l = "done" \/ (l \in {"load", "serving"} /\ cmd[p] = "serve")
  PROVE  PlaceInv'
<1>1. OthersStay(p)
  BY ProcsAreNat DEF OthersStay, TypeOK, Close, Goto, Nobody
<1>2. PlaceOf(p)'
  BY DEF PlaceOf, TypeOK, Close, Goto, Rebuilding
<1>. QED BY <1>1, <1>2, PlacesKept

(* A process that takes no lock and goes to no rebuild. *)
LEMMA PassingPlaces ==
  ASSUME TypeOK, PlaceInv, NEW p \in Procs, UNCHANGED <<share, excl, cmd>>, NEW l, Goto(p, l),
         l \notin {"new", "read", "upsert", "extension", "script", "ask", "staging", "load", "serving"},
         l \in Rebuilding => pc[p] \in Rebuilding
  PROVE  PlaceInv'
<1>1. OthersStay(p)
  BY DEF OthersStay, TypeOK, Goto
<1>2. PlaceOf(p)'
  BY DEF PlaceOf, PlaceInv, TypeOK, Goto
<1>. QED BY <1>1, <1>2, PlacesKept

LEMMA StartPlaces == ASSUME TypeOK, PlaceInv, NEW p \in Procs, Start(p) PROVE PlaceInv'
<1>1. ASSUME NEW c, NEW l, Begin(p, c, l),
             \/ c \in Tables /\ l = "read"
             \/ c = "setup_tiger" /\ l = "extension"
             \/ c = "rebuild" /\ l = "truncate"
             \/ c = "serve" /\ l = "ask"
      PROVE  PlaceInv'
  <2>1. OthersStay(p)
    BY <1>1 DEF OthersStay, TypeOK, Begin, Goto, lock
  <2>2. p \notin share
    BY <1>1 DEF Begin, PlaceInv
  <2>3. PlaceOf(p)'
    BY <1>1, <2>2 DEF PlaceOf, TypeOK, Begin, Goto, Rebuilding, lock
  <2>. QED BY <2>1, <2>3, PlacesKept
<1>2. CASE \E t \in Tables : BeginLoad(p, t)
  BY <1>1, <1>2 DEF BeginLoad
<1>3. CASE BeginSetupTiger(p)
  BY <1>1, <1>3 DEF BeginSetupTiger
<1>4. CASE BeginRebuild(p)
  BY <1>1, <1>4 DEF BeginRebuild
<1>5. CASE StartWorker(p)
  BY <1>1, <1>5 DEF StartWorker
<1>. QED BY <1>2, <1>3, <1>4, <1>5 DEF Start

LEMMA StatementPlaces ==
  ASSUME TypeOK, PlaceInv, NEW p \in Procs, Statement(p) PROVE PlaceInv'
<1>1. CASE UpsertRow(p) \/ FeatureFails(p) \/ AskNext(p)
  <2>1. UNCHANGED <<pc, cmd, share, excl>>
    BY <1>1 DEF UpsertRow, FeatureFails, AskNext, lock
  <2>. QED BY <2>1 DEF PlaceInv
<1>12. CASE ReadRows(p) \/ CommitBatch(p)
  <2>1. /\ UNCHANGED <<cmd, share, excl>> /\ pc[p] \in {"read", "upsert"}
        /\ Goto(p, "upsert") \/ Goto(p, "read")
    BY <1>12 DEF ReadRows, ReadBatch, CommitBatch, lock
  <2>2. OthersStay(p)
    BY <2>1 DEF OthersStay, TypeOK, Goto
  <2>3. PlaceOf(p)'
    BY <2>1 DEF PlaceOf, PlaceInv, TypeOK, Goto, Rebuilding
  <2>. QED BY <2>2, <2>3, PlacesKept
<1>2. CASE EndOfFile(p)
  BY <1>2, PassingPlaces DEF EndOfFile, lock, Rebuilding
<1>3. CASE EndUnrebuilt(p) \/ AnyScript(p)
  <2>1. Close(p) /\ Goto(p, "done")
    BY <1>3 DEF EndUnrebuilt, EndWithoutRebuild, AnyScript, RunScript
  <2>. QED BY <2>1, ClosingPlaces
<1>4. CASE CreateExtension(p)
  <2>1. OthersStay(p)
    BY <1>4 DEF OthersStay, TypeOK, CreateExtension, Goto, lock
  <2>2. PlaceOf(p)'
    BY <1>4 DEF PlaceOf, PlaceInv, TypeOK, CreateExtension, Goto, Rebuilding, lock
  <2>. QED BY <2>1, <2>2, PlacesKept
<1>5. CASE Truncate(p)
  <2>1. OthersStay(p)
    BY <1>5, ProcsAreNat DEF OthersStay, TypeOK, Truncate, NoOneElse, Goto, Nobody
  <2>2. PlaceOf(p)'
    BY <1>5 DEF PlaceOf, PlaceInv, TypeOK, Truncate, Goto, Rebuilding
  <2>. QED BY <2>1, <2>2, PlacesKept
<1>6. CASE InsertWords(p)
  BY <1>6, PassingPlaces DEF InsertWords, lock, Rebuilding
<1>7. CASE InsertTiger(p)
  BY <1>7, PassingPlaces DEF InsertTiger, lock, Rebuilding
<1>8. CASE CommitDictionary(p)
  <2>1. /\ Close(p)
        /\ (cmd[p] = "serve" /\ Goto(p, "load")) \/ Goto(p, "done")
    BY <1>8 DEF CommitDictionary
  <2>. QED BY <2>1, ClosingPlaces
<1>9. CASE CountWords(p)
  <2>1. OthersStay(p)
    BY <1>9 DEF OthersStay, TypeOK, CountWords, Goto
  <2>2. PlaceOf(p)'
    BY <1>9 DEF PlaceOf, PlaceInv, TypeOK, CountWords, Decided, Goto, Rebuilding
  <2>. QED BY <2>1, <2>2, PlacesKept
<1>10. CASE CountStaging(p)
  <2>1. OthersStay(p)
    BY <1>10 DEF OthersStay, TypeOK, CountStaging, Goto, lock
  <2>2. PlaceOf(p)'
    BY <1>10 DEF PlaceOf, PlaceInv, TypeOK, CountStaging, Goto, Rebuilding, lock
  <2>. QED BY <2>1, <2>2, PlacesKept
<1>11. CASE LoadCorrector(p) \/ SpellBlockFails(p)
  <2>1. Close(p) /\ Goto(p, "serving")
    BY <1>11 DEF LoadCorrector, SpellBlockFails, Serve
  <2>2. cmd[p] = "serve"
    BY <1>11 DEF LoadCorrector, SpellBlockFails, PlaceInv
  <2>. QED BY <2>1, <2>2, ClosingPlaces
<1>. QED BY <1>1, <1>2, <1>3, <1>4, <1>5, <1>6, <1>7, <1>8, <1>9, <1>10, <1>11,
   <1>12 DEF Statement, Rebuild, StartUp

LEMMA AbandonPlaces ==
  ASSUME TypeOK, PlaceInv, NEW p \in Procs, LoadFails(p) \/ StopWorker(p) PROVE PlaceInv'
<1>1. Close(p) /\ Goto(p, "done")
  BY DEF LoadFails, StopWorker
<1>. QED BY <1>1, ClosingPlaces

-----------------------------------------------------------------------------
(* Words under way *)

ReadOf(p) ==
  /\ cmd[p] \notin Sources => wrote[p] = {}
  /\ read[p] = 0 => wrote[p] = {}
  /\ pc[p] = "upsert" => read[p] # 0

ReadOthers(p) ==
  \A q \in Procs \ {p} :
    cmd'[q] = cmd[q] /\ wrote'[q] = wrote[q] /\ read'[q] = read[q] /\ pc'[q] = pc[q]

LEMMA WroteKept ==
  ASSUME WroteInv, NEW p \in Procs, ReadOthers(p), ReadOf(p)' PROVE WroteInv'
<1>1. ASSUME NEW q \in Procs PROVE ReadOf(q)'
  <2>1. CASE q = p
    BY <2>1
  <2>2. CASE q # p
    BY <2>2 DEF WroteInv, ReadOthers, ReadOf
  <2>. QED BY <2>1, <2>2
<1>. QED BY <1>1 DEF WroteInv, ReadOf

LEMMA ClosingWrote ==
  ASSUME TypeOK, WroteInv, NEW p \in Procs, Close(p), NEW l, Goto(p, l), l # "upsert"
  PROVE  WroteInv'
<1>1. ReadOthers(p)
  BY DEF ReadOthers, TypeOK, Close, Goto
<1>2. ReadOf(p)'
  BY DEF ReadOf, TypeOK, Close, Goto
<1>. QED BY <1>1, <1>2, WroteKept

LEMMA StartWrote ==
  ASSUME TypeOK, PlaceInv, WroteInv, NEW p \in Procs, Start(p) PROVE WroteInv'
<1>1. PICK c, l : Begin(p, c, l) /\ l # "upsert"
  BY DEF Start, BeginLoad, BeginSetupTiger, BeginRebuild, StartWorker
<1>2. ReadOthers(p)
  BY <1>1 DEF ReadOthers, TypeOK, Begin, Goto, local
<1>3. cmd[p] \notin Sources
  BY <1>1, TablesAreDistinct DEF Begin, PlaceInv, Tables
<1>4. ReadOf(p)'
  BY <1>1, <1>3 DEF ReadOf, WroteInv, TypeOK, Begin, Goto, local
<1>. QED BY <1>2, <1>4, WroteKept

LEMMA StatementWrote ==
  ASSUME TypeOK, PlaceInv, WroteInv, NEW p \in Procs, Statement(p) PROVE WroteInv'
<1>1. CASE ReadRows(p)
  <2>1. PICK batch \in Seq(Row) : Len(batch) \in 1 .. BatchSize /\ ReadBatch(p, batch)
    BY <1>1 DEF ReadRows
  <2>2. ReadOthers(p)
    BY <2>1 DEF ReadOthers, TypeOK, ReadBatch, Goto, history
  <2>3. read'[p] \in {read[p] + Len(batch), MaxRows} /\ read[p] + Len(batch) <= MaxRows
    BY <2>1 DEF TypeOK, ReadBatch
  <2>4. read'[p] # 0
    BY <2>1, <2>3, BoundsAreNat DEF TypeOK
  <2>5. wrote' = wrote /\ cmd' = cmd
    BY <2>1 DEF ReadBatch, history
  <2>6. ReadOf(p)'
    BY <2>4, <2>5 DEF ReadOf, WroteInv
  <2>. QED BY <2>2, <2>6, WroteKept
<1>2. CASE CommitBatch(p)
  <2>1. ReadOthers(p)
    BY <1>2 DEF ReadOthers, TypeOK, CommitBatch, Goto
  <2>2. /\ UNCHANGED <<read, cmd>> /\ pc[p] = "upsert" /\ pc'[p] = "read"
        /\ cmd[p] \notin Sources => wrote' = wrote
    BY <1>2 DEF TypeOK, CommitBatch, Goto
  <2>3. ReadOf(p)'
    BY <2>2 DEF ReadOf, WroteInv
  <2>. QED BY <2>1, <2>3, WroteKept
<1>3. CASE \/ EndUnrebuilt(p) \/ AnyScript(p) \/ CommitDictionary(p)
           \/ LoadCorrector(p) \/ SpellBlockFails(p)
  <2>1. Close(p) /\ \E l \in {"done", "load", "serving"} : Goto(p, l)
    BY <1>3 DEF EndUnrebuilt, EndWithoutRebuild, AnyScript, RunScript, CommitDictionary,
       LoadCorrector, SpellBlockFails, Serve
  <2>. QED BY <2>1, ClosingWrote
<1>4. CASE \/ UpsertRow(p) \/ FeatureFails(p) \/ EndOfFile(p) \/ CreateExtension(p)
           \/ Truncate(p) \/ InsertWords(p) \/ InsertTiger(p)
           \/ AskNext(p) \/ CountWords(p) \/ CountStaging(p)
  <2>1. UNCHANGED <<cmd, wrote, read>>
    BY <1>4 DEF UpsertRow, FeatureFails, EndOfFile, CreateExtension, Truncate, InsertWords,
       InsertTiger, AskNext, CountWords, CountStaging, local, history
  <2>2. UNCHANGED pc \/ \E l \in PCs \ {"upsert"} : Goto(p, l)
    BY <1>4 DEF UpsertRow, FeatureFails, EndOfFile, CreateExtension, Truncate, InsertWords,
       InsertTiger, AskNext, CountWords, CountStaging, PCs
  <2>3. \A q \in Procs : pc'[q] = "upsert" => pc[q] = "upsert"
    BY <2>2 DEF TypeOK, Goto
  <2>. QED BY <2>1, <2>3 DEF WroteInv
<1>. QED BY <1>1, <1>2, <1>3, <1>4 DEF Statement, Rebuild, StartUp

-----------------------------------------------------------------------------
(* Coverage *)

(* A step that commits no rows and no dictionary and ends no load. *)
LEMMA QuietCovers ==
  ASSUME CoverInv, NEW p \in Procs, UNCHANGED <<table, dict, wrote, lost, skipped>>,
         \A q \in Procs \ {p} : pc'[q] = pc[q] /\ fresh'[q] = fresh[q],
         pc'[p] \in Inserted =>
           SourceWords \subseteq fresh'[p] \/ (pc[p] \in Inserted /\ fresh[p] \subseteq fresh'[p])
  PROVE  CoverInv'
<1>1. SourceWords' = SourceWords /\ InFlight' = InFlight
  BY DEF SourceWords, WordsOf, InFlight
<1>2. \A q : Others(q)' = Others(q)
  BY DEF Others
<1>3. DictionaryCoversLoads'
  BY <1>1 DEF CoverInv, DictionaryCoversLoads
<1>4. ASSUME NEW q \in Procs, pc'[q] \in Inserted
      PROVE  SourceWords \subseteq fresh'[q] \cup Others(q) \cup lost \cup skipped
  <2>1. CASE q # p
    BY <1>4, <2>1 DEF CoverInv
  <2>2. CASE q = p
    BY <1>4, <2>2 DEF CoverInv
  <2>. QED BY <2>1, <2>2
<1>. QED BY <1>1, <1>2, <1>3, <1>4 DEF CoverInv

(* A process that closes its connection with no words under way. *)
LEMMA ClosingCovers ==
  ASSUME TypeOK, CoverInv, NEW p \in Procs, Close(p), wrote[p] = {}, NEW l, Goto(p, l),
         l \notin Inserted, UNCHANGED <<table, dict, lost, skipped>>
  PROVE  CoverInv'
<1>1. wrote' = wrote
  BY DEF TypeOK, Close
<1>2. \A q \in Procs \ {p} : pc'[q] = pc[q] /\ fresh'[q] = fresh[q]
  BY DEF TypeOK, Close, Goto
<1>3. pc'[p] = l
  BY DEF TypeOK, Goto
<1>. QED BY <1>1, <1>2, <1>3, QuietCovers

(* Words of the tables after a batch. *)
LEMMA BatchWords ==
  ASSUME TypeOK, NEW p \in Procs, cmd[p] \in Tables, CommitBatch(p)
  PROVE  /\ cmd[p] \in Sources => SourceWords' \subseteq SourceWords \cup wrote'[p]
         /\ cmd[p] \notin Sources => SourceWords' = SourceWords
<1>. DEFINE t == cmd[p]
<1>1. /\ table' = [table EXCEPT ![t] = Merge(@, pending[p])]
      /\ t \in Sources => wrote'[p] = wrote[p] \cup WordsOf(pending[p])
  BY DEF CommitBatch, TypeOK
<1>2. table'[t] = Merge(table[t], pending[p]) /\ \A u \in Tables \ {t} : table'[u] = table[u]
  BY <1>1 DEF TypeOK
<1>3. Sources \subseteq Tables
  BY DEF Tables
<1>4. WordsOf(table'[t]) \subseteq WordsOf(table[t]) \cup WordsOf(pending[p])
  BY <1>2 DEF WordsOf, Merge
<1>6. SourceWords' = UNION {WordsOf(table'[u]) : u \in Sources}
  BY DEF SourceWords, WordsOf
<1>7. ASSUME t \in Sources PROVE SourceWords' \subseteq SourceWords \cup wrote'[p]
  BY <1>1, <1>2, <1>3, <1>4, <1>6, <1>7 DEF SourceWords
<1>8. ASSUME t \notin Sources PROVE SourceWords' = SourceWords
  BY <1>2, <1>3, <1>6, <1>8 DEF SourceWords
<1>. QED BY <1>7, <1>8

LEMMA StartCovers == ASSUME TypeOK, CoverInv, NEW p \in Procs, Start(p) PROVE CoverInv'
<1>1. \E c, l : l \in {"read", "extension", "truncate", "ask"} /\ Begin(p, c, l)
  BY DEF Start, BeginLoad, BeginSetupTiger, BeginRebuild, StartWorker
<1>2. PICK c, l : l \in {"read", "extension", "truncate", "ask"} /\ Begin(p, c, l)
  BY <1>1
<1>3. /\ UNCHANGED <<table, dict, wrote, lost, skipped, fresh>> /\ pc'[p] \notin Inserted
      /\ \A q \in Procs \ {p} : pc'[q] = pc[q]
  BY <1>2 DEF TypeOK, Begin, Goto, data, Inserted
<1>. QED BY <1>3, QuietCovers

LEMMA StatementCovers ==
  ASSUME TypeOK, PlaceInv, WroteInv, CoverInv, NEW p \in Procs, Statement(p) PROVE CoverInv'
<1>1. CASE UpsertRow(p) \/ FeatureFails(p) \/ AskNext(p)
  <2>1. UNCHANGED <<table, dict, wrote, lost, skipped, fresh, pc>>
    BY <1>1 DEF UpsertRow, FeatureFails, AskNext, data, history
  <2>. QED BY <2>1, QuietCovers
<1>2. CASE \/ ReadRows(p) \/ EndOfFile(p) \/ CreateExtension(p) \/ Truncate(p) \/ CountWords(p)
           \/ CountStaging(p)
  <2>1. /\ UNCHANGED <<table, dict, wrote, lost, skipped>> /\ pc'[p] \notin Inserted
        /\ \A q \in Procs \ {p} : pc'[q] = pc[q] /\ fresh'[q] = fresh[q]
    BY <1>2 DEF TypeOK, ReadRows, ReadBatch, EndOfFile, CreateExtension, Truncate, CountWords,
       CountStaging, Goto, data, history, Inserted
  <2>. QED BY <2>1, QuietCovers
<1>3. CASE InsertWords(p)
  <2>1. /\ UNCHANGED <<table, dict, wrote, lost, skipped>> /\ fresh'[p] = SourceWords
        /\ \A q \in Procs \ {p} : pc'[q] = pc[q] /\ fresh'[q] = fresh[q]
    BY <1>3 DEF TypeOK, InsertWords, Goto, data, history
  <2>. QED BY <2>1, QuietCovers
<1>4. CASE InsertTiger(p)
  <2>1. /\ UNCHANGED <<table, dict, wrote, lost, skipped>> /\ fresh[p] \subseteq fresh'[p]
        /\ \A q \in Procs \ {p} : pc'[q] = pc[q] /\ fresh'[q] = fresh[q]
    BY <1>4 DEF TypeOK, InsertTiger, Goto, data, history
  <2>2. pc[p] \in Inserted
    BY <1>4 DEF InsertTiger, Inserted
  <2>. QED BY <2>1, <2>2, QuietCovers
<1>5. CASE EndUnrebuilt(p) \/ AnyScript(p) \/ LoadCorrector(p) \/ SpellBlockFails(p)
  <2>1. /\ Close(p) /\ (Goto(p, "done") \/ Goto(p, "serving"))
        /\ UNCHANGED <<table, dict, lost, skipped>>
    BY <1>5 DEF EndUnrebuilt, EndWithoutRebuild, AnyScript, RunScript, LoadCorrector,
       SpellBlockFails, Serve, data
  <2>2. cmd[p] \notin Sources \/ read[p] = 0
    BY <1>5, TablesAreDistinct DEF EndUnrebuilt, AnyScript, RunScript, LoadCorrector,
       SpellBlockFails, PlaceInv, Tables
  <2>3. wrote[p] = {}
    BY <2>2 DEF WroteInv
  <2>. QED BY <2>1, <2>3, ClosingCovers DEF Inserted
<1>6. CASE CommitBatch(p)
  <2>1. cmd[p] \in Tables
    BY <1>6 DEF CommitBatch, PlaceInv
  <2>2. /\ UNCHANGED <<dict, lost, skipped, fresh>> /\ pc'[p] = "read"
        /\ \A q \in Procs : wrote[q] \subseteq wrote'[q]
        /\ \A q \in Procs \ {p} : pc'[q] = pc[q]
    BY <1>6 DEF TypeOK, CommitBatch, Goto
  <2>3. SourceWords' \subseteq SourceWords \cup wrote'[p]
    BY <1>6, <2>1, BatchWords
  <2>4. InFlight \cup wrote'[p] \subseteq InFlight'
    BY <2>2 DEF InFlight
  <2>5. DictionaryCoversLoads'
    BY <2>2, <2>3, <2>4 DEF CoverInv, DictionaryCoversLoads
  <2>6. ASSUME NEW q \in Procs, pc'[q] \in Inserted
        PROVE  SourceWords' \subseteq fresh'[q] \cup Others(q)' \cup lost' \cup skipped'
    <3>1. q # p
      BY <2>2, <2>6 DEF Inserted
    <3>2. Others(q) \cup wrote'[p] \subseteq Others(q)'
      BY <2>2, <3>1 DEF Others
    <3>3. SourceWords \subseteq fresh[q] \cup Others(q) \cup lost \cup skipped
      BY <2>2, <2>6, <3>1 DEF CoverInv
    <3>. QED BY <2>2, <2>3, <3>2, <3>3
  <2>. QED BY <2>5, <2>6 DEF CoverInv
<1>7. CASE CommitDictionary(p)
  <2>1. /\ table' = table /\ wrote'[p] = {} /\ pc'[p] \notin Inserted
        /\ \A q \in Procs \ {p} : wrote'[q] = wrote[q] /\ pc'[q] = pc[q]
    BY <1>7 DEF TypeOK, CommitDictionary, Close, Goto, data, Inserted
  <2>2. SourceWords' = SourceWords
    BY <2>1 DEF SourceWords, WordsOf
  <2>3. SourceWords \subseteq fresh[p] \cup Others(p) \cup lost \cup skipped
    BY <1>7 DEF CommitDictionary, CoverInv, Inserted
  <2>4. fresh[p] \cup lost \cup skipped \subseteq dict' \cup lost' \cup skipped'
    BY <1>7 DEF CommitDictionary
  <2>5. Others(p) \subseteq InFlight'
    BY <2>1 DEF Others, InFlight
  <2>6. DictionaryCoversLoads'
    BY <2>2, <2>3, <2>4, <2>5 DEF DictionaryCoversLoads
  <2>7. \A q \in Procs : pc'[q] \notin Inserted
    BY <1>7, <2>1 DEF CommitDictionary, PlaceInv, Inserted, Rebuilding
  <2>. QED BY <2>6, <2>7 DEF CoverInv
<1>. QED BY <1>1, <1>2, <1>3, <1>4, <1>5, <1>6, <1>7 DEF Statement, Rebuild, StartUp

LEMMA AbandonCovers ==
  ASSUME TypeOK, PlaceInv, WroteInv, CoverInv, NEW p \in Procs, LoadFails(p) \/ StopWorker(p)
  PROVE  CoverInv'
<1>1. CASE StopWorker(p)
  <2>1. wrote[p] = {}
    BY <1>1, TablesAreDistinct DEF StopWorker, WroteInv, Tables
  <2>2. Close(p) /\ Goto(p, "done") /\ UNCHANGED <<table, dict, lost, skipped>>
    BY <1>1 DEF StopWorker, data
  <2>. QED BY <2>1, <2>2, ClosingCovers DEF Inserted
<1>2. CASE LoadFails(p)
  <2>1. /\ UNCHANGED <<table, dict, skipped>> /\ wrote[p] \subseteq lost' /\ lost \subseteq lost'
        /\ pc'[p] \notin Inserted
        /\ \A q \in Procs \ {p} : wrote'[q] = wrote[q] /\ pc'[q] = pc[q] /\ fresh'[q] = fresh[q]
    BY <1>2 DEF TypeOK, LoadFails, Close, Goto, data, Inserted
  <2>2. SourceWords' = SourceWords
    BY <2>1 DEF SourceWords, WordsOf
  <2>3. InFlight \subseteq InFlight' \cup lost'
    BY <2>1 DEF InFlight
  <2>4. DictionaryCoversLoads'
    BY <2>1, <2>2, <2>3 DEF CoverInv, DictionaryCoversLoads
  <2>5. ASSUME NEW q \in Procs, pc'[q] \in Inserted
        PROVE  SourceWords' \subseteq fresh'[q] \cup Others(q)' \cup lost' \cup skipped'
    <3>1. Others(q) \subseteq Others(q)' \cup lost'
      BY <2>1 DEF Others
    <3>2. q # p /\ pc[q] \in Inserted
      BY <2>1, <2>5
    <3>3. SourceWords \subseteq fresh[q] \cup Others(q) \cup lost \cup skipped
      BY <3>2 DEF CoverInv
    <3>. QED BY <2>1, <2>2, <3>1, <3>2, <3>3
  <2>. QED BY <2>4, <2>5 DEF CoverInv
<1>. QED BY <1>1, <1>2

-----------------------------------------------------------------------------
(* Words in the sources, the dictionary and the worker *)

WordsOfOne(p) ==
  /\ pc[p] # "new" => SourceWords # {} \/ p \in wordless
  /\ Empty(p) => \A w \in Procs : w = p \/ pc[w] = "load" => w \in wordless
  /\ pc[p] = "load" => dict # {} \/ skipped # {} \/ p \in wordless

OthersPass(p) ==
  \A q \in Procs \ {p} :
    pc'[q] = pc[q] /\ fresh'[q] = fresh[q] /\ (q \in wordless' <=> q \in wordless)

(* A step that leaves the tables and their words, and starts or takes no   *)
(* worker to its reading, but for one that is marked or reads beside no    *)
(* empty rebuild.                                                          *)
LEMMA WordsKept ==
  ASSUME WordsInv, NEW p \in Procs, UNCHANGED table, OthersPass(p),
         dict # {} \/ skipped # {} => dict' # {} \/ skipped' # {},
         pc'[p] = "load" =>
           p \in wordless' \/ \A q \in Procs \ {p} : pc[q] \notin Inserted,
         WordsOfOne(p)'
  PROVE  WordsInv'
<1>1. SourceWords' = SourceWords
  BY DEF SourceWords, WordsOf
<1>2. ASSUME NEW q \in Procs \ {p} PROVE WordsOfOne(q)'
  <2>1. pc'[q] # "new" => SourceWords' # {} \/ q \in wordless'
    BY <1>1 DEF WordsInv, OthersPass
  <2>2. pc'[q] = "load" => dict' # {} \/ skipped' # {} \/ q \in wordless'
    BY DEF WordsInv, OthersPass
  <2>3. ASSUME Empty(q)', NEW w \in Procs, w = q \/ pc'[w] = "load" PROVE w \in wordless'
    <3>1. Empty(q) /\ pc[q] \in Inserted
      BY <2>3 DEF Empty, OthersPass
    <3>2. CASE w = p
      BY <2>3, <3>1, <3>2
    <3>3. CASE w # p
      BY <2>3, <3>1, <3>3 DEF WordsInv, OthersPass
    <3>. QED BY <3>2, <3>3
  <2>. QED BY <2>1, <2>2, <2>3 DEF WordsOfOne
<1>. QED BY <1>2 DEF WordsInv, WordsOfOne

(* A process that goes to no rebuild and no reading of the dictionary. *)
LEMMA QuietWords ==
  ASSUME WordsInv, NEW p \in Procs, UNCHANGED <<table, dict, skipped, wordless>>,
         pc'[p] \notin Inserted \cup {"load"}, pc'[p] # "new" => pc[p] # "new",
         \A q \in Procs \ {p} : pc'[q] = pc[q] /\ fresh'[q] = fresh[q]
  PROVE  WordsInv'
<1>1. SourceWords' = SourceWords
  BY DEF SourceWords, WordsOf
<1>2. WordsOfOne(p)'
  BY <1>1 DEF WordsOfOne, WordsInv, Empty
<1>3. OthersPass(p)
  BY DEF OthersPass
<1>. QED BY <1>2, <1>3, WordsKept

LEMMA ClosingWords ==
  ASSUME TypeOK, WordsInv, NEW p \in Procs, Close(p), pc[p] # "new",
         UNCHANGED <<table, dict, skipped, wordless>>, NEW l \in {"done", "serving"}, Goto(p, l)
  PROVE  WordsInv'
<1>1. \A q \in Procs \ {p} : pc'[q] = pc[q] /\ fresh'[q] = fresh[q]
  BY DEF TypeOK, Close, Goto
<1>2. pc'[p] \notin Inserted \cup {"load"}
  BY DEF TypeOK, Goto, Inserted
<1>. QED BY <1>1, <1>2, QuietWords

(* A process that starts or truncates marks itself when there is no word. *)
LEMMA MarkingWords ==
  ASSUME TypeOK, WordsInv, NEW p \in Procs, wordless' = WordlessFrom(p),
         UNCHANGED <<table, dict, skipped>>, NEW l, Goto(p, l), l \notin Inserted \cup {"load"},
         \A q \in Procs \ {p} : fresh'[q] = fresh[q]
  PROVE  WordsInv'
<1>1. SourceWords' = SourceWords
  BY DEF SourceWords, WordsOf
<1>2. pc'[p] = l /\ \A q \in Procs \ {p} : pc'[q] = pc[q]
  BY DEF TypeOK, Goto
<1>3. SourceWords # {} \/ p \in wordless'
  BY DEF WordlessFrom
<1>4. WordsOfOne(p)'
  BY <1>1, <1>2, <1>3 DEF WordsOfOne, Empty
<1>5. OthersPass(p)
  BY <1>2 DEF OthersPass, WordlessFrom
<1>. QED BY <1>2, <1>4, <1>5, WordsKept

LEMMA StartWords == ASSUME TypeOK, WordsInv, NEW p \in Procs, Start(p) PROVE WordsInv'
<1>1. PICK c, l : l \in {"read", "extension", "truncate", "ask"} /\ Begin(p, c, l)
  BY DEF Start, BeginLoad, BeginSetupTiger, BeginRebuild, StartWorker
<1>2. l \notin Inserted \cup {"load"}
  BY <1>1 DEF Inserted
<1>3. wordless' = WordlessFrom(p) /\ Goto(p, l) /\ UNCHANGED <<table, dict, skipped, fresh>>
  BY <1>1 DEF Begin, data
<1>. QED BY <1>2, <1>3, MarkingWords

LEMMA StatementWords ==
  ASSUME TypeOK, PlaceInv, WordsInv, NEW p \in Procs, Statement(p) PROVE WordsInv'
<1>1. CASE \/ ReadRows(p) \/ UpsertRow(p) \/ FeatureFails(p) \/ EndOfFile(p)
           \/ CreateExtension(p) \/ AskNext(p)
  <2>1. /\ UNCHANGED <<table, dict, skipped, wordless>>
        /\ pc[p] # "new" /\ pc'[p] \notin Inserted \cup {"load"}
        /\ \A q \in Procs \ {p} : pc'[q] = pc[q] /\ fresh'[q] = fresh[q]
    BY <1>1 DEF TypeOK, ReadRows, ReadBatch, UpsertRow, FeatureFails, Writing, EndOfFile,
       CreateExtension, AskNext, Goto, data, history, Inserted
  <2>. QED BY <2>1, QuietWords
<1>2. CASE EndUnrebuilt(p) \/ AnyScript(p) \/ LoadCorrector(p) \/ SpellBlockFails(p)
  <2>1. /\ Close(p) /\ (Goto(p, "done") \/ Goto(p, "serving")) /\ pc[p] # "new"
        /\ UNCHANGED <<table, dict, skipped, wordless>>
    BY <1>2 DEF EndUnrebuilt, EndWithoutRebuild, AnyScript, RunScript, LoadCorrector,
       SpellBlockFails, Decided, Serve, data
  <2>. QED BY <2>1, ClosingWords
<1>3. CASE CommitBatch(p)
  <2>1. /\ UNCHANGED <<dict, skipped, fresh>> /\ pc[p] = "upsert" /\ pc'[p] = "read"
        /\ wordless' = IF SourceWords' = {} THEN Procs ELSE wordless
        /\ \A q \in Procs \ {p} : pc'[q] = pc[q]
    BY <1>3 DEF TypeOK, CommitBatch, Goto, app
  <2>2. wordless \subseteq wordless'
    BY <2>1 DEF TypeOK
  <2>3. ASSUME NEW q \in Procs PROVE WordsOfOne(q)'
    <3>1. CASE SourceWords' = {}
      BY <2>1, <3>1 DEF WordsOfOne
    <3>2. CASE SourceWords' # {}
      <4>1. wordless' = wordless
        BY <2>1, <3>2
      <4>2. \A r \in Procs : /\ pc'[r] \in Inserted => pc[r] \in Inserted
                             /\ pc'[r] = "load" => pc[r] = "load"
        BY <2>1 DEF Inserted
      <4>3. Empty(q)' => Empty(q)
        BY <2>1, <4>2 DEF Empty
      <4>. QED BY <2>1, <3>2, <4>1, <4>2, <4>3 DEF WordsOfOne, WordsInv
    <3>. QED BY <3>1, <3>2
  <2>. QED BY <2>3 DEF WordsInv, WordsOfOne
<1>4. CASE Truncate(p)
  <2>1. /\ wordless' = WordlessFrom(p) /\ UNCHANGED <<table, dict, skipped>> /\ Goto(p, "insert")
        /\ \A q \in Procs \ {p} : fresh'[q] = fresh[q]
    BY <1>4 DEF TypeOK, Truncate, data
  <2>. QED BY <2>1, MarkingWords DEF Inserted
<1>5. CASE InsertWords(p)
  <2>1. /\ UNCHANGED <<table, dict, skipped, wordless>>
        /\ fresh'[p] = SourceWords /\ pc[p] = "insert" /\ pc'[p] = "tiger"
        /\ \A q \in Procs \ {p} : pc'[q] = pc[q] /\ fresh'[q] = fresh[q]
    BY <1>5 DEF TypeOK, InsertWords, Goto, data, history
  <2>2. SourceWords' = SourceWords
    BY <2>1 DEF SourceWords, WordsOf
  <2>3. ASSUME Empty(p)', NEW w \in Procs, w = p \/ pc'[w] = "load" PROVE w \in wordless'
    <3>1. SourceWords = {} /\ pc[w] # "new"
      BY <2>1, <2>3 DEF Empty
    <3>. QED BY <2>1, <3>1 DEF WordsInv
  <2>4. WordsOfOne(p)'
    BY <2>1, <2>2, <2>3 DEF WordsOfOne, WordsInv
  <2>5. OthersPass(p)
    BY <2>1 DEF OthersPass
  <2>. QED BY <2>1, <2>4, <2>5, WordsKept
<1>6. CASE InsertTiger(p)
  <2>1. /\ UNCHANGED <<table, dict, skipped, wordless>>
        /\ fresh[p] \subseteq fresh'[p] /\ pc[p] = "tiger" /\ pc'[p] = "commit"
        /\ \A q \in Procs \ {p} : pc'[q] = pc[q] /\ fresh'[q] = fresh[q]
    BY <1>6 DEF TypeOK, InsertTiger, Goto, data, history
  <2>2. SourceWords' = SourceWords
    BY <2>1 DEF SourceWords, WordsOf
  <2>3. ASSUME Empty(p)', NEW w \in Procs, w = p \/ pc'[w] = "load" PROVE w \in wordless'
    <3>1. Empty(p)
      BY <2>1, <2>3 DEF Empty, Inserted
    <3>2. w = p \/ pc[w] = "load"
      BY <2>1, <2>3
    <3>. QED BY <2>1, <3>1, <3>2 DEF WordsInv
  <2>4. WordsOfOne(p)'
    BY <2>1, <2>2, <2>3 DEF WordsOfOne, WordsInv
  <2>5. OthersPass(p)
    BY <2>1 DEF OthersPass
  <2>. QED BY <2>1, <2>4, <2>5, WordsKept
<1>7. CASE CommitDictionary(p)
  <2>1. /\ UNCHANGED <<table, wordless>> /\ pc[p] = "commit" /\ pc'[p] \in {"load", "done"}
        /\ \A q \in Procs \ {p} : pc'[q] = pc[q] /\ fresh'[q] = fresh[q]
    BY <1>7 DEF TypeOK, CommitDictionary, Close, Goto, data
  <2>2. \/ dict' = dict /\ skipped' = skipped \cup fresh[p]
        \/ dict' = fresh[p] /\ skipped' = skipped \ fresh[p]
    BY <1>7 DEF CommitDictionary
  <2>3. \A q \in Procs \ {p} : pc[q] \notin Inserted
    BY <2>1 DEF PlaceInv, Inserted, Rebuilding
  <2>4. ASSUME NEW w \in Procs, pc'[w] = "load"
        PROVE  dict' # {} \/ skipped' # {} \/ w \in wordless'
    <3>1. CASE fresh[p] # {}
      BY <2>2, <3>1
    <3>2. CASE fresh[p] = {}
      <4>1. Empty(p)
        BY <2>1, <3>2 DEF Empty, Inserted
      <4>2. w = p \/ pc[w] = "load"
        BY <2>1, <2>4
      <4>. QED BY <2>1, <4>1, <4>2 DEF WordsInv
    <3>. QED BY <3>1, <3>2
  <2>5. \A q \in Procs : pc'[q] \notin Inserted
    BY <2>1, <2>3 DEF Inserted
  <2>6. SourceWords' = SourceWords
    BY <2>1 DEF SourceWords, WordsOf
  <2>7. \A q \in Procs : pc'[q] # "new" => pc[q] # "new"
    BY <2>1
  <2>. QED BY <2>1, <2>4, <2>5, <2>6, <2>7 DEF WordsInv, Empty
<1>8. CASE CountWords(p) \/ CountStaging(p)
  <2>1. /\ UNCHANGED <<table, dict, skipped, wordless, fresh>> /\ pc[p] \in {"ask", "staging"}
        /\ pc'[p] \in {"staging", "load", "truncate"}
        /\ \A q \in Procs \ {p} : pc'[q] = pc[q]
    BY <1>8 DEF TypeOK, CountWords, CountStaging, Decided, Goto, data, app, history
  <2>2. SourceWords' = SourceWords
    BY <2>1 DEF SourceWords, WordsOf
  <2>3. \/ pc'[p] = "load" => dict # {} /\ \A q \in Procs \ {p} : pc[q] \notin Inserted
        \/ pc'[p] = "load" => \A t \in Sources : table[t] = {}
    <3>1. CASE CountWords(p)
      <4>1. pc'[p] = "load" => dict # {}
        BY <3>1 DEF TypeOK, CountWords, Goto
      <4>2. excl \in {p, Nobody}
        BY <3>1 DEF CountWords, Readable
      <4>3. \A q \in Procs \ {p} : pc[q] \notin Inserted
        BY <4>2, ProcsAreNat DEF PlaceInv, Inserted, Rebuilding, Nobody
      <4>. QED BY <4>1, <4>3
    <3>2. CASE CountStaging(p)
      BY <3>2 DEF TypeOK, CountStaging, Goto
    <3>. QED BY <1>8, <3>1, <3>2
  <2>4. (\A t \in Sources : table[t] = {}) => p \in wordless
    <3>1. (\A t \in Sources : table[t] = {}) => SourceWords = {}
      BY DEF SourceWords, WordsOf
    <3>. QED BY <2>1, <3>1 DEF WordsInv
  <2>5. WordsOfOne(p)'
    BY <2>1, <2>2, <2>3, <2>4 DEF WordsOfOne, WordsInv, Empty, Inserted
  <2>6. OthersPass(p)
    BY <2>1 DEF OthersPass
  <2>. QED BY <2>1, <2>3, <2>4, <2>5, <2>6, WordsKept
<1>. QED BY <1>1, <1>2, <1>3, <1>4, <1>5, <1>6, <1>7, <1>8 DEF Statement, Rebuild, StartUp

LEMMA AbandonWords ==
  ASSUME TypeOK, PlaceInv, WordsInv, NEW p \in Procs, LoadFails(p) \/ StopWorker(p)
  PROVE  WordsInv'
<1>1. Close(p) /\ Goto(p, "done") /\ UNCHANGED <<table, dict, skipped, wordless>>
  BY DEF LoadFails, StopWorker, data
<1>2. pc[p] # "new"
  BY TablesAreDistinct DEF LoadFails, StopWorker, PlaceInv
<1>. QED BY <1>1, <1>2, ClosingWords

-----------------------------------------------------------------------------
LEMMA Initial == Init => IInv
<1>. SUFFICES ASSUME Init PROVE IInv
  OBVIOUS
<1>1. TypeOK
  BY InitTypes
<1>2. /\ pc = [q \in Procs |-> "new"] /\ cmd = [q \in Procs |-> "none"] /\ share = {}
      /\ wrote = [q \in Procs |-> {}] /\ read = [q \in Procs |-> 0] /\ lost = SourceWords
  BY DEF Init
<1>3. PlaceInv
  BY <1>2 DEF PlaceInv, Rebuilding
<1>4. WroteInv
  BY <1>2 DEF WroteInv
<1>5. CoverInv
  BY <1>2 DEF CoverInv, DictionaryCoversLoads, Inserted
<1>6. WordsInv
  BY <1>2 DEF WordsInv, Empty, Inserted
<1>. QED BY <1>1, <1>3, <1>4, <1>5, <1>6 DEF IInv

LEMMA Stuttering == IInv /\ UNCHANGED vars => IInv'
<1>. SUFFICES ASSUME IInv, UNCHANGED vars PROVE IInv'
  OBVIOUS
<1>1. /\ UNCHANGED <<table, tiger, featnames, dict, share, excl, pc, cmd, pending, todo, read>>
      /\ UNCHANGED <<broken, fresh, asked, registered, corrector, wrote, lost, skipped, wordless>>
  BY DEF vars, data, lock, local, app, history
<1>2. SourceWords' = SourceWords /\ InFlight' = InFlight /\ \A p : Others(p)' = Others(p)
  BY <1>1 DEF SourceWords, WordsOf, InFlight, Others
<1>3. TypeOK'
  BY <1>1 DEF IInv, TypeOK
<1>4. PlaceInv' /\ WroteInv'
  BY <1>1 DEF IInv, PlaceInv, WroteInv
<1>5. CoverInv'
  BY <1>1, <1>2 DEF IInv, CoverInv, DictionaryCoversLoads
<1>6. WordsInv'
  BY <1>1, <1>2 DEF IInv, WordsInv, Empty
<1>. QED BY <1>3, <1>4, <1>5, <1>6 DEF IInv

LEMMA NextSteps ==
  ASSUME Next
  PROVE  \E p \in Procs : Start(p) \/ Statement(p) \/ LoadFails(p) \/ StopWorker(p)
<1>1. PICK p \in Procs : Start(p) \/ Step(p) \/ DeadlockVictim(p) \/ Fail(p)
  BY DEF Next
<1>2. DeadlockVictim(p) => SpellBlockFails(p) \/ FeatureFails(p) \/ LoadFails(p)
  BY DEF DeadlockVictim
<1>. QED BY <1>1, <1>2, StepIsStatement DEF Fail, Statement

LEMMA Inductive == IInv /\ [Next]_vars => IInv'
<1>1. ASSUME IInv, NEW p \in Procs, Start(p) PROVE IInv'
  BY <1>1, StartTypes, StartPlaces, StartWrote, StartCovers, StartWords DEF IInv
<1>2. ASSUME IInv, NEW p \in Procs, Statement(p) PROVE IInv'
  BY <1>2, StatementTypes, StatementPlaces, StatementWrote, StatementCovers, StatementWords
     DEF IInv
<1>3. ASSUME IInv, NEW p \in Procs, LoadFails(p) \/ StopWorker(p) PROVE IInv'
  <2>1. TypeOK'
    BY <1>3, EndingTypes, StopWorkerTypes DEF IInv
  <2>2. WroteInv'
    <3>1. Close(p) /\ \E l \in {"done"} : Goto(p, l)
      BY <1>3 DEF LoadFails, StopWorker
    <3>2. TypeOK /\ WroteInv
      BY <1>3 DEF IInv
    <3>. QED BY <3>1, <3>2, ClosingWrote
  <2>. QED BY <1>3, <2>1, <2>2, AbandonPlaces, AbandonCovers, AbandonWords DEF IInv
<1>. QED BY <1>1, <1>2, <1>3, Stuttering, NextSteps

(* What holds between any two statements of any commands and workers       *)
(* (loaders, rebuild_dictionary, lifespan).                                *)
THEOREM LoadingInvariant == Spec => []IInv
BY Initial, Inductive, PTL DEF Spec

-----------------------------------------------------------------------------
(* Tables, locks, dictionary and workers keep their types, whatever runs   *)
(* and fails (all commands).                                               *)
THEOREM LoadingTypes == Spec => []TypeOK
<1>1. IInv => TypeOK
  BY DEF IInv
<1>. QED BY <1>1, LoadingInvariant, PTL

(* Loads and rebuilds of any number of processes never lose a word of each *)
(* other: one that is missing was just committed by a load still under     *)
(* way, left by one that died, or dropped by a rolled back rebuild         *)
(* (rebuild_dictionary).                                                   *)
THEOREM DictionaryAlwaysCovers == Spec => []DictionaryCoversLoads
<1>1. IInv => DictionaryCoversLoads
  BY DEF IInv, CoverInv
<1>. QED BY <1>1, LoadingInvariant, PTL

(* The dictionary changes when a rebuild commits, and only then. *)
LEMMA DictionaryChanges ==
  ASSUME IInv, [Next]_vars, dict' # dict
  PROVE  \E p \in Procs : pc[p] = "commit" /\ ~broken[p] /\ dict' = fresh[p]
<1>1. Next
  BY DEF vars
<1>2. PICK p \in Procs : Start(p) \/ Statement(p) \/ LoadFails(p) \/ StopWorker(p)
  BY <1>1, NextSteps
<1>3. CASE CommitDictionary(p)
  BY <1>3 DEF CommitDictionary
<1>4. CASE Start(p) \/ LoadFails(p) \/ StopWorker(p)
  BY <1>4 DEF Start, BeginLoad, BeginSetupTiger, BeginRebuild, StartWorker, Begin, LoadFails,
     StopWorker
<1>5. CASE Statement(p) /\ ~CommitDictionary(p)
  BY <1>5 DEF Statement, ReadRows, ReadBatch, UpsertRow, FeatureFails, CommitBatch,
     EndOfFile, EndUnrebuilt,
     EndWithoutRebuild, CreateExtension, AnyScript, RunScript, Rebuild, Truncate, InsertWords,
     InsertTiger, StartUp, AskNext, CountWords, CountStaging, LoadCorrector, SpellBlockFails, Serve
<1>. QED BY <1>2, <1>3, <1>4, <1>5

(* Although a rebuild starts with TRUNCATE, a dictionary that had words is *)
(* left without any only by a rebuild that found none, and to which the    *)
(* staging tables really had none (rebuild_dictionary).                    *)
THEOREM DictionaryStaysFull == Spec => DictionaryNeverEmptied
<1>. DEFINE Found == dict # {} /\ dict' = {} => \E p \in wordless : pc[p] = "commit"
<1>1. IInv /\ [Next]_vars => [Found]_dict
  <2>. SUFFICES ASSUME IInv, [Next]_vars, dict' # dict, dict' = {}
                PROVE  \E p \in wordless : pc[p] = "commit"
    OBVIOUS
  <2>1. PICK p \in Procs : pc[p] = "commit" /\ ~broken[p] /\ dict' = fresh[p]
    BY DictionaryChanges
  <2>2. Empty(p)
    BY <2>1 DEF Empty, Inserted
  <2>3. p \in wordless
    BY <2>2 DEF IInv, WordsInv
  <2>. QED BY <2>1, <2>3
<1>. QED BY <1>1, LoadingInvariant, PTL DEF Spec, DictionaryNeverEmptied

(* A worker that starts to serve has just read the dictionary, or failed   *)
(* to.                                                                     *)
LEMMA ServingStarts ==
  ASSUME IInv, [Next]_vars, NEW w \in Procs, pc[w] # "serving", pc'[w] = "serving"
  PROVE  LoadCorrector(w) \/ SpellBlockFails(w)
<1>1. TypeOK
  BY DEF IInv
<1>2. Next
  BY DEF vars
<1>3. PICK p \in Procs : Start(p) \/ Statement(p) \/ LoadFails(p) \/ StopWorker(p)
  BY <1>2, NextSteps
<1>4. CASE LoadCorrector(p) \/ SpellBlockFails(p)
  <2>1. Goto(p, "serving")
    BY <1>4 DEF LoadCorrector, SpellBlockFails, Serve
  <2>2. w = p
    BY <1>1, <2>1 DEF TypeOK, Goto
  <2>. QED BY <1>4, <2>2
<1>5. CASE Start(p) \/ LoadFails(p) \/ StopWorker(p)
  <2>1. \E l \in {"read", "extension", "truncate", "ask", "done"} : Goto(p, l)
    BY <1>5 DEF Start, BeginLoad, BeginSetupTiger, BeginRebuild, StartWorker, Begin, LoadFails,
       StopWorker
  <2>. QED BY <1>1, <2>1 DEF TypeOK, Goto
<1>6. CASE Statement(p) /\ ~(LoadCorrector(p) \/ SpellBlockFails(p))
  <2>1. \/ UNCHANGED pc
        \/ \E l \in {"read", "upsert", "truncate", "done", "script", "insert", "tiger", "commit",
                    "load", "staging"} :
             Goto(p, l)
    BY <1>6 DEF Statement, ReadRows, ReadBatch, UpsertRow, FeatureFails, CommitBatch,
       EndOfFile, EndUnrebuilt,
       EndWithoutRebuild, CreateExtension, AnyScript, RunScript, Rebuild, Truncate, InsertWords,
       InsertTiger, CommitDictionary, StartUp, AskNext, CountWords, CountStaging
  <2>. QED BY <1>1, <2>1 DEF TypeOK, Goto
<1>. QED BY <1>3, <1>4, <1>5, <1>6

(* A worker that reads the dictionary finds words there, unless the        *)
(* staging tables themselves had none at some time since it started or     *)
(* truncated, or a rebuild was rolled back unnoticed (lifespan).           *)
THEOREM WantAlwaysExplained == Spec => WantOfWordsIsExplained
<1>. DEFINE Explained(w) ==
       pc[w] # "serving" /\ pc'[w] = "serving" /\ corrector'[w] = {} =>
         w \in wordless \/ skipped # {}
<1>1. ASSUME IInv, [Next]_vars, NEW w \in Procs,
             pc[w] # "serving", pc'[w] = "serving", corrector'[w] = {}
      PROVE  w \in wordless \/ skipped # {}
  <2>0. TypeOK /\ WordsInv
    BY <1>1 DEF IInv
  <2>1. CASE LoadCorrector(w)
    <3>1. corrector'[w] = dict /\ pc[w] = "load"
      BY <2>0, <2>1 DEF LoadCorrector, Serve, TypeOK
    <3>. QED BY <1>1, <2>0, <3>1 DEF WordsInv
  <2>2. CASE SpellBlockFails(w)
    <3>1. corrector'[w] = Unloaded
      BY <2>0, <2>2 DEF SpellBlockFails, Serve, TypeOK
    <3>. QED BY <1>1, <3>1 DEF Unloaded
  <2>. QED BY <1>1, <2>1, <2>2, ServingStarts
<1>2. IInv /\ [Next]_vars => [\A w \in Procs : Explained(w)]_pc
  BY <1>1
<1>. QED BY <1>2, LoadingInvariant, PTL DEF Spec, WantOfWordsIsExplained
=============================================================================
