------------------------ MODULE OsmPipelineProofs ------------------------
(* What the pipeline promises, for any number of download attempts. *)
EXTENDS OsmPipeline, TLAPS

(* The steps the running pipeline has gone through. *)
Done == {s \in Steps : pc = "summary" \/ \E j \in 1 .. step - 1 : Order[j] = s}

InPipeline == pc # "idle" /\ ~alone

PcInv ==
  /\ pc \in {"connect", "write"} => Current = "download"
  /\ pc \in {"connect", "write"} /\ pbf = "complete" => alone /\ force
  /\ pc = "write" => pbf # "absent"
  /\ pc = "build" => /\ Current \in {"tiles", "valhalla"}
                     /\ pbf # "absent" \/ Current = "valhalla"
                     /\ pbf # "absent" => store[Current] # "empty"
  /\ pc \in {"check", "summary"} => ~alone

RecordInv == InPipeline => \A s \in Steps : result[s] # "none" <=> s \in Done

Good(s) == result[s] \in {"OK", "SKIP"}

(* What a good result says of the data; the graph is only sure to be there *)
(* if the extract was.                                                     *)
DataInv ==
  InPipeline =>
    /\ Good("download") => pbf # "absent"
    /\ Good("tiles")    => store["tiles"] # "empty"
    /\ Good("download") /\ Good("valhalla") => store["valhalla"] # "empty"

WorkInv ==
  InPipeline =>
    \A s \in {"tiles", "valhalla"} : result[s] = "OK" <=> s \in worked

IInv == TypeOK /\ PcInv /\ RecordInv /\ DataInv /\ WorkInv

-----------------------------------------------------------------------------
(* The order of the steps. *)

LEMMA OrderIs ==
  /\ DOMAIN Order = 1 .. 4
  /\ Order[1] = "download" /\ Order[2] = "nominatim"
  /\ Order[3] = "tiles"    /\ Order[4] = "valhalla"
  /\ Steps = {Order[1], Order[2], Order[3], Order[4]}
  BY DEF Order, Steps, Stores

LEMMA StepIsNumber == TypeOK => step \in 1 .. 4 /\ Current \in Steps
  BY OrderIs DEF TypeOK, Current

(* The step that is running is not done, and it is the next to be. *)
LEMMA CurrentIsNext ==
  ASSUME TypeOK, pc # "summary", pc' # "summary", step < 4, step' = step + 1
  PROVE  Current \notin Done /\ Done' = Done \cup {Current}
<1>. step \in 1 .. 4
  BY StepIsNumber
<1>. QED
  BY OrderIs, SMT DEF Done, Current

LEMMA CurrentIsLast ==
  ASSUME TypeOK, pc # "summary", pc' = "summary", step = 4
  PROVE  Current \notin Done /\ Done' = Done \cup {Current}
  BY OrderIs, SMT DEF Done, Current

-----------------------------------------------------------------------------
(* What the end of a step does, whatever the step is. *)

LEMMA FinishKeepsTypes ==
  ASSUME TypeOK, NEW outcome \in Result, Finish(outcome),
         pbf' \in File, store' \in [Stores -> Store], worked' \subseteq Steps
  PROVE  TypeOK'
<1>1. step \in 1 .. 4 /\ Current \in Steps /\ DOMAIN Order = 1 .. 4
  BY StepIsNumber, OrderIs
<1>2. step' \in DOMAIN Order
  BY <1>1, SMT DEF Finish
<1>3. attempt' \in 0 .. MaxAttempts - 1
  BY AttemptsAreMade, SMT DEF Finish
<1>4. result' \in [Steps -> Result]
  BY <1>1 DEF Finish, TypeOK
<1>5. pc' \in PCs /\ alone' \in BOOLEAN /\ force' \in BOOLEAN
  BY DEF Finish, TypeOK, PCs
<1>. QED
  BY <1>2, <1>3, <1>4, <1>5 DEF TypeOK

LEMMA FinishKeepsPcInv ==
  ASSUME TypeOK, PcInv, NEW outcome, Finish(outcome)
  PROVE  PcInv'
  BY DEF Finish, PcInv, TypeOK

LEMMA FinishKeepsRecord ==
  ASSUME TypeOK, RecordInv, NEW outcome \in Result \ {"none"}, Finish(outcome),
         pc \notin {"idle", "summary"}
  PROVE  RecordInv'
<1>1. CASE alone
  BY <1>1 DEF Finish, RecordInv, InPipeline
<1>2. CASE ~alone
  <2>1. step \in 1 .. 4 /\ Current \in Steps
    BY StepIsNumber
  <2>2. Done' = Done \cup {Current}
    BY <1>2, <2>1, CurrentIsNext, CurrentIsLast DEF Finish
  <2>3. \A s \in Steps : result[s] # "none" <=> s \in Done
    BY <1>2 DEF RecordInv, InPipeline
  <2>4. result' = [result EXCEPT ![Current] = outcome]
    BY <1>2 DEF Finish
  <2>. QED
    BY <2>1, <2>2, <2>3, <2>4 DEF RecordInv, TypeOK
<1>. QED
  BY <1>1, <1>2

(* The results of the other steps stay. *)
LEMMA FinishRecords ==
  ASSUME TypeOK, ~alone, NEW outcome, Finish(outcome)
  PROVE  /\ result'[Current] = outcome
         /\ \A s \in Steps \ {Current} : result'[s] = result[s]
  BY StepIsNumber DEF Finish, TypeOK

(* A step that is running has no result yet. *)
LEMMA CurrentHasNoResult ==
  ASSUME TypeOK, RecordInv, InPipeline, pc # "summary"
  PROVE  result[Current] = "none"
<1>1. step \in 1 .. 4 /\ Current \in Steps
  BY StepIsNumber
<1>2. Current \notin Done
  BY <1>1, OrderIs, SMT DEF Done, Current
<1>. QED
  BY <1>1, <1>2 DEF RecordInv

LEMMA FinishKeepsData ==
  ASSUME TypeOK, RecordInv, DataInv, NEW outcome, Finish(outcome),
         pc \notin {"idle", "summary"},
         pbf # "absent" => pbf' # "absent",
         \A s \in Stores : store[s] # "empty" => store'[s] # "empty",
         outcome \in {"OK", "SKIP"} =>
           /\ Current = "download" => pbf' # "absent"
           /\ Current = "tiles" => store'["tiles"] # "empty"
           /\ Current = "valhalla" /\ pbf # "absent" =>
                store'["valhalla"] # "empty"
  PROVE  DataInv'
<1>1. CASE alone
  BY <1>1 DEF Finish, DataInv, InPipeline
<1>2. CASE ~alone
  <2>1. /\ result'[Current] = outcome
        /\ \A s \in Steps \ {Current} : result'[s] = result[s]
    BY <1>2, FinishRecords
  <2>2. "download" \in Steps /\ "tiles" \in Steps /\ "valhalla" \in Steps
        /\ "tiles" \in Stores /\ "valhalla" \in Stores
    BY DEF Steps, Stores
  <2>3. /\ Good("download") => pbf # "absent"
        /\ Good("tiles")    => store["tiles"] # "empty"
        /\ Good("download") /\ Good("valhalla") => store["valhalla"] # "empty"
    BY <1>2 DEF DataInv, InPipeline
  <2>4. Current = "download" => result["valhalla"] = "none"
    <3>. SUFFICES ASSUME Current = "download" PROVE result["valhalla"] = "none"
      OBVIOUS
    <3>1. step = 1
      BY StepIsNumber, OrderIs DEF Current
    <3>2. "valhalla" \notin Done
      BY <3>1, SMT DEF Done
    <3>. QED
      BY <1>2, <2>2, <3>2 DEF RecordInv, InPipeline
  <2>5. Good("download")' => pbf' # "absent"
    BY <2>1, <2>2, <2>3 DEF Good
  <2>6. Good("tiles")' => store'["tiles"] # "empty"
    BY <2>1, <2>2, <2>3 DEF Good
  <2>7. Good("download")' /\ Good("valhalla")' => store'["valhalla"] # "empty"
    BY <2>1, <2>2, <2>3, <2>4 DEF Good
  <2>. QED
    BY <2>5, <2>6, <2>7 DEF DataInv
<1>. QED
  BY <1>1, <1>2

LEMMA FinishKeepsWork ==
  ASSUME TypeOK, WorkInv, NEW outcome, Finish(outcome),
         pc \notin {"idle", "summary"},
         \A s \in {"tiles", "valhalla"} \ {Current} :
           s \in worked' <=> s \in worked,
         Current \in {"tiles", "valhalla"} =>
           (outcome = "OK" <=> Current \in worked')
  PROVE  WorkInv'
<1>1. CASE alone
  BY <1>1 DEF Finish, WorkInv, InPipeline
<1>2. CASE ~alone
  <2>1. /\ result'[Current] = outcome
        /\ \A s \in Steps \ {Current} : result'[s] = result[s]
    BY <1>2, FinishRecords
  <2>2. "tiles" \in Steps /\ "valhalla" \in Steps
    BY DEF Steps, Stores
  <2>. QED
    BY <1>2, <2>1, <2>2 DEF WorkInv, InPipeline
<1>. QED
  BY <1>1, <1>2

(* A failed step, in whatever step it is. *)
LEMMA FailKeepsInv ==
  ASSUME IInv, Finish("FAIL"), UNCHANGED <<store, worked>>,
         pc \notin {"idle", "summary"},
         pbf' \in File, pbf # "absent" => pbf' # "absent"
  PROVE  IInv'
<1>1. TypeOK'
  BY FinishKeepsTypes DEF IInv, TypeOK, Result
<1>2. PcInv'
  BY FinishKeepsPcInv DEF IInv
<1>3. RecordInv'
  BY FinishKeepsRecord DEF IInv, Result
<1>4. DataInv'
  BY FinishKeepsData DEF IInv
<1>5. CASE alone
  BY <1>1, <1>2, <1>3, <1>4, <1>5 DEF Finish, IInv, WorkInv, InPipeline
<1>6. CASE ~alone
  <2>1. Current \in {"tiles", "valhalla"} => Current \notin worked
    BY <1>6, CurrentHasNoResult DEF IInv, WorkInv, InPipeline
  <2>2. WorkInv'
    BY <2>1, FinishKeepsWork DEF IInv
  <2>. QED
    BY <1>1, <1>2, <1>3, <1>4, <2>2 DEF IInv
<1>. QED
  BY <1>5, <1>6

(* A step that goes on. *)
LEMMA StayKeepsRecord ==
  ASSUME RecordInv, UNCHANGED <<alone, step, result>>,
         pc \notin {"idle", "summary"}, pc' # "summary"
  PROVE  RecordInv'
<1>1. Done' = Done
  BY DEF Done
<1>. QED
  BY <1>1 DEF RecordInv, InPipeline

-----------------------------------------------------------------------------
(* The invariant, action by action. *)

LEMMA InitInv == Init => IInv
<1>. SUFFICES ASSUME Init PROVE IInv
  OBVIOUS
<1>0. 0 \in 0 .. MaxAttempts - 1 /\ 1 \in DOMAIN Order
  BY AttemptsAreMade, OrderIs, SMT
<1>1. TypeOK
  BY <1>0 DEF Init, TypeOK, File, Store, PCs, Blank, Result
<1>2. PcInv /\ RecordInv /\ DataInv /\ WorkInv
  BY DEF Init, PcInv, RecordInv, DataInv, WorkInv, InPipeline
<1>. QED
  BY <1>1, <1>2 DEF IInv

LEMMA StartKeepsInv ==
  ASSUME IInv, NEW i \in DOMAIN Order, NEW single \in BOOLEAN,
         NEW f \in BOOLEAN, ~single => i = 1, Start(i, single, f)
  PROVE  IInv'
<1>1. TypeOK'
  BY DEF IInv, TypeOK, Start, PCs, Blank, Result
<1>2. PcInv'
  BY DEF Start, PcInv
<1>3. InPipeline' => ~single /\ step' = 1 /\ pc' = "check"
  BY DEF Start, InPipeline
<1>4. InPipeline' => Done' = {}
  BY <1>3, SMT DEF Done
<1>5. \A s \in Steps : result'[s] = "none"
  BY DEF Start, Blank
<1>6. RecordInv'
  BY <1>4, <1>5 DEF RecordInv
<1>7. "download" \in Steps /\ "tiles" \in Steps /\ "valhalla" \in Steps
  BY DEF Steps, Stores
<1>8. DataInv'
  BY <1>5, <1>7 DEF DataInv, Good
<1>9. WorkInv'
  BY <1>5, <1>7 DEF WorkInv, Start
<1>. QED
  BY <1>1, <1>2, <1>6, <1>8, <1>9 DEF IInv

LEMMA CheckKeepsInv == IInv /\ Check => IInv'
<1>. SUFFICES ASSUME IInv, Check PROVE IInv'
  OBVIOUS
<1>. pc = "check" /\ ~alone
  BY DEF Check, IInv, PcInv
<1>1. CASE SomethingThere(Current) /\ Finish("SKIP") /\ UNCHANGED <<pbf, store, worked>>
  <2>1. TypeOK'
    BY <1>1, FinishKeepsTypes DEF IInv, TypeOK, Result
  <2>2. PcInv'
    BY <1>1, FinishKeepsPcInv DEF IInv
  <2>3. RecordInv'
    BY <1>1, FinishKeepsRecord DEF IInv, Result
  <2>4. DataInv'
    BY <1>1, FinishKeepsData DEF IInv, SomethingThere
  <2>5. Current \in {"tiles", "valhalla"} => Current \notin worked
    BY CurrentHasNoResult DEF IInv, WorkInv, InPipeline
  <2>6. WorkInv'
    BY <1>1, <2>5, FinishKeepsWork DEF IInv
  <2>. QED
    BY <2>1, <2>2, <2>3, <2>4, <2>6 DEF IInv
<1>2. CASE pc' = "run" /\ UNCHANGED <<pbf, store, alone, force, step, attempt, result, worked>>
  <2>1. TypeOK'
    BY <1>2 DEF IInv, TypeOK, PCs
  <2>2. RecordInv'
    BY <1>2, StayKeepsRecord DEF IInv
  <2>3. PcInv' /\ DataInv' /\ WorkInv'
    BY <1>2 DEF IInv, PcInv, DataInv, WorkInv, InPipeline, Good
  <2>. QED
    BY <2>1, <2>2, <2>3 DEF IInv
<1>. QED
  BY <1>1, <1>2 DEF Check

(* A step that goes on, with the file or a volume changed on the way. *)
LEMMA GoOnKeepsInv ==
  ASSUME IInv, UNCHANGED <<alone, force, step, result, worked>>,
         pc \notin {"idle", "summary"}, pc' \in PCs \ {"check", "summary"},
         pbf' \in File, store' \in [Stores -> Store],
         attempt' \in 0 .. MaxAttempts - 1,
         pbf # "absent" => pbf' # "absent",
         \A s \in Stores : store[s] # "empty" => store'[s] # "empty",
         PcInv'
  PROVE  IInv'
<1>1. TypeOK'
  BY DEF IInv, TypeOK
<1>2. RecordInv'
  BY StayKeepsRecord DEF IInv
<1>3. "tiles" \in Stores /\ "valhalla" \in Stores
  BY DEF Stores
<1>4. DataInv'
  BY <1>3 DEF IInv, DataInv, InPipeline, Good
<1>5. WorkInv'
  BY DEF IInv, WorkInv, InPipeline
<1>. QED
  BY <1>1, <1>2, <1>4, <1>5 DEF IInv

LEMMA RetryKeepsInv ==
  ASSUME IInv, Retry, pc \in {"connect", "write"}, UNCHANGED <<pbf, store, worked>>
  PROVE  IInv'
<1>1. CASE attempt = MaxAttempts - 1
  BY <1>1, FailKeepsInv DEF Retry, IInv, TypeOK
<1>2. CASE attempt # MaxAttempts - 1
  <2>1. attempt' \in 0 .. MaxAttempts - 1
    BY <1>2, AttemptsAreMade, SMT DEF Retry, IInv, TypeOK
  <2>2. PcInv'
    BY <1>2 DEF Retry, IInv, PcInv, Current
  <2>. QED
    BY <1>2, <2>1, <2>2, GoOnKeepsInv DEF Retry, IInv, TypeOK, PCs
<1>. QED
  BY <1>1, <1>2

LEMMA RunDownloadKeepsInv == IInv /\ RunDownload => IInv'
<1>. SUFFICES ASSUME IInv, RunDownload PROVE IInv'
  OBVIOUS
<1>1. CASE pbf # "absent" /\ Finish("OK")
  <2>1. TypeOK'
    BY <1>1, FinishKeepsTypes DEF IInv, TypeOK, Result, RunDownload
  <2>2. PcInv' /\ RecordInv'
    BY <1>1, FinishKeepsPcInv, FinishKeepsRecord DEF IInv, Result, RunDownload
  <2>3. DataInv'
    BY <1>1, FinishKeepsData DEF IInv, RunDownload
  <2>4. WorkInv'
    BY <1>1, FinishKeepsWork DEF IInv, RunDownload
  <2>. QED
    BY <2>1, <2>2, <2>3, <2>4 DEF IInv
<1>2. CASE /\ pbf = "absent" \/ (alone /\ force)
           /\ pc' = "connect" /\ UNCHANGED <<alone, force, step, attempt, result>>
  <2>1. PcInv'
    BY <1>2 DEF RunDownload, IInv, PcInv, Current
  <2>. QED
    BY <1>2, <2>1, GoOnKeepsInv DEF RunDownload, IInv, TypeOK, PCs
<1>. QED
  BY <1>1, <1>2 DEF RunDownload

LEMMA ConnectKeepsInv == IInv /\ Connect => IInv'
<1>. SUFFICES ASSUME IInv, Connect PROVE IInv'
  OBVIOUS
<1>1. CASE Retry /\ UNCHANGED pbf
  BY <1>1, RetryKeepsInv DEF Connect
<1>2. CASE /\ pc' = "write"
           /\ pbf' = "partial"
           /\ UNCHANGED <<alone, force, step, attempt, result>>
  <2>1. PcInv'
    BY <1>2 DEF Connect, IInv, PcInv, Current
  <2>. QED
    BY <1>2, <2>1, GoOnKeepsInv DEF Connect, IInv, TypeOK, PCs, File
<1>. QED
  BY <1>1, <1>2 DEF Connect

LEMMA WriteKeepsInv == IInv /\ Write => IInv'
<1>. SUFFICES ASSUME IInv, Write PROVE IInv'
  OBVIOUS
<1>1. CASE Retry /\ UNCHANGED <<pbf, worked>>
  BY <1>1, RetryKeepsInv DEF Write
<1>2. CASE /\ pbf' = "complete"
           /\ worked' = worked \cup {Current}
           /\ Finish("OK")
  <2>0. pc = "write" /\ Current = "download" /\ UNCHANGED store
    BY DEF Write, IInv, PcInv
  <2>1. TypeOK'
    BY <1>2, <2>0, StepIsNumber, FinishKeepsTypes DEF IInv, TypeOK, Result, File
  <2>2. PcInv' /\ RecordInv'
    BY <1>2, <2>0, FinishKeepsPcInv, FinishKeepsRecord DEF IInv, Result
  <2>3. DataInv'
    BY <1>2, <2>0, FinishKeepsData DEF IInv
  <2>4. WorkInv'
    BY <1>2, <2>0, FinishKeepsWork DEF IInv
  <2>. QED
    BY <2>1, <2>2, <2>3, <2>4 DEF IInv
<1>. QED
  BY <1>1, <1>2 DEF Write

LEMMA RunNominatimKeepsInv == IInv /\ RunNominatim => IInv'
<1>. SUFFICES ASSUME IInv, RunNominatim PROVE IInv'
  OBVIOUS
<1>0. pc = "run" /\ Current = "nominatim" /\ UNCHANGED <<pbf, worked>>
  BY DEF RunNominatim
<1>1. CASE Finish("FAIL") /\ UNCHANGED store
  BY <1>0, <1>1, FailKeepsInv DEF IInv, TypeOK
<1>2. CASE /\ Finish("OK")
           /\ store' = IF store[Current] = "empty" /\ pbf # "absent"
                       THEN [store EXCEPT ![Current] = "partial"] ELSE store
  <2>1. /\ store' \in [Stores -> Store]
        /\ \A s \in Stores : store[s] # "empty" => store'[s] # "empty"
    BY <1>2 DEF IInv, TypeOK, Store
  <2>2. TypeOK'
    BY <1>0, <1>2, <2>1, FinishKeepsTypes DEF IInv, TypeOK, Result
  <2>3. PcInv' /\ RecordInv'
    BY <1>0, <1>2, FinishKeepsPcInv, FinishKeepsRecord DEF IInv, Result
  <2>4. DataInv'
    BY <1>0, <1>2, <2>1, FinishKeepsData DEF IInv
  <2>5. WorkInv'
    BY <1>0, <1>2, FinishKeepsWork DEF IInv
  <2>. QED
    BY <2>2, <2>3, <2>4, <2>5 DEF IInv
<1>. QED
  BY <1>1, <1>2 DEF RunNominatim

LEMMA NominatimImportsKeepsInv == IInv /\ NominatimImports => IInv'
<1>. SUFFICES ASSUME IInv, NominatimImports PROVE IInv'
  OBVIOUS
<1>1. /\ store' \in [Stores -> Store]
      /\ \A s \in Stores : store[s] # "empty" => store'[s] # "empty"
  BY DEF NominatimImports, IInv, TypeOK, Store
<1>2. TypeOK' /\ UNCHANGED <<pbf, pc, alone, force, step, result, worked>>
  BY <1>1 DEF NominatimImports, IInv, TypeOK
<1>3. "tiles" \in Stores /\ "valhalla" \in Stores
  BY DEF Stores
<1>4. PcInv'
  BY <1>1, <1>2, <1>3 DEF IInv, PcInv, Current
<1>5. RecordInv' /\ DataInv' /\ WorkInv'
  BY <1>1, <1>2, <1>3 DEF IInv, RecordInv, DataInv, WorkInv, InPipeline, Done, Good
<1>. QED
  BY <1>2, <1>4, <1>5 DEF IInv

LEMMA RunBuildKeepsInv == IInv /\ RunBuild => IInv'
<1>. SUFFICES ASSUME IInv, RunBuild PROVE IInv'
  OBVIOUS
<1>0. /\ pc = "run" /\ Current \in {"tiles", "valhalla"}
      /\ UNCHANGED <<pbf, worked>>
  BY DEF RunBuild
<1>1. CASE Finish("FAIL") /\ UNCHANGED store
  BY <1>0, <1>1, FailKeepsInv DEF IInv, TypeOK
<1>2. CASE /\ pbf # "absent" \/ Current = "valhalla"
           /\ pc' = "build"
           /\ store' = IF pbf = "absent" THEN store
                       ELSE [store EXCEPT ![Current] = "partial"]
           /\ UNCHANGED <<alone, force, step, attempt, result>>
  <2>1. Current \in Stores
    BY <1>0 DEF Stores
  <2>2. /\ store' \in [Stores -> Store]
        /\ \A s \in Stores : store[s] # "empty" => store'[s] # "empty"
        /\ pbf # "absent" => store'[Current] # "empty"
    BY <1>2, <2>1 DEF IInv, TypeOK, Store
  <2>3. PcInv'
    BY <1>0, <1>2, <2>2 DEF PcInv, Current
  <2>. QED
    BY <1>0, <1>2, <2>2, <2>3, GoOnKeepsInv DEF IInv, TypeOK, PCs
<1>. QED
  BY <1>1, <1>2 DEF RunBuild

LEMMA BuildKeepsInv == IInv /\ Build => IInv'
<1>. SUFFICES ASSUME IInv, Build PROVE IInv'
  OBVIOUS
<1>0. /\ pc = "build" /\ Current \in {"tiles", "valhalla"}
      /\ pbf # "absent" => store[Current] # "empty"
      /\ UNCHANGED pbf
  BY DEF Build, IInv, PcInv
<1>1. CASE Finish("FAIL") /\ UNCHANGED <<store, worked>>
  BY <1>0, <1>1, FailKeepsInv DEF IInv, TypeOK
<1>2. CASE /\ Finish("OK")
           /\ worked' = worked \cup {Current}
           /\ store' = IF pbf = "complete" THEN [store EXCEPT ![Current] = "full"]
                                           ELSE store
  <2>1. Current \in Stores /\ Current \in Steps
    BY <1>0 DEF Stores, Steps
  <2>2. /\ store' \in [Stores -> Store]
        /\ \A s \in Stores : store[s] # "empty" => store'[s] # "empty"
        /\ pbf # "absent" => store'[Current] # "empty"
    BY <1>0, <1>2, <2>1 DEF IInv, TypeOK, Store
  <2>3. TypeOK'
    BY <1>0, <1>2, <2>1, <2>2, FinishKeepsTypes DEF IInv, TypeOK, Result
  <2>4. PcInv' /\ RecordInv'
    BY <1>0, <1>2, FinishKeepsPcInv, FinishKeepsRecord DEF IInv, Result
  <2>5. Current = "tiles" => pbf # "absent"
    BY <1>0 DEF IInv, PcInv
  <2>6. DataInv'
    BY <1>0, <1>2, <2>2, <2>5, FinishKeepsData DEF IInv
  <2>7. WorkInv'
    BY <1>0, <1>2, FinishKeepsWork DEF IInv
  <2>. QED
    BY <2>3, <2>4, <2>6, <2>7 DEF IInv
<1>. QED
  BY <1>1, <1>2 DEF Build

LEMMA SummaryAndKillKeepInv == IInv /\ (Summary \/ Kill) => IInv'
<1>. SUFFICES ASSUME IInv, Summary \/ Kill PROVE IInv'
  OBVIOUS
<1>1. /\ pc' = "idle" /\ attempt' \in {0, attempt}
      /\ UNCHANGED <<pbf, store, alone, force, step, result, worked>>
  BY DEF Summary, Kill
<1>2. attempt' \in 0 .. MaxAttempts - 1
  BY <1>1, AttemptsAreMade, SMT DEF IInv, TypeOK
<1>3. TypeOK'
  BY <1>1, <1>2 DEF IInv, TypeOK, PCs
<1>4. PcInv' /\ RecordInv' /\ DataInv' /\ WorkInv'
  BY <1>1 DEF PcInv, RecordInv, DataInv, WorkInv, InPipeline
<1>. QED
  BY <1>3, <1>4 DEF IInv

LEMMA NextKeepsInv == IInv /\ [Next]_vars => IInv'
<1>. SUFFICES ASSUME IInv, [Next]_vars PROVE IInv'
  OBVIOUS
<1>1. CASE StartPipeline
  <2>1. PICK f \in BOOLEAN : Start(1, FALSE, f)
    BY <1>1 DEF StartPipeline
  <2>2. 1 \in DOMAIN Order
    BY OrderIs
  <2>. QED
    BY <2>1, <2>2, StartKeepsInv
<1>2. CASE StartCommand
  BY <1>2, StartKeepsInv DEF StartCommand
<1>3. CASE Advance
  BY <1>3, CheckKeepsInv, RunDownloadKeepsInv, ConnectKeepsInv, WriteKeepsInv,
     RunNominatimKeepsInv, RunBuildKeepsInv, BuildKeepsInv,
     SummaryAndKillKeepInv DEF Advance
<1>4. CASE NominatimImports
  BY <1>4, NominatimImportsKeepsInv
<1>5. CASE Kill
  BY <1>5, SummaryAndKillKeepInv
<1>6. CASE UNCHANGED vars
  BY <1>6 DEF vars, IInv, TypeOK, PcInv, RecordInv, DataInv, WorkInv, InPipeline,
              Done, Good, Current
<1>. QED
  BY <1>1, <1>2, <1>3, <1>4, <1>5, <1>6 DEF Next

LEMMA InvHolds == Spec => []IInv
  BY InitInv, NextKeepsInv, PTL DEF Spec

-----------------------------------------------------------------------------
(* The file, the volumes and the record of the steps keep their types, and *)
(* no download makes more attempts than it may (osm_download).             *)
THEOREM OsmTypesHold == Spec => []TypeOK
  BY InvHolds, PTL DEF IInv

(* A pipeline that exits with 0 has a file, a tile database and a graph to *)
(* show for it (osm_pipeline), whatever was killed or failed before.       *)
THEOREM SuccessHasDataHolds == Spec => []SuccessHasData
<1>1. IInv => SuccessHasData
  <2>. SUFFICES ASSUME IInv, Succeeded
                PROVE  /\ pbf # "absent"
                       /\ store["tiles"] # "empty" /\ store["valhalla"] # "empty"
    BY DEF SuccessHasData
  <2>1. InPipeline /\ Done = Steps
    BY DEF Succeeded, IInv, PcInv, InPipeline, Done
  <2>2. \A s \in Steps : Good(s)
    BY <2>1 DEF Succeeded, Good, IInv, RecordInv, TypeOK, Result
  <2>3. "download" \in Steps /\ "tiles" \in Steps /\ "valhalla" \in Steps
    BY DEF Steps, Stores
  <2>. QED
    BY <2>1, <2>2, <2>3 DEF IInv, DataInv
<1>. QED
  BY <1>1, InvHolds, PTL

(* The summary of a pipeline has a word on every step, and calls a build   *)
(* OK exactly if its container ended well in this run (osm_pipeline).      *)
THEOREM SummaryIsEarnedHolds == Spec => []SummaryIsEarned
<1>1. IInv => SummaryIsEarned
  <2>. SUFFICES ASSUME IInv, pc = "summary"
                PROVE  /\ \A s \in Steps : result[s] # "none"
                       /\ \A s \in {"tiles", "valhalla"} :
                            result[s] = "OK" <=> s \in worked
    BY DEF SummaryIsEarned
  <2>1. InPipeline /\ Done = Steps
    BY DEF IInv, PcInv, InPipeline, Done
  <2>. QED
    BY <2>1 DEF IInv, RecordInv, WorkInv
<1>. QED
  BY <1>1, InvHolds, PTL

(* Without --force no run, no retry and no crash replaces a complete       *)
(* extract (osm_download).                                                 *)
THEOREM CompleteExtractIsKeptHolds == Spec => CompleteExtractIsKept
<1>1. IInv /\ [Next]_vars => (pbf = "complete" /\ pbf' # "complete" => force)
  <2>. SUFFICES ASSUME IInv, [Next]_vars, pbf = "complete", pbf' # "complete"
                PROVE  force
    OBVIOUS
  <2>1. Connect
    BY DEF Next, vars, StartPipeline, StartCommand, Start, Advance, Check,
           RunDownload, Write, RunNominatim, RunBuild, Build, Summary, Kill,
           NominatimImports
  <2>. QED
    BY <2>1 DEF Connect, IInv, PcInv
<1>. QED
  BY <1>1, InvHolds, PTL DEF Spec, CompleteExtractIsKept
=============================================================================
