---------------------------- MODULE OsmPipeline ----------------------------
(***************************************************************************)
(* "geo-import osm-pipeline" and the four commands it runs: download the   *)
(* Georgia extract, start Nominatim's import of it, import it for the tile *)
(* server, and build Valhalla's graph. A step is skipped if a check finds  *)
(* something in its place; a failed step does not stop the later ones; any *)
(* command may be killed at any point and run again later.                 *)
(***************************************************************************)
EXTENDS Naturals

CONSTANT MaxAttempts \* OSM_DOWNLOAD_MAX_ATTEMPTS
ASSUME AttemptsAreMade == MaxAttempts \in Nat \ {0}

Stores == {"nominatim", "tiles", "valhalla"}
Steps  == {"download"} \cup Stores
Order  == <<"download", "nominatim", "tiles", "valhalla">>
Result == {"none", "OK", "FAIL", "SKIP"}

(* "partial": some data is there, but not what a whole extract gives. *)
File  == {"absent", "partial", "complete"}
Store == {"empty", "partial", "full"}
PCs   == {"idle", "check", "run", "connect", "write", "build", "summary"}

VARIABLES
  pbf,     \* georgia-latest.osm.pbf
  store,   \* what each container's volume holds
  pc,      \* where the running command is
  alone,   \* a single command is running, not the pipeline
  force,   \* --force was given
  step,    \* index in Order of the step that is running
  attempt, \* failed attempts of the running download
  result,  \* result[s]: what the pipeline has recorded of step s
  worked   \* the steps that have done their work in this run: a whole download,
           \* a container that ended with exit code 0

vars == <<pbf, store, pc, alone, force, step, attempt, result, worked>>

Blank == [s \in Steps |-> "none"]

TypeOK ==
  /\ pbf     \in File
  /\ store   \in [Stores -> Store]
  /\ pc      \in PCs
  /\ alone   \in BOOLEAN
  /\ force   \in BOOLEAN
  /\ step    \in DOMAIN Order
  /\ attempt \in 0 .. MaxAttempts - 1
  /\ result  \in [Steps -> Result]
  /\ worked  \subseteq Steps

Init ==
  /\ pbf     = "absent"
  /\ store   = [s \in Stores |-> "empty"]
  /\ pc      = "idle"
  /\ alone   = FALSE
  /\ force   = FALSE
  /\ step    = 1
  /\ attempt = 0
  /\ result  = Blank
  /\ worked  = {}

Current == Order[step]

-----------------------------------------------------------------------------
(* The end of a step; of the process, if it is a command of its own. *)
Finish(outcome) ==
  /\ IF alone
     THEN pc' = "idle" /\ UNCHANGED <<step, result>>
     ELSE /\ result' = [result EXCEPT ![Current] = outcome]
          /\ pc'   = IF step = 4 THEN "summary" ELSE "check"
          /\ step' = IF step = 4 THEN step ELSE step + 1
  /\ attempt' = 0
  /\ UNCHANGED <<alone, force>>

Start(i, single, f) ==
  /\ pc = "idle"
  /\ pc' = IF single THEN "run" ELSE "check"
  /\ alone'   = single
  /\ force'   = f
  /\ step'    = i
  /\ result'  = Blank
  /\ worked'  = {}
  /\ UNCHANGED <<pbf, store, attempt>>

StartPipeline == \E f \in BOOLEAN : Start(1, FALSE, f)

(* Only osm-download has a --force of its own. *)
StartCommand ==
  \E i \in DOMAIN Order, f \in BOOLEAN :
    (f => Order[i] = "download") /\ Start(i, TRUE, f)

(* What the idempotency checks look at. *)
SomethingThere(s) ==
  CASE s = "download"  -> pbf # "absent"
    [] s = "nominatim" -> store[s] = "full"
    [] OTHER           -> store[s] # "empty"

(* Mutant: a check that raises counts as passed. *)
SkipOnError ==
  /\ pc = "check"
  /\ ~force /\ Finish("SKIP") /\ UNCHANGED worked
  /\ UNCHANGED <<pbf, store>>

(* A check of a container also fails when docker or the container does. *)
Check ==
  /\ pc = "check"
  /\ \/ /\ ~force /\ SomethingThere(Current)
        /\ Finish("SKIP")
        /\ UNCHANGED worked
     \/ /\ force \/ ~SomethingThere(Current) \/ Current # "download"
        /\ pc' = "run"
        /\ UNCHANGED <<alone, force, step, attempt, result, worked>>
  /\ UNCHANGED <<pbf, store>>

-----------------------------------------------------------------------------
(* osm-download. The pipeline runs it without --force. *)

(* Mutant: the file is fetched even if it is there. *)
AlwaysFetch ==
  /\ pc = "run" /\ Current = "download"
  /\ pc' = "connect"
  /\ UNCHANGED <<pbf, store, alone, force, step, attempt, result, worked>>

RunDownload ==
  /\ pc = "run" /\ Current = "download"
  /\ IF pbf # "absent" /\ ~(alone /\ force)
     THEN Finish("OK")
     ELSE pc' = "connect" /\ UNCHANGED <<alone, force, step, attempt, result>>
  /\ UNCHANGED <<pbf, store, worked>>

(* Mutant: failed attempts are not counted. *)
RetryForEver ==
  pc' = "connect" /\ UNCHANGED <<alone, force, step, attempt, result>>

(* Mutant: one attempt more. *)
RetryOnceMore ==
  IF attempt = MaxAttempts
  THEN Finish("FAIL")
  ELSE /\ attempt' = attempt + 1
       /\ pc' = "connect"
       /\ UNCHANGED <<alone, force, step, result>>

Retry ==
  IF attempt = MaxAttempts - 1
  THEN Finish("FAIL")
  ELSE /\ attempt' = attempt + 1
       /\ pc' = "connect"
       /\ UNCHANGED <<alone, force, step, result>>

(* Once the server has answered, the file is opened with "wb". *)
Connect ==
  /\ pc = "connect"
  /\ \/ Retry /\ UNCHANGED pbf
     \/ /\ pc' = "write"
        /\ pbf' = "partial"
        /\ UNCHANGED <<alone, force, step, attempt, result>>
  /\ UNCHANGED <<store, worked>>

Write ==
  /\ pc = "write"
  /\ \/ Retry /\ UNCHANGED <<pbf, worked>>
     \/ /\ pbf' = "complete"
        /\ worked' = worked \cup {Current}
        /\ Finish("OK")
  /\ UNCHANGED store

-----------------------------------------------------------------------------
(* The containers. *)

(* osm-import-nominatim only starts the container: on an empty volume that *)
(* begins the import, which goes on after the command has ended.           *)
RunNominatim ==
  /\ pc = "run" /\ Current = "nominatim"
  /\ \/ Finish("FAIL") /\ UNCHANGED store
     \/ /\ Finish("OK")
        /\ store' = IF store[Current] = "empty" /\ pbf # "absent"
                    THEN [store EXCEPT ![Current] = "partial"] ELSE store
  /\ UNCHANGED <<pbf, worked>>

NominatimImports ==
  /\ store["nominatim"] = "partial" /\ pbf = "complete"
  /\ store' = [store EXCEPT !["nominatim"] = "full"]
  /\ UNCHANGED <<pbf, pc, alone, force, step, attempt, result, worked>>

(* osm-import-tiles and osm-build-valhalla wait for their container. The   *)
(* one asks for the file first; the other leaves that to the container,    *)
(* which may find nothing to do and still end with exit code 0.            *)
RunBuild ==
  /\ pc = "run" /\ Current \in {"tiles", "valhalla"}
  /\ \/ Finish("FAIL") /\ UNCHANGED store
     \/ /\ pbf # "absent" \/ Current = "valhalla"
        /\ pc' = "build"
        /\ store' = IF pbf = "absent" THEN store
                    ELSE [store EXCEPT ![Current] = "partial"]
        /\ UNCHANGED <<alone, force, step, attempt, result>>
  /\ UNCHANGED <<pbf, worked>>

(* Mutant: the exit code of docker is not checked. *)
BuildUnchecked ==
  /\ pc = "build"
  /\ Finish("OK")
  /\ \/ UNCHANGED <<store, worked>>
     \/ /\ worked' = worked \cup {Current}
        /\ store' = IF pbf = "complete" THEN [store EXCEPT ![Current] = "full"]
                                        ELSE store
  /\ UNCHANGED pbf

(* A truncated extract fails the build, or gives it a part of the data. *)
Build ==
  /\ pc = "build"
  /\ \/ Finish("FAIL") /\ UNCHANGED <<store, worked>>
     \/ /\ Finish("OK")
        /\ worked' = worked \cup {Current}
        /\ store' = IF pbf = "complete" THEN [store EXCEPT ![Current] = "full"]
                                        ELSE store
  /\ UNCHANGED pbf

-----------------------------------------------------------------------------
(* Exit code 0 unless a step failed. *)
Summary ==
  /\ pc = "summary"
  /\ pc' = "idle"
  /\ UNCHANGED <<pbf, store, alone, force, step, attempt, result, worked>>

(* Ctrl-C, a full disk, a reboot. *)
Kill ==
  /\ pc # "idle"
  /\ pc' = "idle"
  /\ attempt' = 0
  /\ UNCHANGED <<pbf, store, alone, force, step, result, worked>>

Advance ==
  Check \/ RunDownload \/ Connect \/ Write \/ RunNominatim \/ RunBuild \/ Build
  \/ Summary

Next == StartPipeline \/ StartCommand \/ Advance \/ NominatimImports \/ Kill

Spec == Init /\ [][Next]_vars

(* Requests have timeouts, and containers end. *)
FairSpec == Spec /\ WF_vars(Advance)

-----------------------------------------------------------------------------
Succeeded == pc = "summary" /\ \A s \in Steps : result[s] # "FAIL"

(* A pipeline that exits with 0 has not left a step without anything to    *)
(* show: the file, the tile database and the graph are there, if perhaps   *)
(* from a run that was interrupted (osm_pipeline, idempotency checks).     *)
SuccessHasData ==
  Succeeded =>
    pbf # "absent" /\ store["tiles"] # "empty" /\ store["valhalla"] # "empty"

(* The summary has a word on every step, whatever failed before it (D-12), *)
(* and reports a build as OK exactly when it ran to its end in this run.   *)
SummaryIsEarned ==
  pc = "summary" =>
    /\ \A s \in Steps : result[s] # "none"
    /\ \A s \in {"tiles", "valhalla"} : result[s] = "OK" <=> s \in worked

(* Unless --force was given, a complete extract stays complete: no run of  *)
(* the pipeline or of osm-download, no retry after a failed attempt and no *)
(* kill replaces it ("Skips if file exists unless --force is passed").     *)
CompleteExtractIsKept ==
  [][pbf = "complete" /\ pbf' # "complete" => force]_vars

(* Every command ends: downloads are given up after the last attempt. *)
CommandsEnd == pc # "idle" ~> pc = "idle"
=============================================================================
