------------------------------- MODULE Cascade -------------------------------
(***************************************************************************)
(* POST /geocode of one address with the cascade enabled: what each stage  *)
(* adds to the candidates, which of them consensus makes official, and     *)
(* what the reply says of it, while admins and imports change the same     *)
(* tables between its statements.                                          *)
(*                                                                         *)
(* Positions are places: two answers at one place are within 100 m of each *)
(* other, two at different places more than 1 km apart, so that clusters   *)
(* are the candidates of a place (Consensus has the geometry).  Rival      *)
(* geocodings are the subject of GeocodeRequests.                          *)
(***************************************************************************)
EXTENDS Naturals, FiniteSetsExt

CONSTANTS
  Address,     \* the address the requests ask for
  Remote,      \* providers with is_local = FALSE
  Local,       \* providers with is_local = TRUE
  Fuzzy,       \* the provider names "fuzzy_<source>"
  Admin,       \* the provider name "admin_override"
  Gis,         \* the provider name "bibb_county_gis"
  NoProvider,  \* no official_geocoding row
  Places,      \* positions
  NoPlace,     \* a NO_MATCH row or answer: no coordinates, confidence 0
  Absent,      \* no row
  Trust,       \* settings.weight_*
  FuzzyTrust,  \* weights a fuzzy candidate may be scaled to
  States,      \* state codes
  NoState,     \* no state in the address
  ZipStates    \* for each leading ZIP digit, and NoState for no ZIP: its states

Asked     == Remote \cup Local
Geocoders == Asked \cup Fuzzy
Provider  == Geocoders \cup {Admin, Gis}
Row       == {Absent, NoPlace} \cup Places

ASSUME NamesDiffer ==
  /\ NoProvider \notin Provider
  /\ Admin \notin Geocoders /\ Gis \notin Geocoders /\ Admin # Gis
  /\ Remote \cap Local = {} /\ Asked \cap Fuzzy = {}
ASSUME PlacesDiffer == Absent # NoPlace /\ {Absent, NoPlace} \cap Places = {}
ASSUME WeightsArePositive ==
  Trust \in [Asked -> Nat \ {0}] /\ FuzzyTrust \subseteq Nat \ {0}
ASSUME StatesAreCodes ==
  NoState \notin States /\ \A d \in DOMAIN ZipStates : ZipStates[d] \subseteq States

VARIABLES
  rows, official, stage, override, \* the committed tables; stage: set_by_stage
  pc, dry,      \* where the request is, and whether it is a dry run
  seen,         \* the rows as the session's identity map holds them
  txRow, txOff, \* what the request has written and not yet committed
  cands,        \* candidates of all stages so far
  winner,       \* {} or {the candidate to make official}
  correction,   \* {} or {the correction of the LLM that passed the guardrails}
  committed,    \* the request has committed
  reply,        \* what the response will say
  named, held   \* history: official providers and rows since the lookup

tables  == <<rows, official, stage, override>>
history == <<named, held>>
vars    == <<tables, pc, dry, seen, txRow, txOff, cands, winner, correction,
             committed, reply, history>>

Kinds  == {"exact", "fuzzy", "llm", "row"}
Stages == {"none", "single_provider", "exact_match_consensus",
           "fuzzy_consensus", "llm_correction_consensus"}
PCs    == {"idle", "cached", "exact", "fuzzy", "llm", "consensus", "admin",
           "persist", "official", "commit", "pointer", "row", "reply"}

(* high: confidence >= 0.80. *)
Answer    == [place : Places \cup {NoPlace}, high : BOOLEAN]
Candidate == [name : Provider, place : Places, high : BOOLEAN,
              kind : Kinds, weight : Nat \ {0}]
Correction == [from : States \cup {NoState}, to : States \cup {NoState},
               zip : DOMAIN ZipStates]
Reply == [hit : BOOLEAN, official : Provider \cup {NoProvider}, shows : Row,
          would : Provider \cup {NoProvider}, outliers : SUBSET Provider]

NoRows  == [p \in Provider |-> Absent]
NoReply == [hit |-> FALSE, official |-> NoProvider, shows |-> Absent,
            would |-> NoProvider, outliers |-> {}]

TypeOK ==
  /\ rows \in [Provider -> Row] /\ official \in Provider \cup {NoProvider}
  /\ stage \in Stages /\ override \in BOOLEAN
  /\ pc \in PCs /\ dry \in BOOLEAN /\ committed \in BOOLEAN
  /\ seen \in [Provider -> Row]
  /\ txRow \in [Provider -> Row] /\ txOff \in Provider \cup {NoProvider}
  /\ cands \subseteq Candidate /\ winner \subseteq cands
  /\ correction \subseteq Correction
  /\ reply \in Reply
  /\ named \subseteq Provider \cup {NoProvider} /\ held \subseteq Provider \X Row

Init ==
  /\ rows = NoRows /\ official = NoProvider /\ stage = "none" /\ override = FALSE
  /\ pc = "idle" /\ dry = FALSE /\ committed = FALSE
  /\ seen = NoRows /\ txRow = NoRows /\ txOff = NoProvider
  /\ cands = {} /\ winner = {} /\ correction = {} /\ reply = NoReply
  /\ named = {} /\ held = {}

-----------------------------------------------------------------------------
(* get_provider_weight: 0.50 for a name the settings do not know, which    *)
(* the names of fuzzy, admin and import rows are.                          *)
Weight(p) == IF p \in Asked THEN Trust[p] ELSE 50

Make(p, at, high, kind, w) ==
  [name |-> p, place |-> at, high |-> high, kind |-> kind, weight |-> w]

(* Mutant: an answer without a match is a candidate, too. *)
AllAnswers(a, kind) ==
  {Make(p, a[p].place, a[p].high, kind, Weight(p)) : p \in DOMAIN a}

(* The candidates among answers a of the providers in its domain. *)
Matches(a, kind) ==
  {Make(p, a[p].place, a[p].high, kind, Weight(p)) :
     p \in {q \in DOMAIN a : a[q].place # NoPlace}}

(* Answers: no confidence without a position. A provider that times out,   *)
(* fails or has none is not in the domain.                                 *)
AnswersOf(S) ==
  {a \in UNION {[T -> Answer] : T \in SUBSET S} :
     \A p \in DOMAIN a : a[p].place = NoPlace => ~a[p].high}

Cluster(cs, at) == {c \in cs : c.place = at}
Load(cs, at) == MapThenSumSet(LAMBDA c : c.weight, Cluster(cs, at))

(* A candidate run_consensus may have closest to the winning centroid. *)
MayWin(cs, c) == c \in cs /\ \A d \in cs : Load(cs, d.place) <= Load(cs, c.place)

(* Candidates more than 1 km from the winner are reported by name. *)
OutliersOf(cs, c) == {d.name : d \in {e \in cs : e.place # c.place}}

StageOf(cs, c) ==
  LET kinds == {d.kind : d \in Cluster(cs, c.place)} IN
    IF cs = {c} THEN "single_provider"
    ELSE IF "llm" \in kinds THEN "llm_correction_consensus"
    ELSE IF "fuzzy" \in kinds THEN "fuzzy_consensus"
    ELSE "exact_match_consensus"

(* _passes_guardrails *)
PassesGuardrails(c) ==
  /\ c.from # NoState /\ c.to # NoState => c.from = c.to
  /\ c.zip # NoState /\ c.to # NoState => c.to \in ZipStates[c.zip]

-----------------------------------------------------------------------------
(* The request. *)

(* The address and, by selectinload, its rows. *)
Lookup ==
  /\ pc = "idle"
  /\ dry' \in BOOLEAN
  /\ seen' = rows
  /\ pc' = IF rows = NoRows THEN "exact" ELSE "cached"
  /\ reply' = [NoReply EXCEPT !.hit = rows # NoRows]
  /\ named' = {official} /\ held' = {<<p, rows[p]>> : p \in Provider}
  /\ UNCHANGED <<tables, txRow, txOff, cands, winner, correction, committed>>

(* Rows of the address and fresh answers of the local providers elect what *)
(* the reply calls would_set_official; nothing is written.                 *)
CacheHit ==
  /\ pc = "cached" /\ pc' = "pointer"
  /\ \E a \in AnswersOf(Local) :
       LET stored == {p \in Provider : seen[p] \in Places}
           all == {Make(p, seen[p], FALSE, "row", Weight(p)) : p \in stored}
                    \cup Matches(a, "exact")
       IN \/ all = {} /\ UNCHANGED reply
          \/ \E c \in all :
               /\ MayWin(all, c)
               /\ reply' = [reply EXCEPT !.would = c.name,
                                         !.outliers = OutliersOf(all, c)]
  /\ UNCHANGED <<tables, dry, seen, txRow, txOff, cands, winner, correction,
                 committed, history>>

(* Stage 2: all providers in parallel. A remote answer is upserted and its *)
(* row loaded; stages 3 and 4 are skipped if one is confident enough.      *)
ExactMatch ==
  /\ pc = "exact"
  /\ \E a \in AnswersOf(Asked) :
       LET Upserted(old) == [p \in Provider |->
             IF p \in Remote \cap DOMAIN a THEN a[p].place ELSE old[p]]
       IN /\ txRow' = Upserted(txRow) /\ seen' = Upserted(seen)
          /\ cands' = Matches(a, "exact")
  /\ pc' = IF \E c \in cands' : c.high THEN "consensus" ELSE "fuzzy"
  /\ UNCHANGED <<tables, dry, txOff, winner, correction, committed, reply, history>>

(* Mutant: the LLM is asked although there are candidates. *)
AskAnyway ==
  /\ pc = "fuzzy" /\ pc' = "llm"
  /\ \/ UNCHANGED cands
     \/ \E f \in Fuzzy, at \in Places, w \in FuzzyTrust :
          cands' = cands \cup {Make(f, at, FALSE, "fuzzy", w)}
  /\ UNCHANGED <<tables, dry, seen, txRow, txOff, winner, correction, committed,
                 reply, history>>

(* Stage 3: at most one candidate, of confidence below 0.80. Its timeout,  *)
(* an address without a street or no match leave none.                     *)
FuzzyMatch ==
  /\ pc = "fuzzy"
  /\ \/ UNCHANGED cands
     \/ \E f \in Fuzzy, at \in Places, w \in FuzzyTrust :
          cands' = cands \cup {Make(f, at, FALSE, "fuzzy", w)}
  /\ pc' = IF cands' = {} THEN "llm" ELSE "consensus"
  /\ UNCHANGED <<tables, dry, seen, txRow, txOff, winner, correction, committed,
                 reply, history>>

(* Stage 4: a correction that passes the guardrails is geocoded by all     *)
(* providers again; nothing of it is stored yet. No corrector, a timeout,  *)
(* an error and a rejected correction leave no candidate.                  *)
LlmCorrection ==
  /\ pc = "llm" /\ pc' = "consensus"
  /\ \/ UNCHANGED <<cands, correction>>
     \/ \E c \in Correction, a \in AnswersOf(Asked) :
          /\ PassesGuardrails(c)
          /\ correction' = {c}
          /\ cands' = cands \cup Matches(a, "llm")
  /\ UNCHANGED <<tables, dry, seen, txRow, txOff, winner, committed, reply, history>>

(* Stages 5 and 6, up to the admin check: a single candidate of confidence *)
(* below 0.80 elects nobody.                                               *)
ElectByConsensus ==
  /\ pc = "consensus"
  /\ \/ cands = {} /\ pc' = "commit" /\ UNCHANGED <<winner, reply>>
     \/ \E c \in cands :
          /\ MayWin(cands, c)
          /\ reply' = [reply EXCEPT !.outliers = OutliersOf(cands, c)]
          /\ IF cands = {c} /\ ~c.high
             THEN pc' = "commit" /\ UNCHANGED winner
             ELSE pc' = "admin" /\ winner' = {c}
  /\ UNCHANGED <<tables, dry, seen, txRow, txOff, cands, correction, committed, history>>

HasRow(c) == c.kind = "exact" /\ c.name \in Remote

AfterPersist == IF dry THEN "commit" ELSE "official"

(* Mutant: the reply has no regard for dry_run. *)
ForetellAlways(c) == reply' = [reply EXCEPT !.would = c.name]

Foretell(c) == reply' = [reply EXCEPT !.would = IF dry THEN c.name ELSE @]

(* Mutant: every winner is taken to have a row. *)
CheckWithoutPersist ==
  /\ pc = "admin"
  /\ \E c \in winner :
       IF official = Admin \/ override
       THEN pc' = "pointer" /\ UNCHANGED reply
       ELSE pc' = AfterPersist /\ Foretell(c)
  /\ UNCHANGED <<tables, dry, seen, txRow, txOff, cands, winner, correction, committed, history>>

(* D-22: the official row, then admin_overrides. The first query loads the *)
(* admin's row into the session.                                           *)
AdminCheck ==
  /\ pc = "admin"
  /\ seen' = IF official = Admin /\ seen[Admin] = Absent
             THEN [seen EXCEPT ![Admin] = rows[Admin]] ELSE seen
  /\ \E c \in winner :
       IF official = Admin \/ override
       THEN pc' = "pointer" /\ UNCHANGED reply
       ELSE IF HasRow(c) THEN pc' = AfterPersist /\ Foretell(c)
       ELSE pc' = "persist" /\ UNCHANGED reply
  /\ UNCHANGED <<tables, dry, txRow, txOff, cands, winner, correction, committed, history>>

(* Any other winner gets a row, on a dry run too; objects that the session *)
(* has already loaded keep their values.                                   *)
PersistWinner ==
  /\ pc = "persist"
  /\ \E c \in winner : /\ txRow' = [txRow EXCEPT ![c.name] = c.place]
                       /\ Foretell(c)
  /\ pc' = AfterPersist
  /\ UNCHANGED <<tables, dry, seen, txOff, cands, winner, correction, committed, history>>

WriteOfficial ==
  /\ pc = "official" /\ pc' = "commit"
  /\ \E c \in winner : txOff' = c.name
  /\ UNCHANGED <<tables, dry, seen, txRow, cands, winner, correction, committed,
                 reply, history>>

-----------------------------------------------------------------------------
(* _get_official is two statements: before the commit if the answer cannot *)
(* change it (cache hit, admin's choice), after it if it may have.         *)

Pairs(r) == {<<p, r[p]>> : p \in Provider}

ReadPointer ==
  /\ pc = "pointer"
  /\ reply' = [reply EXCEPT !.official = official]
  /\ pc' = IF official # NoProvider THEN "row"
           ELSE IF committed THEN "reply" ELSE "commit"
  /\ UNCHANGED <<tables, dry, seen, txRow, txOff, cands, winner, correction,
                 committed, history>>

(* A row the session knows is returned as it was when it was loaded. *)
ReadRow ==
  /\ pc = "row"
  /\ LET p == reply.official IN
       reply' = [reply EXCEPT !.shows = IF seen[p] # Absent THEN seen[p] ELSE rows[p]]
  /\ pc' = IF committed THEN "reply" ELSE "commit"
  /\ UNCHANGED <<tables, dry, seen, txRow, txOff, cands, winner, correction,
                 committed, history>>

Commit ==
  /\ pc = "commit"
  /\ rows' = [p \in Provider |-> IF txRow[p] = Absent THEN rows[p] ELSE txRow[p]]
  /\ \/ /\ txOff = NoProvider /\ pc' = "reply"
        /\ UNCHANGED <<official, stage>>
     \/ /\ txOff # NoProvider /\ pc' = "pointer"
        /\ official' = txOff
        /\ \E c \in winner : stage' = StageOf(cands, c)
  /\ committed' = TRUE
  /\ txRow' = NoRows /\ txOff' = NoProvider
  /\ named' = named \cup {official'} /\ held' = held \cup Pairs(rows')
  /\ UNCHANGED <<override, dry, seen, cands, winner, correction, reply>>

Close ==
  /\ pc' = "idle" /\ dry' = FALSE /\ committed' = FALSE
  /\ seen' = NoRows /\ txRow' = NoRows /\ txOff' = NoProvider
  /\ cands' = {} /\ winner' = {} /\ correction' = {} /\ reply' = NoReply
  /\ named' = {} /\ held' = {}
  /\ UNCHANGED tables

Respond == pc = "reply" /\ Close

(* An exception no stage catches (one of the fuzzy stage that is not its   *)
(* timeout, a failed statement), a lost connection or a killed worker.     *)
Abort == pc # "idle" /\ Close

-----------------------------------------------------------------------------
(* Other sessions, each one transaction that has waited for the rows this  *)
(* request has written.                                                    *)

Elsewhere ==
  /\ IF pc = "idle" THEN UNCHANGED history
     ELSE named' = named \cup {official'} /\ held' = held \cup Pairs(rows')
  /\ UNCHANGED <<pc, dry, seen, txRow, txOff, cands, winner, correction, committed, reply>>

(* GEO-06; set_by_stage stays what it was. *)
SelectOfficial(p) ==
  /\ rows[p] # Absent /\ txOff = NoProvider
  /\ official' = p
  /\ UNCHANGED <<rows, stage, override>>
  /\ Elsewhere

(* GEO-07 *)
OverrideOfficial(at) ==
  /\ txOff = NoProvider
  /\ rows' = [rows EXCEPT ![Admin] = at]
  /\ official' = Admin /\ override' = TRUE
  /\ UNCHANGED stage
  /\ Elsewhere

(* geo-import, which has to run before the first geocoding (DATA-03).      *)
ImportFeature(at) ==
  /\ pc = "idle" /\ rows = NoRows
  /\ rows' = [rows EXCEPT ![Gis] = at]
  /\ official' = Gis
  /\ UNCHANGED <<stage, override>>
  /\ Elsewhere

Serve ==
  \/ Lookup \/ CacheHit \/ ExactMatch \/ FuzzyMatch \/ LlmCorrection \/ ElectByConsensus
  \/ AdminCheck \/ PersistWinner \/ WriteOfficial \/ ReadPointer \/ ReadRow
  \/ Commit \/ Respond \/ Abort

Next ==
  \/ Serve
  \/ \E p \in Provider : SelectOfficial(p)
  \/ \E at \in Places : OverrideOfficial(at) \/ ImportFeature(at)

Spec == Init /\ [][Next]_vars

-----------------------------------------------------------------------------
Ledger == INSTANCE OfficialLedger WITH
  Addresses <- {Address}, Paths <- {"cascade"},
  address   <- [a \in {Address} |-> TRUE],
  rows      <- [a \in {Address} |-> [p \in Provider |->
                  IF rows[p] = Absent THEN "absent"
                  ELSE IF rows[p] = NoPlace THEN "NO_MATCH" ELSE "MATCH"]],
  official  <- [a \in {Address} |-> official],
  override  <- [a \in {Address} |-> override]

(* Through all its stages, a cascade is one geocoding of the ledger: what  *)
(* it makes official is a match it recorded, never one it only elected.    *)
OneGeocoding == Ledger!Spec

(* What a cascade makes official, it made so for a reason that the tables  *)
(* show: not on a dry run; the row holds the position that won; it was     *)
(* confident or not alone (D-11); answers to the LLM's address count only  *)
(* if the asked address had none, and then within its state and ZIP (LLM   *)
(* D-05, D-14); set_by_stage names a stage that took part in the vote.     *)
OfficialIsEarned ==
  [][~committed /\ committed' /\ <<official, stage>>' # <<official, stage>> =>
       /\ ~dry
       /\ \E c \in winner :
            /\ official' = c.name /\ rows'[c.name] = c.place
            /\ c.high \/ cands # {c}
            /\ \A d \in cands : (d.kind = "llm") <=> (c.kind = "llm")
            /\ c.kind = "llm" =>
                 /\ \A p \in Geocoders \ {c.name} : rows'[p] \notin Places
                 /\ \E k \in correction :
                      /\ NoState \in {k.from, k.to} \/ k.from = k.to
                      /\ NoState \in {k.zip, k.to} \/ k.to \in ZipStates[k.zip]
            /\ stage' = "fuzzy_consensus" =>
                 \E d \in Cluster(cands, c.place) : d.kind = "fuzzy"]_vars

(* The object loaded with the NO_MATCH of the asked address hides the row  *)
(* that the LLM's address has given its provider since.                    *)
HiddenByOldObject ==
  \E c \in winner : /\ c.kind = "llm" /\ c.name = reply.official
                    /\ reply.shows = NoPlace

(* A reply agrees with the tables as they were while the request ran,      *)
(* whatever admins and imports did meanwhile: the official provider was    *)
(* official, with the position that is shown, but for one case that only   *)
(* the LLM stage reaches (HiddenByOldObject). Off the cache, what a dry    *)
(* run says it would set has its row, is no outlier, and is said if and    *)
(* only if no admin has decided; and what was elected is reported.         *)
ReplyIsHonest ==
  pc = "reply" =>
    /\ reply.official # NoProvider =>
         /\ reply.official \in named
         /\ <<reply.official, reply.shows>> \in held \/ HiddenByOldObject
    /\ ~reply.hit =>
         /\ reply.would # NoProvider =>
              /\ dry /\ reply.would \notin reply.outliers
              /\ \E c \in winner : /\ reply.would = c.name
                                  /\ <<c.name, c.place>> \in held
         /\ winner # {} => (reply.would = NoProvider) <=> (reply.official # NoProvider)
=============================================================================
