----------------------------- MODULE Experiment -----------------------------
(***************************************************************************)
(* ExperimentRunner::run (research/ExperimentRunner.hpp) around the        *)
(* parameter research of a single asset or the portfolio research of       *)
(* several, with the run's directory and the registry of                   *)
(* research/ExperimentManager.hpp.  The registry commits row by row; the   *)
(* manifest is replaced by removing it and renaming a new one.  Any step   *)
(* may throw and the process may end between any two.  What is written to  *)
(* a file is not checked: on a full disk the file is cut short, renamed    *)
(* into place and listed like any other.  A run has an id and a directory  *)
(* of its own, so one run is all there is to model.                        *)
(***************************************************************************)
EXTENDS PortfolioResearch, ParameterResearch

VARIABLES
  kind,       \* the specification's kind of research
  pc,         \* where run() is
  status,     \* manifest.status
  files,      \* kinds of files in the output directory
  short,      \* kinds of files cut short without anyone noticing
  manifest,   \* status in manifest.json, "none" without the file, "short" if cut short
  row,        \* status in research_runs, "none" without a row
  rows        \* kinds of files whose hashes are in the other tables

experimentVars == <<kind, pc, status, files, short, manifest, row, rows>>
work == <<vars, researchVars, kind>>
allVars == <<work, pc, status, files, short, manifest, row, rows>>

ExperimentInit ==
  /\ Init /\ ResearchInit
  /\ kind \in {"research", "portfolio"}
  /\ pc = "copy" /\ status = "started"
  /\ files = {} /\ short = {} /\ manifest = "none" /\ row = "none" /\ rows = {}

\* Specification, catalogue and risk configuration are copied (a copy that
\* fails throws), the selected data written out.  Data cut short is what is
\* hashed and researched, so nobody can tell it from the selection.
CopyInputs ==
  /\ pc = "copy" /\ pc' = "materialize"
  /\ files' = files \cup {"inputs"}
  /\ UNCHANGED <<work, status, short, manifest, row, rows>>

Materialize ==
  /\ pc = "materialize" /\ pc' = "remove"
  /\ files' = files \cup {"datasets"}
  /\ UNCHANGED <<work, status, short, manifest, row, rows>>

\* write_manifest
ManifestRemove ==
  /\ pc = "remove" /\ pc' = "rename"
  /\ manifest' = "none"
  /\ UNCHANGED <<work, status, files, short, row, rows>>

ManifestRename ==
  /\ pc = "rename" /\ pc' = "row"
  /\ manifest' \in {status, "short"}
  /\ UNCHANGED <<work, status, files, short, row, rows>>

\* ExperimentRepository::save: the run, its datasets, then in their order the
\* artifacts that exist.
SaveRun ==
  /\ pc = "row" /\ pc' = "datasets"
  /\ row' = status
  /\ UNCHANGED <<work, status, files, short, manifest, rows>>

SaveDatasets ==
  /\ pc = "datasets" /\ pc' = "artifacts"
  /\ rows' = rows \cup {"datasets"}
  /\ UNCHANGED <<work, status, files, short, manifest, row>>

Artifacts == <<"inputs", "results", "config">>
Unsaved == files \ ({"datasets"} \cup rows)

SaveArtifact ==
  /\ pc = "artifacts"
  /\ \E k \in DOMAIN Artifacts :
       /\ Artifacts[k] \in Unsaved /\ \A l \in 1 .. k - 1 : Artifacts[l] \notin Unsaved
       /\ rows' = rows \cup {Artifacts[k]}
  /\ UNCHANGED <<work, pc, status, files, short, manifest, row>>

Saved ==
  /\ pc = "artifacts" /\ Unsaved = {}
  /\ pc' = CASE status = "started" -> "run" [] status = "completed" -> "done" [] OTHER -> "threw"
  /\ UNCHANGED <<work, status, files, short, manifest, row, rows>>

\* run_portfolio and run_single
PortfolioStep == kind = "portfolio" /\ Next /\ UNCHANGED researchVars
SingleStep == kind = "research" /\ ResearchNext /\ UNCHANGED vars
Research ==
  /\ pc = "run" /\ (PortfolioStep \/ SingleStep)
  /\ UNCHANGED experimentVars

Researched == IF kind = "portfolio" THEN finished ELSE phase = "done"

\* The results are published and listed, complete or cut short; then the
\* research configuration is copied.
WriteResults ==
  /\ pc = "run" /\ Researched /\ pc' = "config"
  /\ files' = files \cup {"results"}
  /\ short' \in {short, short \cup {"results"}}
  /\ UNCHANGED <<work, status, manifest, row, rows>>

CopyConfig ==
  /\ pc = "config" /\ pc' = "remove"
  /\ files' = files \cup {"config"} /\ status' = "completed"
  /\ UNCHANGED <<work, short, manifest, row, rows>>

\* Workers that have not been joined: what they throw, and what unwinds them,
\* ends the process.
Joinable == kind = "research" /\ phase = "pool"

\* Mutant: a failed run is registered as completed.
Throw_Unnoticed ==
  /\ pc \notin {"done", "threw", "dead"} /\ ~Joinable
  /\ IF pc \in {"run", "config"} THEN status' = "completed" /\ pc' = "remove"
     ELSE pc' = "threw" /\ UNCHANGED status
  /\ UNCHANGED <<work, files, short, manifest, row, rows>>

\* Research that throws is registered as failed; any other failure leaves
\* things as they are.
Throw ==
  /\ pc \notin {"done", "threw", "dead"} /\ ~Joinable
  /\ IF pc \in {"run", "config"} THEN status' = "failed" /\ pc' = "remove"
     ELSE pc' = "threw" /\ UNCHANGED status
  /\ UNCHANGED <<work, files, short, manifest, row, rows>>

Die ==
  /\ pc \notin {"done", "threw", "dead"} /\ pc' = "dead"
  /\ UNCHANGED <<work, status, files, short, manifest, row, rows>>

ExperimentNext ==
  \/ CopyInputs \/ Materialize \/ ManifestRemove \/ ManifestRename
  \/ SaveRun \/ SaveDatasets \/ SaveArtifact \/ Saved
  \/ Research \/ WriteResults \/ CopyConfig \/ Throw \/ Die

ExperimentSpec == ExperimentInit /\ [][ExperimentNext]_allVars

-----------------------------------------------------------------------------
(* A reader of the registry, such as the validation of a model's source       *)
(* experiment, that finds a run completed finds that its research ended, all  *)
(* its files, a manifest that does not say otherwise, and the hashes of its   *)
(* inputs: however the run failed or died, nothing is completed too early.    *)
(* Only the hashes of the results may be missing, when it ended in between,   *)
(* and the manifest may be cut short: see CompletedIsReadable.                *)
CompletedIsComplete ==
  row = "completed" =>
    /\ Researched /\ (kind = "portfolio" => open = <<>>)
    /\ files = {"inputs", "datasets", "results", "config"} /\ manifest \in {"completed", "short"}
    /\ {"inputs", "datasets"} \subseteq rows
    /\ rows # files => pc \in {"datasets", "artifacts", "threw", "dead"}

(* Documented, and not so: the manifest of a completed run records its final    *)
(* status and its results can be read.  Neither write is checked before the     *)
(* file is renamed into place and the run registered as completed.              *)
CompletedIsReadable == row = "completed" => manifest = "completed" /\ "results" \notin short
=============================================================================
