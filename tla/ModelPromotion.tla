--------------------------- MODULE ModelPromotion ---------------------------
(***************************************************************************)
(* research/ModelPromotion.hpp: the life cycle of one model in the SQLite  *)
(* registry.  Each sentum_model command is a process of its own on the     *)
(* same database; the registry wraps nothing in a transaction, so a        *)
(* command is one step per SQL statement, and it may fail or be killed     *)
(* between any two.  The definition file may be edited between commands,   *)
(* so each one loads any definition.  The policy's six thresholds are one  *)
(* score here.                                                             *)
(***************************************************************************)
EXTENDS Naturals

CONSTANTS Processes,    \* sentum_model commands that may run at once
          Definitions,  \* contents the model's definition file may have
          Researched,   \* those that match a completed source experiment
          Holdout,      \* score of a researched definition's final holdout
          Scores,       \* scores a trading session may have
          MinScore,     \* the policy of each definition
          None

Stages == {"research", "shadow", "paper", "testnet"}

ASSUME PromotionAssumption ==
  /\ Researched \subseteq Definitions
  /\ Scores \subseteq Nat
  /\ Holdout \in [Researched -> Scores]
  /\ MinScore \in [Definitions -> Nat]
  /\ None \notin Stages /\ None \notin Scores /\ None \notin Definitions

VARIABLES
  stage,     \* models.stage, None before the model is registered
  registered, \* models.definition_json
  evidence,  \* the latest row of stage_evidence for each stage
  events,    \* promotion_events
  command,   \* what each process does
  paper      \* the definition the paper runtime trades with, or None

vars == <<stage, registered, evidence, events, command, paper>>

Idle == [pc |-> "idle", def |-> None, from |-> None, target |-> None, score |-> None]

Init ==
  /\ stage = None /\ registered = None
  /\ evidence = [s \in Stages |-> None]
  /\ events = {}
  /\ command = [p \in Processes |-> Idle]
  /\ paper = None

valid_transition(from, to) ==
  <<from, to>> \in {<<"research", "shadow">>, <<"shadow", "paper">>, <<"paper", "testnet">>}

\* All gates at once: trades, profit, profit factor, win rate, Sharpe ratio
\* and drawdown.
passes_policy(score, d) == score >= MinScore[d]

Continue(p, pc) == command' = [command EXCEPT ![p].pc = pc]
Finish(p) == command' = [command EXCEPT ![p] = Idle]

-----------------------------------------------------------------------------
(* register *)

\* validate_source_experiment accepts only the researched candidate.
RegisterValidate(p, d) ==
  /\ command[p] = Idle
  /\ d \in Researched
  /\ command' = [command EXCEPT ![p].pc = "register", ![p].def = d]
  /\ UNCHANGED <<stage, registered, evidence, events, paper>>

\* Mutant: registering a model again resets its stage.
RegisterResets(p) ==
  /\ command[p].pc = "register"
  /\ stage' = "research" /\ registered' = command[p].def
  /\ command' = [command EXCEPT ![p].pc = "save", ![p].target = "research",
                                ![p].score = Holdout[command[p].def]]
  /\ UNCHANGED <<evidence, events, paper>>

\* The upsert replaces the definition of a registered model and leaves its stage
\* alone.
register_model(p) ==
  /\ command[p].pc = "register"
  /\ stage' = IF stage = None THEN "research" ELSE stage
  /\ registered' = command[p].def
  /\ command' = [command EXCEPT ![p].pc = "save", ![p].target = "research",
                                ![p].score = Holdout[command[p].def]]
  /\ UNCHANGED <<evidence, events, paper>>

save_evidence(p) ==
  /\ command[p].pc = "save"
  /\ evidence' = [evidence EXCEPT ![command[p].target] = command[p].score]
  /\ Finish(p)
  /\ UNCHANGED <<stage, registered, events, paper>>

-----------------------------------------------------------------------------
(* shadow and record-evidence *)

\* Mutant: evidence may be recorded for any stage.
RecordUnchecked(p, s, score) ==
  /\ command[p] = Idle /\ stage # None
  /\ s \in {"paper", "testnet"}
  /\ command' = [command EXCEPT ![p].pc = "save", ![p].target = s, ![p].score = score]
  /\ UNCHANGED <<stage, registered, evidence, events, paper>>

\* Results of a session, entered by the operator for the current stage.
RecordEvidence(p, s, score) ==
  /\ command[p] = Idle /\ stage = s
  /\ s \in {"paper", "testnet"}
  /\ command' = [command EXCEPT ![p].pc = "save", ![p].target = s, ![p].score = score]
  /\ UNCHANGED <<stage, registered, evidence, events, paper>>

ShadowStart(p) ==
  /\ command[p] = Idle /\ stage = "shadow"
  /\ Continue(p, "trading")
  /\ UNCHANGED <<stage, registered, evidence, events, paper>>

\* ShadowTradingSession::stop turns the completed trades into evidence.
ShadowStop(p, score) ==
  /\ command[p].pc = "trading"
  /\ command' = [command EXCEPT ![p].pc = "save", ![p].target = "shadow", ![p].score = score]
  /\ UNCHANGED <<stage, registered, evidence, events, paper>>

-----------------------------------------------------------------------------
(* promote, by an operator who gave the confirmation *)

\* The stage is read once, and the transition checked against it.
PromoteRead(p, d, target) ==
  /\ command[p] = Idle
  /\ valid_transition(stage, target)
  /\ command' = [command EXCEPT ![p] =
       [pc |-> "evidence", def |-> d, from |-> stage, target |-> target, score |-> None]]
  /\ UNCHANGED <<stage, registered, evidence, events, paper>>

latest_evidence(p) ==
  /\ command[p].pc = "evidence" /\ evidence[command[p].from] # None
  /\ command' = [command EXCEPT ![p].pc = "record",
                                ![p].score = evidence[command[p].from]]
  /\ UNCHANGED <<stage, registered, evidence, events, paper>>

\* Mutant: only rejections are written to the audit history.
RecordRejectionsOnly(p) ==
  /\ command[p].pc = "record"
  /\ LET c == command[p]
         approved == passes_policy(c.score, c.def)
     IN  IF approved THEN Continue(p, "update") /\ UNCHANGED events
         ELSE /\ Finish(p)
              /\ events' = events \cup {[from |-> c.from, to |-> c.target, approved |-> FALSE]}
  /\ UNCHANGED <<stage, registered, evidence, paper>>

\* The decision is written to the audit history; a rejection ends here.
record_event(p) ==
  /\ command[p].pc = "record"
  /\ LET c == command[p]
         approved == passes_policy(c.score, c.def)
     IN  /\ events' = events \cup {[from |-> c.from, to |-> c.target, approved |-> approved]}
         /\ IF approved THEN Continue(p, "update") ELSE Finish(p)
  /\ UNCHANGED <<stage, registered, evidence, paper>>

\* The UPDATE does not look at the stage the decision was based on.
PromoteUpdate(p) ==
  /\ command[p].pc = "update"
  /\ stage' = command[p].target
  /\ Finish(p)
  /\ UNCHANGED <<registered, evidence, events, paper>>

\* A statement fails, a check throws, or the process is killed.
Abort(p) ==
  /\ command[p] # Idle
  /\ Finish(p)
  /\ UNCHANGED <<stage, registered, evidence, events, paper>>

-----------------------------------------------------------------------------
(* The paper runtime *)

\* load_config: the stage is looked up by the model's id, strategy, symbol and
\* risk configuration come from the file.
PaperStart(d) ==
  /\ paper = None /\ stage = "paper"
  /\ paper' = d
  /\ UNCHANGED <<stage, registered, evidence, events, command>>

PaperStop ==
  /\ paper # None
  /\ paper' = None
  /\ UNCHANGED <<stage, registered, evidence, events, command>>

-----------------------------------------------------------------------------
RegisterStep(p) ==
  (\E d \in Definitions : RegisterValidate(p, d)) \/ register_model(p) \/ save_evidence(p)

SessionStep(p) ==
  \/ \E s \in Stages, score \in Scores : RecordEvidence(p, s, score)
  \/ ShadowStart(p) \/ \E score \in Scores : ShadowStop(p, score)

PromoteStep(p) ==
  \/ \E d \in Definitions, target \in Stages : PromoteRead(p, d, target)
  \/ latest_evidence(p) \/ record_event(p) \/ PromoteUpdate(p)

Next ==
  \/ \E p \in Processes : RegisterStep(p) \/ SessionStep(p) \/ PromoteStep(p) \/ Abort(p)
  \/ (\E d \in Definitions : PaperStart(d)) \/ PaperStop

Spec == Init /\ [][Next]_vars

-----------------------------------------------------------------------------
(* Properties *)

Commands ==
  [pc : {"idle", "register", "save", "trading", "evidence", "record", "update"},
   def : Definitions \cup {None}, from : Stages \cup {None},
   target : Stages \cup {None}, score : Scores \cup {None}]

TypeOK ==
  /\ stage \in Stages \cup {None}
  /\ evidence \in [Stages -> Scores \cup {None}]
  /\ events \subseteq [from : Stages, to : Stages, approved : BOOLEAN]
  /\ \A e \in events : valid_transition(e.from, e.to)
  /\ command \in [Processes -> Commands]
  /\ registered \in Definitions \cup {None} /\ paper \in Definitions \cup {None}

\* The audit history holds an approved promotion into a stage.
Approved(s) == \E e \in events : e.to = s /\ e.approved

\* It holds one into a stage and into every stage before it.
Earned(s) ==
  /\ s \in {"shadow", "paper", "testnet"} => Approved("shadow")
  /\ s \in {"paper", "testnet"} => Approved("paper")
  /\ s = "testnet" => Approved("testnet")

\* However commands overlap and wherever they are killed, a model is only in a
\* stage for which the whole chain of promotions was approved and audited.
StageIsEarned == Earned(stage)

\* Evidence exists only for stages the model really reached, so no promotion
\* is ever decided on results of a stage that was not earned.
EvidenceIsEarned == \A s \in Stages : evidence[s] # None => Earned(s)

\* docs/SHADOW_TRADING_MODEL_PROMOTION.md:46: "The runtime inherits the registered
\* model's strategy, symbol and risk-config path and fails closed if registry
\* state is inconsistent."  What the paper runtime starts to trade is what the
\* registry holds.
InheritsRegistered == [][paper' \in {None, paper, registered}]_vars

\* A promoted model never goes back to research, and a registered one never
\* gets lost, although the file may be registered again at any time.
NeverBackToResearch ==
  [][stage # None => stage' # None /\ (stage' = "research" => stage = "research")]_vars

\* What a command knows stays true until it acts on it, whatever the others do.
CommandIsEarned(c) ==
  /\ c.pc = "register" => c.def \in Researched
  /\ c.pc = "trading" => Earned("shadow")
  /\ c.pc = "save" => c.target \in Stages /\ c.score \in Scores /\ Earned(c.target)
  /\ c.pc \in {"evidence", "record", "update"} =>
       valid_transition(c.from, c.target) /\ Earned(c.from)
  /\ c.pc = "update" => Approved(c.target)

CommandsAreEarned == \A p \in Processes : CommandIsEarned(command[p])

\* The inductive invariant behind these properties.
PromotionInv ==
  /\ TypeOK /\ StageIsEarned /\ EvidenceIsEarned /\ CommandsAreEarned
=============================================================================
