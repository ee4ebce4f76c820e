------------------------ MODULE ModelPromotionProofs ------------------------
(***************************************************************************)
(* Proofs that, for any number of overlapping commands that may fail at    *)
(* any statement, a stage and the evidence for it always rest on an        *)
(* audited chain of approved promotions.                                   *)
(***************************************************************************)
EXTENDS ModelPromotion, TLAPS

\* Audit events are only added, so what was earned stays earned.
LEMMA EarnedStays ==
  ASSUME NEW s, Earned(s), events \subseteq events' PROVE Earned(s)'
BY DEF Earned, Approved

\* An approved promotion out of an earned stage earns the next one.
LEMMA NextStageEarned ==
  ASSUME NEW from, NEW to, valid_transition(from, to), Earned(from), Approved(to)
  PROVE  Earned(to)
BY DEF Earned, valid_transition

\* The initial registry satisfies the invariant.
LEMMA InitPromotionInv == Init => PromotionInv
<1> SUFFICES ASSUME Init PROVE PromotionInv
  OBVIOUS
<1> USE DEF Init, Idle, Stages
<1>1. TypeOK
  BY DEF TypeOK, Commands
<1>2. StageIsEarned
  BY PromotionAssumption DEF StageIsEarned, Earned
<1>3. EvidenceIsEarned
  BY DEF EvidenceIsEarned
<1>4. CommandsAreEarned
  BY DEF CommandsAreEarned, CommandIsEarned
<1> QED
  BY <1>1, <1>2, <1>3, <1>4 DEF PromotionInv

\* What is earned for a command stays earned while the history grows.
LEMMA CommandStays ==
  ASSUME NEW c, CommandIsEarned(c), events \subseteq events' PROVE CommandIsEarned(c)'
<1>1. \A s : Earned(s) => Earned(s)'
  BY EarnedStays
<1>2. \A s : Approved(s) => Approved(s)'
  BY DEF Approved
<1> QED
  BY <1>1, <1>2 DEF CommandIsEarned

\* A step that changes one command, and adds audit events at most, leaves all
\* commands earned if that one is.
LEMMA CommandChanged ==
  ASSUME PromotionInv, NEW p \in Processes, NEW c \in Commands,
         command' = [command EXCEPT ![p] = c],
         events \subseteq events', CommandIsEarned(c)'
  PROVE  command' \in [Processes -> Commands] /\ CommandsAreEarned'
<1>1. command \in [Processes -> Commands]
  BY DEF PromotionInv, TypeOK
<1>2. \A q \in Processes : CommandIsEarned(command[q])
  BY DEF PromotionInv, CommandsAreEarned
<1>3. ASSUME NEW q \in Processes PROVE CommandIsEarned(command[q])'
  <2>1. CASE q = p
    BY <1>1, <2>1 DEF CommandIsEarned
  <2>2. CASE q # p
    <3>1. command'[q] = command[q]
      BY <1>1, <2>2
    <3>2. CommandIsEarned(command[q])
      BY <1>2
    <3> QED
      BY <3>1, <3>2, CommandStays DEF CommandIsEarned
  <2> QED
    BY <2>1, <2>2
<1> QED
  BY <1>1, <1>3 DEF CommandsAreEarned

\* A step that changes nothing but one command keeps the invariant.
LEMMA OnlyCommandChanged ==
  ASSUME PromotionInv, NEW p \in Processes, NEW c \in Commands,
         command' = [command EXCEPT ![p] = c],
         UNCHANGED <<stage, registered, evidence, events, paper>>, CommandIsEarned(c)
  PROVE  PromotionInv'
<1>1. CommandIsEarned(c)'
  BY CommandStays
<1>2. command' \in [Processes -> Commands] /\ CommandsAreEarned'
  BY <1>1, CommandChanged
<1> QED
  BY <1>2 DEF PromotionInv, TypeOK, StageIsEarned, EvidenceIsEarned, Earned,
     Approved

\* An idle command has nothing to be consistent with.
LEMMA IdleIsEarned == Idle \in Commands /\ CommandIsEarned(Idle) /\ CommandIsEarned(Idle)'
BY DEF Idle, Commands, CommandIsEarned

\* Registering keeps the invariant.
LEMMA RegisterKeeps ==
  ASSUME PromotionInv, NEW p \in Processes, RegisterStep(p) PROVE PromotionInv'
<1>0. command[p] \in Commands /\ CommandIsEarned(command[p])
  BY DEF PromotionInv, TypeOK, CommandsAreEarned
<1>1. ASSUME NEW d \in Definitions, RegisterValidate(p, d) PROVE PromotionInv'
  <2> DEFINE c == [command[p] EXCEPT !.pc = "register", !.def = d]
  <2>1. c \in Commands /\ c.pc = "register" /\ c.def \in Researched
    BY <1>0, <1>1 DEF Commands, RegisterValidate
  <2>2. CommandIsEarned(c)
    BY <2>1 DEF CommandIsEarned
  <2>3. command' = [command EXCEPT ![p] = c]
    BY <1>1 DEF RegisterValidate, PromotionInv, TypeOK, Commands
  <2> HIDE DEF c
  <2> QED
    BY <1>1, <2>1, <2>2, <2>3, OnlyCommandChanged DEF RegisterValidate
<1>2. CASE register_model(p)
  <2>1. Holdout[command[p].def] \in Scores /\ command[p].def \in Definitions
    BY <1>0, <1>2, PromotionAssumption DEF register_model, CommandIsEarned
  <2> PICK c : c = [command[p] EXCEPT !.pc = "save", !.target = "research",
                                      !.score = Holdout[command[p].def]]
    OBVIOUS
  <2>2. c \in Commands /\ c.pc = "save" /\ c.target = "research" /\ c.score \in Scores
    BY <1>0, <2>1 DEF Commands, Stages
  <2>3. CommandIsEarned(c)'
    BY <2>2 DEF CommandIsEarned, Earned, Stages
  <2>4. command' = [command EXCEPT ![p] = c]
    BY <1>2 DEF register_model, PromotionInv, TypeOK, Commands
  <2>5. command' \in [Processes -> Commands] /\ CommandsAreEarned'
    BY <1>2, <2>2, <2>3, <2>4, CommandChanged DEF register_model
  <2>6. stage' \in Stages /\ (stage' = "research" \/ stage' = stage)
    BY <1>2 DEF register_model, PromotionInv, TypeOK, Stages
  <2>7. Earned(stage)'
    BY <1>2, <2>6 DEF register_model, PromotionInv, StageIsEarned, Earned, Approved
  <2> QED
    BY <1>2, <2>1, <2>5, <2>6, <2>7 DEF register_model, PromotionInv, TypeOK, StageIsEarned,
       EvidenceIsEarned, Earned, Approved
<1>3. CASE save_evidence(p)
  <2>1. command' \in [Processes -> Commands] /\ CommandsAreEarned'
    BY <1>3, IdleIsEarned, CommandChanged DEF save_evidence, Finish
  <2>2. /\ command[p].target \in Stages /\ command[p].score \in Scores
        /\ Earned(command[p].target)
    BY <1>0, <1>3 DEF save_evidence, CommandIsEarned
  <2>3. \A s : Earned(s) => Earned(s)'
    BY <1>3, EarnedStays DEF save_evidence
  <2>4. evidence' \in [Stages -> Scores \cup {None}] /\ EvidenceIsEarned'
    BY <1>3, <2>2, <2>3 DEF save_evidence, PromotionInv, TypeOK, EvidenceIsEarned
  <2> QED
    BY <1>3, <2>1, <2>3, <2>4 DEF save_evidence, PromotionInv, TypeOK, StageIsEarned
<1> QED
  BY <1>1, <1>2, <1>3 DEF RegisterStep

\* Shadow sessions and recorded results keep the invariant.
LEMMA SessionKeeps ==
  ASSUME PromotionInv, NEW p \in Processes, SessionStep(p) PROVE PromotionInv'
<1>0. command[p] \in Commands /\ CommandIsEarned(command[p])
  BY DEF PromotionInv, TypeOK, CommandsAreEarned
<1>1. ASSUME NEW s \in Stages, NEW score \in Scores, RecordEvidence(p, s, score)
      PROVE  PromotionInv'
  <2> DEFINE c == [command[p] EXCEPT !.pc = "save", !.target = s, !.score = score]
  <2>1. c \in Commands /\ c.pc = "save" /\ c.target = s /\ c.score = score
    BY <1>0 DEF Commands
  <2>2. Earned(s)
    BY <1>1 DEF RecordEvidence, PromotionInv, StageIsEarned
  <2>3. CommandIsEarned(c)
    BY <2>1, <2>2 DEF CommandIsEarned
  <2>4. command' = [command EXCEPT ![p] = c]
    BY <1>1 DEF RecordEvidence, PromotionInv, TypeOK, Commands
  <2> HIDE DEF c
  <2> QED
    BY <1>1, <2>1, <2>3, <2>4, OnlyCommandChanged DEF RecordEvidence
<1>2. CASE ShadowStart(p)
  <2> DEFINE c == [command[p] EXCEPT !.pc = "trading"]
  <2>1. c \in Commands /\ c.pc = "trading"
    BY <1>0 DEF Commands
  <2>2. Earned("shadow")
    BY <1>2 DEF ShadowStart, PromotionInv, StageIsEarned
  <2>3. CommandIsEarned(c)
    BY <2>1, <2>2 DEF CommandIsEarned
  <2>4. command' = [command EXCEPT ![p] = c]
    BY <1>2 DEF ShadowStart, Continue, PromotionInv, TypeOK, Commands
  <2> HIDE DEF c
  <2> QED
    BY <1>2, <2>1, <2>3, <2>4, OnlyCommandChanged DEF ShadowStart
<1>3. ASSUME NEW score \in Scores, ShadowStop(p, score) PROVE PromotionInv'
  <2> DEFINE c == [command[p] EXCEPT !.pc = "save", !.target = "shadow", !.score = score]
  <2>1. c \in Commands /\ c.pc = "save" /\ c.target = "shadow" /\ c.score = score
    BY <1>0 DEF Commands, Stages
  <2>2. Earned("shadow")
    BY <1>0, <1>3 DEF ShadowStop, CommandIsEarned
  <2>3. CommandIsEarned(c)
    BY <2>1, <2>2 DEF CommandIsEarned, Stages
  <2>4. command' = [command EXCEPT ![p] = c]
    BY <1>3 DEF ShadowStop, PromotionInv, TypeOK, Commands
  <2> HIDE DEF c
  <2> QED
    BY <1>3, <2>1, <2>3, <2>4, OnlyCommandChanged DEF ShadowStop
<1> QED
  BY <1>1, <1>2, <1>3 DEF SessionStep

\* Promotions keep the invariant: the audit event is written before the stage.
LEMMA PromoteKeeps ==
  ASSUME PromotionInv, NEW p \in Processes, PromoteStep(p) PROVE PromotionInv'
<1>0. command[p] \in Commands /\ CommandIsEarned(command[p])
  BY DEF PromotionInv, TypeOK, CommandsAreEarned
<1>1. ASSUME NEW d \in Definitions, NEW target \in Stages, PromoteRead(p, d, target)
      PROVE  PromotionInv'
  <2> DEFINE c == [pc |-> "evidence", def |-> d, from |-> stage, target |-> target,
                   score |-> None]
  <2>1. c \in Commands
    BY DEF Commands, PromotionInv, TypeOK
  <2>2. CommandIsEarned(c)
    BY <1>1 DEF PromoteRead, CommandIsEarned, PromotionInv, StageIsEarned
  <2>3. command' = [command EXCEPT ![p] = c]
    BY <1>1 DEF PromoteRead
  <2> HIDE DEF c
  <2> QED
    BY <1>1, <2>1, <2>2, <2>3, OnlyCommandChanged DEF PromoteRead
<1>2. CASE latest_evidence(p)
  <2> DEFINE c == [command[p] EXCEPT !.pc = "record", !.score = evidence[command[p].from]]
  <2>1. /\ command[p].pc = "evidence"
        /\ valid_transition(command[p].from, command[p].target) /\ Earned(command[p].from)
    BY <1>0, <1>2 DEF latest_evidence, CommandIsEarned
  <2>2. evidence[command[p].from] \in Scores \cup {None}
    BY <2>1 DEF valid_transition, PromotionInv, TypeOK, Stages
  <2>3. /\ c \in Commands /\ c.pc = "record"
        /\ c.from = command[p].from /\ c.target = command[p].target
    BY <1>0, <2>2 DEF Commands
  <2>4. CommandIsEarned(c)
    BY <2>1, <2>3 DEF CommandIsEarned
  <2>5. command' = [command EXCEPT ![p] = c]
    BY <1>2 DEF latest_evidence, PromotionInv, TypeOK, Commands
  <2> HIDE DEF c
  <2> QED
    BY <1>2, <2>3, <2>4, <2>5, OnlyCommandChanged DEF latest_evidence
<1>3. CASE record_event(p)
  <2> DEFINE approved == passes_policy(command[p].score, command[p].def)
             event == [from |-> command[p].from, to |-> command[p].target,
                       approved |-> approved]
  <2> PICK c : c = [command[p] EXCEPT !.pc = "update"]
    OBVIOUS
  <2>1. valid_transition(command[p].from, command[p].target) /\ Earned(command[p].from)
    BY <1>0, <1>3 DEF record_event, CommandIsEarned
  <2>2. /\ event \in [from : Stages, to : Stages, approved : BOOLEAN]
        /\ valid_transition(event.from, event.to)
    BY <2>1 DEF valid_transition, passes_policy, Stages
  <2>3. events' = events \cup {event}
    BY <1>3 DEF record_event
  <2>4. event.to = command[p].target /\ event.approved = approved
    OBVIOUS
  <2>5. /\ c \in Commands /\ c.pc = "update"
        /\ c.from = command[p].from /\ c.target = command[p].target
    BY <1>0 DEF Commands
  <2>6. \A s : Earned(s) => Earned(s)'
    BY <2>3, EarnedStays
  <2>7. approved => Approved(c.target)'
    BY <2>3, <2>4, <2>5 DEF Approved
  <2>8. approved => CommandIsEarned(c)'
    BY <1>3, <2>1, <2>5, <2>6, <2>7 DEF CommandIsEarned
  <2>9. \/ approved /\ command' = [command EXCEPT ![p] = c]
        \/ command' = [command EXCEPT ![p] = Idle]
    BY <1>3 DEF record_event, Continue, Finish, PromotionInv, TypeOK, Commands
  <2> HIDE DEF event, approved
  <2>10. command' \in [Processes -> Commands] /\ CommandsAreEarned'
    BY <2>3, <2>5, <2>8, <2>9, IdleIsEarned, CommandChanged
  <2> QED
    BY <1>3, <2>2, <2>3, <2>6, <2>10 DEF record_event, PromotionInv, TypeOK, StageIsEarned,
       EvidenceIsEarned
<1>4. CASE PromoteUpdate(p)
  <2>1. command' \in [Processes -> Commands] /\ CommandsAreEarned'
    BY <1>4, IdleIsEarned, CommandChanged DEF PromoteUpdate, Finish
  <2>2. /\ valid_transition(command[p].from, command[p].target)
        /\ Earned(command[p].from) /\ Approved(command[p].target)
    BY <1>0, <1>4 DEF PromoteUpdate, CommandIsEarned
  <2>3. command[p].target \in Stages /\ Earned(command[p].target)
    BY <2>2, NextStageEarned DEF valid_transition, Stages
  <2> QED
    BY <1>4, <2>1, <2>3 DEF PromoteUpdate, PromotionInv, TypeOK, StageIsEarned,
       EvidenceIsEarned, Earned, Approved
<1> QED
  BY <1>1, <1>2, <1>3, <1>4 DEF PromoteStep

\* Every step keeps the invariant.
LEMMA NextPromotionInv == PromotionInv /\ [Next]_vars => PromotionInv'
<1> SUFFICES ASSUME PromotionInv, [Next]_vars PROVE PromotionInv'
  OBVIOUS
<1>1. ASSUME NEW p \in Processes, Abort(p) PROVE PromotionInv'
  BY <1>1, IdleIsEarned, OnlyCommandChanged DEF Abort, Finish
<1>2. ASSUME NEW d \in Definitions, PaperStart(d) PROVE PromotionInv'
  BY <1>2 DEF PaperStart, PromotionInv, TypeOK, StageIsEarned, EvidenceIsEarned, CommandsAreEarned, CommandIsEarned, Earned, Approved
<1>3. CASE PaperStop \/ UNCHANGED vars
  BY <1>3 DEF PaperStop, vars, PromotionInv, TypeOK, StageIsEarned, EvidenceIsEarned, CommandsAreEarned, CommandIsEarned, Earned, Approved
<1> QED
  BY <1>1, <1>2, <1>3, RegisterKeeps, SessionKeeps, PromoteKeeps DEF Next

LEMMA SpecPromotionInv == Spec => []PromotionInv
  BY InitPromotionInv, NextPromotionInv, PTL DEF Spec

\* However many commands overlap and fail, the stage of a model rests on an
\* audited chain of approved promotions.
THEOREM StageAlwaysEarned == Spec => []StageIsEarned
<1>1. PromotionInv => StageIsEarned
  BY DEF PromotionInv
<1> QED
  BY <1>1, SpecPromotionInv, PTL

\* Evidence is only ever held for stages the model was promoted into.
THEOREM EvidenceAlwaysEarned == Spec => []EvidenceIsEarned
<1>1. PromotionInv => EvidenceIsEarned
  BY DEF PromotionInv
<1> QED
  BY <1>1, SpecPromotionInv, PTL

\* No command takes a promoted model back to research.
THEOREM PromotedStaysPromoted == Spec => NeverBackToResearch
<1>1. PromotionInv /\ [Next]_vars =>
        [stage # None => stage' # None /\ (stage' = "research" => stage = "research")]_vars
  <2> SUFFICES ASSUME PromotionInv, Next, stage # None
               PROVE  stage' # None /\ (stage' = "research" => stage = "research")
    BY DEF vars
  <2>1. ASSUME NEW p \in Processes, PromoteUpdate(p) PROVE stage' \in Stages \ {"research"}
    BY <2>1 DEF PromoteUpdate, PromotionInv, CommandsAreEarned, CommandIsEarned,
       valid_transition, Stages
  <2>2. CASE UNCHANGED stage
    BY <2>2
  <2>3. ASSUME NEW p \in Processes, RegisterStep(p) PROVE UNCHANGED stage
    BY <2>3 DEF RegisterStep, RegisterValidate, register_model, save_evidence
  <2>4. ASSUME NEW p \in Processes, SessionStep(p) \/ Abort(p) PROVE UNCHANGED stage
    BY <2>4 DEF SessionStep, RecordEvidence, ShadowStart, ShadowStop, Abort
  <2>5. ASSUME NEW p \in Processes, PromoteStep(p) PROVE PromoteUpdate(p) \/ UNCHANGED stage
    BY <2>5 DEF PromoteStep, PromoteRead, latest_evidence, record_event
  <2>6. CASE (\E d \in Definitions : PaperStart(d)) \/ PaperStop
    BY <2>6 DEF PaperStart, PaperStop
  <2>7. None \notin Stages
    BY PromotionAssumption
  <2> QED
    BY <2>1, <2>2, <2>3, <2>4, <2>5, <2>6, <2>7 DEF Next
<1> QED
  BY <1>1, SpecPromotionInv, PTL DEF Spec, NeverBackToResearch
=============================================================================
