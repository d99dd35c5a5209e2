----------------------------- MODULE PoolProofs -----------------------------
(***************************************************************************)
(* First, what holds of the stratum pool for any daemons, shares, jobs and *)
(* auxiliary chains, whatever calls fail and wherever the process ends.    *)
(* Then merged mining: it does to the parent chain only what StratumPool   *)
(* says, so the composition implements it, for any auxiliary chains,       *)
(* overlapping updates, shares and failures.  Last the outputs of the      *)
(* coinbase transaction, for any templates, recipients and payees.         *)
(***************************************************************************)
EXTENDS MergedMining, CoinbaseOutputs, SumLemmas

(* A block under way to a daemon was mined on a job of the chain.          *)
MinedOnJob ==
    \A s \in Shares, d \in Daemons :
        Sent(s, d) => mined[s] \in Job /\ mined[s].prev.height < MaxHeight

PoolInv == TypeOK /\ MinedOnJob

LEMMA InitPool == Init => PoolInv
<1> SUFFICES ASSUME Init PROVE PoolInv
  OBVIOUS
<1>1. Origin \in Block
  BY HeightAssumption DEF Origin, Block
<1>2. emitted \in Seq(Event)
  BY DEF Init
<1>3. faults \in 0 .. MaxFaults
  BY FaultAssumption DEF Init
<1> QED  BY <1>1, <1>2, <1>3 DEF Init, PoolInv, TypeOK, MinedOnJob, Sent, Stage,
             Purpose, Handling, Verdict

-----------------------------------------------------------------------------
(* The helpers.                                                            *)

LEMMA FailsType ==
    ASSUME NEW kind, PoolInv, Fails(kind)
    PROVE  faults' \in 0 .. MaxFaults
  BY FaultAssumption DEF PoolInv, TypeOK, Fails

LEMMA SwitchType ==
    ASSUME PoolInv, NEW d \in Daemons, NEW b \in Block, SwitchTo(d, b)
    PROVE  tip' \in [Daemons -> Block] /\ notices' \subseteq Block
  BY DEF PoolInv, TypeOK, SwitchTo

LEMMA StoreType ==
    ASSUME PoolInv, NEW s \in Shares, NEW d \in Daemons, Sent(s, d), Store(d, s)
    PROVE  /\ tip' \in [Daemons -> Block] /\ notices' \subseteq Block
           /\ known' \in [Daemons -> SUBSET Shares]
<1>1. BlockOf(s) \in Block
  BY HeightAssumption DEF PoolInv, MinedOnJob, BlockOf, Job, Block
<1>2. SwitchTo(d, BlockOf(s))
  BY DEF Store
<1>3. known' \in [Daemons -> SUBSET Shares]
  BY DEF PoolInv, TypeOK, Store
<1> QED  BY <1>1, <1>2, <1>3, SwitchType

LEMMA AskType ==
    ASSUME PoolInv, NEW c \in Calls, NEW purpose \in Purpose, AskFor(c, purpose)
    PROVE  /\ calls' \in [Calls -> Purpose]
           /\ requests' \subseteq Calls \X Daemons
           /\ answers' \subseteq [call : Calls, daemon : Daemons, prev : Block]
  BY DEF PoolInv, TypeOK, AskFor

LEMMA EventType ==
    ASSUME PoolInv, NEW s \in Shares, NEW valid \in BOOLEAN, NEW block \in BOOLEAN
    PROVE  /\ Append(emitted, ShareEvent(s, valid, FALSE)) \in Seq(Event)
           /\ emitted \o <<ShareEvent(s, TRUE, block), BlockEvent(s, block)>>
                  \in Seq(Event)
<1>1. \A v, b \in BOOLEAN : ShareEvent(s, v, b) \in Event /\ BlockEvent(s, b) \in Event
  BY DEF ShareEvent, BlockEvent, Event
<1>2. emitted \in Seq(Event)
  BY DEF PoolInv, TypeOK
<1> DEFINE x == ShareEvent(s, valid, FALSE)
           y == ShareEvent(s, TRUE, block)
           z == BlockEvent(s, block)
<1>3. x \in Event /\ y \in Event /\ z \in Event
  BY <1>1
<1> HIDE DEF x, y, z
<1>4. Append(emitted, x) \in Seq(Event)
  BY <1>2, <1>3
<1>5. emitted \o <<y, z>> \in Seq(Event)
  BY <1>2, <1>3
<1> QED  BY <1>4, <1>5 DEF x, y, z

LEMMA RestartType ==
    ASSUME PoolInv, Restart, faults' \in 0 .. MaxFaults
    PROVE  PoolInv'
<1> USE DEF Restart
<1>1. UNCHANGED <<synced, tip, known, notices, mined, submit, emitted>>
  BY DEF daemonVars
<1>2. /\ stage' \in Stage
      /\ calls' \in [Calls -> Purpose]
      /\ auxWork' \in [Auxes -> Works \cup {NoWork}]
  BY DEF Stage, Purpose
<1>3. pc' \in [Shares -> Handling]
  BY DEF PoolInv, TypeOK, Handling
<1>4. spoilt' \subseteq Shares
  BY DEF PoolInv, TypeOK
<1>5. requests' = {} /\ answers' = {} /\ job' = NoJob /\ issued' = {}
      /\ rebroadcast' \in BOOLEAN
  OBVIOUS
<1>6. TypeOK'
  BY <1>1, <1>2, <1>3, <1>4, <1>5 DEF PoolInv, TypeOK
<1>7. MinedOnJob'
  BY <1>1 DEF PoolInv, MinedOnJob, Sent
<1> QED  BY <1>6, <1>7 DEF PoolInv

-----------------------------------------------------------------------------
(* The daemons.                                                            *)

LEMMA NodeType == PoolInv /\ NodeStep => PoolInv'
<1> SUFFICES ASSUME PoolInv, NEW d \in Daemons,
                    \/ Synchronised(d) \/ NetworkBlock(d) \/ CatchUp(d)
                    \/ \E c \in Calls : TemplateBuilt(c, d) \/ TemplateFails(c, d)
                    \/ \E s \in Shares : Submitted(s, d) \/ SubmitFails(s, d)
             PROVE  PoolInv'
  BY DEF NodeStep
<1> USE DEF callVars, jobVars, shareVars, daemonVars
<1>1. CASE Synchronised(d)
  BY <1>1 DEF Synchronised, PoolInv, TypeOK, MinedOnJob, Sent
<1>2. CASE NetworkBlock(d)
  <2>1. [height |-> tip[d].height + 1, by |-> Network] \in Block
    BY <1>2, HeightAssumption DEF NetworkBlock, PoolInv, TypeOK, Block
  <2>2. tip' \in [Daemons -> Block] /\ notices' \subseteq Block
    BY <1>2, <2>1, SwitchType DEF NetworkBlock
  <2> QED  BY <1>2, <2>2 DEF NetworkBlock, PoolInv, TypeOK, MinedOnJob, Sent
<1>3. CASE CatchUp(d)
  <2>1. PICK e \in Daemons :
            /\ SwitchTo(d, tip[e])
            /\ known' = [known EXCEPT ![d] = @ \cup known[e]]
    BY <1>3 DEF CatchUp
  <2>2. tip' \in [Daemons -> Block] /\ notices' \subseteq Block
    BY <2>1, SwitchType DEF PoolInv, TypeOK
  <2>3. known' \in [Daemons -> SUBSET Shares]
    BY <2>1 DEF PoolInv, TypeOK
  <2> QED  BY <1>3, <2>2, <2>3 DEF CatchUp, PoolInv, TypeOK, MinedOnJob, Sent
<1>4. ASSUME NEW c \in Calls, TemplateBuilt(c, d) PROVE PoolInv'
  BY <1>4 DEF TemplateBuilt, PoolInv, TypeOK, MinedOnJob, Sent
<1>5. ASSUME NEW c \in Calls, TemplateFails(c, d) PROVE PoolInv'
  <2>1. faults' \in 0 .. MaxFaults
    BY <1>5, FailsType DEF TemplateFails, PoolInv, TypeOK
  <2>2. calls' \in [Calls -> Purpose] /\ stage' \in Stage
    BY <1>5 DEF TemplateFails, PoolInv, TypeOK, Purpose, Stage
  <2> QED  BY <1>5, <2>1, <2>2 DEF TemplateFails, PoolInv, TypeOK, MinedOnJob, Sent
<1>6. ASSUME NEW s \in Shares, Submitted(s, d) PROVE PoolInv'
  <2>1. submit' \in [Shares -> [Daemons -> Verdict]]
    BY <1>6 DEF Submitted, SubmitAnswer, PoolInv, TypeOK, Verdict
  <2>2. /\ tip' \in [Daemons -> Block] /\ notices' \subseteq Block
        /\ known' \in [Daemons -> SUBSET Shares]
    BY <1>6, StoreType DEF Submitted, PoolInv, TypeOK
  <2>3. MinedOnJob'
    BY <1>6 DEF Submitted, SubmitAnswer, PoolInv, TypeOK, MinedOnJob, Sent
  <2> QED  BY <1>6, <2>1, <2>2, <2>3 DEF Submitted, PoolInv, TypeOK
<1>7. ASSUME NEW s \in Shares, SubmitFails(s, d) PROVE PoolInv'
  <2>1. PICK v \in {"refused", "rejected", "error", "silent"} :
            submit' = [submit EXCEPT ![s][d] = v]
    BY <1>7 DEF SubmitFails
  <2>2. submit' \in [Shares -> [Daemons -> Verdict]]
    BY <2>1 DEF PoolInv, TypeOK, Verdict
  <2>3. /\ tip' \in [Daemons -> Block] /\ notices' \subseteq Block
        /\ known' \in [Daemons -> SUBSET Shares]
    BY <1>7, StoreType DEF SubmitFails, PoolInv, TypeOK
  <2>4. MinedOnJob'
    BY <1>7, <2>1 DEF SubmitFails, PoolInv, TypeOK, MinedOnJob, Sent
  <2>5. faults' \in 0 .. MaxFaults
    BY <1>7, FailsType DEF SubmitFails
  <2> QED  BY <1>7, <2>2, <2>3, <2>4, <2>5 DEF SubmitFails, PoolInv, TypeOK
<1> QED  BY <1>1, <1>2, <1>3, <1>4, <1>5, <1>6, <1>7

-----------------------------------------------------------------------------
(* The start.                                                              *)

LEMMA StartType == PoolInv /\ StartStep => PoolInv'
<1> SUFFICES ASSUME PoolInv, StartStep PROVE PoolInv'
  OBVIOUS
<1>1. stage' \in Stage
  BY DEF StartStep, SetupDaemonInterfaces, DetectCoinData, StartFails, CheckSynced,
         Stage, PoolInv, TypeOK
<1>2. faults' \in 0 .. MaxFaults
  BY FailsType DEF StartStep, SetupDaemonInterfaces, DetectCoinData, StartFails,
         CheckSynced, PoolInv, TypeOK
<1>3. UNCHANGED <<daemonVars, callVars, auxWork, jobVars, shareVars>>
  BY DEF StartStep, SetupDaemonInterfaces, DetectCoinData, StartFails, CheckSynced
<1> QED  BY <1>1, <1>2, <1>3 DEF PoolInv, TypeOK, MinedOnJob, Sent, daemonVars,
             callVars, jobVars, shareVars

LEMMA AuxesType == PoolInv /\ UpdateAuxes => PoolInv'
<1> SUFFICES ASSUME PoolInv, UpdateAuxes PROVE PoolInv'
  OBVIOUS
<1>1. stage' \in Stage
  BY DEF UpdateAuxes, Stage, PoolInv, TypeOK
<1>2. /\ calls' \in [Calls -> Purpose]
      /\ requests' \subseteq Calls \X Daemons
      /\ answers' \subseteq [call : Calls, daemon : Daemons, prev : Block]
  <2>1. CASE UNCHANGED callVars
    BY <2>1 DEF PoolInv, TypeOK, callVars
  <2>2. CASE \E c \in Calls, purpose \in Purpose : AskFor(c, purpose)
    BY <2>2, AskType
  <2> QED  BY <2>1, <2>2 DEF UpdateAuxes, Purpose
<1>3. faults' \in 0 .. MaxFaults
  BY FailsType DEF UpdateAuxes, PoolInv, TypeOK
<1> QED  BY <1>1, <1>2, <1>3 DEF UpdateAuxes, PoolInv, TypeOK, MinedOnJob, Sent,
             daemonVars, jobVars, shareVars

-----------------------------------------------------------------------------
(* New work.                                                               *)

LEMMA WorkType == PoolInv /\ WorkStep => PoolInv'
<1> SUFFICES ASSUME PoolInv, WorkStep PROVE PoolInv'
  OBVIOUS
<1> USE DEF daemonVars, callVars, jobVars, shareVars
<1>1. ASSUME NEW m \in answers, TemplateArrives(m) PROVE PoolInv'
  <2> DEFINE new == [prev |-> m.prev, aux |-> auxWork]
  <2>1. m \in [call : Calls, daemon : Daemons, prev : Block]
    BY DEF PoolInv, TypeOK
  <2>2. new \in Job
    BY <2>1 DEF PoolInv, TypeOK, Job
  <2>3. stage' \in Stage
    BY <1>1 DEF TemplateArrives, PoolInv, TypeOK, Stage
  <2>4. calls' \in [Calls -> Purpose]
    BY <1>1, <2>1 DEF TemplateArrives, PoolInv, TypeOK, Purpose, Rest
  <2>5. /\ job' \in Job \cup {NoJob} /\ issued' \subseteq Job
        /\ rebroadcast' \in BOOLEAN
    <3>1. \/ ProcessTemplate(new) /\ rebroadcast' \in BOOLEAN
          \/ UpdateCurrentJob(new) /\ rebroadcast' \in BOOLEAN
          \/ UNCHANGED jobVars
      BY <1>1 DEF TemplateArrives
    <3> QED  BY <2>2, <3>1 DEF ProcessTemplate, UpdateCurrentJob, PoolInv, TypeOK
  <2> QED  BY <1>1, <2>3, <2>4, <2>5 DEF TemplateArrives, PoolInv, TypeOK, MinedOnJob, Sent
<1>2. ASSUME NEW c \in Calls, Poll(c) PROVE PoolInv'
  BY <1>2, AskType DEF Poll, PoolInv, TypeOK, MinedOnJob, Sent, Purpose
<1>3. ASSUME NEW c \in Calls, BroadcastTimeout(c) PROVE PoolInv'
  BY <1>3, AskType DEF BroadcastTimeout, PoolInv, TypeOK, MinedOnJob, Sent, Purpose
<1>4. ASSUME NEW b \in notices, ProcessBlockNotify(b) PROVE PoolInv'
  <2>1. /\ calls' \in [Calls -> Purpose]
        /\ requests' \subseteq Calls \X Daemons
        /\ answers' \subseteq [call : Calls, daemon : Daemons, prev : Block]
    BY <1>4, AskType DEF ProcessBlockNotify, PoolInv, TypeOK, Purpose
  <2> QED  BY <1>4, <2>1 DEF ProcessBlockNotify, PoolInv, TypeOK, MinedOnJob, Sent
<1>5. ASSUME NEW b \in notices, NoticeLost(b) PROVE PoolInv'
  BY <1>5, FailsType DEF NoticeLost, PoolInv, TypeOK, MinedOnJob, Sent
<1> QED  BY <1>1, <1>2, <1>3, <1>4, <1>5 DEF WorkStep

-----------------------------------------------------------------------------
(* Shares.                                                                 *)

LEMMA ShareType == PoolInv /\ ShareStep => PoolInv'
<1> SUFFICES ASSUME PoolInv, ShareStep PROVE PoolInv'
  OBVIOUS
<1> USE DEF daemonVars, callVars, jobVars, shareVars
<1>1. ASSUME NEW s \in Shares, NEW j \in issued, NEW valid \in BOOLEAN,
             PlainShare(s, j, valid)
      PROVE  PoolInv'
  <2>1. emitted' \in Seq(Event)
    BY <1>1, EventType DEF PlainShare
  <2> QED  BY <1>1, <2>1 DEF PlainShare, PoolInv, TypeOK, MinedOnJob, Sent, Handling
<1>2. ASSUME NEW s \in Shares, NEW j \in issued, BlockShare(s, j) PROVE PoolInv'
  <2>1. j \in Job /\ j.prev.height < MaxHeight
    BY <1>2 DEF BlockShare, PoolInv, TypeOK
  <2>2. MinedOnJob'
    BY <1>2, <2>1 DEF BlockShare, PoolInv, TypeOK, MinedOnJob, Sent
  <2>3. submit' \in [Shares -> [Daemons -> Verdict]]
    BY <1>2 DEF BlockShare, PoolInv, TypeOK, Verdict
  <2> QED  BY <1>2, <2>1, <2>2, <2>3 DEF BlockShare, PoolInv, TypeOK, Handling
<1>3. ASSUME NEW s \in Shares, SubmitDone(s) PROVE PoolInv'
  BY <1>3 DEF SubmitDone, PoolInv, TypeOK, MinedOnJob, Sent, Handling
<1>4. ASSUME NEW s \in Shares, NEW c \in Calls, CheckBlockAccepted(s, c)
      PROVE  PoolInv'
  <2>1. PICK unheard \in SUBSET Daemons :
            /\ IF unheard = {} THEN UNCHANGED <<faults, spoilt>>
               ELSE Fails("check") /\ spoilt' = spoilt \cup {s}
            /\ emitted' = emitted \o <<ShareEvent(s, TRUE, IsAccepted(s, unheard)),
                                       BlockEvent(s, IsAccepted(s, unheard))>>
    BY <1>4 DEF CheckBlockAccepted
  <2>2. IsAccepted(s, unheard) \in BOOLEAN
    BY DEF IsAccepted
  <2>3. emitted' \in Seq(Event)
    BY <2>1, <2>2, EventType
  <2>4. faults' \in 0 .. MaxFaults /\ spoilt' \subseteq Shares
    BY <2>1, FailsType DEF PoolInv, TypeOK
  <2>5. /\ calls' \in [Calls -> Purpose]
        /\ requests' \subseteq Calls \X Daemons
        /\ answers' \subseteq [call : Calls, daemon : Daemons, prev : Block]
    BY <1>4, AskType DEF CheckBlockAccepted, Purpose
  <2> QED  BY <1>4, <2>3, <2>4, <2>5 DEF CheckBlockAccepted, PoolInv, TypeOK,
              MinedOnJob, Sent, Handling
<1> QED  BY <1>1, <1>2, <1>3, <1>4 DEF ShareStep

LEMMA NextPool == PoolInv /\ [Next]_vars => PoolInv'
<1> SUFFICES ASSUME PoolInv, [Next]_vars PROVE PoolInv'
  OBVIOUS
<1>1. CASE Crash
  BY <1>1, FailsType, RestartType DEF Crash, PoolInv, TypeOK
<1>2. CASE UNCHANGED vars
  BY <1>2 DEF vars, daemonVars, callVars, jobVars, shareVars, PoolInv, TypeOK,
              MinedOnJob, Sent
<1> QED  BY <1>1, <1>2, NodeType, StartType, AuxesType, WorkType, ShareType DEF Next

LEMMA PoolInvariant == Spec => []PoolInv
  BY InitPool, NextPool, PTL DEF Spec

(* Every variable keeps its type, for any number of daemons, calls and     *)
(* auxiliary chains; a block is never higher than one above the last job.  *)
THEOREM PoolTypeCorrect == Spec => []TypeOK
<1>1. PoolInv => TypeOK
  BY DEF PoolInv
<1> QED  BY <1>1, PoolInvariant, PTL

-----------------------------------------------------------------------------
(* A block that was found is recorded.  The argument follows the block:    *)
(* what a job builds on, some daemon has; that daemon takes the block or   *)
(* has it already; no daemon loses a block, so one of them returns it to   *)
(* CheckBlockAccepted.                                                     *)

Held(b)   == \E d \in Daemons : Has(d, b)
Stored(s) == \E d \in Daemons : s \in known[d]

TipHeld  == \A d \in Daemons : Has(d, tip[d])
WorkHeld == /\ \A m \in answers : Held(m.prev)
            /\ \A j \in issued : Held(j.prev)

Arriving(s) ==
    \E d \in Daemons :
        (Sent(s, d) /\ Has(d, mined[s].prev)) \/ s \in known[d]

NotTurnedDown(s) ==
    \A d \in Daemons : submit[s][d] \in {"sent", "accepted", "duplicate", "refused"}

OnItsWay(s) ==
    /\ pc[s] = "submitting" => Arriving(s) /\ NotTurnedDown(s)
    /\ pc[s] = "checking" => Stored(s)
    /\ pc[s] \in {"emitted", "dropped"} => Recorded(s)

ShareHeld(s) ==
    /\ pc[s] = "unsent" => mined[s] = NoJob
    /\ mined[s] # NoJob /\ s \notin spoilt => OnItsWay(s)

FoundInv == TipHeld /\ WorkHeld /\ \A s \in Shares : ShareHeld(s)

(* What a step changes of the daemons.                                     *)
LEMMA DaemonChanges ==
    ASSUME [Next]_vars
    PROVE  \/ UNCHANGED <<tip, known>>
           \/ \E d \in Daemons :
                 \/ NetworkBlock(d) \/ CatchUp(d)
                 \/ \E s \in Shares : Store(d, s)
<1>1. CASE NodeStep
  <2>1. PICK e \in Daemons :
            \/ Synchronised(e) \/ NetworkBlock(e) \/ CatchUp(e)
            \/ \E c \in Calls : TemplateBuilt(c, e) \/ TemplateFails(c, e)
            \/ \E s \in Shares : Submitted(s, e) \/ SubmitFails(s, e)
    BY <1>1 DEF NodeStep
  <2> QED  BY <2>1 DEF Synchronised, TemplateBuilt, TemplateFails, Submitted,
                SubmitFails, daemonVars
<1>2. CASE ~NodeStep
  BY <1>2 DEF Next, vars, daemonVars, StartStep, SetupDaemonInterfaces, DetectCoinData,
              StartFails, CheckSynced, WorkStep, TemplateArrives, Poll, BroadcastTimeout,
              ProcessBlockNotify, NoticeLost, ShareStep, PlainShare, BlockShare,
              SubmitDone, CheckBlockAccepted, UpdateAuxes, Crash, Restart
<1> QED  BY <1>1, <1>2

(* A daemon loses no block and its chain gets no lower.                    *)
LEMMA DaemonsGrow ==
    ASSUME PoolInv, [Next]_vars, NEW d \in Daemons
    PROVE  known[d] \subseteq known'[d] /\ tip[d].height =< tip'[d].height
<1>1. /\ known \in [Daemons -> SUBSET Shares] /\ tip \in [Daemons -> Block]
      /\ tip[d].height \in Int
  BY HeightAssumption DEF PoolInv, TypeOK, Block
<1>2. ASSUME NEW e \in Daemons, NEW b, SwitchTo(e, b)
      PROVE  tip[d].height =< tip'[d].height
  <2>1. CASE b.height > tip[e].height /\ d = e
    <3>1. tip'[d] = b /\ b.height > tip[d].height
      BY <1>1, <1>2, <2>1 DEF SwitchTo
    <3>2. tip'[d] \in Block
      BY NextPool DEF PoolInv, TypeOK
    <3>3. tip'[d].height \in Int
      BY <3>2, HeightAssumption DEF Block
    <3> QED  BY <1>1, <3>1, <3>3
  <2>2. CASE ~(b.height > tip[e].height /\ d = e)
    <3>1. tip'[d] = tip[d]
      BY <1>1, <1>2, <2>2 DEF SwitchTo
    <3> QED  BY <1>1, <3>1
  <2> QED  BY <2>1, <2>2
<1>3. ASSUME NEW e \in Daemons, NEW s \in Shares, Store(e, s)
      PROVE  known[d] \subseteq known'[d] /\ tip[d].height =< tip'[d].height
  BY <1>1, <1>2, <1>3 DEF Store
<1>4. ASSUME NEW e \in Daemons, CatchUp(e)
      PROVE  known[d] \subseteq known'[d] /\ tip[d].height =< tip'[d].height
  <2>1. known[d] \subseteq known'[d]
    BY <1>1, <1>4 DEF CatchUp
  <2> QED  BY <1>2, <1>4, <2>1 DEF CatchUp
<1>5. ASSUME NEW e \in Daemons, NetworkBlock(e)
      PROVE  known[d] \subseteq known'[d] /\ tip[d].height =< tip'[d].height
  BY <1>2, <1>5 DEF NetworkBlock
<1>6. CASE UNCHANGED <<tip, known>>
  BY <1>1, <1>6
<1> QED  BY <1>3, <1>4, <1>5, <1>6, DaemonChanges

LEMMA HasStays ==
    ASSUME PoolInv, PoolInv', [Next]_vars, NEW d \in Daemons, NEW b \in Block, Has(d, b)
    PROVE  Has(d, b)'
<1>1. /\ b.height \in Int /\ tip[d].height \in Int /\ tip'[d].height \in Int
      /\ tip[d].height =< tip'[d].height /\ known[d] \subseteq known'[d]
  BY DaemonsGrow, HeightAssumption DEF PoolInv, TypeOK, Block
<1> QED  BY <1>1 DEF Has

LEMMA TipHeldNext ==
    ASSUME PoolInv, PoolInv', TipHeld, [Next]_vars
    PROVE  TipHeld'
<1> SUFFICES ASSUME NEW d \in Daemons PROVE Has(d, tip[d])'
  BY DEF TipHeld
<1>1. /\ known \in [Daemons -> SUBSET Shares] /\ tip \in [Daemons -> Block]
      /\ tip' \in [Daemons -> Block] /\ tip'[d].height \in Int
  BY HeightAssumption DEF PoolInv, TypeOK, Block
<1>2. CASE tip'[d] = tip[d]
  <2>1. Has(d, tip[d]) /\ tip[d] \in Block
    BY <1>1 DEF TipHeld
  <2>2. known[d] \subseteq known'[d]
    BY DaemonsGrow
  <2> QED  BY <1>1, <1>2, <2>1, <2>2 DEF Has
<1>3. CASE tip'[d] # tip[d]
  <2>1. PICK e \in Daemons :
            NetworkBlock(e) \/ CatchUp(e) \/ \E s \in Shares : Store(e, s)
    BY <1>3, DaemonChanges
  <2>2. \A b : SwitchTo(e, b) => d = e /\ tip'[d] = b
    BY <1>1, <1>3 DEF SwitchTo
  <2>3. CASE NetworkBlock(e)
    <3>1. tip'[d].by = Network
      BY <2>2, <2>3 DEF NetworkBlock
    <3> QED  BY <1>1, <3>1 DEF Has
  <2>4. CASE CatchUp(e)
    <3>1. PICK f \in Daemons : /\ SwitchTo(e, tip[f])
                               /\ known' = [known EXCEPT ![e] = @ \cup known[f]]
      BY <2>4 DEF CatchUp
    <3>2. d = e /\ tip'[d] = tip[f] /\ known[f] \subseteq known'[d]
      BY <1>1, <2>2, <3>1
    <3>3. Has(f, tip[f])
      BY DEF TipHeld
    <3> QED  BY <1>1, <3>2, <3>3 DEF Has
  <2>5. ASSUME NEW s \in Shares, Store(e, s) PROVE Has(d, tip[d])'
    <3>1. d = e /\ tip'[d] = BlockOf(s)
      BY <2>2, <2>5 DEF Store
    <3>2. s \in known'[d]
      BY <1>1, <2>5, <3>1 DEF Store
    <3>3. tip'[d].by = s /\ s # Network
      BY <3>1, NameAssumption DEF BlockOf
    <3> QED  BY <3>2, <3>3 DEF Has
  <2> QED  BY <2>1, <2>3, <2>4, <2>5
<1> QED  BY <1>2, <1>3

(* A template comes from a daemon, and a job from a template.              *)
LEMMA WorkGrows ==
    ASSUME PoolInv, [Next]_vars
    PROVE  /\ \A m \in answers' : m \in answers \/ \E d \in Daemons : m.prev = tip[d]
           /\ \A j \in issued' : j \in issued \/ \E m \in answers : j.prev = m.prev
<1> DEFINE Goal == /\ \A m \in answers' : m \in answers \/ \E d \in Daemons : m.prev = tip[d]
                   /\ \A j \in issued' : j \in issued \/ \E m \in answers : j.prev = m.prev
<1> USE DEF callVars, jobVars
<1>1. ASSUME NEW c \in Calls, NEW d \in Daemons, TemplateBuilt(c, d) PROVE Goal
  BY <1>1 DEF TemplateBuilt
<1>2. ASSUME NEW m \in answers, TemplateArrives(m) PROVE Goal
  <2>1. \A j \in issued' : j \in issued \/ j.prev = m.prev
    BY <1>2 DEF TemplateArrives, ProcessTemplate, UpdateCurrentJob
  <2> QED  BY <1>2, <2>1 DEF TemplateArrives
<1>3. CASE UNCHANGED <<answers, issued>>
  BY <1>3
<1>4. CASE Crash
  BY <1>4 DEF Crash, Restart
<1>5. CASE NodeStep
  <2>1. ASSUME NEW d \in Daemons, NEW c \in Calls, TemplateFails(c, d)
        PROVE  UNCHANGED <<answers, issued>>
    BY <2>1 DEF TemplateFails
  <2>2. ASSUME NEW d \in Daemons,
               \/ Synchronised(d) \/ NetworkBlock(d) \/ CatchUp(d)
               \/ \E s \in Shares : Submitted(s, d) \/ SubmitFails(s, d)
        PROVE  UNCHANGED <<answers, issued>>
    BY <2>2 DEF Synchronised, NetworkBlock, CatchUp, Submitted, SubmitFails
  <2> QED  BY <1>1, <1>3, <1>5, <2>1, <2>2 DEF NodeStep
<1>6. CASE WorkStep /\ ~\E m \in answers : TemplateArrives(m)
  <2>1. UNCHANGED <<answers, issued>>
    BY <1>6 DEF WorkStep, Poll, BroadcastTimeout, ProcessBlockNotify, NoticeLost, AskFor
  <2> QED  BY <1>3, <2>1
<1>7. CASE StartStep \/ ShareStep \/ UpdateAuxes \/ UNCHANGED vars
  <2>1. UNCHANGED <<answers, issued>>
    BY <1>7 DEF vars, StartStep, SetupDaemonInterfaces, DetectCoinData, StartFails,
                CheckSynced, ShareStep, PlainShare, BlockShare, SubmitDone,
                CheckBlockAccepted, UpdateAuxes, AskFor
  <2> QED  BY <1>3, <2>1
<1> QED  BY <1>2, <1>4, <1>5, <1>6, <1>7 DEF Next

LEMMA WorkHeldNext ==
    ASSUME PoolInv, PoolInv', TipHeld, WorkHeld, [Next]_vars
    PROVE  WorkHeld'
<1>1. ASSUME NEW b \in Block, Held(b) PROVE Held(b)'
  BY <1>1, HasStays DEF Held
<1>2. ASSUME NEW d \in Daemons PROVE Held(tip[d]) /\ tip[d] \in Block
  BY DEF TipHeld, Held, PoolInv, TypeOK
<1>3. ASSUME NEW m \in answers PROVE Held(m.prev) /\ m.prev \in Block
  BY DEF WorkHeld, PoolInv, TypeOK
<1>4. ASSUME NEW j \in issued PROVE Held(j.prev) /\ j.prev \in Block
  BY DEF WorkHeld, PoolInv, TypeOK, Job
<1>5. ASSUME NEW m \in answers' PROVE Held(m.prev)'
  <2>1. Held(m.prev) /\ m.prev \in Block
    BY <1>2, <1>3, WorkGrows
  <2> QED  BY <1>1, <2>1 DEF Held
<1>6. ASSUME NEW j \in issued' PROVE Held(j.prev)'
  <2>1. Held(j.prev) /\ j.prev \in Block
    BY <1>3, <1>4, WorkGrows
  <2> QED  BY <1>1, <2>1 DEF Held
<1> QED  BY <1>5, <1>6 DEF WorkHeld

(* Nothing that was emitted is taken back.                                 *)
LEMMA EmittedGrows ==
    ASSUME PoolInv, [Next]_vars
    PROVE  \A i \in DOMAIN emitted : i \in DOMAIN emitted' /\ emitted'[i] = emitted[i]
<1> DEFINE Goal ==
       \A i \in DOMAIN emitted : i \in DOMAIN emitted' /\ emitted'[i] = emitted[i]
<1>a. emitted \in Seq(Event)
  BY DEF PoolInv, TypeOK
<1>1. ASSUME NEW x \in Event,
             \/ emitted' = Append(emitted, x)
             \/ \E y \in Event : emitted' = emitted \o <<x, y>>
      PROVE  Goal
  <2> SUFFICES ASSUME NEW i \in DOMAIN emitted
               PROVE  i \in DOMAIN emitted' /\ emitted'[i] = emitted[i]
    OBVIOUS
  <2>1. i \in 1 .. Len(emitted) /\ Len(emitted) \in Nat
    BY <1>a
  <2>2. CASE emitted' = Append(emitted, x)
    BY <1>a, <2>1, <2>2
  <2>3. ASSUME NEW y \in Event, emitted' = emitted \o <<x, y>>
        PROVE  i \in DOMAIN emitted' /\ emitted'[i] = emitted[i]
    BY <1>a, <2>1, <2>3
  <2> QED  BY <1>1, <2>2, <2>3
<1>2. ASSUME NEW s \in Shares, NEW j \in issued, NEW valid \in BOOLEAN,
             PlainShare(s, j, valid)
      PROVE  Goal
  <2>1. ShareEvent(s, valid, FALSE) \in Event
    BY DEF ShareEvent, Event
  <2> QED  BY <1>1, <1>2, <2>1 DEF PlainShare
<1>3. ASSUME NEW s \in Shares, NEW c \in Calls, CheckBlockAccepted(s, c)
      PROVE  Goal
  <2>1. PICK unheard \in SUBSET Daemons :
            emitted' = emitted \o <<ShareEvent(s, TRUE, IsAccepted(s, unheard)),
                                    BlockEvent(s, IsAccepted(s, unheard))>>
    BY <1>3 DEF CheckBlockAccepted
  <2>2. IsAccepted(s, unheard) \in BOOLEAN
    BY DEF IsAccepted
  <2>3. /\ ShareEvent(s, TRUE, IsAccepted(s, unheard)) \in Event
        /\ BlockEvent(s, IsAccepted(s, unheard)) \in Event
    BY <2>2 DEF ShareEvent, BlockEvent, Event
  <2> QED  BY <1>1, <2>1, <2>3
<1>4. ASSUME NEW s \in Shares, SubmitDone(s) \/ \E j \in issued : BlockShare(s, j)
      PROVE  UNCHANGED emitted
  BY <1>4 DEF SubmitDone, BlockShare
<1>5. CASE NodeStep
  BY <1>5 DEF NodeStep, Synchronised, NetworkBlock, CatchUp, TemplateBuilt, TemplateFails,
              Submitted, SubmitFails, shareVars
<1>6. CASE ~ShareStep /\ ~NodeStep
  BY <1>6 DEF Next, vars, shareVars, StartStep, SetupDaemonInterfaces, DetectCoinData,
              StartFails, CheckSynced, WorkStep, TemplateArrives, Poll, BroadcastTimeout,
              ProcessBlockNotify, NoticeLost, UpdateAuxes, Crash, Restart
<1> QED  BY <1>2, <1>3, <1>4, <1>5, <1>6 DEF ShareStep

LEMMA RecordedStays ==
    ASSUME PoolInv, [Next]_vars, NEW s \in Shares, Recorded(s)
    PROVE  Recorded(s)'
<1>1. PICK i \in DOMAIN emitted : /\ emitted[i].event = "share"
                                  /\ emitted[i].share = s /\ emitted[i].block
  BY DEF Recorded
<1>2. i \in DOMAIN emitted' /\ emitted'[i] = emitted[i]
  BY <1>1, EmittedGrows
<1> QED  BY <1>1, <1>2 DEF Recorded

(* A share whose handling a step leaves alone.                             *)
LEMMA ShareKept ==
    ASSUME PoolInv, PoolInv', [Next]_vars, NEW s \in Shares, ShareHeld(s),
           pc'[s] = pc[s], mined'[s] = mined[s], submit'[s] = submit[s],
           s \in spoilt => s \in spoilt'
    PROVE  ShareHeld(s)'
<1> SUFFICES ASSUME mined[s] # NoJob, s \notin spoilt, OnItsWay(s)
             PROVE  OnItsWay(s)'
  BY DEF ShareHeld
<1>1. mined[s] \in Job /\ mined[s].prev \in Block
  BY DEF PoolInv, TypeOK, Job
<1>2. Stored(s) => Stored(s)'
  BY DaemonsGrow DEF Stored
<1>3. Arriving(s) => Arriving(s)'
  <2>1. ASSUME NEW d \in Daemons,
               (Sent(s, d) /\ Has(d, mined[s].prev)) \/ s \in known[d]
        PROVE  ((Sent(s, d) /\ Has(d, mined[s].prev)) \/ s \in known[d])'
    <3>1. CASE s \in known[d]
      BY <3>1, DaemonsGrow
    <3>2. CASE Sent(s, d) /\ Has(d, mined[s].prev)
      <4> DEFINE b == mined[s].prev
      <4>1. Has(d, b)' /\ b' = b
        BY <1>1, <3>2, HasStays DEF Has
      <4> QED  BY <3>2, <4>1 DEF Sent
    <3> QED  BY <2>1, <3>1, <3>2
  <2> QED  BY <2>1 DEF Arriving
<1>4. NotTurnedDown(s) => NotTurnedDown(s)'
  BY DEF NotTurnedDown
<1> QED  BY <1>2, <1>3, <1>4, RecordedStays DEF OnItsWay

LEMMA ShareHeldNext ==
    ASSUME PoolInv, PoolInv', FoundInv, [Next]_vars, NEW s \in Shares
    PROVE  ShareHeld(s)'
<1>a. /\ pc \in [Shares -> Handling] /\ mined \in [Shares -> Job \cup {NoJob}]
      /\ submit \in [Shares -> [Daemons -> Verdict]]
      /\ known \in [Daemons -> SUBSET Shares] /\ emitted \in Seq(Event)
  BY DEF PoolInv, TypeOK
<1>b. ShareHeld(s)
  BY DEF FoundInv
<1>1. CASE UNCHANGED <<pc, mined, submit, spoilt>>
  BY <1>1, <1>b, ShareKept
<1>2. ASSUME NEW t \in Shares, NEW d \in Daemons, Submitted(t, d)
      PROVE  ShareHeld(s)'
  <2>1. /\ UNCHANGED <<pc, mined, spoilt, emitted>>
        /\ submit' = [submit EXCEPT ![t][d] = SubmitAnswer(t, d)]
        /\ Sent(t, d)
        /\ SubmitAnswer(t, d) = "accepted" => Store(d, t)
    BY <1>2 DEF Submitted
  <2>2. CASE t # s
    <3>1. submit'[s] = submit[s]
      BY <1>a, <2>1, <2>2
    <3> QED  BY <1>b, <2>1, <3>1, ShareKept
  <2>3. CASE t = s
    <3> SUFFICES ASSUME mined[s] # NoJob, s \notin spoilt PROVE OnItsWay(s)'
      BY <1>b, <2>1 DEF ShareHeld
    <3>1. OnItsWay(s)
      BY <1>b DEF ShareHeld
    <3>2. Stored(s) => Stored(s)'
      BY DaemonsGrow DEF Stored
    <3>3. Recorded(s) => Recorded(s)'
      BY RecordedStays
    <3>4. ASSUME pc[s] = "submitting" PROVE Arriving(s)' /\ NotTurnedDown(s)'
      <4>1. Arriving(s) /\ NotTurnedDown(s)
        BY <3>1, <3>4 DEF OnItsWay
      <4>2. NotTurnedDown(s)'
        <5>1. SubmitAnswer(s, d) \in {"accepted", "duplicate", "refused"}
          BY DEF SubmitAnswer
        <5> QED  BY <1>a, <2>1, <2>3, <4>1, <5>1 DEF NotTurnedDown
      <4>3. PICK e \in Daemons :
                (Sent(s, e) /\ Has(e, mined[s].prev)) \/ s \in known[e]
        BY <4>1 DEF Arriving
      <4>4. CASE s \in known[e]
        BY <4>2, <4>4, DaemonsGrow DEF Arriving
      <4>5. CASE Sent(s, e) /\ Has(e, mined[s].prev) /\ e # d
        <5>1. mined[s].prev \in Block
          BY <1>a DEF Job
        <5> DEFINE b == mined[s].prev
        <5>2. Has(e, b)' /\ b' = b
          BY <2>1, <4>5, <5>1, HasStays DEF Has
        <5>3. Sent(s, e)'
          BY <1>a, <2>1, <4>5 DEF Sent
        <5> QED  BY <4>2, <5>2, <5>3 DEF Arriving
      <4>6. CASE Has(d, mined[s].prev) /\ s \notin known[d] /\ e = d
        <5>1. Store(d, s)
          BY <2>1, <2>3, <4>6 DEF SubmitAnswer
        <5>2. s \in known'[d]
          BY <1>a, <5>1 DEF Store
        <5> QED  BY <4>2, <5>2 DEF Arriving
      <4> QED  BY <4>3, <4>4, <4>5, <4>6
    <3> QED  BY <2>1, <3>1, <3>2, <3>3, <3>4 DEF OnItsWay
  <2> QED  BY <2>2, <2>3
<1>3. ASSUME NEW t \in Shares, NEW d \in Daemons, SubmitFails(t, d)
      PROVE  ShareHeld(s)'
  <2>1. UNCHANGED <<pc, mined>> /\ spoilt' = spoilt \cup {t}
    BY <1>3 DEF SubmitFails
  <2>2. CASE t # s
    <3>1. submit'[s] = submit[s]
      BY <1>3, <1>a, <2>2 DEF SubmitFails
    <3> QED  BY <1>b, <2>1, <3>1, ShareKept
  <2>3. CASE t = s
    BY <1>b, <2>1, <2>3 DEF ShareHeld
  <2> QED  BY <2>2, <2>3
<1>4. ASSUME NEW t \in Shares, NEW j \in issued, NEW valid \in BOOLEAN,
             PlainShare(t, j, valid)
      PROVE  ShareHeld(s)'
  <2>1. /\ UNCHANGED <<mined, submit, spoilt>> /\ pc[t] = "unsent"
        /\ pc' = [pc EXCEPT ![t] = "emitted"]
    BY <1>4 DEF PlainShare
  <2>2. CASE t # s
    BY <1>a, <1>b, <2>1, <2>2, ShareKept
  <2>3. CASE t = s
    BY <1>a, <1>b, <2>1, <2>3 DEF ShareHeld
  <2> QED  BY <2>2, <2>3
<1>5. ASSUME NEW t \in Shares, NEW j \in issued, BlockShare(t, j)
      PROVE  ShareHeld(s)'
  <2>1. /\ UNCHANGED <<tip, known, spoilt>> /\ mined' = [mined EXCEPT ![t] = j]
        /\ pc' = [pc EXCEPT ![t] = "submitting"]
        /\ submit' = [submit EXCEPT ![t] = [d \in Daemons |-> "sent"]]
    BY <1>5 DEF BlockShare, daemonVars
  <2>2. CASE t # s
    BY <1>a, <1>b, <2>1, <2>2, ShareKept
  <2>3. CASE t = s
    <3>1. /\ pc'[s] = "submitting" /\ mined'[s] = j
          /\ submit'[s] = [d \in Daemons |-> "sent"]
      BY <1>a, <2>1, <2>3
    <3>2. PICK d \in Daemons : Has(d, j.prev)
      BY DEF FoundInv, WorkHeld, Held
    <3>3. (Sent(s, d) /\ Has(d, mined[s].prev))'
      BY <2>1, <3>1, <3>2 DEF Sent, Has
    <3>4. Arriving(s)' /\ NotTurnedDown(s)'
      BY <3>1, <3>3 DEF Arriving, NotTurnedDown
    <3> QED  BY <3>1, <3>4 DEF ShareHeld, OnItsWay
  <2> QED  BY <2>2, <2>3
<1>6. ASSUME NEW t \in Shares, SubmitDone(t) PROVE ShareHeld(s)'
  <2>1. /\ UNCHANGED <<known, mined, submit, spoilt>> /\ AllAnswered(t)
        /\ pc[t] = "submitting"
        /\ pc' = [pc EXCEPT ![t] = IF \E d \in Daemons : TurnsDown(submit[t][d])
                                   THEN "dropped" ELSE "checking"]
    BY <1>6 DEF SubmitDone, daemonVars
  <2>2. CASE t # s
    BY <1>a, <1>b, <2>1, <2>2, ShareKept
  <2>3. CASE t = s
    <3>1. pc'[s] \in {"dropped", "checking"}
      BY <1>a, <2>1, <2>3
    <3> SUFFICES ASSUME mined[s] # NoJob, s \notin spoilt PROVE OnItsWay(s)'
      BY <2>1, <3>1 DEF ShareHeld
    <3>2. Arriving(s) /\ NotTurnedDown(s)
      BY <1>b, <2>1, <2>3 DEF ShareHeld, OnItsWay
    <3>3. ~\E d \in Daemons : TurnsDown(submit[s][d])
      BY <3>2 DEF NotTurnedDown, TurnsDown
    <3>4. pc'[s] = "checking"
      BY <1>a, <2>1, <2>3, <3>3
    <3>5. Stored(s)
      BY <2>1, <2>3, <3>2 DEF Arriving, AllAnswered, Sent, Stored
    <3>6. Stored(s)'
      BY <2>1, <3>5 DEF Stored
    <3> QED  BY <3>4, <3>6 DEF OnItsWay
  <2> QED  BY <2>2, <2>3
<1>7. ASSUME NEW t \in Shares, NEW c \in Calls, CheckBlockAccepted(t, c)
      PROVE  ShareHeld(s)'
  <2>1. /\ UNCHANGED <<mined, submit>> /\ pc[t] = "checking"
        /\ pc' = [pc EXCEPT ![t] = "emitted"]
    BY <1>7 DEF CheckBlockAccepted
  <2>2. PICK unheard \in SUBSET Daemons :
            /\ IF unheard = {} THEN UNCHANGED <<faults, spoilt>>
               ELSE Fails("check") /\ spoilt' = spoilt \cup {t}
            /\ emitted' = emitted \o <<ShareEvent(t, TRUE, IsAccepted(t, unheard)),
                                       BlockEvent(t, IsAccepted(t, unheard))>>
    BY <1>7 DEF CheckBlockAccepted
  <2>3. CASE t # s
    BY <1>a, <1>b, <2>1, <2>2, <2>3, ShareKept
  <2>4. CASE t = s
    <3>1. pc'[s] = "emitted"
      BY <1>a, <2>1, <2>4
    <3> SUFFICES ASSUME mined[s] # NoJob, s \notin spoilt' PROVE Recorded(s)'
      BY <2>1, <3>1 DEF ShareHeld, OnItsWay
    <3>2. unheard = {} /\ s \notin spoilt
      BY <2>2, <2>4
    <3>3. Stored(s)
      BY <1>b, <2>1, <2>4, <3>2 DEF ShareHeld, OnItsWay
    <3>4. IsAccepted(s, unheard) = TRUE
      BY <3>2, <3>3 DEF IsAccepted, Stored
    <3> DEFINE x == ShareEvent(s, TRUE, TRUE)
               y == BlockEvent(s, TRUE)
               i == Len(emitted) + 1
    <3>5. emitted' = emitted \o <<x, y>>
      BY <2>2, <2>4, <3>4
    <3>6. x \in Event /\ y \in Event
      BY DEF ShareEvent, BlockEvent, Event
    <3>7. x.event = "share" /\ x.share = s /\ x.block
      BY DEF ShareEvent
    <3> HIDE DEF x, y
    <3>8. i \in DOMAIN emitted' /\ emitted'[i] = x
      BY <1>a, <3>5, <3>6
    <3> QED  BY <3>7, <3>8 DEF Recorded
  <2> QED  BY <2>3, <2>4
<1>8. CASE Crash
  <2>1. /\ UNCHANGED <<mined, submit, emitted>>
        /\ pc' = [t \in Shares |-> IF pc[t] \in {"submitting", "checking"}
                                   THEN "dropped" ELSE pc[t]]
        /\ spoilt' = spoilt \cup {t \in Shares : pc'[t] = "dropped"}
    BY <1>8 DEF Crash, Restart
  <2>2. CASE pc[s] \in {"submitting", "checking"}
    BY <2>1, <2>2 DEF ShareHeld
  <2>3. CASE pc[s] \notin {"submitting", "checking"}
    BY <1>b, <2>1, <2>3, ShareKept
  <2> QED  BY <2>2, <2>3
<1>9. CASE NodeStep
  BY <1>1, <1>2, <1>3, <1>9 DEF NodeStep, Synchronised, NetworkBlock, CatchUp,
     TemplateBuilt, TemplateFails, shareVars
<1>10. CASE ShareStep
  BY <1>4, <1>5, <1>6, <1>7, <1>10 DEF ShareStep
<1>11. CASE ~NodeStep /\ ~ShareStep /\ ~Crash
  BY <1>1, <1>11 DEF Next, vars, shareVars, StartStep, SetupDaemonInterfaces,
     DetectCoinData, StartFails, CheckSynced, WorkStep, TemplateArrives, Poll,
     BroadcastTimeout, ProcessBlockNotify, NoticeLost, UpdateAuxes
<1> QED  BY <1>8, <1>9, <1>10, <1>11

LEMMA FoundInvariant == Spec => []FoundInv
<1>1. Init => FoundInv
  <2> SUFFICES ASSUME Init PROVE FoundInv
    OBVIOUS
  <2>1. TipHeld
    BY DEF Init, TipHeld, Has, Origin
  <2> QED  BY <2>1 DEF Init, FoundInv, WorkHeld, ShareHeld
<1>2. PoolInv /\ PoolInv' /\ FoundInv /\ [Next]_vars => FoundInv'
  BY TipHeldNext, WorkHeldNext, ShareHeldNext DEF FoundInv
<1> QED  BY <1>1, <1>2, PoolInvariant, PTL DEF Spec

(* SubmitBlock and CheckBlockAccepted (257 to 290, 428, 761) give up no    *)
(* block by mistake: with any number of daemons, some of which have it     *)
(* already or do not know what it builds on, a block that was found is     *)
(* recorded when its handling is over, unless a call for it failed or the  *)
(* process ended.                                                          *)
THEOREM FoundBlocksRecorded == Spec => []FoundIsRecorded
<1>1. PoolInv /\ FoundInv => FoundIsRecorded
  BY DEF FoundInv, ShareHeld, OnItsWay, FoundIsRecorded
<1> QED  BY <1>1, PoolInvariant, FoundInvariant, PTL

-----------------------------------------------------------------------------
(* Merged mining.                                                          *)

Awaiting == {"auxes", "first", "serving", "stopped"}

(* What is under way belongs to the stage that the start has reached: the  *)
(* one first template to "first", the first update to "auxes", updates of  *)
(* the interval and proofs that are waited for to "serving".               *)
StageInv ==
    /\ \A c \in Calls : calls[c] = "first" => stage = "first"
    /\ \A c, e \in Calls : calls[c] = "first" /\ calls[e] = "first" => c = e
    /\ \A u \in Updates : updates[u] = "first" => stage = "auxes"
    /\ \A u, v \in Updates : updates[u] = "first" /\ updates[v] = "first" => u = v
    /\ \A u \in Updates : updates[u] = "interval" => stage = "serving"
    /\ auxRequests # {} \/ auxAnswers # {} => stage \in Awaiting
    /\ \A x \in submissions :
          x.state # "lost" => stage = "serving" /\ auxWork[x.aux] # NoWork

NowInRange == \A a \in Auxes : auxNow[a] \in 1 .. LastWork[a]

MergedInv == PoolInv /\ AuxTypeOK /\ NowInRange /\ StageInv

LEMMA InitMerged == MergedInit => MergedInv
<1> SUFFICES ASSUME MergedInit PROVE MergedInv
  OBVIOUS
<1>1. PoolInv
  BY InitPool DEF MergedInit
<1>2. AuxTypeOK /\ NowInRange
  <2>1. \A a \in Auxes : LastWork[a] \in Nat \ {0}
    BY EasyAssumption
  <2>2. \A a \in Auxes : 1 \in 1 .. LastWork[a]
    BY <2>1
  <2>3. \A a \in Auxes : 1 \in Works
    BY <2>2, WorkAssumption
  <2>4. auxNow \in [Auxes -> Works] /\ NowInRange
    BY <2>2, <2>3 DEF MergedInit, NowInRange
  <2> QED  BY <2>4 DEF MergedInit, AuxTypeOK, UpdatePurpose
<1>3. StageInv
  BY DEF MergedInit, Init, StageInv
<1> QED  BY <1>1, <1>2, <1>3 DEF MergedInv

-----------------------------------------------------------------------------
(* Every step of the composition is one of StratumPool or leaves its       *)
(* variables alone.                                                        *)

(* The final callback of an update asks for a template or ends the start.  *)
LEMMA FinishRefines ==
    ASSUME MergedInv, NEW u \in Updates, NEW needed \in BOOLEAN, Finish(u, needed)
    PROVE  \/ UNCHANGED <<stage, callVars>>
           \/ /\ stage = "auxes" /\ stage' = "first"
              /\ updates[u] = "first"
              /\ \E c \in Calls : AskFor(c, "first")
           \/ /\ stage = "serving" /\ UNCHANGED stage
              /\ \E c \in Calls : AskFor(c, "aux")
<1>1. CASE updates[u] = "first"
  BY <1>1 DEF Finish, MergedInv, StageInv
<1>2. CASE updates[u] = "interval"
  BY <1>2 DEF Finish, MergedInv, StageInv
<1>3. CASE updates[u] \notin {"first", "interval"}
  BY <1>3 DEF Finish
<1> QED  BY <1>1, <1>2, <1>3

LEMMA WorkArrivesRefines ==
    ASSUME MergedInv, NEW m \in auxAnswers, WorkArrives(m)
    PROVE  UpdateAuxes
<1>1. /\ m.update \in Updates /\ m.aux \in Auxes /\ m.work \in Works
      /\ m.work # NoWork
  BY NameAssumption DEF MergedInv, AuxTypeOK
<1>2. stage \in Awaiting
  BY DEF MergedInv, StageInv
<1>3. /\ auxWork' \in [Auxes -> Works \cup {NoWork}]
      /\ \A a \in Auxes : auxWork'[a] = NoWork => auxWork[a] = NoWork
  BY <1>1 DEF WorkArrives, NewestWork, MergedInv, PoolInv, TypeOK
<1>4. \/ UNCHANGED <<stage, callVars>>
      \/ /\ stage = "auxes" /\ stage' = "first"
         /\ \E c \in Calls : AskFor(c, "first")
      \/ /\ stage = "serving" /\ UNCHANGED stage
         /\ \E c \in Calls : AskFor(c, "aux")
  <2>1. (updateNeeded \/ IsChanged(m.aux, m.work)) \in BOOLEAN
    OBVIOUS
  <2> QED  BY <1>1, <2>1, FinishRefines DEF WorkArrives
<1> QED  BY <1>2, <1>3, <1>4, EasyAssumption DEF WorkArrives, UpdateAuxes, Awaiting

LEMMA WorkFailsRefines ==
    ASSUME MergedInv, NEW u \in Updates, NEW a \in Auxes, WorkFails(u, a)
    PROVE  UpdateAuxes
<1>1. stage \in Awaiting
  BY DEF WorkFails, MergedInv, StageInv
<1>2. \/ UNCHANGED <<stage, callVars>>
      \/ stage = "auxes" /\ stage' = "stopped" /\ UNCHANGED callVars
      \/ /\ stage = "auxes" /\ stage' = "first"
         /\ \E c \in Calls : AskFor(c, "first")
      \/ /\ stage = "serving" /\ UNCHANGED stage
         /\ \E c \in Calls : AskFor(c, "aux")
  <2>1. updateNeeded \in BOOLEAN
    BY DEF MergedInv, AuxTypeOK
  <2>2. CASE Finish(u, updateNeeded)
    BY <2>1, <2>2, FinishRefines
  <2>3. CASE ~Finish(u, updateNeeded)
    BY <2>3 DEF WorkFails, MergedInv, StageInv
  <2> QED  BY <2>2, <2>3
<1>3. auxWork \in [Auxes -> Works \cup {NoWork}]
  BY DEF MergedInv, PoolInv, TypeOK
<1> QED  BY <1>1, <1>2, <1>3, EasyAssumption DEF WorkFails, UpdateAuxes, Awaiting

(* A call of a submission that fails is a failed call of the auxiliary     *)
(* daemons to StratumPool.                                                 *)
LEMMA AuxFailureRefines ==
    ASSUME MergedInv, NEW x \in submissions, x.state # "lost", Fails("aux"),
           UNCHANGED <<daemonVars, stage, callVars, auxWork, jobVars, shareVars>>
    PROVE  UpdateAuxes
<1>1. stage = "serving" /\ auxWork \in [Auxes -> Works \cup {NoWork}]
  BY DEF MergedInv, StageInv, PoolInv, TypeOK
<1> QED  BY <1>1, EasyAssumption DEF UpdateAuxes

LEMMA StepRefines ==
    ASSUME MergedInv, [MergedNext]_mergedVars
    PROVE  [Next]_vars
<1>1. CASE ParentStep
  BY <1>1 DEF ParentStep, Next, ShareStep
<1>2. CASE UpdateStep
  <2>1. PICK u \in Updates :
            \/ FirstUpdate(u) \/ IntervalUpdate(u)
            \/ \E a \in Auxes : WorkBuilt(u, a) \/ WorkFails(u, a)
            \/ \E m \in auxAnswers : m.update = u /\ WorkArrives(m)
    BY <1>2 DEF UpdateStep
  <2>2. CASE FirstUpdate(u) \/ IntervalUpdate(u) \/ \E a \in Auxes : WorkBuilt(u, a)
    BY <2>2 DEF FirstUpdate, IntervalUpdate, WorkBuilt
  <2>3. CASE \E a \in Auxes : WorkFails(u, a)
    BY <2>3, WorkFailsRefines DEF Next
  <2>4. CASE \E m \in auxAnswers : WorkArrives(m)
    BY <2>4, WorkArrivesRefines DEF Next
  <2> QED  BY <2>1, <2>2, <2>3, <2>4
<1>3. ASSUME NEW s \in Shares, NEW j \in issued, NEW solved \in SUBSET Easy,
             MergedShare(s, j, solved)
      PROVE  [Next]_vars
  BY <1>3 DEF MergedShare, Next, ShareStep
<1>4. ASSUME NEW x \in submissions,
             AuxSubmitted(x) \/ SubmitAuxAnswered(x)
      PROVE  [Next]_vars
  BY <1>4 DEF AuxSubmitted, SubmitAuxAnswered
<1>5. ASSUME NEW x \in submissions, SubmitAuxFails(x) PROVE [Next]_vars
  BY <1>5, AuxFailureRefines DEF SubmitAuxFails, Next
<1>6. ASSUME NEW x \in submissions, NEW u \in Updates, AuxResult(x, u)
      PROVE  [Next]_vars
  <2>1. CASE UNCHANGED faults
    BY <1>6, <2>1 DEF AuxResult, vars
  <2>2. CASE Fails("aux")
    BY <1>6, <2>2, AuxFailureRefines DEF AuxResult, Next
  <2> QED  BY <1>6, <2>1, <2>2 DEF AuxResult
<1>7. CASE AuxShareStep
  BY <1>3, <1>4, <1>5, <1>6, <1>7 DEF AuxShareStep
<1>8. CASE AuxRestart
  BY <1>8 DEF AuxRestart, Next
<1>9. CASE (\E a \in Auxes : AuxNetworkBlock(a)) \/ UNCHANGED mergedVars
  BY <1>9 DEF AuxNetworkBlock, mergedVars
<1> QED  BY <1>1, <1>2, <1>7, <1>8, <1>9 DEF MergedNext

-----------------------------------------------------------------------------
(* The types of what the composition adds.                                 *)

LEMMA StartUpdateType ==
    ASSUME AuxTypeOK, NEW u \in Updates, NEW purpose \in UpdatePurpose,
           StartUpdate(u, purpose)
    PROVE  /\ updateNeeded' \in BOOLEAN
           /\ updates' \in [Updates -> UpdatePurpose]
           /\ auxRequests' \subseteq Updates \X Auxes
           /\ auxAnswers' \subseteq [update : Updates, aux : Auxes, work : Works]
  BY DEF AuxTypeOK, StartUpdate

LEMMA NextWorkType ==
    ASSUME AuxTypeOK, NowInRange, NEW a \in Auxes, NextWork(a)
    PROVE  auxNow' \in [Auxes -> Works] /\ NowInRange'
<1>1. LastWork[a] \in Nat /\ auxNow[a] \in 1 .. LastWork[a]
  BY EasyAssumption DEF NowInRange
<1>2. auxNow[a] + 1 \in 1 .. LastWork[a]
  BY <1>1 DEF NextWork
<1>3. auxNow[a] + 1 \in Works
  BY <1>2, WorkAssumption
<1> QED  BY <1>2, <1>3 DEF NextWork, AuxTypeOK, NowInRange

LEMMA MissesType ==
    ASSUME AuxTypeOK, NEW proofs \in SUBSET submissions, Misses(proofs)
    PROVE  missed' \subseteq [aux : Auxes, hash : Works]
  BY DEF AuxTypeOK, Misses, AuxBlock

LEMMA AuxTypeNext ==
    ASSUME MergedInv, [MergedNext]_mergedVars
    PROVE  AuxTypeOK' /\ NowInRange'
<1> USE DEF auxVars, updateVars, blockVars
<1>a. AuxTypeOK /\ NowInRange
  BY DEF MergedInv
<1>1. CASE ParentStep \/ UNCHANGED mergedVars
  BY <1>a, <1>1 DEF ParentStep, mergedVars, AuxTypeOK, NowInRange
<1>2. ASSUME NEW u \in Updates, FirstUpdate(u) \/ IntervalUpdate(u)
      PROVE  AuxTypeOK' /\ NowInRange'
  BY <1>a, <1>2, StartUpdateType
     DEF FirstUpdate, IntervalUpdate, AuxTypeOK, NowInRange, UpdatePurpose
<1>3. ASSUME NEW u \in Updates, NEW a \in Auxes, WorkBuilt(u, a)
      PROVE  AuxTypeOK' /\ NowInRange'
  BY <1>a, <1>3 DEF WorkBuilt, AuxTypeOK, NowInRange
<1>4. ASSUME NEW u \in Updates, NEW a \in Auxes, WorkFails(u, a)
      PROVE  AuxTypeOK' /\ NowInRange'
  BY <1>a, <1>4 DEF WorkFails, AuxTypeOK, NowInRange, UpdatePurpose
<1>5. ASSUME NEW m \in auxAnswers, WorkArrives(m)
      PROVE  AuxTypeOK' /\ NowInRange'
  <2>1. updateNeeded' \in BOOLEAN
    BY <1>a, <1>5 DEF WorkArrives, AuxTypeOK, IsChanged
  <2>2. updates' \in [Updates -> UpdatePurpose]
    BY <1>a, <1>5 DEF WorkArrives, AuxTypeOK, UpdatePurpose
  <2> QED  BY <1>a, <1>5, <2>1, <2>2 DEF WorkArrives, AuxTypeOK, NowInRange
<1>6. ASSUME NEW s \in Shares, NEW j \in issued, NEW solved \in SUBSET Easy,
             MergedShare(s, j, solved)
      PROVE  AuxTypeOK' /\ NowInRange'
  <2>1. ASSUME NEW a \in solved
        PROVE  Proof(s, a, j) \in
                  [share : Shares, aux : Auxes, hash : Works, good : BOOLEAN,
                   state : {"sent", "lost", "taken", "checking"}]
    <3>1. a \in Auxes
      BY EasyAssumption
    <3>2. AuxTargetsKnown
      BY <1>6 DEF MergedShare, PlainShare, BlockShare
    <3>3. auxWork[a] \in Works
      BY <3>1, <3>2 DEF AuxTargetsKnown, MergedInv, PoolInv, TypeOK
    <3>4. (j = job /\ j.aux[a] = auxWork[a]) \in BOOLEAN
      OBVIOUS
    <3> QED  BY <3>1, <3>3, <3>4 DEF Proof
  <2>2. submissions' = submissions \cup {Proof(s, a, j) : a \in solved}
    BY <1>6 DEF MergedShare
  <2>3. submissions' \subseteq
            [share : Shares, aux : Auxes, hash : Works, good : BOOLEAN,
             state : {"sent", "lost", "taken", "checking"}]
    BY <1>a, <2>1, <2>2 DEF AuxTypeOK
  <2> QED  BY <1>a, <1>6, <2>3 DEF MergedShare, AuxTypeOK, NowInRange
<1>7. ASSUME NEW x \in submissions, AuxSubmitted(x)
      PROVE  AuxTypeOK' /\ NowInRange'
  <2>1. x.aux \in Auxes /\ x.hash \in Works
    BY <1>a DEF AuxTypeOK
  <2>2. auxNow' \in [Auxes -> Works] /\ NowInRange'
    BY <1>a, <1>7, <2>1, NextWorkType DEF AuxSubmitted, Takes, AuxTypeOK, NowInRange
  <2>3. auxChain' \in [Auxes -> SUBSET Works]
    BY <1>a, <1>7, <2>1 DEF AuxSubmitted, Takes, AuxTypeOK
  <2>4. submissions' \subseteq
            [share : Shares, aux : Auxes, hash : Works, good : BOOLEAN,
             state : {"sent", "lost", "taken", "checking"}]
    BY <1>a, <1>7 DEF AuxSubmitted, AuxTypeOK
  <2>5. missed' \subseteq [aux : Auxes, hash : Works]
    BY <1>a, <1>7, MissesType DEF AuxSubmitted, AuxTypeOK
  <2> QED  BY <1>a, <1>7, <2>2, <2>3, <2>4, <2>5 DEF AuxSubmitted, AuxTypeOK
<1>8. ASSUME NEW x \in submissions, SubmitAuxAnswered(x)
      PROVE  AuxTypeOK' /\ NowInRange'
  <2>1. auxWork[x.aux] \in Works
    BY <1>8 DEF SubmitAuxAnswered, MergedInv, StageInv, AuxTypeOK, PoolInv, TypeOK
  <2>2. missed' \subseteq [aux : Auxes, hash : Works]
    BY <1>a, <1>8, MissesType DEF SubmitAuxAnswered
  <2> QED  BY <1>a, <1>8, <2>1, <2>2 DEF SubmitAuxAnswered, AuxTypeOK, NowInRange
<1>9. ASSUME NEW x \in submissions, SubmitAuxFails(x)
      PROVE  AuxTypeOK' /\ NowInRange'
  BY <1>a, <1>9 DEF SubmitAuxFails, AuxTypeOK, NowInRange
<1>10. ASSUME NEW x \in submissions, NEW u \in Updates, AuxResult(x, u)
       PROVE  AuxTypeOK' /\ NowInRange'
  <2>1. announced' \subseteq [aux : Auxes, hash : Works]
    BY <1>a, <1>10 DEF AuxResult, Announcement, AuxBlock, AuxTypeOK
  <2>2. missed' \subseteq [aux : Auxes, hash : Works]
    BY <1>a, <1>10, MissesType DEF AuxResult, Pending, AuxTypeOK
  <2> QED  BY <1>a, <1>10, <2>1, <2>2, StartUpdateType
              DEF AuxResult, AuxTypeOK, NowInRange, UpdatePurpose
<1>11. CASE AuxRestart
  <2>1. /\ auxNow' = auxNow /\ auxChain' = auxChain /\ announced' = announced
        /\ updateNeeded' = FALSE /\ updates' = [u \in Updates |-> "idle"]
        /\ auxRequests' = {} /\ auxAnswers' = {}
    BY <1>11 DEF AuxRestart
  <2>2. submissions' = {[x EXCEPT !.state = "lost"] :
                           x \in {y \in submissions : y.state = "sent"}}
    BY <1>11 DEF AuxRestart
  <2>3. submissions' \subseteq
            [share : Shares, aux : Auxes, hash : Works, good : BOOLEAN,
             state : {"sent", "lost", "taken", "checking"}]
    BY <1>a, <2>2 DEF AuxTypeOK
  <2>4. missed' \subseteq [aux : Auxes, hash : Works]
    BY <1>a, <1>11, MissesType DEF AuxRestart, Pending
  <2> QED  BY <1>a, <2>1, <2>3, <2>4 DEF AuxTypeOK, NowInRange, UpdatePurpose
<1>12. ASSUME NEW a \in Auxes, AuxNetworkBlock(a) PROVE AuxTypeOK' /\ NowInRange'
  BY <1>a, <1>12, NextWorkType DEF AuxNetworkBlock, AuxTypeOK
<1> QED  BY <1>1, <1>2, <1>3, <1>4, <1>5, <1>6, <1>7, <1>8, <1>9, <1>10, <1>11, <1>12
            DEF MergedNext, UpdateStep, AuxShareStep

-----------------------------------------------------------------------------
(* What is under way keeps to the stage of the start.                      *)

LEMMA StageParent ==
    ASSUME MergedInv, ParentStep
    PROVE  StageInv'
<1> USE DEF StageInv, auxVars, updateVars
<1>a. StageInv /\ UNCHANGED auxVars /\ calls \in [Calls -> Purpose]
  BY DEF MergedInv, PoolInv, TypeOK, ParentStep
<1>1. CASE UNCHANGED <<stage, calls, auxWork>>
  BY <1>a, <1>1
<1>2. ASSUME NEW c \in Calls, NEW purpose, purpose # "first", AskFor(c, purpose),
             UNCHANGED <<stage, auxWork>>
      PROVE  StageInv'
  <2>1. \A e \in Calls : calls'[e] = "first" => calls[e] = "first"
    BY <1>a, <1>2 DEF AskFor
  <2> QED  BY <1>a, <1>2, <2>1
<1>3. ASSUME NEW c \in Calls, NEW d \in Daemons, TemplateFails(c, d)
      PROVE  StageInv'
  <2>1. \A e \in Calls : calls'[e] = "first" => calls[e] = "first"
    BY <1>a, <1>3 DEF TemplateFails
  <2>2. CASE calls[c] = "first" /\ NoMore(c, d)
    <3>1. stage = "first" /\ stage' = "stopped" /\ calls'[c] = "idle"
      BY <1>a, <1>3, <2>2 DEF TemplateFails
    <3> QED  BY <1>a, <1>3, <2>1, <2>2, <3>1 DEF TemplateFails, Awaiting
  <2>3. CASE ~(calls[c] = "first" /\ NoMore(c, d))
    BY <1>a, <1>3, <2>1, <2>3 DEF TemplateFails
  <2> QED  BY <2>2, <2>3
<1>4. ASSUME NEW m \in answers, TemplateArrives(m)
      PROVE  StageInv'
  <2>1. m.call \in Calls
    BY DEF MergedInv, PoolInv, TypeOK
  <2>2. /\ \A e \in Calls : calls'[e] = "first" => calls[e] = "first"
        /\ calls'[m.call] # "first"
    BY <1>a, <1>4, <2>1 DEF TemplateArrives, Rest
  <2>3. CASE calls[m.call] = "first"
    <3>1. stage = "first" /\ stage' = "serving"
      BY <1>a, <1>4, <2>1, <2>3 DEF TemplateArrives
    <3> QED  BY <1>a, <1>4, <2>1, <2>2, <2>3, <3>1 DEF TemplateArrives, Awaiting
  <2>4. CASE calls[m.call] # "first"
    BY <1>a, <1>4, <2>2, <2>4 DEF TemplateArrives
  <2> QED  BY <2>3, <2>4
<1>5. CASE StartStep
  <2>1. stage \in {"daemons", "detect", "syncing"} /\ UNCHANGED <<calls, auxWork>>
    BY <1>5 DEF StartStep, SetupDaemonInterfaces, DetectCoinData, StartFails,
                CheckSynced, callVars
  <2> QED  BY <1>a, <2>1 DEF Awaiting
<1>6. CASE NodeStep
  BY <1>1, <1>3, <1>6 DEF NodeStep, Synchronised, NetworkBlock, CatchUp,
     TemplateBuilt, Submitted, SubmitFails, callVars
<1>7. CASE WorkStep
  <2>1. ASSUME NEW c \in Calls, Poll(c) \/ BroadcastTimeout(c)  PROVE StageInv'
    BY <1>2, <2>1 DEF Poll, BroadcastTimeout
  <2>2. ASSUME NEW b \in notices, ProcessBlockNotify(b) \/ NoticeLost(b)
        PROVE  StageInv'
    BY <1>1, <1>2, <2>2 DEF ProcessBlockNotify, NoticeLost, callVars
  <2> QED  BY <1>4, <1>7, <2>1, <2>2 DEF WorkStep
<1>8. ASSUME NEW s \in Shares, SubmitDone(s) PROVE StageInv'
  BY <1>1, <1>8 DEF SubmitDone, callVars
<1>9. ASSUME NEW s \in Shares, NEW c \in Calls, CheckBlockAccepted(s, c)
      PROVE  StageInv'
  BY <1>2, <1>9 DEF CheckBlockAccepted
<1> QED  BY <1>5, <1>6, <1>7, <1>8, <1>9 DEF ParentStep

(* A final callback ends the update that was the first.                    *)
LEMMA StageUpdate ==
    ASSUME MergedInv, NEW u \in Updates,
           updates' \in [Updates -> UpdatePurpose],
           updates'[u] \in {"idle", "over"},
           \A v \in Updates \ {u} : updates'[v] = updates[v],
           \A a \in Auxes : auxWork'[a] = NoWork => auxWork[a] = NoWork,
           UNCHANGED submissions, stage \in Awaiting,
           \/ \E needed \in BOOLEAN : Finish(u, needed)
           \/ /\ stage' = IF updates[u] = "first" THEN "stopped" ELSE stage
              /\ UNCHANGED callVars
    PROVE  StageInv'
<1> USE DEF StageInv
<1>a. /\ StageInv /\ calls \in [Calls -> Purpose]
      /\ \A x \in submissions : x.aux \in Auxes
  BY DEF MergedInv, PoolInv, TypeOK, AuxTypeOK
<1>b. \A v \in Updates : updates'[v] \in {"first", "interval"} => updates'[v] = updates[v] /\ v # u
  OBVIOUS
<1>1. CASE UNCHANGED <<stage, callVars>>
  BY <1>a, <1>b, <1>1 DEF callVars
<1>2. ASSUME updates[u] = "first", NEW c \in Calls, stage' = "first", AskFor(c, "first")
      PROVE  StageInv'
  <2>1. stage = "auxes" /\ \A v \in Updates : updates'[v] # "first"
    BY <1>a, <1>b, <1>2
  <2>2. \A e \in Calls : calls'[e] = "first" => e = c
    BY <1>a, <1>2, <2>1 DEF AskFor
  <2> QED  BY <1>a, <1>b, <1>2, <2>1, <2>2 DEF Awaiting
<1>3. ASSUME NEW c \in Calls, AskFor(c, "aux"), UNCHANGED stage
      PROVE  StageInv'
  <2>1. \A e \in Calls : calls'[e] = "first" => calls[e] = "first"
    BY <1>a, <1>3 DEF AskFor
  <2> QED  BY <1>a, <1>b, <1>3, <2>1
<1>4. CASE updates[u] = "first" /\ stage' = "stopped" /\ UNCHANGED callVars
  <2>1. stage = "auxes" /\ \A v \in Updates : updates'[v] # "first"
    BY <1>a, <1>b, <1>4
  <2> QED  BY <1>a, <1>b, <1>4, <2>1 DEF Awaiting, callVars
<1>5. ASSUME NEW needed \in BOOLEAN, Finish(u, needed) PROVE StageInv'
  <2>1. CASE updates[u] = "first"
    BY <1>2, <1>5, <2>1 DEF Finish
  <2>2. CASE updates[u] = "interval"
    BY <1>1, <1>3, <1>5, <2>2 DEF Finish
  <2>3. CASE updates[u] \notin {"first", "interval"}
    BY <1>1, <1>5, <2>3 DEF Finish
  <2> QED  BY <2>1, <2>2, <2>3
<1> QED  BY <1>1, <1>4, <1>5

LEMMA StageNext ==
    ASSUME MergedInv, [MergedNext]_mergedVars
    PROVE  StageInv'
<1> USE DEF auxVars, updateVars
<1>a. StageInv /\ AuxTypeOK
  BY DEF MergedInv
<1>1. CASE UNCHANGED mergedVars
  BY <1>a, <1>1 DEF mergedVars, vars, callVars, StageInv
<1>2. ASSUME NEW u \in Updates, FirstUpdate(u) \/ IntervalUpdate(u)
      PROVE  StageInv'
  BY <1>a, <1>2 DEF FirstUpdate, IntervalUpdate, StartUpdate, StageInv, AuxTypeOK,
     vars, callVars, Awaiting
<1>3. ASSUME NEW u \in Updates, NEW a \in Auxes, WorkBuilt(u, a)
      PROVE  StageInv'
  BY <1>a, <1>3 DEF WorkBuilt, StageInv, vars, callVars
<1>4. ASSUME NEW u \in Updates, NEW a \in Auxes, WorkFails(u, a)
      PROVE  StageInv'
  <2>1. /\ updates' = [updates EXCEPT ![u] = IF LastOf(u, a) THEN "idle" ELSE "over"]
        /\ UNCHANGED <<auxWork, submissions>> /\ <<u, a>> \in auxRequests
    BY <1>4 DEF WorkFails
  <2>2. stage \in Awaiting
    BY <1>a, <2>1 DEF StageInv
  <2>3. updateNeeded \in BOOLEAN /\ updates' \in [Updates -> UpdatePurpose]
    BY <1>a, <2>1 DEF AuxTypeOK, UpdatePurpose
  <2>4. \/ \E needed \in BOOLEAN : Finish(u, needed)
        \/ /\ stage' = IF updates[u] = "first" THEN "stopped" ELSE stage
           /\ UNCHANGED callVars
    BY <1>4, <2>3 DEF WorkFails
  <2>5. /\ updates'[u] \in {"idle", "over"}
        /\ \A v \in Updates \ {u} : updates'[v] = updates[v]
    BY <1>a, <2>1 DEF AuxTypeOK
  <2> QED  BY <2>1, <2>2, <2>3, <2>4, <2>5, StageUpdate
<1>5. ASSUME NEW m \in auxAnswers, WorkArrives(m)
      PROVE  StageInv'
  <2>1. /\ m.update \in Updates /\ m.aux \in Auxes /\ m.work \in Works
        /\ m.work # NoWork
    BY <1>a, NameAssumption DEF AuxTypeOK
  <2>2. stage \in Awaiting
    BY <1>a DEF StageInv
  <2>3. \A a \in Auxes : auxWork'[a] = NoWork => auxWork[a] = NoWork
    BY <1>5, <2>1 DEF WorkArrives, NewestWork, MergedInv, PoolInv, TypeOK
  <2>4. CASE LastOf(m.update, m.aux)
    <3>1. /\ updates' = [updates EXCEPT ![m.update] = "idle"]
          /\ UNCHANGED submissions
          /\ \E needed \in BOOLEAN : Finish(m.update, needed)
      BY <1>5, <2>4 DEF WorkArrives
    <3>2. /\ updates' \in [Updates -> UpdatePurpose]
          /\ updates'[m.update] \in {"idle", "over"}
          /\ \A v \in Updates \ {m.update} : updates'[v] = updates[v]
      BY <1>a, <2>1, <3>1 DEF AuxTypeOK, UpdatePurpose
    <3> QED  BY <2>1, <2>2, <2>3, <3>1, <3>2, StageUpdate
  <2>5. CASE ~LastOf(m.update, m.aux)
    <3>1. UNCHANGED <<stage, callVars, auxRequests, submissions>> /\ updates' = updates
      BY <1>a, <1>5, <2>5 DEF WorkArrives, AuxTypeOK
    <3>2. \A x \in submissions : x.aux \in Auxes
      BY <1>a DEF AuxTypeOK
    <3> QED  BY <1>a, <2>2, <2>3, <3>1, <3>2 DEF StageInv, callVars
  <2> QED  BY <2>4, <2>5
<1>6. ASSUME NEW s \in Shares, NEW j \in issued, NEW solved \in SUBSET Easy,
             MergedShare(s, j, solved)
      PROVE  StageInv'
  <2>1. /\ stage = "serving" /\ UNCHANGED <<stage, calls, auxWork, updateVars>>
        /\ submissions' = submissions \cup {Proof(s, a, j) : a \in solved}
    BY <1>6 DEF MergedShare, PlainShare, BlockShare, callVars
  <2>2. \A a \in solved : Proof(s, a, j).aux = a /\ auxWork[a] # NoWork
    BY <1>6, EasyAssumption DEF MergedShare, PlainShare, BlockShare, AuxTargetsKnown, Proof
  <2> QED  BY <1>a, <2>1, <2>2 DEF StageInv
<1>7. ASSUME NEW x \in submissions, AuxSubmitted(x) \/ SubmitAuxAnswered(x) \/ SubmitAuxFails(x)
      PROVE  StageInv'
  <2>1. UNCHANGED <<stage, calls, auxWork, updateVars>>
    BY <1>7 DEF AuxSubmitted, SubmitAuxAnswered, SubmitAuxFails, vars, callVars
  <2>2. \A y \in submissions' : y.state # "lost" =>
            \/ y \in submissions
            \/ x.state # "lost" /\ y.aux = x.aux
    <3>1. x = [share |-> x.share, aux |-> x.aux, hash |-> x.hash, good |-> x.good,
               state |-> x.state]
      BY <1>a DEF AuxTypeOK
    <3>2. CASE AuxSubmitted(x)
      <4>1. \/ submissions' = submissions \ {x}
            \/ /\ x.state = "sent"
               /\ submissions' = (submissions \ {x}) \cup {[x EXCEPT !.state = "taken"]}
        BY <1>a, <3>2 DEF AuxSubmitted
      <4> QED  BY <3>1, <4>1
    <3>3. CASE SubmitAuxAnswered(x)
      BY <3>1, <3>3 DEF SubmitAuxAnswered
    <3>4. CASE SubmitAuxFails(x)
      BY <3>1, <3>4 DEF SubmitAuxFails
    <3> QED  BY <1>7, <3>2, <3>3, <3>4
  <2> QED  BY <1>a, <2>1, <2>2 DEF StageInv
<1>8. ASSUME NEW x \in submissions, NEW u \in Updates, AuxResult(x, u)
      PROVE  StageInv'
  <2>1. /\ UNCHANGED <<stage, calls, auxWork>> /\ submissions' \subseteq submissions
        /\ stage = "serving" /\ StartUpdate(u, "interval")
    BY <1>a, <1>8 DEF AuxResult, StageInv, callVars
  <2> QED  BY <1>a, <2>1 DEF StageInv, StartUpdate, AuxTypeOK, Awaiting
<1>9. CASE AuxRestart
  <2>1. /\ calls' = [c \in Calls |-> "idle"] /\ auxRequests' = {} /\ auxAnswers' = {}
        /\ updates' = [u \in Updates |-> "idle"]
        /\ submissions' = {[x EXCEPT !.state = "lost"] :
                             x \in {y \in submissions : y.state = "sent"}}
    BY <1>9 DEF AuxRestart, Crash, Restart
  <2>2. \A x \in submissions' : x.state = "lost"
    BY <1>a, <2>1 DEF AuxTypeOK
  <2> QED  BY <2>1, <2>2 DEF StageInv
<1>10. ASSUME NEW a \in Auxes, AuxNetworkBlock(a) PROVE StageInv'
  BY <1>a, <1>10 DEF AuxNetworkBlock, vars, callVars, StageInv
<1> QED  BY <1>1, <1>2, <1>3, <1>4, <1>5, <1>6, <1>7, <1>8, <1>9, <1>10, StageParent
            DEF MergedNext, UpdateStep, AuxShareStep

LEMMA MergedInvariant == MergedSpec => []MergedInv
<1>1. MergedInit => MergedInv
  BY InitMerged
<1>2. MergedInv /\ [MergedNext]_mergedVars => MergedInv'
  <2> SUFFICES ASSUME MergedInv, [MergedNext]_mergedVars PROVE MergedInv'
    OBVIOUS
  <2>1. PoolInv'
    BY StepRefines, NextPool DEF MergedInv
  <2> QED  BY <2>1, AuxTypeNext, StageNext DEF MergedInv
<1> QED  BY <1>1, <1>2, PTL DEF MergedSpec

-----------------------------------------------------------------------------
(* The variables of the auxiliary chains keep their types: the work of     *)
(* each is within its bound, and a submission always has the work that its *)
(* hash was read from (295, 329), also after the process was forked again. *)
THEOREM MergedTypeCorrect == MergedSpec => []AuxTypeOK
<1>1. MergedInv => AuxTypeOK
  BY DEF MergedInv
<1> QED  BY <1>1, MergedInvariant, PTL

(* Merged mining implements StratumPool (61 to 110, 295 to 402): to the    *)
(* parent chain it hands new work and asks for templates, and never does   *)
(* more, so that what is true of every behaviour of the pool stays true    *)
(* along any number of auxiliary chains.                                   *)
THEOREM MergedMiningImplements == MergedSpec => ParentUndisturbed
<1>1. MergedInit => Init
  BY DEF MergedInit
<1>2. MergedInv /\ [MergedNext]_mergedVars => [Next]_vars
  BY StepRefines
<1> QED  BY <1>1, <1>2, MergedInvariant, PTL DEF MergedSpec, ParentUndisturbed, Spec

(* And with it no block of the parent chain is given up by mistake while   *)
(* auxiliary chains are mined along.                                       *)
THEOREM FoundBlocksRecordedMerged == MergedSpec => []FoundIsRecorded
<1>1. MergedSpec => Spec
  BY MergedMiningImplements DEF ParentUndisturbed
<1> QED  BY <1>1, FoundBlocksRecorded

-----------------------------------------------------------------------------
(* The coinbase outputs: sequences of amounts.                             *)

Fee == [to : Payees, percent : Nat]
Paid == [to : Payees \cup {Pool}, amount : Int]

Percents(fees) == [i \in DOMAIN fees |-> fees[i].percent]
PercentOf(fees) == SumFunction(Percents(fees))

LEMMA AmountsType ==
    ASSUME NEW T, NEW s \in Seq(T), \A e \in T : e.amount \in Int
    PROVE  /\ Amounts(s) \in [1..Len(s) -> Int]
           /\ \A i \in 1..Len(s) : Amounts(s)[i] = s[i].amount
           /\ Total(s) = SumFunctionOnSet(Amounts(s), 1..Len(s))
           /\ Total(s) \in Int
<1>1. DOMAIN s = 1..Len(s) /\ Len(s) \in Nat /\ \A i \in 1..Len(s) : s[i].amount \in Int
  OBVIOUS
<1>2. DOMAIN Amounts(s) = 1..Len(s) /\ \A i \in 1..Len(s) : Amounts(s)[i] = s[i].amount
  BY <1>1 DEF Amounts
<1>3. Amounts(s) \in [1..Len(s) -> Int]
  BY <1>1 DEF Amounts
<1>4. Total(s) = SumFunctionOnSet(Amounts(s), 1..Len(s))
  BY <1>2 DEF Total, SumFunction
<1>5. IsFiniteSet(1..Len(s))
  <2>1. Len(s) \in Int /\ 1 \in Int
    BY <1>1
  <2> QED  BY <2>1, FS_Interval
<1>6. SumFunctionOnSet(Amounts(s), 1..Len(s)) \in Int
  BY <1>3, <1>5, SumInt
<1> QED  BY <1>2, <1>3, <1>4, <1>6

LEMMA TotalNat ==
    ASSUME NEW s \in Seq(Part)
    PROVE  Total(s) \in Nat
<1>1. \A e \in Part : e.amount \in Int
  BY DEF Part
<1>2. Len(s) \in Nat /\ \A i \in 1..Len(s) : s[i].amount \in Nat
  <2>1. \A e \in Part : e.amount \in Nat
    BY DEF Part
  <2>2. Len(s) \in Nat /\ \A i \in 1..Len(s) : s[i] \in Part
    OBVIOUS
  <2> QED  BY <2>1, <2>2
<1>3. \A i \in 1..Len(s) : Amounts(s)[i] \in Nat
  BY <1>1, <1>2, AmountsType
<1>4. IsFiniteSet(1..Len(s))
  <2>1. Len(s) \in Int /\ 1 \in Int
    BY <1>2
  <2> QED  BY <2>1, FS_Interval
<1>5. SumFunctionOnSet(Amounts(s), 1..Len(s)) \in Nat
  BY <1>3, <1>4, SumNat
<1> QED  BY <1>1, <1>5, AmountsType

LEMMA TotalEmpty == Total(<<>>) = 0
<1>1. DOMAIN Amounts(<<>>) = {}
  BY DEF Amounts
<1> QED  BY <1>1, SumEmpty DEF Total, SumFunction

LEMMA TotalAppend ==
    ASSUME NEW T, NEW s \in Seq(T), \A e \in T : e.amount \in Int, NEW e \in T
    PROVE  Total(Append(s, e)) = Total(s) + e.amount
<1> DEFINE n == Len(s)
           t == Append(s, e)
<1>1. t \in Seq(T) /\ Len(t) = n + 1 /\ n \in Nat
  OBVIOUS
<1>2. \A i \in 1..n : t[i] = s[i]
  OBVIOUS
<1>3. t[n + 1] = e
  OBVIOUS
<1> HIDE DEF t
<1>4. /\ \A i \in 1..n : Amounts(s)[i] \in Int /\ Amounts(t)[i] = Amounts(s)[i]
      /\ Amounts(t)[n + 1] = e.amount
      /\ Total(s) = SumFunctionOnSet(Amounts(s), 1..n)
      /\ Total(t) = SumFunctionOnSet(Amounts(t), 1..(n + 1))
  <2>1. n + 1 \in 1..(n + 1) /\ \A i \in 1..n : i \in 1..(n + 1)
    BY <1>1
  <2>2. /\ \A i \in 1..n : Amounts(s)[i] \in Int /\ Amounts(s)[i] = s[i].amount
        /\ Total(s) = SumFunctionOnSet(Amounts(s), 1..n)
    BY AmountsType
  <2>3. /\ \A i \in 1..(n + 1) : Amounts(t)[i] = t[i].amount
        /\ Total(t) = SumFunctionOnSet(Amounts(t), 1..(n + 1))
    BY <1>1, AmountsType
  <2> HIDE DEF n
  <2> QED  BY <1>2, <1>3, <2>1, <2>2, <2>3
<1>5. e.amount \in Int
  OBVIOUS
<1> HIDE DEF n
<1>6. SumFunctionOnSet(Amounts(t), 1..(n + 1))
        = SumFunctionOnSet(Amounts(s), 1..n) + Amounts(t)[n + 1]
  BY <1>1, <1>4, <1>5, SumExtend
<1> QED  BY <1>4, <1>6 DEF t

(* The first entry of a list taken off, and one put in front.              *)
LEMMA TotalTail ==
    ASSUME NEW T, NEW s \in Seq(T), \A e \in T : e.amount \in Int, s # <<>>
    PROVE  Total(s) = Head(s).amount + Total(Tail(s))
<1> DEFINE n == Len(s) - 1
           t == Tail(s)
<1>1. t \in Seq(T) /\ Len(t) = n /\ n \in Nat /\ Len(s) = n + 1
  OBVIOUS
<1>2. \A i \in 1..n : t[i] = s[i + 1]
  OBVIOUS
<1>3. Head(s) = s[1] /\ s[1] \in T
  OBVIOUS
<1> HIDE DEF t, n
<1>4. /\ \A i \in 1..(n + 1) : Amounts(s)[i] = s[i].amount
      /\ Total(s) = SumFunctionOnSet(Amounts(s), 1..(n + 1))
  BY <1>1, AmountsType
<1>5. /\ \A i \in 1..n : Amounts(t)[i] \in Int /\ Amounts(t)[i] = t[i].amount
      /\ Total(t) = SumFunctionOnSet(Amounts(t), 1..n)
  BY <1>1, AmountsType
<1>6. /\ Amounts(s)[1] = Head(s).amount /\ Amounts(s)[1] \in Int
      /\ \A i \in 1..n : Amounts(s)[i + 1] = Amounts(t)[i]
  <2>1. 1 \in 1..(n + 1) /\ \A i \in 1..n : i + 1 \in 1..(n + 1)
    BY <1>1
  <2> QED  BY <1>2, <1>3, <1>4, <1>5, <2>1
<1>7. SumFunctionOnSet(Amounts(s), 1..(n + 1))
        = Amounts(s)[1] + SumFunctionOnSet(Amounts(t), 1..n)
  BY <1>1, <1>5, <1>6, SumTail
<1> QED  BY <1>4, <1>5, <1>6, <1>7 DEF t

LEMMA TotalInFront ==
    ASSUME NEW T, NEW s \in Seq(T), \A e \in T : e.amount \in Int, NEW e \in T
    PROVE  Total(<<e>> \o s) = e.amount + Total(s)
<1> DEFINE t == <<e>> \o s
<1>1. t \in Seq(T) /\ t # <<>> /\ Head(t) = e
  OBVIOUS
<1>2. Tail(t) = s
  <2>1. Len(t) = Len(s) + 1 /\ \A i \in 1..Len(s) : t[i + 1] = s[i]
    OBVIOUS
  <2>2. Tail(t) \in Seq(T) /\ Len(Tail(t)) = Len(s)
    BY <1>1, <2>1
  <2>3. \A i \in 1..Len(s) : Tail(t)[i] = t[i + 1]
    BY <1>1, <2>1, <2>2
  <2> QED  BY <2>1, <2>2, <2>3
<1> HIDE DEF t
<1>3. Total(t) = Head(t).amount + Total(Tail(t))
  BY <1>1, TotalTail
<1> QED  BY <1>1, <1>2, <1>3 DEF t

(* The percentages of a list of fees, in the same way.                     *)
LEMMA PercentsType ==
    ASSUME NEW s \in Seq(Fee)
    PROVE  /\ \A i \in 1..Len(s) : Percents(s)[i] = s[i].percent
                                   /\ Percents(s)[i] \in Nat
           /\ PercentOf(s) = SumFunctionOnSet(Percents(s), 1..Len(s))
           /\ PercentOf(s) \in Nat
<1>1. DOMAIN s = 1..Len(s) /\ Len(s) \in Nat /\ \A i \in 1..Len(s) : s[i] \in Fee
  OBVIOUS
<1>2. /\ DOMAIN Percents(s) = 1..Len(s)
      /\ \A i \in 1..Len(s) : Percents(s)[i] = s[i].percent
  BY <1>1 DEF Percents
<1>3. \A i \in 1..Len(s) : Percents(s)[i] \in Nat
  BY <1>1, <1>2 DEF Fee
<1>4. PercentOf(s) = SumFunctionOnSet(Percents(s), 1..Len(s))
  BY <1>2 DEF PercentOf, SumFunction
<1>5. IsFiniteSet(1..Len(s))
  <2>1. Len(s) \in Int /\ 1 \in Int
    BY <1>1
  <2> QED  BY <2>1, FS_Interval
<1>6. SumFunctionOnSet(Percents(s), 1..Len(s)) \in Nat
  BY <1>3, <1>5, SumNat
<1> QED  BY <1>2, <1>3, <1>4, <1>6

LEMMA PercentEmpty == PercentOf(<<>>) = 0
<1>1. DOMAIN Percents(<<>>) = {}
  BY DEF Percents
<1> QED  BY <1>1, SumEmpty DEF PercentOf, SumFunction

LEMMA PercentAppend ==
    ASSUME NEW s \in Seq(Fee), NEW e \in Fee
    PROVE  PercentOf(Append(s, e)) = PercentOf(s) + e.percent
<1> DEFINE n == Len(s)
           t == Append(s, e)
<1>1. t \in Seq(Fee) /\ Len(t) = n + 1 /\ n \in Nat
  OBVIOUS
<1>2. t[n + 1] = e /\ \A i \in 1..n : t[i] = s[i]
  OBVIOUS
<1>3. e.percent \in Nat
  BY DEF Fee
<1> HIDE DEF t
<1>4. /\ \A i \in 1..n : Percents(s)[i] = s[i].percent /\ Percents(s)[i] \in Nat
      /\ PercentOf(s) = SumFunctionOnSet(Percents(s), 1..n)
  BY PercentsType
<1>5. /\ \A i \in 1..(n + 1) : Percents(t)[i] = t[i].percent
      /\ PercentOf(t) = SumFunctionOnSet(Percents(t), 1..(n + 1))
  BY <1>1, PercentsType
<1> HIDE DEF n
<1>6. /\ \A i \in 1..n : Percents(s)[i] \in Int /\ Percents(t)[i] = Percents(s)[i]
      /\ Percents(t)[n + 1] = e.percent /\ Percents(t)[n + 1] \in Int
  <2>1. n + 1 \in 1..(n + 1) /\ \A i \in 1..n : i \in 1..(n + 1)
    BY <1>1
  <2> QED  BY <1>2, <1>3, <1>4, <1>5, <2>1
<1>7. SumFunctionOnSet(Percents(t), 1..(n + 1))
        = SumFunctionOnSet(Percents(s), 1..n) + Percents(t)[n + 1]
  BY <1>1, <1>3, <1>6, SumExtend
<1> QED  BY <1>4, <1>5, <1>6, <1>7 DEF t

LEMMA PercentTail ==
    ASSUME NEW s \in Seq(Fee), s # <<>>
    PROVE  PercentOf(s) = Head(s).percent + PercentOf(Tail(s))
<1> DEFINE n == Len(s) - 1
           t == Tail(s)
<1>1. t \in Seq(Fee) /\ Len(t) = n /\ n \in Nat /\ Len(s) = n + 1
  OBVIOUS
<1>2. Head(s) = s[1] /\ s[1] \in Fee /\ \A i \in 1..n : t[i] = s[i + 1]
  OBVIOUS
<1> HIDE DEF t, n
<1>3. /\ \A i \in 1..(n + 1) : Percents(s)[i] = s[i].percent
      /\ PercentOf(s) = SumFunctionOnSet(Percents(s), 1..(n + 1))
  BY <1>1, PercentsType
<1>4. /\ \A i \in 1..n : Percents(t)[i] = t[i].percent /\ Percents(t)[i] \in Nat
      /\ PercentOf(t) = SumFunctionOnSet(Percents(t), 1..n)
  BY <1>1, PercentsType
<1>5. /\ Percents(s)[1] = Head(s).percent /\ Percents(s)[1] \in Int
      /\ \A i \in 1..n : Percents(t)[i] \in Int /\ Percents(s)[i + 1] = Percents(t)[i]
  <2>1. 1 \in 1..(n + 1) /\ \A i \in 1..n : i + 1 \in 1..(n + 1)
    BY <1>1
  <2> QED  BY <1>2, <1>3, <1>4, <2>1 DEF Fee
<1>6. SumFunctionOnSet(Percents(s), 1..(n + 1))
        = Percents(s)[1] + SumFunctionOnSet(Percents(t), 1..n)
  BY <1>1, <1>5, SumTail
<1> QED  BY <1>3, <1>4, <1>5, <1>6 DEF t

(* What the last entries of a list add up to.                              *)
LEMMA LastType ==
    ASSUME NEW T, NEW s \in Seq(T), \A e \in T : e.amount \in Int, NEW k \in Nat
    PROVE  /\ LastPlaces(s, k) = {i \in 1..Len(s) : i > Len(s) - k}
           /\ IsFiniteSet(LastPlaces(s, k))
           /\ \A i \in LastPlaces(s, k) : Amounts(s)[i] \in Int
           /\ LastSum(s, k) \in Int
<1>1. DOMAIN s = 1..Len(s) /\ Len(s) \in Nat
  OBVIOUS
<1>2. LastPlaces(s, k) = {i \in 1..Len(s) : i > Len(s) - k}
  BY <1>1 DEF LastPlaces
<1>3. IsFiniteSet(1..Len(s)) /\ LastPlaces(s, k) \subseteq 1..Len(s)
  <2>1. Len(s) \in Int /\ 1 \in Int
    BY <1>1
  <2> QED  BY <1>2, <2>1, FS_Interval
<1>4. IsFiniteSet(LastPlaces(s, k))
  BY <1>3, FS_Subset
<1>5. \A i \in LastPlaces(s, k) : Amounts(s)[i] \in Int
  BY <1>3, AmountsType
<1>6. LastSum(s, k) \in Int
  BY <1>4, <1>5, SumInt DEF LastSum
<1> QED  BY <1>2, <1>4, <1>5, <1>6

LEMMA LastNone ==
    ASSUME NEW T, NEW s \in Seq(T)
    PROVE  LastSum(s, 0) = 0
<1>1. LastPlaces(s, 0) = {}
  BY DEF LastPlaces
<1> QED  BY <1>1, SumEmpty DEF LastSum

LEMMA LastAppend ==
    ASSUME NEW T, NEW s \in Seq(T), \A e \in T : e.amount \in Int, NEW e \in T,
           NEW k \in Nat
    PROVE  LastSum(Append(s, e), k + 1) = LastSum(s, k) + e.amount
<1> DEFINE n == Len(s)
           t == Append(s, e)
           places == LastPlaces(t, k + 1)
<1>1. t \in Seq(T) /\ Len(t) = n + 1 /\ n \in Nat
  OBVIOUS
<1>2. t[n + 1] = e /\ e.amount \in Int /\ \A i \in 1..n : t[i] = s[i]
  OBVIOUS
<1> HIDE DEF t
<1>3. /\ places = {i \in 1..(n + 1) : i > (n + 1) - (k + 1)}
      /\ IsFiniteSet(places)
      /\ \A i \in places : Amounts(t)[i] \in Int
  BY <1>1, LastType
<1>4. LastPlaces(s, k) = {i \in 1..n : i > n - k}
  BY LastType
<1>5. IsFiniteSet(LastPlaces(s, k)) /\ LastSum(s, k) \in Int
  BY LastType
<1>6. \A i \in 1..(n + 1) : Amounts(t)[i] = t[i].amount
  BY <1>1, AmountsType
<1>7. \A i \in 1..n : Amounts(s)[i] = s[i].amount
  BY AmountsType
<1> HIDE DEF n, places
<1>8. n + 1 \in places /\ places \ {n + 1} = LastPlaces(s, k)
  BY <1>1, <1>3, <1>4
<1>9. SumFunctionOnSet(Amounts(t), places)
        = Amounts(t)[n + 1] + SumFunctionOnSet(Amounts(t), places \ {n + 1})
  BY <1>3, <1>8, SumTake
<1>10. \A i \in LastPlaces(s, k) : Amounts(t)[i] = Amounts(s)[i]
  <2>1. \A i \in LastPlaces(s, k) : i \in 1..n /\ i \in 1..(n + 1)
    BY <1>1, <1>4
  <2> QED  BY <1>2, <1>6, <1>7, <2>1
<1>11. SumFunctionOnSet(Amounts(t), LastPlaces(s, k)) = LastSum(s, k)
  BY <1>5, <1>10, SumEqual DEF LastSum
<1>12. Amounts(t)[n + 1] = e.amount
  <2>1. n + 1 \in 1..(n + 1)
    BY <1>1
  <2> QED  BY <1>2, <1>6, <2>1
<1>13. LastSum(t, k + 1) = e.amount + LastSum(s, k)
  BY <1>8, <1>9, <1>11, <1>12 DEF LastSum, places
<1> QED  BY <1>2, <1>5, <1>13 DEF t

LEMMA LastInFront ==
    ASSUME NEW T, NEW s \in Seq(T), \A e \in T : e.amount \in Int, NEW e \in T,
           NEW k \in 0..Len(s)
    PROVE  LastSum(<<e>> \o s, k) = LastSum(s, k)
<1> DEFINE n == Len(s)
           t == <<e>> \o s
           S == LastPlaces(s, k)
           U == LastPlaces(t, k)
           h == [i \in S |-> i + 1]
<1>1. t \in Seq(T) /\ Len(t) = n + 1 /\ n \in Nat /\ k \in Nat
  OBVIOUS
<1>2. \A i \in 1..n : t[i + 1] = s[i]
  OBVIOUS
<1> HIDE DEF t
<1>3. S = {i \in 1..n : i > n - k} /\ IsFiniteSet(S) /\ \A i \in S : Amounts(s)[i] \in Int
  BY <1>1, LastType
<1>4. U = {i \in 1..(n + 1) : i > (n + 1) - k} /\ IsFiniteSet(U)
  BY <1>1, LastType
<1>5. \A i \in 1..n : Amounts(s)[i] = s[i].amount
  BY AmountsType
<1>6. \A i \in 1..(n + 1) : Amounts(t)[i] = t[i].amount
  BY <1>1, AmountsType
<1>7. k <= n
  OBVIOUS
<1> HIDE DEF n, S, U
<1>8. \A i \in S : i \in 1..n /\ i + 1 \in 1..(n + 1) /\ i + 1 \in U /\ h[i] = i + 1
  BY <1>1, <1>3, <1>4
<1>9. h \in [S -> U] /\ \A x, y \in S : h[x] = h[y] => x = y
  BY <1>8
<1>10. \A u \in U : \E x \in S : h[x] = u
  <2>1. \A u \in U : u - 1 \in S /\ (u - 1) + 1 = u
    BY <1>1, <1>3, <1>4, <1>7
  <2> QED  BY <1>8, <2>1
<1>11. \A x \in S : Amounts(s)[x] \in Int /\ Amounts(t)[h[x]] = Amounts(s)[x]
  BY <1>2, <1>3, <1>5, <1>6, <1>8
<1> HIDE DEF h
<1>12. IsFiniteSet(S) /\ IsFiniteSet(U)
  BY <1>3, <1>4
<1>13. SumFunctionOnSet(Amounts(t), U) = SumFunctionOnSet(Amounts(s), S)
  <2>1. h \in Bijection(S, U)
    BY <1>9, <1>10 DEF Bijection, Injection, Surjection, IsInjective
  <2>2. CarriedBy(h, S, Amounts(t), Amounts(s))
    BY <1>11 DEF CarriedBy
  <2> QED  BY <1>12, <2>1, <2>2, SumImage
<1> QED  BY <1>13 DEF LastSum, S, U, t

-----------------------------------------------------------------------------
(* The invariant of generateOutputTransactions.                            *)

OutputsType ==
    /\ phase \in Phase /\ template \in Templates
    /\ configured \in Seq(Fee) /\ recipients \in Seq(Fee)
    /\ feePercent = PercentOf(recipients)
    /\ reward \in Int /\ rewardToPool \in Int
    /\ outputs \in Seq(Paid)
    /\ phase \in {"masternode", "superblock"} => pending \in Seq(Part)
    /\ phase \in {"recipients", "done"} =>
          pending \in Seq(Fee) /\ Len(pending) <= Len(recipients)
    /\ phase = "done" => pending = <<>>

ValueInv ==
    /\ phase = "setup" => outputs = <<>>
    /\ ValueIsConserved

(* What the recipients paid so far have got of their percentages.          *)
PaidSoFar == Len(recipients) - Len(pending)

FeesInv ==
    /\ phase \in {"masternode", "superblock"} => rewardToPool = reward
    /\ phase \in {"recipients", "done"} =>
          LET paid == LastSum(outputs, PaidSoFar)
              due  == (feePercent - PercentOf(pending)) * reward
          IN  /\ paid * 100 <= due
              /\ paid * 100 >= due - 100 * PaidSoFar
              /\ rewardToPool = reward - paid
              /\ PaidSoFar <= Len(outputs)

(* What is still to be deducted is there.                                  *)
Fits == Total(template.masternode) + Total(template.superblock)
            + template.payee_amount <= template.coinbasevalue

SignInv ==
    Fits =>
        /\ feePercent <= 100 \/ phase # "done" =>
              \A i \in DOMAIN outputs : outputs[i].amount >= 0
        /\ phase = "masternode" =>
              Total(pending) + Total(template.superblock) + template.payee_amount
                  <= reward
        /\ phase = "superblock" => Total(pending) + template.payee_amount <= reward
        /\ phase \in {"recipients", "done"} => reward >= 0

CoinbaseInv == OutputsType /\ ValueInv /\ FeesInv /\ SignInv

LEMMA TemplateType ==
    ASSUME template \in Templates
    PROVE  /\ template.coinbasevalue \in Nat
           /\ template.masternode \in Seq(Part) /\ template.superblock \in Seq(Part)
           /\ template.payee \in Payees \cup {NoPayee}
           /\ template.payee_amount \in Nat
           /\ Total(template.masternode) \in Nat /\ Total(template.superblock) \in Nat
<1>1. /\ template.coinbasevalue \in Nat
      /\ template.masternode \in Seq(Part) /\ template.superblock \in Seq(Part)
      /\ template.payee \in Payees \cup {NoPayee}
      /\ template.payee_amount \in Nat
  BY TemplateAssumption
<1> QED  BY <1>1, TotalNat

LEMMA EntryTypes ==
    /\ \A e \in Part : e.amount \in Nat /\ e.amount \in Int /\ e \in Paid
    /\ \A e \in Paid : e.amount \in Int
    /\ \A e \in Fee : e.percent \in Nat /\ e.to \in Payees
    /\ \A who \in Payees \cup {Pool}, n \in Int :
          Output(who, n) \in Paid /\ Output(who, n).amount = n
  BY DEF Part, Paid, Fee, Output

LEMMA CoinbaseStart == CoinbaseInit => CoinbaseInv
<1> SUFFICES ASSUME CoinbaseInit PROVE CoinbaseInv
  OBVIOUS
<1>1. OutputsType
  <2>1. configured \in Seq(Fee)
    BY TemplateAssumption DEF CoinbaseInit, Fee
  <2> QED  BY <2>1, PercentEmpty DEF CoinbaseInit, OutputsType, Phase
<1> QED  BY <1>1 DEF CoinbaseInit, CoinbaseInv, ValueInv, ValueIsConserved, FeesInv,
                     SignInv

LEMMA SetupInv == CoinbaseInv /\ SetupRecipient => CoinbaseInv'
<1> SUFFICES ASSUME CoinbaseInv, SetupRecipient PROVE CoinbaseInv'
  OBVIOUS
<1> DEFINE r == Head(configured)
<1>1. configured \in Seq(Fee) /\ recipients \in Seq(Fee) /\ configured # <<>>
      /\ r \in Fee /\ configured' = Tail(configured)
      /\ feePercent = PercentOf(recipients)
  BY DEF CoinbaseInv, OutputsType, SetupRecipient
<1>2. recipients' \in Seq(Fee) /\ feePercent' = PercentOf(recipients')
  <2>1. CASE r.to \in Invalid
    BY <1>1, <2>1 DEF SetupRecipient
  <2>2. CASE r.to \notin Invalid
    <3>1. recipients' = Append(recipients, r) /\ feePercent' = feePercent + r.percent
      BY <2>2 DEF SetupRecipient
    <3> HIDE DEF r
    <3>2. PercentOf(Append(recipients, r)) = PercentOf(recipients) + r.percent
      BY <1>1, PercentAppend
    <3> QED  BY <1>1, <3>1, <3>2
  <2> QED  BY <2>1, <2>2
<1>3. configured' \in Seq(Fee)
  BY <1>1
<1>4. /\ phase = "setup" /\ phase' = "setup"
      /\ UNCHANGED <<template, pending, reward, rewardToPool, outputs>>
  BY DEF SetupRecipient
<1> QED  BY <1>2, <1>3, <1>4 DEF CoinbaseInv, OutputsType, ValueInv,
             ValueIsConserved, FeesInv, SignInv

LEMMA BeginInv == CoinbaseInv /\ Begin => CoinbaseInv'
<1> SUFFICES ASSUME CoinbaseInv, Begin PROVE CoinbaseInv'
  OBVIOUS
<1>1. /\ phase = "setup" /\ phase' = "masternode" /\ outputs = <<>>
      /\ pending' = template.masternode
      /\ reward' = template.coinbasevalue /\ rewardToPool' = template.coinbasevalue
      /\ UNCHANGED <<template, configured, recipients, feePercent, outputs>>
  BY DEF CoinbaseInv, ValueInv, Begin
<1>2. template \in Templates
  BY DEF CoinbaseInv, OutputsType
<1>3. OutputsType'
  BY <1>1, <1>2, TemplateType DEF CoinbaseInv, OutputsType, Phase
<1>4. ValueInv' /\ FeesInv' /\ SignInv'
  BY <1>1, <1>2, TemplateType, TotalEmpty DEF ValueInv, ValueIsConserved, FeesInv,
     SignInv, Fits
<1> QED  BY <1>3, <1>4 DEF CoinbaseInv

LEMMA PayPartInv == CoinbaseInv /\ PayPart => CoinbaseInv'
<1> SUFFICES ASSUME CoinbaseInv, PayPart PROVE CoinbaseInv'
  OBVIOUS
<1> DEFINE e == Head(pending)
<1>1. /\ phase \in {"masternode", "superblock"} /\ phase' = phase
      /\ pending \in Seq(Part) /\ pending # <<>>
      /\ pending' = Tail(pending) /\ outputs' = Append(outputs, e)
      /\ reward' = reward - e.amount /\ rewardToPool' = rewardToPool - e.amount
      /\ UNCHANGED <<template, configured, recipients, feePercent>>
  BY DEF CoinbaseInv, OutputsType, PayPart, Deduct
<1>2. /\ outputs \in Seq(Paid) /\ reward \in Int /\ rewardToPool \in Int
      /\ template \in Templates
  BY DEF CoinbaseInv, OutputsType
<1>3. e \in Part /\ pending' \in Seq(Part)
  BY <1>1
<1> HIDE DEF e
<1>4. e.amount \in Nat /\ e \in Paid
  BY <1>3, EntryTypes
<1>5. OutputsType'
  BY <1>1, <1>2, <1>3, <1>4 DEF CoinbaseInv, OutputsType
<1>6. ValueInv'
  <2>1. Total(outputs') = Total(outputs) + e.amount
    BY <1>1, <1>2, <1>4, EntryTypes, TotalAppend
  <2>2. Total(outputs) \in Int /\ template.coinbasevalue \in Nat
    BY <1>2, EntryTypes, AmountsType, TemplateType
  <2> QED  BY <1>1, <1>2, <1>4, <2>1, <2>2 DEF CoinbaseInv, ValueInv, ValueIsConserved
<1>7. FeesInv'
  BY <1>1, <1>2, <1>4 DEF CoinbaseInv, FeesInv
<1>8. SignInv'
  <2>1. Total(pending) = e.amount + Total(pending')
    BY <1>1, EntryTypes, TotalTail DEF e
  <2>2. /\ Total(pending') \in Nat /\ Total(template.superblock) \in Nat
        /\ template.payee_amount \in Nat
    BY <1>2, <1>3, TotalNat, TemplateType
  <2>3. ASSUME \A i \in DOMAIN outputs : outputs[i].amount >= 0
        PROVE  \A i \in DOMAIN outputs' : outputs'[i].amount >= 0
    BY <1>1, <1>2, <1>4, <2>3
  <2>4. Fits' = Fits
    BY <1>1 DEF Fits
  <2>5. ASSUME Fits
        PROVE  /\ \A i \in DOMAIN outputs' : outputs'[i].amount >= 0
               /\ phase = "masternode" =>
                    Total(pending) + Total(template.superblock)
                        + template.payee_amount <= reward
               /\ phase = "superblock" =>
                    Total(pending) + template.payee_amount <= reward
    <3>1. phase # "done"
      BY <1>1
    <3> QED  BY <2>3, <2>5, <3>1 DEF CoinbaseInv, SignInv
  <2>6. ASSUME Fits
        PROVE  /\ phase' = "masternode" =>
                    Total(pending') + Total(template'.superblock)
                        + template'.payee_amount <= reward'
               /\ phase' = "superblock" =>
                    Total(pending') + template'.payee_amount <= reward'
    <3>1. phase' = phase /\ template' = template /\ reward' = reward - e.amount
      BY <1>1
    <3>2. phase = "masternode" =>
            Total(pending') + Total(template.superblock) + template.payee_amount
              <= reward'
      BY <1>2, <1>4, <2>1, <2>2, <2>5, <2>6, <3>1
    <3>3. phase = "superblock" => Total(pending') + template.payee_amount <= reward'
      BY <1>2, <1>4, <2>1, <2>2, <2>5, <2>6, <3>1
    <3> QED  BY <3>1, <3>2, <3>3
  <2>7. phase' \notin {"recipients", "done"}
    BY <1>1
  <2> QED  BY <2>4, <2>5, <2>6, <2>7 DEF SignInv
<1> QED  BY <1>5, <1>6, <1>7, <1>8 DEF CoinbaseInv

LEMMA SuperblockInv == CoinbaseInv /\ Superblock => CoinbaseInv'
<1> SUFFICES ASSUME CoinbaseInv, Superblock PROVE CoinbaseInv'
  OBVIOUS
<1>1. /\ phase = "masternode" /\ phase' = "superblock" /\ pending = <<>>
      /\ pending' = template.superblock
      /\ UNCHANGED <<template, configured, recipients, feePercent, reward,
                     rewardToPool, outputs>>
  BY DEF Superblock
<1>2. template \in Templates /\ reward \in Int
  BY DEF CoinbaseInv, OutputsType
<1>3. OutputsType'
  BY <1>1, <1>2, TemplateType DEF CoinbaseInv, OutputsType, Phase
<1>4. ValueInv' /\ FeesInv'
  BY <1>1 DEF CoinbaseInv, ValueInv, ValueIsConserved, FeesInv
<1>5. SignInv'
  BY <1>1, <1>2, TemplateType, TotalEmpty DEF CoinbaseInv, SignInv, Fits
<1> QED  BY <1>3, <1>4, <1>5 DEF CoinbaseInv

(* A fifth of what is left, rounded up, is not more than it.               *)
LEMMA PayeeType ==
    ASSUME OutputsType
    PROVE  /\ PayeeReward \in Int
           /\ template.payee_amount <= reward => PayeeReward \in 0..reward
<1>1. template.payee_amount \in Nat /\ reward \in Int
  BY TemplateType DEF OutputsType
<1>2. (reward + 4) \div 5 \in Int
  BY <1>1
<1>3. reward >= 0 => (reward + 4) \div 5 \in 0..reward
  BY <1>1
<1>4. CASE template.payee_amount # 0
  BY <1>1, <1>4 DEF PayeeReward
<1>5. CASE template.payee_amount = 0
  BY <1>1, <1>2, <1>3, <1>5 DEF PayeeReward
<1> QED  BY <1>4, <1>5

LEMMA PayPayeeInv == CoinbaseInv /\ PayPayee => CoinbaseInv'
<1> SUFFICES ASSUME CoinbaseInv, PayPayee PROVE CoinbaseInv'
  OBVIOUS
<1> DEFINE e == Output(template.payee, PayeeReward)
           none == template.payee = NoPayee
           amount == IF none THEN 0 ELSE PayeeReward
<1>1. /\ phase = "superblock" /\ phase' = "recipients" /\ pending = <<>>
      /\ pending' = recipients
      /\ UNCHANGED <<template, configured, recipients, feePercent>>
      /\ none => UNCHANGED <<reward, rewardToPool, outputs>>
      /\ ~none => /\ reward' = reward - PayeeReward
                  /\ rewardToPool' = rewardToPool - PayeeReward
                  /\ outputs' = Append(outputs, e)
  BY DEF PayPayee, Deduct
<1>2. /\ outputs \in Seq(Paid) /\ reward \in Int /\ rewardToPool = reward
      /\ template \in Templates /\ recipients \in Seq(Fee)
      /\ feePercent = PercentOf(recipients)
  BY <1>1 DEF CoinbaseInv, OutputsType, FeesInv
<1>3. /\ PayeeReward \in Int
      /\ template.payee_amount <= reward => PayeeReward \in 0..reward
  BY PayeeType DEF CoinbaseInv
<1>4. ~none => e \in Paid /\ e.amount = PayeeReward
  BY <1>2, <1>3, EntryTypes, TemplateType
<1>5. /\ reward' = reward - amount /\ rewardToPool' = reward'
      /\ amount \in Int /\ reward' \in Int
  BY <1>1, <1>2, <1>3
<1> HIDE DEF e
<1>6. outputs' \in Seq(Paid)
  BY <1>1, <1>2, <1>4
<1>7. OutputsType'
  <2>1. Len(recipients) \in Nat
    BY <1>2
  <2> QED  BY <1>1, <1>2, <1>5, <1>6, <2>1 DEF CoinbaseInv, OutputsType, Phase
<1>8. ValueInv'
  <2>1. Total(outputs') = Total(outputs) + amount
    <3>1. CASE none
      <4>1. Total(outputs) \in Int
        BY <1>2, EntryTypes, AmountsType
      <4> QED  BY <1>1, <3>1, <4>1
    <3>2. CASE ~none
      <4>1. Total(Append(outputs, e)) = Total(outputs) + e.amount
        BY <1>2, <1>4, <3>2, EntryTypes, TotalAppend
      <4> QED  BY <1>1, <1>4, <3>2, <4>1
    <3> QED  BY <3>1, <3>2
  <2>2. Total(outputs) \in Int /\ template.coinbasevalue \in Nat
    BY <1>2, EntryTypes, AmountsType, TemplateType
  <2> HIDE DEF amount
  <2> QED  BY <1>1, <1>2, <1>5, <2>1, <2>2 DEF CoinbaseInv, ValueInv, ValueIsConserved
<1>9. FeesInv'
  <2>1. PaidSoFar' = 0 /\ Len(outputs') \in Nat
    BY <1>1, <1>2, <1>6 DEF PaidSoFar
  <2>2. LastSum(outputs', 0) = 0
    BY <1>6, LastNone
  <2>3. PercentOf(recipients) \in Nat
    BY <1>2, PercentsType
  <2>4. (feePercent' - PercentOf(pending')) * reward' = 0
    BY <1>1, <1>2, <1>5, <2>3
  <2> QED  BY <1>1, <1>2, <1>5, <2>1, <2>2, <2>4 DEF FeesInv
<1>10. SignInv'
  <2>1. Fits' = Fits
    BY <1>1 DEF Fits
  <2>2. template.payee_amount \in Nat
    BY <1>2, TemplateType
  <2>3. Fits => /\ template.payee_amount <= reward
                /\ \A i \in DOMAIN outputs : outputs[i].amount >= 0
    BY <1>1, <1>2, <2>2, TotalEmpty DEF CoinbaseInv, SignInv
  <2>4. ASSUME Fits PROVE \A i \in DOMAIN outputs' : outputs'[i].amount >= 0
    BY <1>1, <1>2, <1>3, <1>4, <2>3, <2>4
  <2>5. ASSUME Fits PROVE reward' >= 0
    BY <1>2, <1>3, <1>5, <2>2, <2>3, <2>5
  <2> QED  BY <1>1, <2>1, <2>4, <2>5 DEF SignInv
<1> QED  BY <1>7, <1>8, <1>9, <1>10 DEF CoinbaseInv

LEMMA RecipientType ==
    ASSUME NEW p \in Nat, reward \in Int, NEW amount \in RecipientReward(p)
    PROVE  /\ amount \in Int
           /\ amount * 100 <= p * reward /\ amount * 100 >= p * reward - 100
           /\ reward >= 0 => amount >= 0
<1> DEFINE exact == p * reward
<1>1. exact \in Int /\ (reward >= 0 => exact >= 0)
  <2>1. \A x \in Nat, y \in Int : x * y \in Int /\ (y >= 0 => x * y >= 0)
    OBVIOUS
  <2> QED  BY <2>1
<1>2. \/ amount = exact \div 100
      \/ exact % 100 = 0 /\ exact > 0 /\ amount = exact \div 100 - 1
  BY DEF RecipientReward
<1> HIDE DEF exact
<1>3. /\ exact \div 100 \in Int
      /\ (exact \div 100) * 100 <= exact /\ (exact \div 100) * 100 > exact - 100
      /\ exact >= 0 => exact \div 100 >= 0
      /\ exact % 100 = 0 => (exact \div 100) * 100 = exact
      /\ exact % 100 = 0 /\ exact > 0 => exact \div 100 >= 1
  BY <1>1
<1>4. /\ amount \in Int /\ amount * 100 <= exact /\ amount * 100 >= exact - 100
      /\ exact >= 0 => amount >= 0
  BY <1>1, <1>2, <1>3
<1> QED  BY <1>1, <1>4 DEF exact

LEMMA PayRecipientInv == CoinbaseInv /\ PayRecipient => CoinbaseInv'
<1> SUFFICES ASSUME CoinbaseInv, PayRecipient PROVE CoinbaseInv'
  OBVIOUS
<1>1. PICK amount \in RecipientReward(Head(pending).percent) :
          /\ rewardToPool' = rewardToPool - amount
          /\ outputs' = Append(outputs, Output(Head(pending).to, amount))
  BY DEF PayRecipient
<1> DEFINE fee == Head(pending)
           e == Output(fee.to, amount)
           k == PaidSoFar
           paid == LastSum(outputs, k)
           left == PercentOf(pending)
<1>2. /\ phase = "recipients" /\ pending # <<>> /\ pending' = Tail(pending)
      /\ UNCHANGED <<phase, template, configured, recipients, feePercent, reward>>
  BY DEF PayRecipient
<1>3. /\ outputs \in Seq(Paid) /\ reward \in Int /\ rewardToPool \in Int
      /\ template \in Templates /\ recipients \in Seq(Fee) /\ pending \in Seq(Fee)
      /\ Len(pending) <= Len(recipients) /\ feePercent = PercentOf(recipients)
  BY <1>2 DEF CoinbaseInv, OutputsType
<1>4. /\ fee \in Fee /\ pending' \in Seq(Fee) /\ Len(pending') = Len(pending) - 1
      /\ Len(recipients) \in Nat /\ Len(pending) \in Nat /\ Len(pending) >= 1
  BY <1>2, <1>3
<1>5. fee.percent \in Nat /\ fee.to \in Payees
  BY <1>4, EntryTypes
<1>6. /\ amount \in Int
      /\ amount * 100 <= fee.percent * reward
      /\ amount * 100 >= fee.percent * reward - 100
      /\ reward >= 0 => amount >= 0
  BY <1>1, <1>3, <1>5, RecipientType
<1>7. e \in Paid /\ e.amount = amount
  BY <1>5, <1>6, EntryTypes
<1>8. outputs' = Append(outputs, e) /\ outputs' \in Seq(Paid)
  BY <1>1, <1>3, <1>7
<1> HIDE DEF fee, e
<1>9. OutputsType'
  BY <1>1, <1>2, <1>3, <1>4, <1>6, <1>8 DEF CoinbaseInv, OutputsType
<1>10. ValueInv'
  <2>1. Total(outputs') = Total(outputs) + amount
    BY <1>3, <1>7, <1>8, EntryTypes, TotalAppend
  <2>2. Total(outputs) \in Int /\ template.coinbasevalue \in Nat
    BY <1>3, EntryTypes, AmountsType, TemplateType
  <2> QED  BY <1>1, <1>2, <1>3, <1>6, <2>1, <2>2 DEF CoinbaseInv, ValueInv,
               ValueIsConserved
<1>11. FeesInv'
  <2>1. k \in Nat /\ PaidSoFar' = k + 1
    BY <1>2, <1>3, <1>4 DEF PaidSoFar
  <2>2. paid \in Int
    BY <1>3, <2>1, EntryTypes, LastType
  <2>3. LastSum(outputs', k + 1) = paid + amount
    BY <1>3, <1>7, <1>8, <2>1, EntryTypes, LastAppend
  <2>4. left = fee.percent + PercentOf(pending') /\ PercentOf(pending') \in Nat
    BY <1>2, <1>3, <1>4, PercentTail, PercentsType DEF fee
  <2>5. feePercent \in Nat
    BY <1>3, PercentsType
  <2>6. (feePercent - PercentOf(pending')) * reward
          = (feePercent - left) * reward + fee.percent * reward
    <3>1. \A a, b, r \in Int : (a + b) * r = a * r + b * r
      OBVIOUS
    <3>2. feePercent - PercentOf(pending') = (feePercent - left) + fee.percent
      BY <1>5, <2>4, <2>5
    <3>3. feePercent - left \in Int /\ fee.percent \in Int
      BY <1>5, <2>4, <2>5
    <3> HIDE DEF left
    <3> QED  BY <1>3, <3>1, <3>2, <3>3
  <2>7. /\ (feePercent - left) * reward \in Int /\ fee.percent * reward \in Int
    <3>1. feePercent - left \in Int /\ fee.percent \in Int
      BY <1>5, <2>4, <2>5
    <3>2. \A a, b \in Int : a * b \in Int
      OBVIOUS
    <3> HIDE DEF left
    <3> QED  BY <1>3, <3>1, <3>2
  <2> DEFINE due == (feePercent - left) * reward
  <2>8. /\ paid * 100 <= due /\ paid * 100 >= due - 100 * k
        /\ rewardToPool = reward - paid /\ k <= Len(outputs)
    BY <1>2 DEF CoinbaseInv, FeesInv
  <2> HIDE DEF paid, k, left, due
  <2>9. /\ (paid + amount) * 100 <= due + fee.percent * reward
        /\ (paid + amount) * 100 >= (due + fee.percent * reward) - 100 * (k + 1)
    BY <1>6, <2>1, <2>2, <2>7, <2>8 DEF due
  <2>10. rewardToPool' = reward - (paid + amount)
    BY <1>1, <1>3, <1>6, <2>2, <2>8
  <2>11. k + 1 <= Len(outputs')
    BY <1>3, <1>8, <2>1, <2>8
  <2> QED  BY <1>2, <2>1, <2>3, <2>6, <2>9, <2>10, <2>11 DEF FeesInv, due
<1>12. SignInv'
  <2>1. Fits' = Fits
    BY <1>2 DEF Fits
  <2>2. Fits => reward >= 0 /\ \A i \in DOMAIN outputs : outputs[i].amount >= 0
    BY <1>2 DEF CoinbaseInv, SignInv
  <2>3. ASSUME Fits PROVE \A i \in DOMAIN outputs' : outputs'[i].amount >= 0
    BY <1>3, <1>6, <1>7, <1>8, <2>2, <2>3
  <2> QED  BY <1>2, <2>1, <2>2, <2>3 DEF SignInv
<1> QED  BY <1>9, <1>10, <1>11, <1>12 DEF CoinbaseInv

LEMMA PayPoolInv == CoinbaseInv /\ PayPool => CoinbaseInv'
<1> SUFFICES ASSUME CoinbaseInv, PayPool PROVE CoinbaseInv'
  OBVIOUS
<1> DEFINE e == Output(Pool, rewardToPool)
           n == Len(recipients)
           paid == LastSum(outputs, n)
<1>1. /\ phase = "recipients" /\ phase' = "done" /\ pending = <<>>
      /\ outputs' = <<e>> \o outputs
      /\ UNCHANGED <<template, configured, recipients, feePercent, pending,
                     reward, rewardToPool>>
  BY DEF PayPool
<1>2. /\ outputs \in Seq(Paid) /\ reward \in Int /\ rewardToPool \in Int
      /\ template \in Templates /\ recipients \in Seq(Fee)
      /\ feePercent = PercentOf(recipients) /\ feePercent \in Nat
  BY <1>1, PercentsType DEF CoinbaseInv, OutputsType
<1>3. e \in Paid /\ e.amount = rewardToPool
  BY <1>2, EntryTypes
<1>4. n \in Nat /\ PaidSoFar = n /\ PaidSoFar' = n
  BY <1>1, <1>2 DEF PaidSoFar
<1>5. outputs' \in Seq(Paid) /\ Len(outputs') = Len(outputs) + 1 /\ Len(outputs) \in Nat
  BY <1>1, <1>2, <1>3
<1> HIDE DEF e
<1>6. OutputsType'
  BY <1>1, <1>5 DEF CoinbaseInv, OutputsType, Phase
<1>7. ValueInv'
  <2>1. Total(outputs') = rewardToPool + Total(outputs)
    BY <1>1, <1>2, <1>3, EntryTypes, TotalInFront
  <2>2. Total(outputs) \in Int /\ template.coinbasevalue \in Nat
    BY <1>2, EntryTypes, AmountsType, TemplateType
  <2> QED  BY <1>1, <1>2, <2>1, <2>2 DEF CoinbaseInv, ValueInv, ValueIsConserved
<1> DEFINE due == (feePercent - PercentOf(pending)) * reward
<1>8. /\ paid * 100 <= due /\ paid * 100 >= due - 100 * n
      /\ rewardToPool = reward - paid /\ n <= Len(outputs)
  BY <1>1, <1>4 DEF CoinbaseInv, FeesInv
<1>9. LastSum(outputs', n) = paid
  <2>1. n \in 0..Len(outputs)
    BY <1>4, <1>5, <1>8
  <2> HIDE DEF n
  <2> QED  BY <1>1, <1>2, <1>3, <2>1, EntryTypes, LastInFront
<1>10. FeesInv'
  <2> HIDE DEF n, paid
  <2> QED  BY <1>1, <1>4, <1>5, <1>8, <1>9 DEF FeesInv
<1>11. SignInv'
  <2>1. Fits' = Fits
    BY <1>1 DEF Fits
  <2>2. Fits => reward >= 0 /\ \A i \in DOMAIN outputs : outputs[i].amount >= 0
    BY <1>1 DEF CoinbaseInv, SignInv
  <2>3. ASSUME Fits, feePercent <= 100 PROVE rewardToPool >= 0
    <3>1. due = feePercent * reward
      BY <1>1, <1>2, PercentEmpty
    <3>2. feePercent * reward <= 100 * reward
      <4>1. \A p \in 0..100, r \in Nat : p * r <= 100 * r
        <5>1. ASSUME NEW p \in 0..100, NEW r \in Nat PROVE p * r <= 100 * r
          <6>1. \A a, b \in Nat : a * b >= 0 /\ a * b \in Int
            OBVIOUS
          <6>2. (100 - p) * r = 100 * r - p * r
            OBVIOUS
          <6>3. (100 - p) * r >= 0 /\ p * r \in Int
            BY <6>1
          <6> QED  BY <6>2, <6>3
        <5> QED  BY <5>1
      <4> QED  BY <1>2, <2>2, <2>3, <4>1
    <3>3. paid \in Int
      BY <1>2, <1>4, EntryTypes, LastType
    <3>4. feePercent * reward \in Int
      <4>1. \A a, b \in Int : a * b \in Int
        OBVIOUS
      <4> QED  BY <1>2, <4>1
    <3> HIDE DEF paid, due
    <3> QED  BY <1>2, <1>8, <3>1, <3>2, <3>3, <3>4
  <2>4. ASSUME Fits, feePercent <= 100
        PROVE  \A i \in DOMAIN outputs' : outputs'[i].amount >= 0
    <3>1. ASSUME NEW i \in DOMAIN outputs' PROVE outputs'[i].amount >= 0
      <4>1. CASE i = 1
        BY <1>1, <1>2, <1>3, <2>3, <2>4, <4>1
      <4>2. CASE i # 1
        <5>1. i - 1 \in DOMAIN outputs /\ outputs'[i] = outputs[i - 1]
          BY <1>1, <1>2, <1>5, <3>1, <4>2
        <5> QED  BY <2>2, <2>4, <5>1
      <4> QED  BY <4>1, <4>2
    <3> QED  BY <3>1
  <2> QED  BY <1>1, <2>1, <2>2, <2>4 DEF SignInv
<1> QED  BY <1>6, <1>7, <1>10, <1>11 DEF CoinbaseInv

LEMMA CoinbaseStep == CoinbaseInv /\ [CoinbaseNext]_coinbaseVars => CoinbaseInv'
<1>1. CoinbaseInv /\ UNCHANGED coinbaseVars => CoinbaseInv'
  BY DEF coinbaseVars, CoinbaseInv, OutputsType, ValueInv, ValueIsConserved, FeesInv,
         PaidSoFar, SignInv, Fits
<1> QED  BY <1>1, SetupInv, BeginInv, PayPartInv, SuperblockInv, PayPayeeInv,
            PayRecipientInv, PayPoolInv DEF CoinbaseNext

LEMMA CoinbaseAlways == CoinbaseSpec => []CoinbaseInv
<1> QED  BY CoinbaseStart, CoinbaseStep, PTL DEF CoinbaseSpec

(* Lines 126-253 of transactions.js: whatever masternodes, superblock,     *)
(* payee and recipients a block pays, the outputs written and what the     *)
(* pool is still to get make up coinbasevalue.                             *)
THEOREM CoinbaseConserved == CoinbaseSpec => []ValueIsConserved
<1>1. CoinbaseInv => ValueIsConserved
  BY DEF CoinbaseInv, ValueInv
<1> QED  BY <1>1, CoinbaseAlways, PTL

(* pool.js 337-362 with lines 221-230: the recipients get the announced    *)
(* percentage of what is left after the deductions, less at most one       *)
(* satoshi each, whichever of the configured addresses are valid.          *)
THEOREM CoinbaseFee == CoinbaseSpec => []FeeIsAdvertised
<1>1. ASSUME CoinbaseInv PROVE FeeIsAdvertised
  <2>1. SUFFICES ASSUME phase = "done"
        PROVE  LET paid == LastSum(outputs, Len(recipients))
               IN  /\ paid * 100 <= feePercent * reward
                   /\ paid * 100 >= feePercent * reward - 100 * Len(recipients)
    BY DEF FeeIsAdvertised
  <2>2. /\ pending = <<>> /\ recipients \in Seq(Fee) /\ reward \in Int
        /\ feePercent = PercentOf(recipients)
    BY <1>1, <2>1 DEF CoinbaseInv, OutputsType
  <2>3. feePercent \in Nat
    BY <2>2, PercentsType
  <2>4. PaidSoFar = Len(recipients)
    BY <2>2 DEF PaidSoFar
  <2>5. feePercent - PercentOf(pending) = feePercent
    BY <2>2, <2>3, PercentEmpty
  <2> QED  BY <1>1, <2>1, <2>4, <2>5 DEF CoinbaseInv, FeesInv
<1> QED  BY <1>1, CoinbaseAlways, PTL

(* packInt64LE never gets a negative amount, with fees of at most 100      *)
(* percent and a template whose parts are within its value.                *)
THEOREM CoinbaseSigns == CoinbaseSpec => []NoNegativeOutput
<1>1. CoinbaseInv => NoNegativeOutput
  BY DEF CoinbaseInv, SignInv, Fits, NoNegativeOutput
<1> QED  BY <1>1, CoinbaseAlways, PTL

=============================================================================
