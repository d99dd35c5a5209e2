----------------------------- MODULE StratumPool -----------------------------
(***************************************************************************)
(* The stratum pool: patches/merged-pooler/lib/pool.js and the RPC client  *)
(* it calls the coin daemons with, lib/daemon.js.                          *)
(*                                                                         *)
(* start (40-59) is a chain of callbacks that ends with the stratum server *)
(* serving jobs.  From then on jobs follow the templates that              *)
(* getblocktemplate returns, asked for by a poll, by a block notification, *)
(* by the broadcast timeout or by the auxiliary chains; shares come in,    *)
(* and one that solves a block is submitted to every daemon, looked up     *)
(* again and only then recorded, by the 'share' event.                     *)
(*                                                                         *)
(* An action is one callback.  A template is named by the block it builds  *)
(* on, and a block by its height and the share that made it.  The job      *)
(* manager, the stratum server and the daemons are not in the repository:  *)
(* what they do is modelled from how pool.js uses them.                    *)
(***************************************************************************)
EXTENDS Naturals, Sequences, FiniteSets

CONSTANTS
    Daemons,    \* options.daemons
    Auxes,      \* options.auxes, the chains mined along
    Shares,     \* the shares that miners submit
    Calls,      \* getblocktemplate calls under way at the same time (bound)
    Works,      \* the work an auxiliary chain hands out (bound)
    Network,    \* everybody else who finds blocks
    NoJob,      \* currentJob is undefined
    NoWork,     \* rpcData of an auxiliary chain is undefined
    Polling,    \* options.blockRefreshInterval is a positive number
    MaxHeight,  \* how high the chain grows (bound)
    MaxFaults,  \* how many calls may fail (bound)
    Faults      \* which calls may: "start", "template", "notice", "submit",
                \* "check", "crash", and "aux" in MergedMining

ASSUME HeightAssumption == MaxHeight \in Nat
ASSUME FaultAssumption  == MaxFaults \in Nat
ASSUME NameAssumption   == /\ Network \notin Shares
                           /\ NoWork \notin Works
                           /\ Polling \in BOOLEAN

VARIABLES
    \* the daemons
    synced,       \* the daemons that have left initial block download
    tip,          \* the best block of each daemon
    known,        \* the blocks of the pool that each daemon has stored
    notices,      \* block notifications under way to the pool
    \* the pool
    stage,        \* how far the chain of callbacks of start has come
    calls,        \* what each getblocktemplate call is for
    requests,     \* <<call, daemon>>: sent, not yet looked at
    answers,      \* templates on their way back
    auxWork,      \* auxes[i].rpcData.hash
    job,          \* jobManager.currentJob
    issued,       \* the jobs the job manager takes shares for
    rebroadcast,  \* the timer that emits 'broadcastTimeout' is set
    pc,           \* how far the handling of each share has come
    mined,        \* the job each block that was submitted was mined on
    submit,       \* what each daemon has answered to SubmitBlock
    emitted,      \* the 'share' and 'block' events, in their order
    faults,       \* calls that have failed so far
    \* history, read by no action
    spoilt        \* the shares that a failed call or a crash has hit

daemonVars == <<synced, tip, known, notices>>
callVars   == <<calls, requests, answers>>
jobVars    == <<job, issued, rebroadcast>>
shareVars  == <<pc, mined, submit, emitted, spoilt>>
vars == <<daemonVars, stage, callVars, auxWork, jobVars, shareVars, faults>>

Stage == { "daemons", "detect", "syncing", "auxes", "first", "serving",
           "stopped" }
Purpose == { "idle", "first", "poll", "timeout", "aux" }
Verdict == { "none", "sent", "accepted", "duplicate", "refused", "rejected",
             "error", "silent" }
Handling == { "unsent", "submitting", "checking", "emitted", "dropped" }

Block  == [height : 0 .. MaxHeight + 1, by : Shares \cup {Network}]
Job    == [prev : Block, aux : [Auxes -> Works \cup {NoWork}]]
Origin == [height |-> 0, by |-> Network]

(* A call of a kind that may fail, as often as the bound lets it.          *)
Fails(kind) ==
    /\ kind \in Faults
    /\ faults < MaxFaults
    /\ faults' = faults + 1

-----------------------------------------------------------------------------
(* The daemons.                                                            *)

BlockOf(s) == [height |-> mined[s].prev.height + 1, by |-> s]

Has(d, b) == IF b.by = Network THEN b.height <= tip[d].height
                               ELSE b.by \in known[d]

(* A daemon switches to a block that is higher than its best one, and its  *)
(* blocknotify tells the pool.                                             *)
SwitchTo(d, b) ==
    IF b.height > tip[d].height
    THEN tip' = [tip EXCEPT ![d] = b] /\ notices' = notices \cup {b}
    ELSE UNCHANGED <<tip, notices>>

Store(d, s) == /\ known' = [known EXCEPT ![d] = @ \cup {s}]
               /\ SwitchTo(d, BlockOf(s))

Synchronised(d) ==
    /\ d \notin synced
    /\ synced' = synced \cup {d}
    /\ UNCHANGED <<tip, known, notices, stage, callVars, auxWork, jobVars,
                   shareVars, faults>>

NetworkBlock(d) ==
    /\ tip[d].height < MaxHeight
    /\ SwitchTo(d, [height |-> tip[d].height + 1, by |-> Network])
    /\ UNCHANGED <<synced, known, stage, callVars, auxWork, jobVars,
                   shareVars, faults>>

(* The daemons are peers of each other.                                    *)
CatchUp(d) ==
    \E e \in Daemons :
        /\ tip[e].height > tip[d].height
        /\ SwitchTo(d, tip[e])
        /\ known' = [known EXCEPT ![d] = @ \cup known[e]]
        /\ UNCHANGED <<synced, stage, callVars, auxWork, jobVars, shareVars,
                       faults>>

-----------------------------------------------------------------------------
(* getblocktemplate: asked of every daemon, and each answer handled as it  *)
(* comes (streamResults of daemon.js 165).                                 *)

AskFor(c, purpose) ==
    /\ calls[c] = "idle"
    /\ calls' = [calls EXCEPT ![c] = purpose]
    /\ requests' = requests \cup ({c} \X Daemons)
    /\ UNCHANGED answers

TemplateBuilt(c, d) ==
    /\ <<c, d>> \in requests
    /\ d \in synced
    /\ requests' = requests \ {<<c, d>>}
    /\ answers' = answers \cup {[call |-> c, daemon |-> d, prev |-> tip[d]]}
    /\ UNCHANGED <<daemonVars, stage, calls, auxWork, jobVars, shareVars,
                   faults>>

(* jobManager.isNewWork: another previous block; one that is lower than    *)
(* that of the current job may be refused.                                 *)
IsNewWork(prev) ==
    IF job = NoJob THEN {TRUE}
    ELSE IF prev = job.prev THEN {FALSE}
    ELSE IF prev.height < job.prev.height THEN BOOLEAN ELSE {TRUE}

(* Mutant: the valid jobs are set before the current one is replaced.      *)
ProcessTemplateLate(j) == job' = j /\ issued' = {job}

(* jobManager.processTemplate and updateCurrentJob; the latter keeps the   *)
(* jobs of before, which is what clearing job[8] tells the miners.         *)
ProcessTemplate(j)  == job' = j /\ issued' = {j}
UpdateCurrentJob(j) == job' = j /\ issued' = issued \cup {j}

(* The callback is used up by the first template; a forced update forces   *)
(* every template of the call.                                             *)
Rest(purpose) == IF purpose = "aux" THEN "aux" ELSE "poll"

NoMore(c, d) == /\ \A e \in Daemons \ {d} : <<c, e>> \notin requests
                /\ \A m \in answers : m.call = c => m.daemon = d

(* Lines 723 to 736 with the callbacks of 607 and 89.                      *)
TemplateArrives(m) ==
    LET purpose == calls[m.call]
        new     == [prev |-> m.prev, aux |-> auxWork]
    IN  /\ m \in answers
        /\ answers' = answers \ {m}
        /\ calls' = [calls EXCEPT ![m.call] =
                         IF NoMore(m.call, m.daemon) THEN "idle"
                                                     ELSE Rest(purpose)]
        /\ stage' = IF purpose = "first" THEN "serving" ELSE stage
        /\ \E isNew \in IsNewWork(m.prev) :
              \/ /\ isNew \/ purpose = "aux"
                 /\ ProcessTemplate(new)
                 /\ rebroadcast' = (stage' = "serving")
              \/ /\ ~isNew /\ purpose = "timeout"
                 /\ UpdateCurrentJob(new)
                 /\ rebroadcast' = TRUE
              \/ /\ ~isNew /\ purpose \notin {"aux", "timeout"}
                 /\ UNCHANGED jobVars
        /\ UNCHANGED <<daemonVars, requests, auxWork, shareVars, faults>>

(* An error, or no answer at all (daemon.js 65 to 86): line 104 of the     *)
(* first call and line 611 of the broadcast timeout just return.  A daemon *)
(* that is not synchronised answers with an error.                         *)
TemplateFails(c, d) ==
    /\ <<c, d>> \in requests
    /\ \/ d \notin synced /\ UNCHANGED faults
       \/ d \in synced /\ Fails("template")
    /\ requests' = requests \ {<<c, d>>}
    /\ calls' = [calls EXCEPT ![c] = IF NoMore(c, d) THEN "idle" ELSE @]
    /\ stage' = IF calls[c] = "first" /\ NoMore(c, d) THEN "stopped" ELSE stage
    /\ UNCHANGED <<daemonVars, answers, auxWork, jobVars, shareVars>>

-----------------------------------------------------------------------------
(* start, 40 to 59.                                                        *)

(* SetupDaemonInterfaces and isOnline (daemon.js 39): it tests the array   *)
(* of the results for an error, so that any answer counts as online.       *)
SetupDaemonInterfaces ==
    /\ stage = "daemons"
    /\ stage' = "detect"
    /\ UNCHANGED <<daemonVars, callVars, auxWork, jobVars, shareVars, faults>>

(* One batch to the first daemon; an error of any of its calls returns.    *)
DetectCoinData ==
    /\ stage = "detect"
    /\ stage' = "syncing"
    /\ UNCHANGED <<daemonVars, callVars, auxWork, jobVars, shareVars, faults>>

(* Lines 49 and 456 to 576: a call without an answer, or a refused one,    *)
(* ends the chain of callbacks; nothing starts it again.                   *)
StartFails ==
    /\ stage \in {"daemons", "detect", "syncing"}
    /\ stage' = "stopped"
    /\ Fails("start")
    /\ UNCHANGED <<daemonVars, callVars, auxWork, jobVars, shareVars>>

(* Lines 155 to 157: only error -10 counts as not synchronised.            *)
CountsAsSynced(failed) == Daemons \ failed \subseteq synced

(* Mutant: the progress is reported in every round.                        *)
CheckSyncedAndReport ==
    /\ stage = "syncing"
    /\ \/ CountsAsSynced({}) /\ stage' = "auxes"
       \/ stage' = "daemons"
    /\ UNCHANGED <<daemonVars, callVars, auxWork, jobVars, shareVars, faults>>

(* A round of checkSynced (146-171): setTimeout (163) tries again.  The    *)
(* progress report throws, and the process is forked again, when a daemon  *)
(* has no answer or no peers (181 to 191).                                 *)
CheckSynced ==
    /\ stage = "syncing"
    /\ \E failed \in SUBSET Daemons :
          /\ IF failed = {} THEN UNCHANGED faults ELSE Fails("start")
          /\ \/ CountsAsSynced(failed) /\ stage' = "auxes"
             \/ ~CountsAsSynced(failed) /\ stage' \in {"syncing", "daemons"}
    /\ UNCHANGED <<daemonVars, callVars, auxWork, jobVars, shareVars>>

-----------------------------------------------------------------------------
(* What makes the pool look for new work.                                  *)

Poll(c) ==
    /\ Polling /\ stage = "serving"
    /\ AskFor(c, "poll")
    /\ UNCHANGED <<daemonVars, stage, auxWork, jobVars, shareVars, faults>>

(* processBlockNotify, 787 to 797; the cli of the pool, or p2p.            *)
ProcessBlockNotify(b) ==
    /\ b \in notices
    /\ notices' = notices \ {b}
    /\ IF job # NoJob /\ b # job.prev
       THEN \E c \in Calls : AskFor(c, "poll")
       ELSE UNCHANGED callVars
    /\ UNCHANGED <<synced, tip, known, stage, auxWork, jobVars, shareVars,
                   faults>>

NoticeLost(b) ==
    /\ b \in notices
    /\ notices' = notices \ {b}
    /\ Fails("notice")
    /\ UNCHANGED <<synced, tip, known, stage, callVars, auxWork, jobVars,
                   shareVars>>

(* Mutant: the answer to the timeout is only looked at for new work.       *)
TimeoutOnlyPolls(c) ==
    /\ rebroadcast
    /\ rebroadcast' = FALSE
    /\ AskFor(c, "poll")
    /\ UNCHANGED <<daemonVars, stage, auxWork, job, issued, shareVars, faults>>

(* 'broadcastTimeout', 607: the next broadcast sets the timer again.       *)
BroadcastTimeout(c) ==
    /\ rebroadcast
    /\ rebroadcast' = FALSE
    /\ AskFor(c, "timeout")
    /\ UNCHANGED <<daemonVars, stage, auxWork, job, issued, shareVars, faults>>

(* GetFirstJob (86) and UpdateAuxes (61-84) as far as the parent chain     *)
(* sees them: work arrives or fails to; the first template is asked for, a *)
(* template is forced, or the start ends because an answer never comes.    *)
(* Without auxiliary chains the first template is asked for at once.       *)
(* MergedMining has the whole of it.                                       *)
UpdateAuxes ==
    /\ stage \in {"auxes", "first", "serving", "stopped"}
    /\ auxWork' \in [Auxes -> Works \cup {NoWork}]
    /\ \A a \in Auxes : auxWork'[a] = NoWork => auxWork[a] = NoWork
    /\ \/ /\ stage = "auxes" /\ stage' = "first"
          /\ \E c \in Calls : AskFor(c, "first")
       \/ Auxes # {} /\ UNCHANGED <<stage, callVars>>
       \/ /\ Auxes # {} /\ stage = "auxes" /\ stage' = "stopped"
          /\ UNCHANGED callVars
       \/ /\ Auxes # {} /\ stage = "serving" /\ UNCHANGED stage
          /\ \E c \in Calls : AskFor(c, "aux")
    /\ UNCHANGED faults \/ Fails("aux")
    /\ UNCHANGED <<daemonVars, jobVars, shareVars>>

-----------------------------------------------------------------------------
(* Shares: the 'share' handler of SetupJobManager, 380 to 445.             *)

ShareEvent(s, valid, block) ==
    [event |-> "share", share |-> s, valid |-> valid, block |-> block]

(* Lines 436 and 437: a 'block' event follows whether or not the block was *)
(* accepted; without a height and a transaction when it was not.           *)
BlockEvent(s, found) ==
    [event |-> "block", share |-> s, valid |-> TRUE, block |-> found]

Event == [event : {"share", "block"}, share : Shares, valid : BOOLEAN,
          block : BOOLEAN]

(* Line 410 reads the target of every auxiliary chain for a valid share.   *)
AuxTargetsKnown == \A a \in Auxes : auxWork[a] # NoWork

(* processShare takes shares for the issued jobs; one that is wrong or     *)
(* solves no block is emitted at once.                                     *)
PlainShare(s, j, valid) ==
    /\ stage = "serving"
    /\ pc[s] = "unsent" /\ j \in issued
    /\ valid => AuxTargetsKnown
    /\ pc' = [pc EXCEPT ![s] = "emitted"]
    /\ emitted' = Append(emitted, ShareEvent(s, valid, FALSE))
    /\ UNCHANGED <<daemonVars, stage, callVars, auxWork, jobVars, mined,
                   submit, spoilt, faults>>

(* SubmitBlock, 257: one that solves a block goes to every daemon.         *)
BlockShare(s, j) ==
    /\ stage = "serving"
    /\ pc[s] = "unsent" /\ j \in issued
    /\ AuxTargetsKnown
    /\ j.prev.height < MaxHeight
    /\ mined' = [mined EXCEPT ![s] = j]
    /\ pc' = [pc EXCEPT ![s] = "submitting"]
    /\ submit' = [submit EXCEPT ![s] = [d \in Daemons |-> "sent"]]
    /\ UNCHANGED <<daemonVars, stage, callVars, auxWork, jobVars, emitted,
                   spoilt, faults>>

Sent(s, d) == submit[s][d] = "sent"

SubmitAnswer(s, d) == IF s \in known[d] THEN "duplicate"
                      ELSE IF Has(d, mined[s].prev) THEN "accepted"
                      ELSE "refused"

(* The daemon has the block, takes it, or does not know what it builds on. *)
Submitted(s, d) ==
    /\ Sent(s, d)
    /\ submit' = [submit EXCEPT ![s][d] = SubmitAnswer(s, d)]
    /\ IF SubmitAnswer(s, d) = "accepted" THEN Store(d, s)
                                          ELSE UNCHANGED <<known, tip, notices>>
    /\ UNCHANGED <<synced, stage, callVars, auxWork, jobVars, pc, mined,
                   emitted, spoilt, faults>>

(* The block is not taken, or is taken and the answer is lost.             *)
SubmitFails(s, d) ==
    /\ Sent(s, d)
    /\ Fails("submit")
    /\ \/ /\ \E v \in {"refused", "rejected", "error", "silent"} :
                submit' = [submit EXCEPT ![s][d] = v]
          /\ UNCHANGED <<known, tip, notices>>
       \/ /\ Has(d, mined[s].prev)
          /\ \E v \in {"error", "silent"} :
                submit' = [submit EXCEPT ![s][d] = v]
          /\ Store(d, s)
    /\ spoilt' = spoilt \cup {s}
    /\ UNCHANGED <<synced, stage, callVars, auxWork, jobVars, pc, mined,
                   emitted>>

(* Mutant: a daemon that has the block already did not accept it.          *)
DuplicateTurnsDown(v) == v \in {"error", "rejected", "duplicate"}

(* Lines 278 to 290: every other answer counts as success.                 *)
TurnsDown(v) == v \in {"error", "rejected"}

AllAnswered(s) == \A d \in Daemons : submit[s][d] \notin {"sent", "silent"}

SubmitDone(s) ==
    /\ pc[s] = "submitting"
    /\ AllAnswered(s)
    /\ pc' = [pc EXCEPT ![s] = IF \E d \in Daemons : TurnsDown(submit[s][d])
                               THEN "dropped" ELSE "checking"]
    /\ UNCHANGED <<daemonVars, stage, callVars, auxWork, jobVars, mined,
                   submit, emitted, spoilt, faults>>

(* Mutant: every daemon that answers has to return the block.              *)
AllHaveIt(s, unheard) == \A d \in Daemons \ unheard : s \in known[d]

(* validResults of line 766: a daemon returns the block by its hash.       *)
IsAccepted(s, unheard) == \E d \in Daemons \ unheard : s \in known[d]

(* CheckBlockAccepted with the callback of 428: the share is emitted as a  *)
(* block or not, and the pool asks for the next template.                  *)
CheckBlockAccepted(s, c) ==
    /\ pc[s] = "checking"
    /\ \E unheard \in SUBSET Daemons :
          /\ IF unheard = {} THEN UNCHANGED <<faults, spoilt>>
             ELSE Fails("check") /\ spoilt' = spoilt \cup {s}
          /\ LET found == IsAccepted(s, unheard)
             IN  emitted' = emitted \o <<ShareEvent(s, TRUE, found),
                                         BlockEvent(s, found)>>
    /\ pc' = [pc EXCEPT ![s] = "emitted"]
    /\ AskFor(c, "poll")
    /\ UNCHANGED <<daemonVars, stage, auxWork, jobVars, mined, submit>>

(* A process that ends is forked again; blocks under way reach the daemons *)
(* all the same.                                                           *)
Restart ==
    /\ stage' = "daemons"
    /\ calls' = [c \in Calls |-> "idle"]
    /\ requests' = {} /\ answers' = {}
    /\ auxWork' = [a \in Auxes |-> NoWork]
    /\ job' = NoJob /\ issued' = {}
    /\ rebroadcast' = FALSE
    /\ pc' = [s \in Shares |-> IF pc[s] \in {"submitting", "checking"}
                               THEN "dropped" ELSE pc[s]]
    /\ spoilt' = spoilt \cup {s \in Shares : pc'[s] = "dropped"}
    /\ UNCHANGED <<daemonVars, mined, submit, emitted>>

(* The first answer of an auxiliary daemon was an error, the pool serves   *)
(* all the same, and the first valid share throws (410).                   *)
ShareThrows == /\ stage = "serving" /\ ~AuxTargetsKnown
               /\ \E s \in Shares : pc[s] = "unsent"

Crash == /\ Fails("crash") \/ (ShareThrows /\ UNCHANGED faults)
         /\ Restart

-----------------------------------------------------------------------------
Init ==
    /\ synced \in SUBSET Daemons
    /\ tip = [d \in Daemons |-> Origin]
    /\ known = [d \in Daemons |-> {}]
    /\ notices = {}
    /\ stage = "daemons"
    /\ calls = [c \in Calls |-> "idle"]
    /\ requests = {} /\ answers = {}
    /\ auxWork = [a \in Auxes |-> NoWork]
    /\ job = NoJob /\ issued = {} /\ rebroadcast = FALSE
    /\ pc = [s \in Shares |-> "unsent"]
    /\ mined = [s \in Shares |-> NoJob]
    /\ submit = [s \in Shares |-> [d \in Daemons |-> "none"]]
    /\ emitted = <<>>
    /\ faults = 0 /\ spoilt = {}

NodeStep ==
    \E d \in Daemons :
        \/ Synchronised(d) \/ NetworkBlock(d) \/ CatchUp(d)
        \/ \E c \in Calls : TemplateBuilt(c, d) \/ TemplateFails(c, d)
        \/ \E s \in Shares : Submitted(s, d) \/ SubmitFails(s, d)

StartStep ==
    SetupDaemonInterfaces \/ DetectCoinData \/ StartFails \/ CheckSynced

WorkStep ==
    \/ \E m \in answers : TemplateArrives(m)
    \/ \E c \in Calls : Poll(c) \/ BroadcastTimeout(c)
    \/ \E b \in notices : ProcessBlockNotify(b) \/ NoticeLost(b)

ShareStep ==
    \E s \in Shares :
        \/ \E j \in issued :
              \/ \E valid \in BOOLEAN : PlainShare(s, j, valid)
              \/ BlockShare(s, j)
        \/ SubmitDone(s)
        \/ \E c \in Calls : CheckBlockAccepted(s, c)

Next == NodeStep \/ StartStep \/ WorkStep \/ ShareStep
        \/ UpdateAuxes \/ Crash

Spec == Init /\ [][Next]_vars

(* Every call that is not lost is answered, timers fire, a node that       *)
(* synchronises gets there.  Nobody has to find a block.                   *)
Fairness ==
    /\ \A d \in Daemons :
          /\ WF_vars(Synchronised(d)) /\ WF_vars(CatchUp(d))
          /\ \A c \in Calls : WF_vars(TemplateBuilt(c, d) \/ TemplateFails(c, d))
          /\ \A s \in Shares : WF_vars(Submitted(s, d))
    /\ WF_vars(SetupDaemonInterfaces) /\ WF_vars(DetectCoinData)
    /\ WF_vars(CheckSynced) /\ WF_vars(UpdateAuxes)
    /\ \A c \in Calls : WF_vars(\E m \in answers : m.call = c /\ TemplateArrives(m))
    /\ SF_vars(\E c \in Calls : BroadcastTimeout(c))
    /\ \A s \in Shares : /\ WF_vars(SubmitDone(s))
                         /\ SF_vars(\E c \in Calls : CheckBlockAccepted(s, c))

FairSpec == Spec /\ Fairness

-----------------------------------------------------------------------------
TypeOK ==
    /\ synced \subseteq Daemons
    /\ tip \in [Daemons -> Block]
    /\ known \in [Daemons -> SUBSET Shares]
    /\ notices \subseteq Block
    /\ stage \in Stage
    /\ calls \in [Calls -> Purpose]
    /\ requests \subseteq Calls \X Daemons
    /\ answers \subseteq [call : Calls, daemon : Daemons, prev : Block]
    /\ auxWork \in [Auxes -> Works \cup {NoWork}]
    /\ job \in Job \cup {NoJob}
    /\ issued \subseteq Job
    /\ rebroadcast \in BOOLEAN
    /\ pc \in [Shares -> Handling]
    /\ mined \in [Shares -> Job \cup {NoJob}]
    /\ submit \in [Shares -> [Daemons -> Verdict]]
    /\ emitted \in Seq(Event)
    /\ faults \in 0 .. MaxFaults
    /\ spoilt \subseteq Shares

Recorded(s) ==
    \E i \in DOMAIN emitted :
        emitted[i].event = "share" /\ emitted[i].share = s /\ emitted[i].block

(* No block is given up by mistake (278 to 290, 766): when the handling of *)
(* a share that solved a block is over, the share is recorded as a block,  *)
(* though daemons answered that they have it already or do not know what   *)
(* it builds on; unless a call for it failed or the process ended.         *)
FoundIsRecorded ==
    \A s \in Shares :
        mined[s] # NoJob /\ pc[s] \in {"emitted", "dropped"} /\ s \notin spoilt
            => Recorded(s)

(* A block that was found is recorded in the end, also when another daemon *)
(* or the network was faster, unless a call for it failed (257, 428).      *)
BlockIsRecorded ==
    \A s \in Shares :
        pc[s] = "submitting" ~> (Recorded(s) \/ s \in spoilt)

(* Once the chain rests the miners work on top of it, without polling and  *)
(* with notifications that are lost: the broadcast timeout (607) asks      *)
(* again, and late answers of older templates do not stay.                 *)
JobFollowsTip ==
    <>[](\A d \in Daemons :
            stage = "serving" => job.prev.height >= tip[d].height)

(* A pool whose daemons are still synchronising, or that is forked again,  *)
(* comes to serve (146 to 171), whatever order its daemons synchronise and *)
(* answer in; but when a call of the start has failed, nothing starts it   *)
(* again.                                                                  *)
ServesInTheEnd == [](stage # "stopped") => []<>(stage = "serving")

=============================================================================
