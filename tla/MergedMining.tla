---------------------------- MODULE MergedMining ----------------------------
(***************************************************************************)
(* Merged mining in patches/merged-pooler/lib/pool.js: the auxiliary       *)
(* chains a pool mines along.                                              *)
(*                                                                         *)
(* Every five seconds UpdateAuxes (61-84) asks each auxiliary daemon for   *)
(* its work, and a shared flag tells whether any of it is new, in which    *)
(* case a template is forced.  Updates overlap: each clears the flag.  A   *)
(* share that meets the target of an auxiliary chain is submitted with a   *)
(* proof that is built from the job and the work of that moment (295),     *)
(* then looked up and announced by the 'auxblock' event (380-402).         *)
(*                                                                         *)
(* The parent chain is StratumPool, whose actions this module extends; its *)
(* UpdateAuxes is what that module sees of this one.                       *)
(***************************************************************************)
EXTENDS StratumPool

CONSTANTS
    Updates,  \* UpdateAuxes calls under way at the same time (bound)
    Easy,     \* the auxiliary chains whose target a share can meet (bound)
    LastWork  \* the last work of each auxiliary chain (bound)

ASSUME WorkAssumption == \A a \in Auxes : 1 .. LastWork[a] \subseteq Works
ASSUME EasyAssumption == Auxes # {} /\ Easy \subseteq Auxes /\ LastWork \in [Auxes -> Nat \ {0}]

VARIABLES
    auxNow,       \* the work each auxiliary daemon hands out
    auxChain,     \* the work of each auxiliary chain that became a block
    updateNeeded, \* _this.updateNeeded
    updates,      \* what each UpdateAuxes call is for, and whether it is over
    auxRequests,  \* <<update, aux>>: getauxblock sent, not yet looked at
    auxAnswers,   \* work on its way back
    submissions,  \* proofs on their way to the daemons and answers back
    announced,    \* the blocks of the 'auxblock' events
    \* history, read by no action
    missed        \* taken blocks whose answer was lost or looked up wrongly

updateVars == <<updateNeeded, updates, auxRequests, auxAnswers>>
blockVars  == <<announced, missed>>
auxVars    == <<auxNow, auxChain, updateVars, submissions, blockVars>>
mergedVars == <<vars, auxVars>>

UpdatePurpose == { "idle", "first", "interval", "over" }

-----------------------------------------------------------------------------
(* UpdateAuxes, 61 to 84.                                                  *)

StartUpdate(u, purpose) ==
    /\ updates[u] = "idle"
    /\ updates' = [updates EXCEPT ![u] = purpose]
    /\ updateNeeded' = FALSE
    /\ auxRequests' = auxRequests \cup ({u} \X Auxes)
    /\ UNCHANGED auxAnswers

(* The first update of GetFirstJob, 88.                                    *)
FirstUpdate(u) ==
    /\ stage = "auxes"
    /\ \A v \in Updates : updates[v] # "first"
    /\ StartUpdate(u, "first")
    /\ UNCHANGED <<vars, auxNow, auxChain, submissions, blockVars>>

(* setInterval of line 110.                                                *)
IntervalUpdate(u) ==
    /\ stage = "serving"
    /\ StartUpdate(u, "interval")
    /\ UNCHANGED <<vars, auxNow, auxChain, submissions, blockVars>>

WorkBuilt(u, a) ==
    /\ <<u, a>> \in auxRequests
    /\ auxRequests' = auxRequests \ {<<u, a>>}
    /\ auxAnswers' = auxAnswers \cup {[update |-> u, aux |-> a, work |-> auxNow[a]]}
    /\ UNCHANGED <<vars, auxNow, auxChain, updateNeeded, updates, submissions,
                   blockVars>>

LastOf(u, a) == /\ \A b \in Auxes \ {a} : <<u, b>> \notin auxRequests
                /\ \A m \in auxAnswers : m.update = u => m.aux = a

(* Mutant: the server starts before the first template has come.           *)
FinishAndServe(u, needed) ==
    /\ stage' = IF updates[u] = "first" THEN "serving" ELSE stage
    /\ UNCHANGED callVars

(* The final callback of async.each, 70 to 83: it runs once, after the     *)
(* last answer or the first error; what comes later is only stored.        *)
Finish(u, needed) ==
    CASE updates[u] = "first"
         -> /\ stage' = "first"
            /\ \E c \in Calls : AskFor(c, "first")
      [] updates[u] = "interval" /\ needed
         -> UNCHANGED stage /\ \E c \in Calls : AskFor(c, "aux")
      [] OTHER -> UNCHANGED <<stage, callVars>>

(* Mutant: only the first work of a chain is stored.                       *)
KeepsOldWork(a, w) == IF auxWork[a] = NoWork THEN w ELSE auxWork[a]

NewestWork(a, w) == w

(* GetAuxWork, 741 to 759: only work that replaces other work is new.      *)
IsChanged(a, w) == auxWork[a] # NoWork /\ auxWork[a] # w

WorkArrives(m) ==
    LET needed == updateNeeded \/ IsChanged(m.aux, m.work)
        last   == LastOf(m.update, m.aux)
    IN  /\ m \in auxAnswers
        /\ auxAnswers' = auxAnswers \ {m}
        /\ auxWork' = [auxWork EXCEPT ![m.aux] = NewestWork(m.aux, m.work)]
        /\ updateNeeded' = needed
        /\ updates' = [updates EXCEPT ![m.update] = IF last THEN "idle" ELSE @]
        /\ IF last THEN Finish(m.update, needed)
                   ELSE UNCHANGED <<stage, callVars>>
        /\ UNCHANGED <<daemonVars, jobVars, shareVars, faults, auxNow,
                       auxChain, auxRequests, submissions, blockVars>>

(* An error calls back with it (749), a lost answer does not (daemon.js 65 *)
(* to 86): the update is then over without its final callback, and a start *)
(* that waits for it stands still.                                         *)
WorkFails(u, a) ==
    /\ <<u, a>> \in auxRequests
    /\ Fails("aux")
    /\ auxRequests' = auxRequests \ {<<u, a>>}
    /\ updates' = [updates EXCEPT ![u] = IF LastOf(u, a) THEN "idle" ELSE "over"]
    /\ \/ Finish(u, updateNeeded)
       \/ /\ stage' = IF updates[u] = "first" THEN "stopped" ELSE stage
          /\ UNCHANGED callVars
    /\ UNCHANGED <<daemonVars, auxWork, jobVars, shareVars, auxNow, auxChain,
                   updateNeeded, auxAnswers, submissions, blockVars>>

(* An auxiliary chain moves on: another miner's block, new transactions.   *)
NextWork(a) == /\ auxNow[a] < LastWork[a]
               /\ auxNow' = [auxNow EXCEPT ![a] = @ + 1]

AuxNetworkBlock(a) ==
    /\ NextWork(a)
    /\ UNCHANGED <<vars, auxChain, updateVars, submissions, blockVars>>

-----------------------------------------------------------------------------
(* SubmitAuxBlock, 295 to 334, and auxResult, 382 to 402.                  *)

(* The hash of the work of now, the proofs of the current job and of its   *)
(* merkle tree, the coinbase of the job the share was mined on: they fit   *)
(* together only when nothing has moved in between.                        *)
Proof(s, a, j) ==
    [share |-> s, aux |-> a, hash |-> auxWork[a], state |-> "sent",
     good  |-> j = job /\ j.aux[a] = auxWork[a]]

MergedShare(s, j, solved) ==
    /\ \/ \E valid \in BOOLEAN : /\ PlainShare(s, j, valid)
                                 /\ ~valid => solved = {}
       \/ BlockShare(s, j)
    /\ submissions' = submissions \cup {Proof(s, a, j) : a \in solved}
    /\ UNCHANGED <<auxNow, auxChain, updateVars, blockVars>>

AuxBlock(x) == [aux |-> x.aux, hash |-> x.hash]

Misses(proofs) == missed' = missed \cup {AuxBlock(x) : x \in proofs}

(* Proofs that were taken and are not announced yet.                       *)
Pending == {x \in submissions : /\ x.state \in {"taken", "checking"}
                                /\ x.hash \in auxChain[x.aux]}

(* The daemon takes a proof of the work it handed out last.                *)
Takes(x) == /\ x.good /\ x.hash = auxNow[x.aux]
            /\ NextWork(x.aux)
            /\ auxChain' = [auxChain EXCEPT ![x.aux] = @ \cup {x.hash}]

AuxSubmitted(x) ==
    /\ x \in submissions /\ x.state \in {"sent", "lost"}
    /\ \/ /\ Takes(x)
          /\ IF x.state = "lost"
             THEN submissions' = submissions \ {x} /\ Misses({x})
             ELSE /\ submissions' = (submissions \ {x}) \cup
                                       {[x EXCEPT !.state = "taken"]}
                  /\ UNCHANGED missed
       \/ /\ ~(x.good /\ x.hash = auxNow[x.aux])
          /\ submissions' = submissions \ {x}
          /\ UNCHANGED <<auxNow, auxChain, missed>>
    /\ UNCHANGED <<vars, updateVars, announced>>

(* Line 329 passes on the hash of the work of now, not of the submission:  *)
(* when newer work has come, the block that was taken is not looked up.    *)
SubmitAuxAnswered(x) ==
    /\ x \in submissions /\ x.state = "taken"
    /\ submissions' = (submissions \ {x}) \cup
           {[x EXCEPT !.state = "checking", !.hash = auxWork[x.aux]]}
    /\ Misses({y \in {x} : y.hash # auxWork[y.aux]})
    /\ UNCHANGED <<vars, auxNow, auxChain, updateVars, announced>>

(* Mutant: the callbacks of 382 read the work of now as well.              *)
AnnouncesNewest(x) == IF x.hash \in auxChain[x.aux] /\ x.hash = auxWork[x.aux]
                      THEN {AuxBlock(x)} ELSE {}

(* Line 384 only logs a block that was not accepted, but gettransaction    *)
(* then fails, since the transaction is undefined.                         *)
Announcement(x) == IF x.hash \in auxChain[x.aux] THEN {AuxBlock(x)} ELSE {}

(* getblock and gettransaction; either may fail.  Then UpdateAuxes (398).  *)
AuxResult(x, u) ==
    /\ x \in submissions /\ x.state = "checking"
    /\ \/ /\ announced' = announced \cup Announcement(x)
          /\ UNCHANGED <<faults, missed>>
       \/ UNCHANGED announced /\ Fails("aux") /\ Misses({x} \cap Pending)
    /\ submissions' = submissions \ {x}
    /\ StartUpdate(u, "interval")
    /\ UNCHANGED <<daemonVars, stage, callVars, auxWork, jobVars, shareVars,
                   auxNow, auxChain>>

(* A call without an answer, or with an error: the proof may be taken.     *)
SubmitAuxFails(x) ==
    /\ x \in submissions /\ x.state = "sent"
    /\ Fails("aux")
    /\ submissions' = (submissions \ {x}) \cup {[x EXCEPT !.state = "lost"]}
    /\ UNCHANGED <<daemonVars, stage, callVars, auxWork, jobVars, shareVars,
                   auxNow, auxChain, updateVars, blockVars>>

(* The process ends: what it waits for is forgotten.                       *)
AuxRestart ==
    /\ Crash
    /\ updateNeeded' = FALSE
    /\ updates' = [u \in Updates |-> "idle"]
    /\ auxRequests' = {} /\ auxAnswers' = {}
    /\ submissions' = {[x EXCEPT !.state = "lost"] :
                          x \in {y \in submissions : y.state = "sent"}}
    /\ Misses(Pending)
    /\ UNCHANGED <<auxNow, auxChain, announced>>

-----------------------------------------------------------------------------
MergedInit ==
    /\ Init
    /\ auxNow = [a \in Auxes |-> 1]
    /\ auxChain = [a \in Auxes |-> {}]
    /\ updateNeeded = FALSE
    /\ updates = [u \in Updates |-> "idle"]
    /\ auxRequests = {} /\ auxAnswers = {}
    /\ submissions = {} /\ announced = {} /\ missed = {}

ParentStep ==
    /\ \/ NodeStep \/ WorkStep \/ StartStep
       \/ \E s \in Shares : \/ SubmitDone(s)
                            \/ \E c \in Calls : CheckBlockAccepted(s, c)
    /\ UNCHANGED auxVars

UpdateStep ==
    \E u \in Updates :
        \/ FirstUpdate(u) \/ IntervalUpdate(u)
        \/ \E a \in Auxes : WorkBuilt(u, a) \/ WorkFails(u, a)
        \/ \E m \in auxAnswers : m.update = u /\ WorkArrives(m)

AuxShareStep ==
    \/ \E s \in Shares, j \in issued, solved \in SUBSET Easy :
          MergedShare(s, j, solved)
    \/ \E x \in submissions :
          \/ AuxSubmitted(x) \/ SubmitAuxAnswered(x) \/ SubmitAuxFails(x)
          \/ \E u \in Updates : AuxResult(x, u)

MergedNext == ParentStep \/ UpdateStep \/ AuxShareStep \/ AuxRestart
              \/ \E a \in Auxes : AuxNetworkBlock(a)

MergedSpec == MergedInit /\ [][MergedNext]_mergedVars

(* Calls that are not lost are answered, and the intervals go on.          *)
MergedFairness ==
    /\ \A d \in Daemons, c \in Calls : WF_mergedVars(
          (TemplateBuilt(c, d) \/ TemplateFails(c, d)) /\ UNCHANGED auxVars)
    /\ \A c \in Calls : WF_mergedVars(
          \E m \in answers : m.call = c /\ TemplateArrives(m) /\ UNCHANGED auxVars)
    /\ SF_mergedVars(\E c \in Calls : BroadcastTimeout(c) /\ UNCHANGED auxVars)
    /\ WF_mergedVars(\E u \in Updates : IntervalUpdate(u))
    /\ WF_mergedVars(\E u \in Updates, a \in Auxes : WorkBuilt(u, a))
    /\ SF_mergedVars(\E m \in auxAnswers : WorkArrives(m))
    /\ SF_mergedVars(\E x \in submissions : \/ SubmitAuxAnswered(x)
                                            \/ \E u \in Updates : AuxResult(x, u))

MergedFairSpec == MergedSpec /\ MergedFairness

-----------------------------------------------------------------------------
AuxTypeOK ==
    /\ auxNow \in [Auxes -> Works]
    /\ auxChain \in [Auxes -> SUBSET Works]
    /\ updateNeeded \in BOOLEAN
    /\ updates \in [Updates -> UpdatePurpose]
    /\ auxRequests \subseteq Updates \X Auxes
    /\ auxAnswers \subseteq [update : Updates, aux : Auxes, work : Works]
    /\ submissions \subseteq
          [share : Shares, aux : Auxes, hash : Works, good : BOOLEAN,
           state : {"sent", "lost", "taken", "checking"}]
    /\ announced \subseteq [aux : Auxes, hash : Works]
    /\ missed \subseteq [aux : Auxes, hash : Works]

(* A block that an auxiliary chain took from the pool is announced in the  *)
(* end (380 to 402), though new work arrives while it is looked up and the *)
(* updates this starts overlap; unless a call for it failed, the process   *)
(* ended, or newer work was there before the answer to its submission, so  *)
(* that 329 looked up another hash.                                        *)
TakenIsAnnounced ==
    []<>(\A a \in Auxes : \A h \in auxChain[a] :
            [aux |-> a, hash |-> h] \in announced \cup missed)

(* Once the auxiliary chains rest, the miners work on a job that commits   *)
(* to the work of each of them, however updates overlap, clear the flag of *)
(* each other (69) or end early with an error (71).                        *)
AuxWorkReachesJob ==
    <>[](stage = "serving" => job.aux = auxNow)

(* The auxiliary chains do to the parent chain only what StratumPool says: *)
(* new work and templates asked for, never a share or a job of their own.  *)
ParentUndisturbed == Spec

=============================================================================
