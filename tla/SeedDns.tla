------------------------------- MODULE SeedDns -------------------------------
(***************************************************************************)
(* scripts/update-seed-bootstrap-dns.py: the A records of the bootstrap    *)
(* name, which the DNS seeder resolves, are brought in line with the       *)
(* addresses that the relay node and the main node know.  A timer starts   *)
(* it every 20 minutes (systemd/defcoin-seed-bootstrap.timer), and an      *)
(* operator may start it by hand meanwhile.                                *)
(*                                                                         *)
(* The script asks the nodes and Cloudflare one call at a time; an action  *)
(* is one call with what follows it.  An exception that nobody catches     *)
(* ends the run and leaves the rest undone.                                *)
(***************************************************************************)
EXTENDS Naturals, FiniteSets

CONSTANTS
    Addresses,   \* what a node may know
    WithColon,   \* IPv6 addresses
    Names,       \* .onion and .i2p names: no colon, and no A record either
    Timer,       \* the run that systemd starts
    Runs,        \* the runs that may be under way at once
    Starts,      \* what the nodes may know at the start
    MaxChanges,  \* how often what a node knows changes (bound)
    MaxFaults    \* how many calls fail (bound)

ASSUME AddressAssumption ==
    /\ IsFiniteSet(Addresses)
    /\ WithColon \subseteq Addresses /\ Names \subseteq Addresses
    /\ WithColon \cap Names = {}
    /\ Starts \subseteq [{"relay", "main"} -> SUBSET Addresses]
ASSUME RunAssumption == Timer \in Runs /\ IsFiniteSet(Runs)
ASSUME BoundAssumption == MaxChanges \in Nat /\ MaxFaults \in Nat

VARIABLES
    knows,     \* getnodeaddresses of the two nodes
    records,   \* the A records at Cloudflare
    pc,        \* what a run does next
    wanted,    \* all_ipv4
    existing,  \* the records it has listed
    toAdd,     \* to_add, as far as not yet done
    toRemove,  \* to_remove, as far as not yet done
    changes, faults,
    alone      \* history: the runs that no other run has overlapped

local == <<wanted, existing, toAdd, toRemove>>
vars  == <<knows, records, pc, local, changes, faults, alone>>

Nodes == {"relay", "main"}

(* A record is known by its id; the ids in use, or in the memory of a run, *)
(* are not given out again.                                                *)
Ids == 1 .. (Cardinality(Addresses) * (1 + Cardinality(Runs)) + 1)
Record == [content : Addresses \ WithColon, id : Ids]

Content(rs) == {r.content : r \in rs}

InUse == {r.id : r \in records \cup UNION {existing[s] : s \in Runs}}
NewId == CHOOSE i \in Ids \ InUse : \A j \in Ids \ InUse : i <= j

Fails == faults < MaxFaults /\ faults' = faults + 1

Goto(r, label) == pc' = [pc EXCEPT ![r] = label]

(* The run ends, by itself or by an exception.                             *)
End(r) ==
    /\ Goto(r, "idle")
    /\ wanted' = [wanted EXCEPT ![r] = {}]
    /\ existing' = [existing EXCEPT ![r] = {}]
    /\ toAdd' = [toAdd EXCEPT ![r] = {}]
    /\ toRemove' = [toRemove EXCEPT ![r] = {}]

-----------------------------------------------------------------------------
(* Lines 88 to 91.                                                         *)
Ipv4(addresses) == addresses \ WithColon

(* Lines 75 to 77.                                                         *)
GetLocalAddresses(r) ==
    /\ pc[r] = "idle"
    /\ \/ /\ wanted' = [wanted EXCEPT ![r] = Ipv4(knows["relay"])]
          /\ Goto(r, "main")
          /\ UNCHANGED <<existing, toAdd, toRemove, faults>>
       \/ Fails /\ End(r)
    /\ alone' = IF \A s \in Runs \ {r} : pc[s] = "idle" THEN alone \cup {r} ELSE {}
    /\ UNCHANGED <<knows, records, changes>>

(* Mutant: the addresses of the relay node are gone too.                   *)
WithoutAny(r) == {}

(* Lines 83 to 85: the run goes on with the addresses of the relay node.   *)
WithoutMain(r) == wanted[r]

GetMainNodeAddresses(r) ==
    /\ pc[r] = "main"
    /\ \/ /\ wanted' = [wanted EXCEPT ![r] = @ \cup Ipv4(knows["main"])]
          /\ UNCHANGED faults
       \/ /\ Fails
          /\ wanted' = [wanted EXCEPT ![r] = WithoutMain(r)]
    /\ Goto(r, "list")
    /\ UNCHANGED <<knows, records, existing, toAdd, toRemove, changes, alone>>

(* Mutant: what is there already is added again.                           *)
AllWanted(r) == wanted[r]

(* Line 110.                                                               *)
Missing(r) == wanted[r] \ Content(records)

(* Lines 99 to 118: the records are listed; a dry run ends here, as does   *)
(* one whose listing fails.                                                *)
ListRecords(r) ==
    /\ pc[r] = "list"
    /\ \/ /\ existing' = [existing EXCEPT ![r] = records]
          /\ toAdd' = [toAdd EXCEPT ![r] = Missing(r)]
          /\ toRemove' = [toRemove EXCEPT ![r] = Content(records) \ wanted[r]]
          /\ Goto(r, "apply")
          /\ UNCHANGED <<wanted, faults>>
       \/ r # Timer /\ End(r) /\ UNCHANGED faults
       \/ Fails /\ End(r)
    /\ UNCHANGED <<knows, records, changes, alone>>

(* Cloudflare takes neither a second record of the same content nor one    *)
(* that is no IPv4 address.                                                *)
Takes(a) == a \notin Content(records) \cup Names

(* Lines 120 to 125, in any order, which is that of a set.                 *)
Add(r, a) ==
    /\ pc[r] = "apply" /\ a \in toAdd[r]
    /\ \/ /\ Takes(a)
          /\ records' = records \cup {[content |-> a, id |-> NewId]}
          /\ \/ /\ toAdd' = [toAdd EXCEPT ![r] = @ \ {a}]
                /\ UNCHANGED <<pc, wanted, existing, toRemove, faults>>
             \/ Fails /\ End(r)
       \/ /\ ~Takes(a)
          /\ End(r) /\ UNCHANGED <<records, faults>>
       \/ Fails /\ End(r) /\ UNCHANGED records
    /\ UNCHANGED <<knows, changes, alone>>

(* Mutant: the loops are the other way round.                              *)
AnyTime(r) == TRUE

AddsDone(r) == toAdd[r] = {}

(* Lines 127 to 129: by the id that was listed; a record that is not there *)
(* any more is an error.                                                   *)
Remove(r, a) ==
    /\ pc[r] = "apply" /\ AddsDone(r) /\ a \in toRemove[r]
    /\ LET listed == {x \in existing[r] : x.content = a}
       IN  \/ /\ listed \subseteq records
              /\ records' = records \ listed
              /\ \/ /\ toRemove' = [toRemove EXCEPT ![r] = @ \ {a}]
                    /\ UNCHANGED <<pc, wanted, existing, toAdd, faults>>
                 \/ Fails /\ End(r)
           \/ /\ ~(listed \subseteq records)
              /\ End(r) /\ UNCHANGED <<records, faults>>
           \/ Fails /\ End(r) /\ UNCHANGED records
    /\ UNCHANGED <<knows, changes, alone>>

Done(r) ==
    /\ pc[r] = "apply" /\ toAdd[r] = {} /\ toRemove[r] = {}
    /\ End(r)
    /\ UNCHANGED <<knows, records, changes, faults, alone>>

(* A node hears of an address or forgets one.                              *)
Gossip(n, a) ==
    /\ changes < MaxChanges
    /\ changes' = changes + 1
    /\ knows' = [knows EXCEPT ![n] = IF a \in @ THEN @ \ {a} ELSE @ \cup {a}]
    /\ UNCHANGED <<records, pc, local, faults, alone>>

-----------------------------------------------------------------------------
Init ==
    /\ knows \in Starts
    /\ records = {}
    /\ pc = [r \in Runs |-> "idle"]
    /\ wanted = [r \in Runs |-> {}]
    /\ existing = [r \in Runs |-> {}]
    /\ toAdd = [r \in Runs |-> {}]
    /\ toRemove = [r \in Runs |-> {}]
    /\ changes = 0 /\ faults = 0
    /\ alone = {}

RunStep(r) ==
    \/ GetLocalAddresses(r) \/ GetMainNodeAddresses(r) \/ ListRecords(r)
    \/ \E a \in Addresses : Add(r, a) \/ Remove(r, a)
    \/ Done(r)

Next ==
    \/ \E r \in Runs : RunStep(r)
    \/ \E n \in Nodes, a \in Addresses : Gossip(n, a)

Spec == Init /\ [][Next]_vars

(* The timer starts the script again and again, and every call ends (15 s  *)
(* for Cloudflare), with or without an answer.                             *)
Fairness ==
    /\ WF_vars(RunStep(Timer))
    /\ \A r \in Runs : WF_vars(pc[r] # "idle" /\ RunStep(r))

FairSpec == Spec /\ Fairness

-----------------------------------------------------------------------------
TypeOK ==
    /\ knows \in [Nodes -> SUBSET Addresses]
    /\ records \in SUBSET Record
    /\ pc \in [Runs -> {"idle", "main", "list", "apply"}]
    /\ wanted \in [Runs -> SUBSET (Addresses \ WithColon)]
    /\ existing \in [Runs -> SUBSET Record]
    /\ \A r \in Runs : toAdd[r] \subseteq wanted[r]
                       /\ toRemove[r] \subseteq Content(existing[r])
    /\ changes \in 0 .. MaxChanges /\ faults \in 0 .. MaxFaults
    /\ alone \subseteq Runs

(* The name is never left without an address (lines 120 and 127: what is   *)
(* new is added before what is old goes) by a run that knew of one, unless *)
(* another run has changed the records since this one listed them.         *)
NeverBlank ==
    [][ records # {} /\ records' = {} =>
        \E r \in Runs : pc[r] = "apply" /\ (wanted[r] = {} \/ r \notin alone) ]_vars

(* An address that the relay node knows all along, once published, stays   *)
(* published, though the main node does not answer (83 to 85), calls fail  *)
(* anywhere or two runs get in each other's way.                           *)
Published(a) == a \in Content(records)

RelayStaysPublished ==
    \A a \in Addresses :
        [](a \in knows["relay"]) => [](Published(a) => []Published(a))

(* "Keeps [the] A records in sync with the peer addresses our own main +   *)
(* relay Defcoin nodes currently know about" (4 to 6): when what they know *)
(* rests, the records come to be that, provided that it has no name        *)
(* without a colon: the refused record (57) ends every run before it has   *)
(* removed anything.                                                       *)
Known == Ipv4(knows["relay"] \cup knows["main"])

DnsCatchesUp ==
    <>[](Known \cap Names = {}) => <>[](Content(records) = Known)

=============================================================================
