----------------------------- MODULE SeedDnsProofs -----------------------------
(***************************************************************************)
(* For any addresses, runs and failures: there is at most one record of an *)
(* address, a run that nobody overlaps never leaves the bootstrap name     *)
(* blank, and what the relay node knows stays published.                   *)
(***************************************************************************)
EXTENDS SeedDns, SumLemmas

Label == {"idle", "main", "list", "apply"}

LocalsOK ==
    /\ knows \in [Nodes -> SUBSET Addresses]
    /\ pc \in [Runs -> Label]
    /\ wanted \in [Runs -> SUBSET Addresses]
    /\ toAdd \in [Runs -> SUBSET Addresses]
    /\ DOMAIN existing = Runs /\ DOMAIN toRemove = Runs

(* While a run that is alone goes on, the others wait.                     *)
Exclusive ==
    \A r \in alone : \A s \in Runs \ {r} : pc[r] # "idle" => pc[s] = "idle"

(* What it wants is in the records or still to be added, and nothing of it *)
(* is to be removed.                                                       *)
Covered(r) == /\ wanted[r] \subseteq Content(records) \cup toAdd[r]
              /\ toRemove[r] \cap wanted[r] = {}

DnsInv ==
    /\ LocalsOK
    /\ alone \subseteq Runs
    /\ Exclusive
    /\ \A r \in alone : pc[r] = "apply" => Covered(r)

-----------------------------------------------------------------------------
(* A run that ends disturbs neither itself nor the others.                 *)
LEMMA EndKeeps ==
    ASSUME DnsInv, NEW r \in Runs, pc[r] # "idle", End(r), UNCHANGED <<knows, alone>>
    PROVE  DnsInv'
<1>1. LocalsOK' /\ alone' \subseteq Runs
  BY DEF DnsInv, LocalsOK, End, Goto, Label
<1>2. \A s \in Runs : pc'[s] # "idle" => s # r /\ pc'[s] = pc[s]
  BY DEF DnsInv, LocalsOK, End, Goto
<1>3. Exclusive'
  BY <1>2 DEF DnsInv, LocalsOK, Exclusive, End, Goto
<1>4. \A s \in alone : pc'[s] # "apply"
  BY <1>2 DEF DnsInv, Exclusive
<1> QED  BY <1>1, <1>3, <1>4 DEF DnsInv

LEMMA GetLocalKeeps ==
    ASSUME DnsInv, NEW r \in Runs, GetLocalAddresses(r)
    PROVE  DnsInv'
<1>a. knows["relay"] \subseteq Addresses
  BY DEF DnsInv, LocalsOK, Nodes
<1>1. LocalsOK'
  <2>1. CASE End(r)
    BY <2>1 DEF GetLocalAddresses, DnsInv, LocalsOK, End, Goto, Label
  <2>2. CASE ~End(r)
    BY <2>2, <1>a DEF DnsInv, LocalsOK, GetLocalAddresses, Goto, Label, Ipv4
  <2> QED  BY <2>1, <2>2
<1>2. /\ pc'[r] \in {"idle", "main"}
      /\ \A s \in Runs \ {r} : pc'[s] = pc[s]
  BY DEF DnsInv, LocalsOK, GetLocalAddresses, End, Goto
<1>3. CASE \A s \in Runs \ {r} : pc[s] = "idle"
  <2>1. alone' = alone \cup {r}
    BY <1>3 DEF GetLocalAddresses
  <2> QED  BY <1>1, <1>2, <1>3, <2>1 DEF DnsInv, Exclusive
<1>4. CASE ~(\A s \in Runs \ {r} : pc[s] = "idle")
  <2>1. alone' = {}
    BY <1>4 DEF GetLocalAddresses
  <2> QED  BY <1>1, <2>1 DEF DnsInv, Exclusive
<1> QED  BY <1>3, <1>4

(* A step of a run that is under way and stays alone where it was.         *)
LEMMA StepKeeps ==
    ASSUME DnsInv, NEW r \in Runs, pc[r] # "idle", LocalsOK', UNCHANGED alone,
           \A s \in Runs \ {r} : pc'[s] = pc[s],
           r \in alone /\ pc'[r] = "apply" => Covered(r)'
    PROVE  DnsInv'
<1>1. Exclusive'
  BY DEF DnsInv, Exclusive
<1>2. ASSUME NEW s \in alone, pc'[s] = "apply" PROVE Covered(s)'
  BY <1>2 DEF DnsInv, Exclusive
<1> QED  BY <1>1, <1>2 DEF DnsInv

LEMMA MainKeeps ==
    ASSUME DnsInv, NEW r \in Runs, GetMainNodeAddresses(r)
    PROVE  DnsInv'
<1>1. LocalsOK'
  <2>1. knows["main"] \subseteq Addresses
    BY DEF DnsInv, LocalsOK, Nodes
  <2> QED  BY <2>1 DEF DnsInv, LocalsOK, GetMainNodeAddresses, Goto, Label, Ipv4,
                       WithoutMain
<1> QED  BY <1>1, StepKeeps DEF DnsInv, LocalsOK, GetMainNodeAddresses, Goto

LEMMA ListKeeps ==
    ASSUME DnsInv, NEW r \in Runs, ListRecords(r)
    PROVE  DnsInv'
<1>1. CASE End(r)
  BY <1>1, EndKeeps DEF ListRecords
<1>2. CASE ~End(r)
  <2>1. /\ pc[r] = "list" /\ Goto(r, "apply") /\ UNCHANGED <<knows, records, wanted, alone>>
        /\ existing' = [existing EXCEPT ![r] = records]
        /\ toAdd' = [toAdd EXCEPT ![r] = wanted[r] \ Content(records)]
        /\ toRemove' = [toRemove EXCEPT ![r] = Content(records) \ wanted[r]]
    BY <1>2 DEF ListRecords, Missing
  <2>2. LocalsOK'
    BY <2>1 DEF DnsInv, LocalsOK, Goto, Label
  <2>3. Covered(r)'
    BY <2>1 DEF DnsInv, LocalsOK, Covered, Content
  <2> QED  BY <2>1, <2>2, <2>3, StepKeeps DEF DnsInv, LocalsOK, Goto
<1> QED  BY <1>1, <1>2

LEMMA AddKeeps ==
    ASSUME DnsInv, NEW r \in Runs, NEW a \in Addresses, Add(r, a)
    PROVE  DnsInv'
<1>1. CASE End(r)
  BY <1>1, EndKeeps DEF Add
<1>2. CASE ~End(r)
  <2>1. /\ pc[r] = "apply" /\ UNCHANGED <<knows, pc, wanted, existing, toRemove, alone>>
        /\ records' = records \cup {[content |-> a, id |-> NewId]}
        /\ toAdd' = [toAdd EXCEPT ![r] = @ \ {a}]
    BY <1>2 DEF Add
  <2>2. LocalsOK'
    BY <2>1 DEF DnsInv, LocalsOK
  <2>3. Content(records) \cup {a} \subseteq Content(records')
    <3>1. [content |-> a, id |-> NewId].content = a
      OBVIOUS
    <3> QED  BY <2>1, <3>1 DEF Content
  <2>4. r \in alone => Covered(r)'
    BY <2>1, <2>3 DEF DnsInv, LocalsOK, Covered
  <2> QED  BY <2>1, <2>2, <2>4, StepKeeps
<1> QED  BY <1>1, <1>2

(* Removing what a run that is alone has listed takes only that content.   *)
LEMMA RemovesOne ==
    ASSUME NEW r, NEW a,
           records' = records \ {x \in existing[r] : x.content = a}
    PROVE  \A b \in Content(records) : b # a => b \in Content(records')
  BY DEF Content

LEMMA RemoveKeeps ==
    ASSUME DnsInv, NEW r \in Runs, NEW a \in Addresses, Remove(r, a)
    PROVE  DnsInv'
<1>1. CASE End(r)
  BY <1>1, EndKeeps DEF Remove
<1>2. CASE ~End(r)
  <2>1. /\ pc[r] = "apply" /\ UNCHANGED <<knows, pc, wanted, existing, toAdd, alone>>
        /\ records' = records \ {x \in existing[r] : x.content = a}
        /\ toRemove' = [toRemove EXCEPT ![r] = @ \ {a}]
        /\ a \in toRemove[r]
    BY <1>2 DEF Remove
  <2>2. LocalsOK'
    BY <2>1 DEF DnsInv, LocalsOK
  <2>3. r \in alone => Covered(r)'
    BY <2>1, RemovesOne DEF DnsInv, LocalsOK, Covered
  <2> QED  BY <2>1, <2>2, <2>3, StepKeeps
<1> QED  BY <1>1, <1>2

LEMMA DnsNext == DnsInv /\ [Next]_vars => DnsInv'
<1> SUFFICES ASSUME DnsInv, [Next]_vars PROVE DnsInv'
  OBVIOUS
<1>1. ASSUME NEW r \in Runs, RunStep(r) PROVE DnsInv'
  <2>1. CASE Done(r)
    BY <2>1, EndKeeps DEF Done
  <2> QED  BY <1>1, <2>1, GetLocalKeeps, MainKeeps, ListKeeps, AddKeeps, RemoveKeeps
              DEF RunStep
<1>2. CASE (\E n \in Nodes, a \in Addresses : Gossip(n, a)) \/ UNCHANGED vars
  <2>1. knows' \in [Nodes -> SUBSET Addresses]
    BY <1>2 DEF Gossip, vars, DnsInv, LocalsOK
  <2> QED  BY <1>2, <2>1 DEF Gossip, vars, local, DnsInv, LocalsOK, Exclusive, Covered
<1> QED  BY <1>1, <1>2 DEF Next

LEMMA DnsInvariant == Spec => []DnsInv
<1>1. Init => DnsInv
  BY AddressAssumption DEF Init, DnsInv, LocalsOK, Exclusive, Label, Nodes
<1> QED  BY <1>1, DnsNext, PTL DEF Spec

(* The records become none only by a run that wants none, or that another  *)
(* has overlapped since it listed them: what is new is added (120) before  *)
(* what is old is removed (127), whichever call fails in between.          *)
THEOREM NameStaysPublished == Spec => NeverBlank
<1> DEFINE Blanks ==
        records # {} /\ records' = {} =>
            \E r \in Runs : pc[r] = "apply" /\ (wanted[r] = {} \/ r \notin alone)
<1>1. DnsInv /\ [Next]_vars => [Blanks]_vars
  <2> SUFFICES ASSUME DnsInv, Next, records # {}, records' = {}
               PROVE  \E r \in Runs : pc[r] = "apply" /\ (wanted[r] = {} \/ r \notin alone)
    BY DEF vars
  <2>1. PICK r \in Runs, a \in Addresses : Add(r, a) \/ Remove(r, a)
    BY DEF Next, RunStep, GetLocalAddresses, GetMainNodeAddresses, ListRecords,
           Done, Gossip
  <2>2. ~Add(r, a)
    BY DEF Add
  <2>3. /\ pc[r] = "apply" /\ toAdd[r] = {} /\ a \in toRemove[r]
        /\ records' = records \ {x \in existing[r] : x.content = a}
    BY <2>1, <2>2 DEF Remove, AddsDone
  <2>4. CASE r \in alone /\ wanted[r] # {}
    <3>1. PICK b \in wanted[r] : b \in Content(records) /\ b # a
      BY <2>3, <2>4 DEF DnsInv, Covered
    <3>2. b \in Content(records')
      BY <2>3, <3>1, RemovesOne
    <3> QED  BY <3>2 DEF Content
  <2> QED  BY <2>3, <2>4
<1> QED  BY <1>1, DnsInvariant, PTL DEF Spec, NeverBlank

-----------------------------------------------------------------------------
(* An address that the relay node knows is wanted by every run under way   *)
(* and removed by none; one that is no IPv4 address is never published.    *)
RelayInv(a) ==
    \A r \in Runs :
        /\ a \notin toRemove[r]
        /\ a \notin WithColon /\ pc[r] # "idle" => a \in wanted[r]
        /\ a \in WithColon => a \notin wanted[r] \cup toAdd[r] \cup Content(records)

(* The variables of a run that has ended. *)
LEMMA EndRelay ==
    ASSUME DnsInv, NEW a \in Addresses, RelayInv(a), NEW r \in Runs, End(r),
           a \in WithColon => a \notin Content(records') \ Content(records)
    PROVE  RelayInv(a)'
<1> SUFFICES ASSUME NEW s \in Runs
             PROVE  (/\ a \notin toRemove[s]
                     /\ a \notin WithColon /\ pc[s] # "idle" => a \in wanted[s]
                     /\ a \in WithColon =>
                           a \notin wanted[s] \cup toAdd[s] \cup Content(records))'
  BY DEF RelayInv
<1>1. CASE s = r
  <2>1. pc'[s] = "idle" /\ wanted'[s] = {} /\ toAdd'[s] = {} /\ toRemove'[s] = {}
    BY <1>1 DEF DnsInv, LocalsOK, End, Goto
  <2>2. a \in WithColon => a \notin Content(records')
    BY DEF RelayInv
  <2> QED  BY <2>1, <2>2
<1>2. CASE s # r
  <2>1. /\ pc'[s] = pc[s] /\ wanted'[s] = wanted[s] /\ toAdd'[s] = toAdd[s]
        /\ toRemove'[s] = toRemove[s]
    BY <1>2 DEF DnsInv, LocalsOK, End, Goto
  <2>2. a \in WithColon => a \notin Content(records')
    BY DEF RelayInv
  <2> QED  BY <2>1, <2>2 DEF RelayInv
<1> QED  BY <1>1, <1>2

(* No step of a run removes what the relay node knows. *)
LEMMA AddRelay ==
    ASSUME DnsInv, NEW a \in Addresses, RelayInv(a),
           NEW r \in Runs, NEW b \in Addresses, Add(r, b)
    PROVE  RelayInv(a)' /\ Content(records) \subseteq Content(records')
<1>1. b \in toAdd[r]
  BY DEF Add
<1>2. CASE End(r) /\ UNCHANGED records
  BY <1>2, EndRelay DEF Content
<1>3. CASE /\ records' = records \cup {[content |-> b, id |-> NewId]}
           /\ \/ /\ toAdd' = [toAdd EXCEPT ![r] = @ \ {b}]
                 /\ UNCHANGED <<pc, wanted, existing, toRemove, faults>>
              \/ End(r)
  <2>1. Content(records') = Content(records) \cup {b}
    <3>1. [content |-> b, id |-> NewId].content = b
      OBVIOUS
    <3> QED  BY <1>3, <3>1 DEF Content
  <2>2. CASE End(r)
    <3>1. a \in WithColon => a # b
      BY <1>1 DEF RelayInv
    <3>2. a \in WithColon => a \notin Content(records')
      BY <2>1, <3>1 DEF RelayInv
    <3> QED  BY <2>1, <2>2, <3>2, EndRelay
  <2>3. CASE /\ toAdd' = [toAdd EXCEPT ![r] = @ \ {b}]
             /\ UNCHANGED <<pc, wanted, existing, toRemove, faults>>
    <3>1. \A s \in Runs : toAdd'[s] \subseteq toAdd[s]
      BY <2>3 DEF DnsInv, LocalsOK
    <3> QED  BY <1>1, <2>1, <2>3, <3>1 DEF RelayInv
  <2> QED  BY <1>3, <2>1, <2>2, <2>3
<1> QED  BY <1>2, <1>3 DEF Add

LEMMA RemoveRelay ==
    ASSUME DnsInv, NEW a \in Addresses, RelayInv(a),
           NEW r \in Runs, NEW b \in Addresses, Remove(r, b)
    PROVE  RelayInv(a)' /\ (Published(a) => Published(a)')
<1>1. b \in toRemove[r] /\ b # a
  BY DEF Remove, RelayInv
<1>2. UNCHANGED records \/ records' = records \ {x \in existing[r] : x.content = b}
  BY DEF Remove
<1>3. Content(records') \subseteq Content(records)
  BY <1>2 DEF Content
<1>4. Published(a) => Published(a)'
  BY <1>1, <1>2, RemovesOne DEF Published, Content
<1>5. CASE End(r)
  BY <1>3, <1>4, <1>5, EndRelay
<1>6. CASE /\ toRemove' = [toRemove EXCEPT ![r] = @ \ {b}]
           /\ UNCHANGED <<pc, wanted, existing, toAdd, faults>>
  <2>1. \A s \in Runs : toRemove'[s] \subseteq toRemove[s]
    BY <1>6 DEF DnsInv, LocalsOK
  <2> QED  BY <1>3, <1>4, <1>6, <2>1 DEF RelayInv
<1> QED  BY <1>5, <1>6 DEF Remove

LEMMA RelayNext ==
    ASSUME DnsInv, NEW a \in Addresses, RelayInv(a), a \in knows["relay"], [Next]_vars
    PROVE  RelayInv(a)' /\ (Published(a) => Published(a)')
<1>1. ASSUME NEW r \in Runs, GetLocalAddresses(r)
      PROVE  RelayInv(a)' /\ UNCHANGED records
  <2>1. CASE End(r)
    BY <1>1, <2>1, EndRelay DEF GetLocalAddresses
  <2>2. CASE /\ wanted' = [wanted EXCEPT ![r] = Ipv4(knows["relay"])]
             /\ Goto(r, "main")
             /\ UNCHANGED <<existing, toAdd, toRemove, faults>>
    <3>1. UNCHANGED records
      BY <1>1 DEF GetLocalAddresses
    <3>2. a \in Ipv4(knows["relay"]) <=> a \notin WithColon
      BY DEF Ipv4
    <3> QED  BY <2>2, <3>1, <3>2 DEF RelayInv, Goto, DnsInv, LocalsOK
  <2> QED  BY <1>1, <2>1, <2>2 DEF GetLocalAddresses
<1>2. ASSUME NEW r \in Runs, GetMainNodeAddresses(r)
      PROVE  RelayInv(a)' /\ UNCHANGED records
  <2>1. /\ pc[r] = "main" /\ Goto(r, "list")
        /\ UNCHANGED <<records, existing, toAdd, toRemove>>
        /\ \/ wanted' = [wanted EXCEPT ![r] = @ \cup Ipv4(knows["main"])]
           \/ wanted' = [wanted EXCEPT ![r] = wanted[r]]
    BY <1>2 DEF GetMainNodeAddresses, WithoutMain
  <2>2. a \in WithColon => a \notin Ipv4(knows["main"])
    BY DEF Ipv4
  <2> QED  BY <2>1, <2>2 DEF RelayInv, Goto, DnsInv, LocalsOK
<1>3. ASSUME NEW r \in Runs, ListRecords(r)
      PROVE  RelayInv(a)' /\ UNCHANGED records
  <2>1. CASE End(r)
    BY <1>3, <2>1, EndRelay DEF ListRecords
  <2>2. CASE /\ toAdd' = [toAdd EXCEPT ![r] = wanted[r] \ Content(records)]
             /\ toRemove' = [toRemove EXCEPT ![r] = Content(records) \ wanted[r]]
             /\ Goto(r, "apply")
             /\ UNCHANGED wanted
    BY <1>3, <2>2 DEF ListRecords, RelayInv, Goto, DnsInv, LocalsOK
  <2> QED  BY <1>3, <2>1, <2>2 DEF ListRecords, Missing
<1>4. ASSUME NEW r \in Runs, Done(r) PROVE RelayInv(a)' /\ UNCHANGED records
  BY <1>4, EndRelay DEF Done
<1>5. CASE (\E n \in Nodes, b \in Addresses : Gossip(n, b)) \/ UNCHANGED vars
  BY <1>5 DEF Gossip, vars, local, RelayInv, Published
<1> QED
  BY <1>1, <1>2, <1>3, <1>4, <1>5, AddRelay, RemoveRelay DEF Next, RunStep, Published

(* An address that the relay node knows all along stays published once it  *)
(* is, whatever the main node answers, whichever calls fail and however    *)
(* many runs overlap.                                                      *)
THEOREM RelayIsKept == Spec => RelayStaysPublished
<1>1. ASSUME NEW a \in Addresses
      PROVE  Spec => ([](a \in knows["relay"]) => [](Published(a) => []Published(a)))
  <2>1. Init => RelayInv(a)
    BY DEF Init, RelayInv, Content
  <2>2. DnsInv /\ RelayInv(a) /\ a \in knows["relay"] /\ [Next]_vars
          => RelayInv(a)' /\ (Published(a) => Published(a)')
    BY RelayNext
  <2> QED  BY <2>1, <2>2, DnsInvariant, PTL DEF Spec
<1> QED  BY <1>1 DEF RelayStaysPublished

-----------------------------------------------------------------------------
(* Types.  An id for a new record is left although the ids are bounded:    *)
(* no set of records that is at Cloudflare or in the memory of a run has   *)
(* two records of one address.                                             *)
OneEach(rs) == \A x, y \in rs : x.content = y.content => x = y

RecordsInv ==
    /\ TypeOK
    /\ toAdd \in [Runs -> SUBSET Addresses] /\ toRemove \in [Runs -> SUBSET Addresses]
    /\ \A r \in Runs : pc[r] # "apply" => toAdd[r] = {} /\ toRemove[r] = {}
    /\ OneEach(records) /\ \A r \in Runs : OneEach(existing[r])

LEMMA IdLeft == RecordsInv => NewId \in Ids \ InUse
<1> SUFFICES ASSUME RecordsInv PROVE NewId \in Ids \ InUse
  OBVIOUS
<1>1. PICK apart : apart \notin Runs
  BY NoSetContainsEverything
<1> DEFINE Places == Runs \cup {apart}
           At(s) == IF s = apart THEN records ELSE existing[s]
           Slots == Addresses \X Places
           n == Cardinality(Addresses) * (1 + Cardinality(Runs))
<1>2. /\ n \in Nat /\ IsFiniteSet(Slots) /\ Cardinality(Slots) = n
      /\ IsFiniteSet(Ids) /\ Cardinality(Ids) = n + 1
  <2>1. IsFiniteSet(Addresses) /\ IsFiniteSet(Runs)
    BY AddressAssumption, RunAssumption
  <2>2. Cardinality(Addresses) \in Nat /\ Cardinality(Runs) \in Nat
    BY <2>1, FS_CardinalityType
  <2>3. n \in Nat
    BY <2>2
  <2>4. IsFiniteSet(Places) /\ Cardinality(Places) = 1 + Cardinality(Runs)
    BY <1>1, <2>1, <2>2, FS_AddElement
  <2>5. IsFiniteSet(Slots) /\ Cardinality(Slots) = n
    BY <2>1, <2>4, FS_Product
  <2>6. Ids = 1 .. (n + 1)
    BY DEF Ids
  <2> HIDE DEF n
  <2> QED  BY <2>3, <2>5, <2>6, FS_Interval
<1>3. \A s \in Places : OneEach(At(s))
  BY DEF RecordsInv
<1> HIDE DEF n
<1>4. ~(Ids \subseteq InUse)
  <2> SUFFICES ASSUME Ids \subseteq InUse PROVE FALSE
    OBVIOUS
  <2> DEFINE Has(i, t) == \E x \in At(t[2]) : x.id = i /\ x.content = t[1]
             f == [i \in Ids |-> CHOOSE t \in Slots : Has(i, t)]
  <2>1. ASSUME NEW i \in Ids PROVE f[i] \in Slots /\ Has(i, f[i])
    <3>1. PICK s \in Places : \E x \in At(s) : x.id = i
      BY <1>1 DEF InUse
    <3>2. PICK x \in At(s) : x.id = i
      BY <3>1
    <3>3. x \in Record
      BY <3>2 DEF RecordsInv, TypeOK
    <3>4. <<x.content, s>> \in Slots /\ Has(i, <<x.content, s>>)
      BY <3>2, <3>3 DEF Record
    <3>5. \E t \in Slots : Has(i, t)
      BY <3>4
    <3> HIDE DEF Slots, Has
    <3> QED  BY <3>5
  <2> HIDE DEF f
  <2>2. f \in [Ids -> Slots]
    BY <2>1 DEF f
  <2>3. n < n + 1
    BY <1>2
  <2>4. PICK i, j \in Ids : i # j /\ f[i] = f[j]
    <3> HIDE DEF Slots
    <3> QED  BY <1>2, <2>2, <2>3, FS_PigeonHole
  <2>5. PICK x \in At(f[i][2]) : x.id = i /\ x.content = f[i][1]
    BY <2>1
  <2>6. PICK y \in At(f[i][2]) : y.id = j /\ y.content = f[i][1]
    BY <2>1, <2>4
  <2>7. f[i][2] \in Places
    BY <2>1
  <2> QED  BY <1>3, <2>4, <2>5, <2>6, <2>7 DEF OneEach
<1>5. \E m \in Ids \ InUse : \A j \in Ids \ InUse : m <= j
  <2> DEFINE S == Ids \ InUse
  <2>1. S \subseteq Int /\ S # {}
    BY <1>4 DEF Ids
  <2>2. IsFiniteSet(S)
    BY <1>2, FS_Subset
  <2> HIDE DEF S
  <2>3. \E m \in S : \A j \in S : m <= j
    BY <2>1, <2>2, Least
  <2> QED  BY <2>3 DEF S
<1> QED  BY <1>5 DEF NewId

(* A run that ends keeps nothing.                                          *)
LEMMA EndRecords ==
    ASSUME RecordsInv, NEW r \in Runs, End(r), UNCHANGED <<knows, changes>>,
           records' \in SUBSET Record, OneEach(records'),
           alone' \subseteq Runs, faults' \in 0 .. MaxFaults
    PROVE  RecordsInv'
<1>1. TypeOK'
  BY DEF RecordsInv, TypeOK, End, Goto, Content
<1>2. /\ toAdd' \in [Runs -> SUBSET Addresses] /\ toRemove' \in [Runs -> SUBSET Addresses]
      /\ \A s \in Runs : pc'[s] # "apply" => toAdd'[s] = {} /\ toRemove'[s] = {}
  BY DEF RecordsInv, TypeOK, End, Goto
<1>3. \A s \in Runs : OneEach(existing'[s])
  BY DEF RecordsInv, TypeOK, End, OneEach
<1> QED  BY <1>1, <1>2, <1>3 DEF RecordsInv

LEMMA FaultsType == RecordsInv /\ (Fails \/ UNCHANGED faults) => faults' \in 0 .. MaxFaults
  BY BoundAssumption DEF RecordsInv, TypeOK, Fails

LEMMA LocalRecords ==
    ASSUME RecordsInv, NEW r \in Runs, GetLocalAddresses(r)
    PROVE  RecordsInv'
<1>1. alone' \subseteq Runs /\ records' \in SUBSET Record /\ OneEach(records')
      /\ UNCHANGED <<knows, changes>>
  BY DEF GetLocalAddresses, RecordsInv, TypeOK
<1>2. CASE End(r)
  <2>1. faults' \in 0 .. MaxFaults
    BY <1>2, FaultsType DEF GetLocalAddresses
  <2> QED  BY <1>1, <1>2, <2>1, EndRecords
<1>3. CASE ~End(r)
  <2>1. /\ pc[r] = "idle" /\ Goto(r, "main")
        /\ wanted' = [wanted EXCEPT ![r] = Ipv4(knows["relay"])]
        /\ UNCHANGED <<knows, records, existing, toAdd, toRemove, changes, faults>>
    BY <1>3 DEF GetLocalAddresses
  <2>2. toAdd[r] = {} /\ toRemove[r] = {} /\ knows["relay"] \subseteq Addresses
    BY <2>1 DEF RecordsInv, TypeOK, Nodes
  <2> QED  BY <1>1, <2>1, <2>2 DEF RecordsInv, TypeOK, Goto, Ipv4
<1> QED  BY <1>2, <1>3

LEMMA MainRecords ==
    ASSUME RecordsInv, NEW r \in Runs, GetMainNodeAddresses(r)
    PROVE  RecordsInv'
<1>1. /\ pc[r] = "main" /\ Goto(r, "list")
      /\ wanted' \in [Runs -> SUBSET (Addresses \ WithColon)]
      /\ \A s \in Runs : wanted[s] \subseteq wanted'[s]
      /\ UNCHANGED <<knows, records, existing, toAdd, toRemove, changes, alone>>
  BY DEF GetMainNodeAddresses, RecordsInv, TypeOK, Nodes, Ipv4, WithoutMain
<1>2. faults' \in 0 .. MaxFaults
  BY FaultsType DEF GetMainNodeAddresses
<1>3. toAdd[r] = {} /\ toRemove[r] = {}
  BY <1>1 DEF RecordsInv
<1> QED  BY <1>1, <1>2, <1>3 DEF RecordsInv, TypeOK, Goto

LEMMA ListedRecords ==
    ASSUME RecordsInv, NEW r \in Runs, ListRecords(r)
    PROVE  RecordsInv'
<1>1. alone' \subseteq Runs /\ records' \in SUBSET Record /\ OneEach(records')
      /\ UNCHANGED <<knows, changes>>
  BY DEF ListRecords, RecordsInv, TypeOK
<1>2. CASE End(r)
  <2>1. faults' \in 0 .. MaxFaults
    BY <1>2, FaultsType DEF ListRecords
  <2> QED  BY <1>1, <1>2, <2>1, EndRecords
<1>3. CASE ~End(r)
  <2>1. /\ Goto(r, "apply")
        /\ existing' = [existing EXCEPT ![r] = records]
        /\ toAdd' = [toAdd EXCEPT ![r] = wanted[r] \ Content(records)]
        /\ toRemove' = [toRemove EXCEPT ![r] = Content(records) \ wanted[r]]
        /\ UNCHANGED <<knows, records, wanted, changes, faults, alone>>
    BY <1>3 DEF ListRecords, Missing
  <2>2. Content(records) \subseteq Addresses /\ wanted[r] \subseteq Addresses
    BY DEF RecordsInv, TypeOK, Content, Record
  <2>3. TypeOK'
    BY <2>1 DEF RecordsInv, TypeOK, Goto
  <2>4. \A s \in Runs : OneEach(existing'[s])
    BY <2>1 DEF RecordsInv, TypeOK
  <2>5. /\ toAdd' \in [Runs -> SUBSET Addresses] /\ toRemove' \in [Runs -> SUBSET Addresses]
        /\ \A s \in Runs : pc'[s] # "apply" => toAdd'[s] = {} /\ toRemove'[s] = {}
    BY <2>1, <2>2 DEF RecordsInv, TypeOK, Goto
  <2> QED  BY <1>1, <2>3, <2>4, <2>5 DEF RecordsInv
<1> QED  BY <1>2, <1>3

LEMMA AddRecords ==
    ASSUME RecordsInv, NEW r \in Runs, NEW a \in Addresses, Add(r, a)
    PROVE  RecordsInv'
<1>1. /\ pc[r] = "apply" /\ a \in toAdd[r]
      /\ UNCHANGED <<knows, changes, alone>> /\ alone' \subseteq Runs
  BY DEF Add, RecordsInv, TypeOK
<1>2. a \in Addresses \ WithColon
  BY <1>1 DEF RecordsInv, TypeOK
<1>3. records' \in SUBSET Record /\ OneEach(records')
  <2>1. CASE UNCHANGED records
    BY <2>1 DEF RecordsInv, TypeOK
  <2>2. CASE Takes(a) /\ records' = records \cup {[content |-> a, id |-> NewId]}
    <3>1. [content |-> a, id |-> NewId] \in Record
      BY <1>2, IdLeft DEF Record
    <3>2. \A x \in records : x.content # a
      BY <2>2 DEF Takes, Content
    <3>3. records \in SUBSET Record /\ OneEach(records)
      BY DEF RecordsInv, TypeOK
    <3> QED  BY <2>2, <3>1, <3>2, <3>3 DEF OneEach
  <2> QED  BY <2>1, <2>2 DEF Add
<1>4. faults' \in 0 .. MaxFaults
  BY FaultsType DEF Add
<1>5. CASE End(r)
  BY <1>1, <1>3, <1>4, <1>5, EndRecords
<1>6. CASE ~End(r)
  <2>1. /\ toAdd' = [toAdd EXCEPT ![r] = @ \ {a}]
        /\ UNCHANGED <<pc, wanted, existing, toRemove>>
    BY <1>6 DEF Add
  <2> QED  BY <1>1, <1>3, <1>4, <2>1 DEF RecordsInv, TypeOK
<1> QED  BY <1>5, <1>6

LEMMA RemoveRecords ==
    ASSUME RecordsInv, NEW r \in Runs, NEW a \in Addresses, Remove(r, a)
    PROVE  RecordsInv'
<1>1. /\ pc[r] = "apply"
      /\ UNCHANGED <<knows, changes, alone>> /\ alone' \subseteq Runs
  BY DEF Remove, RecordsInv, TypeOK
<1>2. records' \subseteq records
  BY DEF Remove
<1>3. records' \in SUBSET Record /\ OneEach(records')
  BY <1>2 DEF RecordsInv, TypeOK, OneEach
<1>4. faults' \in 0 .. MaxFaults
  BY FaultsType DEF Remove
<1>5. CASE End(r)
  BY <1>1, <1>3, <1>4, <1>5, EndRecords
<1>6. CASE ~End(r)
  <2>1. /\ toRemove' = [toRemove EXCEPT ![r] = @ \ {a}]
        /\ UNCHANGED <<pc, wanted, existing, toAdd>>
    BY <1>6 DEF Remove
  <2> QED  BY <1>1, <1>3, <1>4, <2>1 DEF RecordsInv, TypeOK
<1> QED  BY <1>5, <1>6

LEMMA GossipRecords ==
    ASSUME RecordsInv, NEW n \in Nodes, NEW a \in Addresses, Gossip(n, a)
    PROVE  RecordsInv'
<1>1. changes' \in 0 .. MaxChanges
  BY BoundAssumption DEF Gossip, RecordsInv, TypeOK
<1>2. knows' \in [Nodes -> SUBSET Addresses]
  BY DEF Gossip, RecordsInv, TypeOK
<1> QED  BY <1>1, <1>2 DEF Gossip, local, RecordsInv, TypeOK

LEMMA RecordsNext == RecordsInv /\ [Next]_vars => RecordsInv'
<1> SUFFICES ASSUME RecordsInv, [Next]_vars PROVE RecordsInv'
  OBVIOUS
<1>1. ASSUME NEW r \in Runs, Done(r) PROVE RecordsInv'
  BY <1>1, EndRecords DEF Done, RecordsInv, TypeOK
<1>2. ASSUME NEW r \in Runs, RunStep(r) PROVE RecordsInv'
  BY <1>1, <1>2, LocalRecords, MainRecords, ListedRecords, AddRecords, RemoveRecords
     DEF RunStep
<1>3. CASE UNCHANGED vars
  BY <1>3 DEF vars, local, RecordsInv, TypeOK
<1> QED  BY <1>2, <1>3, GossipRecords DEF Next

(* Every variable keeps its type, and the ids of the records never run     *)
(* out: no matter how many runs overlap, and which of their calls have an  *)
(* effect and no answer, an address has at most one record at a time       *)
(* (Cloudflare takes no second one), and so has what a run has listed.     *)
THEOREM DnsTypeCorrect == Spec => []TypeOK
<1>1. Init => RecordsInv
  BY AddressAssumption, BoundAssumption
     DEF Init, RecordsInv, TypeOK, OneEach, Nodes
<1>2. RecordsInv => TypeOK
  BY DEF RecordsInv
<1> QED  BY <1>1, <1>2, RecordsNext, PTL DEF Spec

=============================================================================
