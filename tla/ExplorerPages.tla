---------------------------- MODULE ExplorerPages ----------------------------
(***************************************************************************)
(* What the explorer's pages show of the index: the rich list, the         *)
(* distribution of the coins and the network history.  They are made by    *)
(* patches/eiquidus/lib/database.js: update_richlist (958-1126),           *)
(* get_distribution (1410-1460), update_network_history (1514-1625).       *)
(*                                                                         *)
(* scripts/sync.js makes them at the end of "index update" (874-895) and   *)
(* in "index reindex-rich" (1287-1323); its lock lets one of the two run   *)
(* at a time.  The web server is another process: a visitor who claims a   *)
(* name for an address makes it read the rich list, change the name and    *)
(* write the list back (755-806).                                          *)
(*                                                                         *)
(* An action is one query with its callback.  The index is a height of a   *)
(* chain whose balances are a constant: how it gets there, and what a      *)
(* reorganisation does to it, is the subject of OrphanSync.                *)
(***************************************************************************)
EXTENDS Integers, Sequences, FiniteSets, Functions

CONSTANTS
    Addresses,   \* the addresses of the chain
    Burned,      \* richlist_page.burned_coins.addresses
    Special,     \* coinbase, hidden_address and unknown_address
    Received,    \* what each address has received, at each height
    Balance,     \* what each address has, at each height
    MaxHeight,   \* how high the chain grows (bound)
    TopSize,     \* total_addresses, 100 in the code
    Names,       \* the names that visitors claim
    NoName,      \* an address without a claimed name
    NoList,      \* no rich list in the database
    Settings,    \* the settings: burned coins counted apart, records kept;
                 \* when that is 0, they are kept by their age
    MaxClaims,   \* how many claims visitors make (bound)
    MaxFaults    \* how many queries and calls may fail (bound)

ASSUME ChainAssumption ==
    /\ IsFiniteSet(Addresses)
    /\ MaxHeight \in Nat /\ TopSize \in Nat \ {0}
    /\ Received \in [0 .. MaxHeight -> [Addresses -> Nat]]
    /\ Balance \in [0 .. MaxHeight -> [Addresses -> Nat]]
    /\ Burned \cup Special \subseteq Addresses
ASSUME BoundAssumption == MaxClaims \in Nat /\ MaxFaults \in Nat
ASSUME SettingsAssumption ==
    Settings \subseteq [counted : BOOLEAN, records : Nat]

VARIABLES
    settings,   \* lib/settings.js
    chain,      \* the height of the node's chain
    \* MongoDB
    indexed,    \* the height of the index, coinstats.last
    supply,     \* coinstats.supply
    richlist,   \* received, balance and burned
    spares,     \* further rich lists, found once that one is deleted
    claims,     \* claimaddresses
    history,    \* networkhistory, by blockindex
    \* sync.js
    mode,       \* "update" or "reindex-rich"
    pc,         \* what it does next
    count,      \* the height it indexes up to
    draft,      \* the addresses it has read and not yet stored
    \* the web server
    visit,      \* how far a claim has come, and for which address
    copy,       \* the rich list it has read
    \* bounds
    claimed, faults,
    \* history of the model, read by no action
    mixed       \* balance is older than burned

runVars == <<mode, pc, count, draft>>
webVars == <<visit, copy, claimed>>
listVars == <<richlist, spares, mixed>>
vars == <<settings, chain, indexed, supply, listVars, claims, history,
          runVars, webVars, faults>>

Heights == 0 .. MaxHeight
Entry == [a_id : Addresses, amount : Nat, claim_name : Names \cup {NoName}]
List  == Seq(Entry)
RichList == [received : List, balance : List, burned : Nat]

Amounts(list) == [i \in DOMAIN list |-> list[i].amount]
AmountIn(list) == SumFunction(Amounts(list))

(* The coins issued up to a height; all of them belong to some address,    *)
(* and a block only adds to them.  The fees, which the coinbase of a block *)
(* pays out again, are left out.                                           *)
SupplyAt(h) == SumFunction(Balance[h])
ASSUME SupplyAssumption ==
    \A h, k \in Heights : h <= k => SupplyAt(h) <= SupplyAt(k)

Fails == faults < MaxFaults /\ faults' = faults + 1

-----------------------------------------------------------------------------
(* update_richlist.                                                        *)

(* The addresses of the index that a query is about, in descending order,  *)
(* the first limit of them; equal amounts are in any order.                *)
Sorted(amounts, from, limit) ==
    LET size == IF Cardinality(from) < limit THEN Cardinality(from) ELSE limit
        Largest(S) == {a \in S : \A b \in S : amounts[b] <= amounts[a]}
        orders[n \in 0 .. size] ==
            IF n = 0 THEN {<<>>}
            ELSE UNION {{Append(s, a) : a \in Largest(from \ Range(s))} :
                            s \in orders[n - 1]}
    IN  orders[size]

Indexed(h) == {a \in Addresses : Received[h][a] > 0}
InIndex == Indexed(indexed)

Omitted == Burned \cup Special

(* $lookup of the claimed names.                                           *)
Named(order, amounts) ==
    [i \in DOMAIN order |-> [a_id |-> order[i], amount |-> amounts[order[i]],
                             claim_name |-> claims[order[i]]]]

(* Mutant: the limit is that of the list that is shown.                    *)
ShownLimit == TopSize

(* Line 1067: the array of the settings has grown by the special addresses *)
(* in both calls of the run (966 to 968).                                  *)
QueryLimit == TopSize + Cardinality(Burned) + 2 * Cardinality(Special)

ReceivedLists ==
    {Named(s, Received[indexed]) :
        s \in Sorted(Received[indexed], InIndex \ Omitted, TopSize)}

BalanceLists ==
    {Named(s, Balance[indexed]) :
        s \in IF settings.counted
              THEN Sorted(Balance[indexed], InIndex, QueryLimit)
              ELSE Sorted(Balance[indexed], InIndex \ Omitted, TopSize)}

(* Mutant: the loop keeps the addresses that are counted apart.            *)
ShownWithBurned(list) == SubSeq(list, 1, IF Len(list) < TopSize THEN Len(list)
                                                                ELSE TopSize)

(* Lines 1093 to 1106: the loop over the addresses of the balance query.   *)
Shown(list) ==
    LET kept[i \in 0 .. Len(list)] ==
            IF i = 0 THEN <<>>
            ELSE IF list[i].a_id \in Omitted \/ Len(kept[i - 1]) >= TopSize
                 THEN kept[i - 1]
                 ELSE Append(kept[i - 1], list[i])
    IN  kept[Len(list)]

BurnedIn(list) ==
    SumFunctionOnSet(Amounts(list), {i \in DOMAIN list : list[i].a_id \in Omitted})

(* What is stored of them: all of them when the query has left out the     *)
(* burned ones (1016 to 1021).                                             *)
BalanceOf(list) == IF settings.counted THEN Shown(list) ELSE list

(* An updateOne of a rich list that is not there changes nothing.          *)
Stored(list) == IF richlist = NoList THEN NoList ELSE list

-----------------------------------------------------------------------------
(* sync.js.                                                                *)

Goto(label) == pc' = label

(* update_db, 1660: a chain without blocks ends the run.                   *)
Start ==
    /\ pc = "idle" /\ chain > 0
    /\ mode' \in {"update", "reindex-rich"}
    /\ count' = chain
    /\ Goto("supply")
    /\ UNCHANGED <<settings, chain, indexed, supply, listVars, claims, history,
                   draft, webVars, faults>>

(* Mutant: a run without new blocks ends early.                            *)
SaveStatsOrStop ==
    /\ pc = "supply"
    /\ supply' = SupplyAt(indexed)
    /\ Goto(IF mode = "reindex-rich" THEN "delete"
            ELSE IF indexed = count THEN "idle" ELSE "index")
    /\ UNCHANGED <<settings, chain, indexed, listVars, claims, history, mode,
                   count, draft, webVars, faults>>

(* Lines 1668 to 1702.  03-setup-explorer.sh:136 sets the supply to        *)
(* COINBASE, what the index has of the coinbase so far, without the blocks *)
(* that this run will add.  One that is not answered is stored as 0, any   *)
(* other error ends the run.                                               *)
SaveStats ==
    /\ pc = "supply"
    /\ \/ /\ \/ supply' = SupplyAt(indexed) /\ UNCHANGED faults
             \/ supply' = 0 /\ Fails
          /\ Goto(IF mode = "update" THEN "index" ELSE "delete")
       \/ Fails /\ Goto("idle") /\ UNCHANGED supply
    /\ UNCHANGED <<settings, chain, indexed, listVars, claims, history, mode,
                   count, draft, webVars>>

(* update_tx_db saves every block (batch_size is 1).                       *)
IndexBlock ==
    /\ pc = "index"
    /\ IF indexed < count THEN indexed' = indexed + 1 /\ UNCHANGED pc
                          ELSE Goto("received") /\ UNCHANGED indexed
    /\ UNCHANGED <<settings, chain, supply, listVars, claims, history, mode,
                   count, draft, webVars, faults>>

(* reindex-rich, 1288 to 1300: delete_richlist and create_richlist go on   *)
(* after an error.  The first list that is found is the one that is        *)
(* deleted, updated and read; one that was created beside it stays empty.  *)
EmptyList == [received |-> <<>>, balance |-> <<>>, burned |-> 0]

DeleteRichlist ==
    /\ pc = "delete"
    /\ Goto("create")
    /\ \/ /\ IF spares = 0
             THEN richlist' = NoList /\ UNCHANGED spares
             ELSE richlist' = EmptyList /\ spares' = spares - 1
          /\ mixed' = FALSE /\ UNCHANGED faults
       \/ Fails /\ UNCHANGED listVars
    /\ UNCHANGED <<settings, chain, indexed, supply, claims, history, mode,
                   count, draft, webVars>>

CreateRichlist ==
    /\ pc = "create"
    /\ Goto("received")
    /\ \/ /\ IF richlist = NoList
             THEN richlist' = EmptyList /\ UNCHANGED spares
             ELSE spares' = spares + 1 /\ UNCHANGED richlist
          /\ UNCHANGED faults
       \/ Fails /\ UNCHANGED <<richlist, spares>>
    /\ UNCHANGED <<settings, chain, indexed, supply, claims, history, mode,
                   count, draft, webVars, mixed>>

(* update_richlist('received'), 971 to 1015: the query and the update.     *)
ReadReceived ==
    /\ pc = "received"
    /\ \/ /\ draft' \in ReceivedLists
          /\ Goto("received read") /\ UNCHANGED faults
       \/ Fails /\ Goto("balance") /\ UNCHANGED draft
    /\ UNCHANGED <<settings, chain, indexed, supply, listVars, claims, history,
                   mode, count, webVars>>

WriteReceived ==
    /\ pc = "received read"
    /\ Goto("balance")
    /\ draft' = <<>>
    /\ \/ /\ richlist' = Stored([richlist EXCEPT !.received = draft])
          /\ UNCHANGED faults
       \/ Fails /\ UNCHANGED richlist
    /\ UNCHANGED <<settings, chain, indexed, supply, claims, history, mode,
                   count, webVars, spares, mixed>>

(* update_richlist('balance'), 1016 to 1125.                               *)
ReadBalance ==
    /\ pc = "balance"
    /\ \/ /\ draft' \in BalanceLists
          /\ Goto("balance read") /\ UNCHANGED faults
       \/ Fails /\ Goto("history") /\ UNCHANGED draft
    /\ UNCHANGED <<settings, chain, indexed, supply, listVars, claims, history,
                   mode, count, webVars>>

WriteBalance ==
    /\ pc = "balance read"
    /\ Goto("history")
    /\ draft' = <<>>
    /\ \/ /\ richlist' = Stored(
                 [richlist EXCEPT
                    !.balance = BalanceOf(draft),
                    !.burned  = IF settings.counted THEN BurnedIn(draft) ELSE @])
          /\ mixed' = FALSE
          /\ UNCHANGED faults
       \/ Fails /\ UNCHANGED <<richlist, mixed>>
    /\ UNCHANGED <<settings, chain, indexed, supply, claims, history, mode,
                   count, webVars, spares>>

(* update_network_history(nstats.last), 1514 to 1568: a height that has an *)
(* entry is skipped, one whose block is not answered is left out.          *)
SaveHistory ==
    /\ pc = "history"
    /\ \/ /\ mode = "reindex-rich" \/ indexed \in history
          /\ Goto("idle") /\ UNCHANGED <<history, faults>>
       \/ /\ mode = "update" /\ indexed \notin history
          /\ history' = history \cup {indexed}
          /\ Goto("prune") /\ UNCHANGED faults
       \/ /\ mode = "update" /\ indexed \notin history
          /\ Fails
          /\ Goto("idle") /\ UNCHANGED history
    /\ UNCHANGED <<settings, chain, indexed, supply, listVars, claims, mode,
                   count, draft, webVars>>

(* Lines 1562 to 1600: all but the newest records, or all whose block is   *)
(* older than max_hours, which may be the one just saved.                  *)
Outdated(cutoff) == {h \in history :
    IF settings.records = 0 THEN h < cutoff
    ELSE Cardinality({k \in history : k > h}) >= settings.records}

PruneHistory ==
    /\ pc = "prune"
    /\ Goto("idle")
    /\ \/ /\ \E cutoff \in 0 .. chain + 1 : history' = history \ Outdated(cutoff)
          /\ UNCHANGED faults
       \/ Fails /\ UNCHANGED history
    /\ UNCHANGED <<settings, chain, indexed, supply, listVars, claims, mode,
                   count, draft, webVars>>

(* A signal that cannot be caught, or an exception: get_stats answers null *)
(* after an error and line 881 reads its last.                             *)
Crash ==
    /\ pc # "idle"
    /\ Fails
    /\ Goto("idle")
    /\ draft' = <<>>
    /\ UNCHANGED <<settings, chain, indexed, supply, listVars, claims, history,
                   mode, count, webVars>>

-----------------------------------------------------------------------------
(* The web server.                                                         *)

(* update_claim_name, 716 to 753: an address of the index, a name or none. *)
Claim(a, name) ==
    /\ visit = NoName /\ claimed < MaxClaims
    /\ a \in InIndex
    /\ claimed' = claimed + 1
    /\ claims' = [claims EXCEPT ![a] = name]
    /\ visit' = a
    /\ UNCHANGED <<settings, chain, indexed, supply, listVars, history, runVars,
                   copy, faults>>

Mentions(list, a) == \E i \in DOMAIN list : list[i].a_id = a

(* update_richlist_claim_name, 759 to 784.                                 *)
ReadRichlist ==
    /\ visit \in Addresses /\ copy = NoList /\ richlist # NoList
    /\ IF Mentions(richlist.received, visit) \/ Mentions(richlist.balance, visit)
       THEN copy' = richlist /\ UNCHANGED visit
       ELSE visit' = NoName /\ UNCHANGED copy
    /\ UNCHANGED <<settings, chain, indexed, supply, listVars, claims, history,
                   runVars, claimed, faults>>

(* Lines 787 to 790: both lists, but not what is burned.  The name goes    *)
(* into the field "name", which no query of database.js fills or reads;    *)
(* the claim_name that the aggregate has joined stays.                     *)
WriteBack == [richlist EXCEPT !.received = copy.received,
                              !.balance = copy.balance]

WriteRichlist ==
    /\ copy # NoList
    /\ visit' = NoName /\ copy' = NoList
    /\ \/ /\ richlist' = Stored(WriteBack)
          /\ mixed' = (mixed \/ (richlist # NoList /\ copy.balance # richlist.balance))
          /\ UNCHANGED faults
       \/ Fails /\ UNCHANGED <<richlist, mixed>>
    /\ UNCHANGED <<settings, chain, indexed, supply, claims, history, runVars,
                   claimed, spares>>

(* initialize_data_startup, 2237 to 2248: a server that starts creates the *)
(* list if there is none.                                                  *)
Initialise ==
    /\ richlist' = IF richlist = NoList THEN EmptyList ELSE richlist
    /\ visit' = NoName /\ copy' = NoList
    /\ UNCHANGED <<settings, chain, indexed, supply, claims, history, runVars,
                   claimed, spares, mixed>>

(* After a query error, or while there is no rich list, line 763 throws,   *)
(* and once more in the handler of the error: the server ends and systemd  *)
(* starts it again.                                                        *)
ClaimThrows ==
    /\ visit # NoName /\ copy = NoList
    /\ \/ richlist = NoList /\ UNCHANGED faults
       \/ Fails
    /\ Initialise

RestartServer == Initialise /\ UNCHANGED faults

(* The chain grows.                                                        *)
Extend ==
    /\ chain < MaxHeight
    /\ chain' = chain + 1
    /\ UNCHANGED <<settings, indexed, supply, listVars, claims, history,
                   runVars, webVars, faults>>

-----------------------------------------------------------------------------
Init ==
    /\ settings \in Settings
    /\ chain = 0 /\ indexed = 0 /\ supply = 0
    /\ richlist = EmptyList /\ spares = 0
    /\ claims = [a \in Addresses |-> NoName]
    /\ history = {}
    /\ mode = "update" /\ pc = "idle" /\ count = 0 /\ draft = <<>>
    /\ visit = NoName /\ copy = NoList
    /\ claimed = 0 /\ faults = 0 /\ mixed = FALSE

SyncStep == Start \/ SaveStats \/ IndexBlock \/ DeleteRichlist \/ CreateRichlist
            \/ ReadReceived \/ WriteReceived \/ ReadBalance \/ WriteBalance
            \/ SaveHistory \/ PruneHistory

WebStep == ReadRichlist \/ WriteRichlist \/ ClaimThrows

Next == SyncStep \/ Crash \/ WebStep \/ RestartServer \/ Extend
        \/ \E a \in Addresses, name \in Names \cup {NoName} : Claim(a, name)

Spec == Init /\ [][Next]_vars

(* systemd starts "index update" again and again; queries are answered in  *)
(* the end.                                                                *)
Fairness ==
    /\ WF_vars(Start /\ mode' = "update") /\ WF_vars(pc # "idle" /\ SyncStep)
    /\ WF_vars(WebStep) /\ WF_vars(Extend)

FairSpec == Spec /\ Fairness

-----------------------------------------------------------------------------
TypeOK ==
    /\ settings \in Settings
    /\ chain \in Heights /\ indexed \in Heights /\ count \in Heights
    /\ supply \in {SupplyAt(h) : h \in Heights} \cup {0}
    /\ richlist # NoList => richlist \in RichList
    /\ spares \in Nat
    /\ claims \in [Addresses -> Names \cup {NoName}]
    /\ history \subseteq Heights
    /\ mode \in {"update", "reindex-rich"}
    /\ pc \in {"idle", "supply", "index", "delete", "create", "received",
               "received read", "balance", "balance read", "history", "prune"}
    /\ draft \in List
    /\ visit \in Addresses \cup {NoName}
    /\ copy # NoList => copy \in RichList
    /\ claimed \in 0 .. MaxClaims /\ faults \in 0 .. MaxFaults
    /\ mixed \in BOOLEAN

(* The list is the top of the addresses that are not omitted, as of some   *)
(* height: as many as there are, or as fit, each once, with the right      *)
(* amounts in the right order, and none that is left out has more.         *)
IsTop(list, amounts, from) ==
    LET listed == {list[i].a_id : i \in DOMAIN list}
    IN  /\ listed \subseteq from
        /\ Len(list) = IF Cardinality(from) < TopSize THEN Cardinality(from)
                                                      ELSE TopSize
        /\ \A i, j \in DOMAIN list : i < j =>
               list[i].a_id # list[j].a_id /\ list[j].amount <= list[i].amount
        /\ \A i \in DOMAIN list :
               /\ list[i].amount = amounts[list[i].a_id]
               /\ \A a \in from \ listed : amounts[a] <= list[i].amount

IsRanking(list, amountsAt) ==
    \E h \in 0 .. indexed : IsTop(list, amountsAt[h], Indexed(h) \ Omitted)

(* Both lists of the rich list page are complete rankings of one height of *)
(* the index: the burned addresses that are counted apart leave no gap     *)
(* (1067), and a list written back by the server is not put together from  *)
(* two (787).                                                              *)
ListsAreRankings ==
    richlist # NoList =>
        /\ richlist.received = <<>> \/ IsRanking(richlist.received, Received)
        /\ richlist.balance = <<>> \/ IsRanking(richlist.balance, Balance)

(* get_distribution, 1420 to 1446: what the four groups of the list and    *)
(* the burned coins leave of the supply.                                   *)
Distributed == AmountIn(richlist.balance) +
               (IF settings.counted THEN richlist.burned ELSE 0)

(* The page counts no coin twice: the balances of the list and the burned  *)
(* coins are never more than all the coins of the index, whichever queries *)
(* fail (1067 to 1106); unless the server has written a balance list back  *)
(* that is older than the burned coins beside it (789).                    *)
NoCoinCountedTwice ==
    (richlist # NoList /\ ~mixed) => Distributed <= SupplyAt(indexed)

(* Everything the pages show is of the last block: both lists with the     *)
(* names claimed by then, the burned coins and the supply beside them, so  *)
(* that what is left for all others (1445) is not negative, and the record *)
(* of the block, unless records are kept by their age.                     *)
PagesAreCurrent ==
    /\ richlist.received \in ReceivedLists
    /\ \E list \in BalanceLists :
          /\ richlist.balance = BalanceOf(list)
          /\ settings.counted => richlist.burned = BurnedIn(list)
    /\ indexed = MaxHeight /\ supply = SupplyAt(indexed)
    /\ Distributed <= supply
    /\ settings.records > 0 => indexed \in history

(* When the chain rests, and the operator leaves it to "index update", the *)
(* pages come to show it, whatever failed, whatever the server wrote back  *)
(* in between and though each run stores a supply that is older than its   *)
(* blocks.  Only a rich list that a reindex-rich deleted (1296) and did    *)
(* not come to create stays away, until the server is started again.       *)
PagesCatchUp ==
    <>[](mode = "update") => <>[](richlist # NoList => PagesAreCurrent)

=============================================================================
