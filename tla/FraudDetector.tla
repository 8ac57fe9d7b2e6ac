--------------------------- MODULE FraudDetector ---------------------------
(***************************************************************************)
(* FraudDetector (backend/include/fraud_detector.hpp): a depth-first       *)
(* search for circular flows of money, and what it is to find.  Only       *)
(* TLC uses this module: the search is a RECURSIVE operator.               *)
(*                                                                         *)
(* A detector is a record of the constructor's arguments, its tolerance    *)
(* in percent.  The ratio of two amounts is compared by multiplication; a  *)
(* quotient of doubles, rounded, is on the same side of 0.95 and of 1.02.  *)
(***************************************************************************)
EXTENDS HashTable, FiniteSets

(* addEdge(): the edges of a node are a vector in graph_. *)
addEdge(graph, from, edge) ==
    LET edges == find(graph, from)
    IN  insert(graph, from, Append(IF edges = {} THEN <<>> ELSE CHOOSE e \in edges : TRUE,
                                   edge))

(* Every transfer a loaded account has paid for, account by account. *)
PaidTransfers(bank_db) ==
    LET OfAccount(entry) ==
            LET paid == SelectSeq(getAll(entry.value.transactions),
                          LAMBDA t : t.value.type = "TRANSFER" /\ t.value.to_account # 0)
            IN  [i \in DOMAIN paid |->
                    [from |-> entry.key, to |-> paid[i].value.to_account,
                     amount |-> paid[i].value.amount, timestamp |-> paid[i].value.at]]
        OfUser(entry) ==
            FoldLeft(LAMBDA all, account : all \o OfAccount(account), <<>>,
                     getAll(entry.value.accounts))
    IN  FoldLeft(LAMBDA all, user : all \o OfUser(user), <<>>, getAll(bank_db))

buildGraph(bank_db) ==
    FoldLeft(LAMBDA graph, e : addEdge(graph, e.from, e), EmptyTable,
             PaidTransfers(bank_db))

Lesser(m, n) == IF m <= n THEN m ELSE n
Greater(m, n) == IF m >= n THEN m ELSE n

(* earliest and latest timestamp once e has been added to the path. *)
Widened(path, e) ==
    [earliest |-> IF path.edges = <<>> THEN e.timestamp
                  ELSE Lesser(path.earliest, e.timestamp),
     latest   |-> IF path.edges = <<>> THEN e.timestamp
                  ELSE Greater(path.latest, e.timestamp)]

hopIsViable(d, path, e) ==
    LET w == Widened(path, e)
    IN  /\ e.amount >= d.minAmountThreshold
        /\ path.edges # <<>> =>
               LET prev == path.edges[Len(path.edges)].amount
               IN  /\ prev > 0
                   /\ e.amount * 100 >= prev * (100 - d.amountTolerance)
                   /\ e.amount * 100 <= prev * 102
        /\ w.latest - w.earliest <= d.maxWindowSeconds

(* Mutant: the length is compared after one hop too many. *)
TooLongByOne(d, path) == d.maxCycleLength # 0 /\ Len(path.edges) > d.maxCycleLength

TooLong(d, path) == d.maxCycleLength # 0 /\ Len(path.edges) >= d.maxCycleLength

RECURSIVE findCyclesFrom(_, _, _, _)

(* The cycles that extend path, whose nodes are those on the path, back to *)
(* startNode, in the order they are flagged.                               *)
findCyclesFrom(d, graph, startNode, path) ==
    LET node == path.nodes[Len(path.nodes)]
        outgoing == UNION {ToSet(edges) : edges \in find(graph, node)}
        Follow(flagged, e) ==
            flagged \o
            (IF e.to < startNode \/ ~hopIsViable(d, path, e) THEN <<>>
             ELSE IF e.to = startNode THEN << Append(path.nodes, startNode) >>
             ELSE IF e.to \in ToSet(path.nodes) THEN <<>>
             ELSE findCyclesFrom(d, graph, startNode,
                    [nodes |-> Append(path.nodes, e.to), edges |-> Append(path.edges, e),
                     earliest |-> Widened(path, e).earliest,
                     latest |-> Widened(path, e).latest]))
    IN  IF TooLong(d, path) \/ outgoing = {} THEN <<>>
        ELSE FoldLeft(Follow, <<>>, CHOOSE edges \in find(graph, node) : TRUE)

(* detectCycles(): from every account, in ascending order. *)
detectCycles(d, bank_db) ==
    LET accounts == UNION {Keys(u.value.accounts) : u \in ToSet(getAll(bank_db))}
        graph == buildGraph(bank_db)
        Start(s) == [nodes |-> <<s>>, edges |-> <<>>, earliest |-> 0, latest |-> 0]
    IN  MapThenFoldSet(LAMBDA cycles, rest : cycles \o rest, <<>>,
                       LAMBDA s : findCyclesFrom(d, graph, s, Start(s)),
                       LAMBDA S : CHOOSE s \in S : \A t \in S : s <= t,
                       accounts)

-----------------------------------------------------------------------------
(* What is to be flagged, for a sequence of transfers: closed walks that   *)
(* visit no account twice, from the least one, with amounts that shrink    *)
(* by no more than the tolerance and hardly grow from hop to hop, within   *)
(* the window and the length.                                              *)
SuspiciousWalks(d, transfers) ==
    LET longest == IF d.maxCycleLength = 0 THEN Len(transfers)
                   ELSE Lesser(d.maxCycleLength, Len(transfers))
    IN  {walk \in UNION {[1..k -> DOMAIN transfers] : k \in 1..longest} :
            LET k == Len(walk)
                T(i) == transfers[walk[i]]
            IN  /\ \A i \in 1..k : /\ T(i).to = T(IF i = k THEN 1 ELSE i + 1).from
                                   /\ T(i).from >= T(1).from
                                   /\ T(i).amount >= d.minAmountThreshold
                /\ \A i, j \in 1..k : /\ i # j => T(i).from # T(j).from
                                      /\ T(i).timestamp - T(j).timestamp <= d.maxWindowSeconds
                /\ \A i \in 1..(k - 1) :
                       /\ T(i).amount > 0
                       /\ T(i + 1).amount * 100 >= T(i).amount * (100 - d.amountTolerance)
                       /\ T(i + 1).amount * 100 <= T(i).amount * 102}

(* The accounts a walk visits, the first one again at the end. *)
NodesOf(walk, transfers) ==
    Append([i \in DOMAIN walk |-> transfers[walk[i]].from], transfers[walk[1]].from)
=============================================================================
