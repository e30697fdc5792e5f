------------------------------ MODULE MCHistory ------------------------------
(***************************************************************************)
(* Small instances of the two readers of the history for TLC.  Both read   *)
(* the same databases while the writers append; in each behaviour one of   *)
(* them is at work, so that their states add up and do not multiply.  The  *)
(* viewer's graph and table share the sources and a few operations: the    *)
(* user works with the table, with the graph, or a little with both.       *)
(***************************************************************************)
EXTENDS HistoryReaders

VARIABLE client     \* "report", "table", "sources", "graph" or "both"

all == <<readers, client>>

-----------------------------------------------------------------------------
Row(id, at, boot, sample, good, terms) ==
    [id |-> id, at |-> at, boot |-> boot, sample |-> sample, good |-> good, terms |-> terms]

(* Record 4 is in both stores, under different times; the user's record 2  *)
(* is covered by the system and 7 is not; record 4 or 5 may be corrupt.    *)
Few ==
    {[db |-> [system |-> <<Row(1, 1, 1, TRUE, TRUE, {}), Row(4, 2, 3, FALSE, bad # 4, {"t"}),
                           Row(5, 4, 5, FALSE, bad # 5, {})>>,
              user |-> <<Row(2, 1, 2, TRUE, TRUE, {}), Row(4, 3, 6, FALSE, TRUE, {"t"}),
                         Row(7, 3, 7, TRUE, TRUE, {"t"})>>],
      covered |-> {1, 2, 3}] : bad \in {0, 4, 5}}

(* More than a report may show, of each kind: the system's measurements    *)
(* are reduced, with a copy of the one that is left out in the user's      *)
(* store, and what is picked of both is reduced again.  The record that is *)
(* left out, one that is picked, an event, or one of the user may be       *)
(* corrupt.                                                                *)
Many ==
    {[db |-> [system |-> <<Row(1, 1, 1, TRUE, TRUE, {}), Row(2, 2, 2, TRUE, bad # 2, {}),
                           Row(5, 2, 3, FALSE, TRUE, {}), Row(3, 3, 9, TRUE, bad # 3, {}),
                           Row(4, 4, 10, TRUE, TRUE, {}), Row(6, 4, 10, FALSE, bad # 6, {})>>,
              user |-> <<Row(9, 1, 2, TRUE, TRUE, {}), Row(11, 1, 2, FALSE, TRUE, {}),
                         Row(8, 3, 8, TRUE, bad # 8, {}), Row(5, 3, 8, FALSE, TRUE, {}),
                         Row(3, 3, 11, TRUE, TRUE, {}), Row(10, 4, 11, FALSE, TRUE, {}),
                         Row(12, 5, 12, FALSE, TRUE, {})>>],
      covered |-> {1, 2, 9, 10}] : bad \in {0, 2, 3, 6, 8}}

MCHistories == Few \cup Many

MCInit ==
    /\ ReadersInit
    /\ client \in {"report", "table", "sources", "graph", "both"}
    /\ client # "report" => Len(db["system"]) = 3
    /\ client \in {"table", "graph", "both"} => \A s \in Sources : \A r \in ToSet(db[s]) : r.good

(* What happens in the behaviours of each client: to the table the user    *)
(* does the most, beside failing sources and appends (as they open) less,  *)
(* beside the graph nothing.  The overview ends beside the sources or the  *)
(* graph.                                                                  *)
ViewerSteps ==
    /\ ViewerNext
    /\ client = "table" =>
         /\ graph' = graph /\ (overview => overview')
         /\ IF opening = "done" THEN state' = state ELSE faults' = faults
    /\ client = "sources" =>
         graph' = graph /\ table'.gen <= 1 /\ cursor' = cursor /\ span' = span
    /\ client = "graph" => cursor' = cursor /\ table'.gen = table.gen /\ tab' = tab
    /\ client = "both" =>
         faults' = faults /\ table'.gen <= 1 /\ graph'.gen <= 1 /\ (overview => overview')

AppendSteps ==
    /\ client \in {"report", "sources"} /\ Appends
    /\ client = "sources" =>
         /\ opening # "done" /\ db'["user"] = db["user"]
         /\ NewBoot \in covered' /\ Last(db'["system"]).at = 3

MCNext ==
    /\ UNCHANGED client
    /\ \/ client = "report" /\ Report!ReportNext /\ UNCHANGED <<store, viewer>>
       \/ client # "report" /\ ViewerSteps /\ UNCHANGED <<store, reporting>>
       \/ AppendSteps /\ UNCHANGED <<viewer, reporting>>

MCSpec == MCInit /\ [][MCNext]_all /\ ViewerFairness

=============================================================================
