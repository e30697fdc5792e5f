---------------------------- MODULE HistoryReport ----------------------------
(***************************************************************************)
(* read_history of burnbag_history.py: a bounded report over one interval  *)
(* of both databases, read in short statements while the writers append.   *)
(*                                                                         *)
(* For each source it takes the highest rowid, counts the measurements of  *)
(* the interval, walks their keys page by page to pick representatives by  *)
(* rank, reads those, does the same for the events, and reads the coverage *)
(* last.  Anything that fails drops the whole source.                      *)
(***************************************************************************)
EXTENDS HistoryStore

CONSTANTS
    Limit,          \* representatives per source and subset
    KeyPage,        \* keys per page (2048 in the code)
    Interval        \* the wall times asked for

(* What the limits must be; MCHistory assumes it.                          *)
ReportAssumption == Limit \in Nat \ {0, 1} /\ KeyPage \in Nat \ {0}

VARIABLES
    stage,          \* the statement that comes next
    source,         \* the source being read
    subset,         \* "samples" or "events"
    ceiling,        \* per source: the rowid ceiling of its snapshot
    wanted,         \* ranks still to pick
    passed,         \* keys walked past
    picked,         \* rows picked in this subset
    kept,           \* rows read of this source
    gathered,       \* per source: its rows, once the whole source was read
    precedence,     \* the published coverage of the system
    failed,         \* sources that failed
    answer          \* the report: its rows, with their source

progress == <<stage, source, subset, ceiling, wanted, passed, picked, kept>>
results == <<gathered, precedence, failed, answer>>
report == <<progress, results>>

-----------------------------------------------------------------------------
(* Defect: steps that never reach the last row.                            *)
RanksShort(count, limit) ==
    IF count <= limit THEN 1..count ELSE {(i * count) \div limit + 1 : i \in 0..limit - 1}

(* Which rows stand for the others when there are too many: ranks from the *)
(* first to the last in equal steps (_read_subset and _spread).            *)
Ranks(count, limit) ==
    IF count <= limit THEN 1..count
    ELSE {(i * (count - 1)) \div (limit - 1) + 1 : i \in 0..limit - 1}

Asked(rows, which) ==
    {r \in rows : r.at \in Interval /\ (which = "samples" <=> r.sample)}

(* The rows the WHERE clause selects now.                                  *)
Selected == Asked(Snapshot(source, ceiling[source]), subset)

-----------------------------------------------------------------------------
(* Reading one source *)

ReadCeiling ==
    /\ stage = "ceiling"
    /\ ceiling' = [ceiling EXCEPT ![source] = Len(db[source])]
    /\ stage' = "count" /\ subset' = "samples" /\ kept' = {}
    /\ UNCHANGED <<source, wanted, passed, picked, results>>

CountRows ==
    /\ stage = "count"
    /\ wanted' = Ranks(Cardinality(Selected), Limit)
    /\ passed' = {} /\ picked' = {}
    /\ stage' = IF Selected = {} THEN "rows" ELSE "keys"
    /\ UNCHANGED <<source, subset, ceiling, kept, results>>

(* The next keys after the last one seen; ranks count the keys walked.     *)
ReadKeys ==
    /\ stage = "keys"
    /\ LET ahead == {r \in Selected : \A q \in passed : Before(q, r)}
           page == FirstOf(ahead, KeyPage)
           Rank(r) == Cardinality(passed) + Cardinality({q \in page : Before(q, r)}) + 1
           hits == {r \in page : Rank(r) \in wanted}
       IN  /\ picked' = picked \cup hits
           /\ wanted' = wanted \ {Rank(r) : r \in hits}
           /\ passed' = passed \cup page
           /\ stage' = IF wanted' = {} \/ page = {} THEN "rows" ELSE "keys"
    /\ UNCHANGED <<source, subset, ceiling, kept, results>>

NextSource ==
    IF source = "system" THEN stage' = "ceiling" /\ source' = "user"
                         ELSE stage' = "merge" /\ UNCHANGED source

(* Defect: a failing system source takes precedence all the same.          *)
FailsPublished ==
    /\ failed' = failed \cup {source}
    /\ precedence' = IF source = "system" THEN covered ELSE precedence
    /\ NextSource
    /\ UNCHANGED <<subset, ceiling, wanted, passed, picked, kept, gathered, answer>>

Fails ==
    /\ failed' = failed \cup {source}
    /\ NextSource
    /\ UNCHANGED <<subset, ceiling, wanted, passed, picked, kept, gathered, precedence, answer>>

ReadRows ==
    /\ stage = "rows"
    /\ IF \E r \in picked : ~r.good
       THEN Fails
       ELSE /\ kept' = kept \cup picked
            /\ IF subset = "samples" THEN stage' = "count" /\ subset' = "events"
                                     ELSE stage' = "coverage" /\ UNCHANGED subset
            /\ UNCHANGED <<source, ceiling, wanted, passed, picked, results>>

(* Only a source that was read to its end is used, and only then does its  *)
(* coverage take precedence.                                               *)
ReadCoverage ==
    /\ stage = "coverage"
    /\ gathered' = [gathered EXCEPT ![source] = kept]
    /\ precedence' = IF source = "system" THEN covered ELSE precedence
    /\ NextSource
    /\ UNCHANGED <<subset, ceiling, wanted, passed, picked, kept, failed, answer>>

(* A source that is missing, locked, unreadable or corrupt.                *)
SourceFails ==
    /\ stage \in {"ceiling", "count", "keys", "rows", "coverage"}
    /\ Fails

-----------------------------------------------------------------------------
(* Merging *)

Suppressed(r) == r.sample /\ r.boot \in precedence

Chosen ==
    {[source |-> "system", row |-> r] : r \in gathered["system"]} \cup
    {[source |-> "user", row |-> r] :
        r \in {r \in gathered["user"] :
                   r.id \notin Ids(gathered["system"]) /\ ~Suppressed(r)}}

Spread(entries) ==
    LET rows == {e.row : e \in entries}
        Rank(r) == Cardinality({q \in rows : Before(q, r)}) + 1
    IN  {e \in entries : Rank(e.row) \in Ranks(Cardinality(rows), Limit)}

MergeSources ==
    /\ stage = "merge"
    /\ answer' = Spread({e \in Chosen : e.row.sample}) \cup Spread({e \in Chosen : ~e.row.sample})
    /\ stage' = "done"
    /\ UNCHANGED <<source, subset, ceiling, wanted, passed, picked, kept, gathered, precedence, failed>>

-----------------------------------------------------------------------------
ReportInit ==
    /\ stage = "ceiling" /\ source = "system" /\ subset = "samples"
    /\ ceiling = [s \in Sources |-> 0]
    /\ wanted = {} /\ passed = {} /\ picked = {} /\ kept = {}
    /\ gathered = [s \in Sources |-> {}]
    /\ precedence = {} /\ failed = {} /\ answer = {}

ReportNext ==
    \/ ReadCeiling \/ CountRows \/ ReadKeys \/ ReadRows \/ ReadCoverage
    \/ SourceFails \/ MergeSources

-----------------------------------------------------------------------------
(* Properties *)

Done == stage = "done"

(* Every row of the interval that was there when its source was opened.    *)
Due(s) == {r \in Snapshot(s, ceiling[s]) : r.at \in Interval}

Kind(r) == IF r.sample THEN "samples" ELSE "events"

(* The measurements, or the events, that the report shows.                 *)
Told(which) == {r \in {e.row : e \in answer} : which = Kind(r)}

(* A user's row that the system's own row replaces, or whose measurement   *)
(* the system covers: only a system that was read to its end does so.      *)
Replaced(s, r) ==
    /\ s = "user" /\ "system" \notin failed
    /\ r.id \in Ids(Due("system")) \/ (r.sample /\ r.boot \in covered)

(* More of its kind than one source may show were due, and others stand    *)
(* for it (see SpansInterval).                                             *)
Represented(s, r) ==
    Cardinality(Asked(Due(s), Kind(r))) > Limit /\ r \notin gathered[s]

(* Both sources together had too many, and the report, as full as it may   *)
(* be, goes on before and after it.                                        *)
Bracketed(r) ==
    /\ Cardinality(Told(Kind(r))) = Limit
    /\ \E a, b \in Told(Kind(r)) : Before(a, r) /\ Before(r, b)

(* The report holds no row of a source that failed, none from after its    *)
(* opening, and no identity twice.  A row that was due is missing only for *)
(* a reason: a source that fails hides nothing of the other, at whichever  *)
(* statement it fails, and a reduction leaves out nothing while there is   *)
(* room, nor what comes first or last.                                     *)
NothingHidden ==
    Done =>
        /\ \A e \in answer : e.source \notin failed /\ e.row \in Due(e.source)
        /\ \A e, f \in answer : e.row.id = f.row.id => e = f
        /\ \A s \in Sources \ failed : \A r \in Due(s) :
             \/ [source |-> s, row |-> r] \in answer
             \/ Replaced(s, r) \/ Represented(s, r) \/ Bracketed(r)

(* However many rows a source has and however many are appended during the *)
(* walk, its representatives are as many as the limit allows, include the  *)
(* first and the last row, and skip runs of rows that differ in length by  *)
(* at most one.                                                            *)
SpansInterval ==
    Done =>
        \A s \in Sources \ failed : \A which \in {"samples", "events"} :
            LET due == Asked(Due(s), which)
                shown == Asked(gathered[s], which)
                Rank(r) == Cardinality({q \in due : Before(q, r)}) + 1
                ranks == {Rank(r) : r \in shown}
                Neighbours(a, b) == a < b /\ ~\E c \in ranks : a < c /\ c < b
            IN  /\ shown \subseteq due
                /\ Cardinality(shown) = IF Cardinality(due) <= Limit THEN Cardinality(due) ELSE Limit
                /\ due # {} => {1, Cardinality(due)} \subseteq ranks
                /\ \A a, b, c, d \in ranks :
                     Neighbours(a, b) /\ Neighbours(c, d) => (b - a) - (d - c) <= 1
=============================================================================
