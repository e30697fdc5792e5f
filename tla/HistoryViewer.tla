---------------------------- MODULE HistoryViewer ----------------------------
(***************************************************************************)
(* The history viewer: HistorySources of burnbag_viewer_data.py, which     *)
(* merges pages of both databases, and the window of burnbag_viewer.py,    *)
(* which shows them in a table and a graph.                                *)
(*                                                                         *)
(* The databases are opened once: their rowid ceilings and the coverage of *)
(* the system are the window's snapshot.  The main thread handles one      *)
(* event at a time.  It never queries a database itself: every read is a   *)
(* thread of its own, several may be at work, a lock lets them query one   *)
(* at a time, and each hands its result to the main thread some time       *)
(* later, when the user may be asking for something else.                  *)
(***************************************************************************)
EXTENDS HistoryStore

CONSTANTS
    PageSize,       \* rows per page (500 in the code)
    NoTerm,         \* the empty search, one of the Terms
    Spans,          \* intervals the user may select: sets of wall times
    Views,          \* what the graph may be asked to show: fields and range
    Empty,          \* the view of no field
    Marks,          \* identities of the records a click may set the cursor on
    Nothing,        \* no record, no row, no interval, no data
    MaxResets,      \* bound: times the table is emptied
    MaxAsks,        \* bound: graph reads asked for
    MaxFaults       \* bound: sources that fail, and reads

(* A record as a page shows it.                                            *)
Entry == [id : Int, at : Int, boot : Int, source : Sources]

ASSUME ViewerAssumption ==
    PageSize \in Nat \ {0} /\ NoTerm \in Terms /\ Nothing \notin Entry

VARIABLES
    opening,        \* the statement of HistorySources.__init__ that comes next
    state,          \* per source: "unavailable", "ready" or "error"
    connected,      \* sources with a connection
    ceiling,        \* per source: its rowid ceiling
    known,          \* system_coverage
    faults,         \* what failed so far
    table,          \* the table and what it is loading
    reads,          \* threads that read a page
    searching,      \* whether the timer of a search runs
    span,           \* selected_range
    cursor,         \* the focused record
    tab,            \* "graph" or "table"
    graph,          \* the graph and what it is loading
    graphReads,     \* threads that read a graph
    overview,       \* whether the thread of the overview is at work
    shut            \* closed: the window is gone

sources == <<opening, state, connected, ceiling, known, faults>>
tables == <<table, reads, searching, span, cursor, tab>>
graphs == <<graph, graphReads, overview>>
viewer == <<sources, tables, graphs, shut>>

-----------------------------------------------------------------------------
(* HistorySources.__init__ *)

OpenSource(s) ==
    /\ opening = s
    /\ ceiling' = [ceiling EXCEPT ![s] = Len(db[s])]
    /\ state' = [state EXCEPT ![s] = "ready"]
    /\ connected' = connected \cup {s}
    /\ opening' = IF s = "system" THEN "coverage" ELSE "open"
    /\ UNCHANGED <<known, faults>>

(* The coverage is read by a later statement than the ceiling.             *)
OpenCoverage ==
    /\ opening = "coverage"
    /\ known' = covered
    /\ opening' = "user"
    /\ UNCHANGED <<state, connected, ceiling, faults>>

(* A source that is missing, unreadable or of another version.             *)
OpenFails(s) ==
    /\ opening = s \/ (s = "system" /\ opening = "coverage")
    /\ faults < MaxFaults
    /\ faults' = faults + 1
    /\ state' = [state EXCEPT ![s] = "error"]
    /\ connected' = connected \ {s}
    /\ known' = IF s = "system" THEN {} ELSE known
    /\ opening' = IF s = "system" THEN "user" ELSE "open"
    /\ UNCHANGED ceiling

-----------------------------------------------------------------------------
(* One page *)

Matches(r, query) ==
    /\ query.term = NoTerm \/ query.term \in r.terms
    /\ query.bounds = Nothing \/ r.at \in query.bounds

Past(r, after) == after = Nothing \/ Before(after, r)

Rows(s) == Snapshot(s, ceiling[s])
Asked(s, query) == {r \in Rows(s) : Matches(r, query) /\ Past(r, query.after)}

(* _system_collisions: identities the system has too, while it is healthy. *)
Collisions(ok) == IF "system" \in ok THEN Ids({r \in Rows("system") : r.good}) ELSE {}

Suppressed(r, coverage) == r.sample /\ r.boot \in coverage

(* _source_page of a source that can be read.                              *)
SystemPage(query) == FirstOf({r \in Asked("system", query) : r.good}, PageSize)
UserPage(query, ok, coverage) ==
    FirstOf({r \in Asked("user", query) :
                r.good /\ r.id \notin Collisions(ok) /\ ~Suppressed(r, coverage)}, PageSize)

(* Decoding an invalid row of the system ends the precedence of its        *)
(* coverage.  One is met while the page is filled, or when collisions are  *)
(* looked up: in batches of at least 64 rows, more than the tables of the  *)
(* model have.                                                             *)
MetOnPage(query) ==
    \E r \in Asked("system", query) :
        /\ ~r.good
        /\ LET page == SystemPage(query) IN
           Cardinality(page) = PageSize => \E q \in page : Before(r, q)

MetInLookup(query) ==
    \E r \in Rows("system") : ~r.good /\ r.id \in Ids(Asked("user", query))

(* _merge: both pages in one order, cut to the size of one.                *)
Merged(system, user) ==
    FirstOf({[id |-> r.id, at |-> r.at, boot |-> r.boot, source |-> "system"] : r \in system} \cup
            {[id |-> r.id, at |-> r.at, boot |-> r.boot, source |-> "user"] :
                r \in {r \in user : r.id \notin Ids(system)}}, PageSize)

(* A statement of a source fails: what the other has is used all the same. *)
Page(query, failing) ==
    LET alive == connected \ failing
        ok == {s \in connected : state[s] = "ready"} \ failing
        coverage ==
            IF \/ "system" \in failing
               \/ "system" \in alive /\ MetOnPage(query)
               \/ {"system", "user"} \subseteq alive /\ "system" \in ok /\ MetInLookup(query)
            THEN {} ELSE known
    IN  /\ known' = coverage
        /\ state' = [s \in Sources |-> IF s \in failing THEN "error" ELSE state[s]]
        /\ faults' = faults + Cardinality(failing)
        /\ reads' = (reads \ {query}) \cup
               {[query EXCEPT !.page =
                    InOrder(Merged(IF "system" \in alive THEN SystemPage(query) ELSE {},
                                   IF "user" \in alive THEN UserPage(query, ok, coverage) ELSE {}))]}

-----------------------------------------------------------------------------
(* The table.  `failed' tells that a read for what it asks now failed, as  *)
(* the status then said.                                                   *)

(* Defect: a read under way still counts.                                  *)
ResetWhileLoading(t) ==
    [t EXCEPT !.gen = @ + 1, !.hasMore = TRUE, !.after = Nothing, !.loaded = <<>>,
              !.failed = FALSE]

Reset(t) ==
    [t EXCEPT !.gen = @ + 1, !.loading = FALSE, !.hasMore = TRUE, !.after = Nothing, !.loaded = <<>>,
              !.failed = FALSE]

(* _load_next_page, on a table t and beside the other reads.               *)
Shows(t, others, wants) ==
    IF wants /\ ~t.loading /\ t.hasMore
    THEN /\ table' = [t EXCEPT !.loading = TRUE]
         /\ reads' = others \cup
                {[gen |-> t.gen, after |-> t.after, term |-> t.term, bounds |-> t.bounds,
                  page |-> Nothing, error |-> FALSE]}
    ELSE table' = t /\ reads' = others

(* _sync_table_cursor: the record to look for, unless it is shown, cannot  *)
(* be, or must have been passed.                                           *)
Synced(t, record) ==
    [t EXCEPT !.pending =
        IF /\ record # Nothing
           /\ t.bounds = Nothing \/ record.at \in t.bounds
           /\ record.id \notin Ids(ToSet(t.loaded))
           /\ t.hasMore /\ (t.after = Nothing \/ t.after.at <= record.at)
        THEN record.id ELSE Nothing]

(* _sync_table_range with the selected interval `bounds'.                  *)
Ranged(t, bounds, record) ==
    IF bounds = t.bounds THEN t
    ELSE Synced(Reset([t EXCEPT !.bounds = bounds]), record)

LoadFirst ==
    /\ opening = "open"
    /\ opening' = "done"
    /\ Shows(table, reads, TRUE)
    /\ overview' = TRUE
    /\ UNCHANGED <<state, connected, ceiling, known, faults, searching, span, cursor, tab,
                   graph, graphReads, shut>>

Running == opening = "done" /\ ~shut

(* What no source is to blame for fails the whole read.                    *)
Raises(query) ==
    /\ faults < MaxFaults
    /\ faults' = faults + 1
    /\ reads' = (reads \ {query}) \cup {[query EXCEPT !.page = <<>>, !.error = TRUE]}
    /\ UNCHANGED <<known, state>>

(* A read queries the databases under the lock.                            *)
ReadPage(query) ==
    /\ query \in reads /\ query.page = Nothing
    /\ \/ \E failing \in SUBSET connected :
              faults + Cardinality(failing) <= MaxFaults /\ Page(query, failing)
       \/ Raises(query)
    /\ UNCHANGED <<opening, connected, ceiling, table, searching, span, cursor, tab, graphs, shut>>

(* Defect: a page is recognised by its search alone.                       *)
StaleBySearch(query) == shut \/ query.term # table.term

Stale(query) == shut \/ query.gen # table.gen \/ query.term # table.term

Found(t) == t.pending \in Ids(ToSet(t.loaded))

Appended(t, page) ==
    [t EXCEPT !.loading = FALSE,
              !.loaded = @ \o page,
              !.after = IF page = <<>> THEN @ ELSE page[Len(page)],
              !.hasMore = Len(page) = PageSize]

(* What is still looked for after a page.                                  *)
Sought(t) ==
    IF \/ Found(t) \/ ~t.hasMore
       \/ t.after # Nothing /\ cursor # Nothing /\ t.after.at > cursor.at
    THEN [t EXCEPT !.pending = Nothing] ELSE t

(* A failed read ends the table where it is, and what it looked for is not *)
(* given up.                                                               *)
Broken(t) == [t EXCEPT !.loading = FALSE, !.hasMore = FALSE, !.failed = TRUE]

(* Showing the rows fails after the first few of them: what has been read  *)
(* counts only after the last.                                             *)
Interrupted(t, page, shown) ==
    Broken(IF shown = Len(page) THEN Appended(t, page)
                                ELSE [t EXCEPT !.loaded = @ \o SubSeq(page, 1, shown)])

DropPage(query) ==
    /\ Stale(query)
    /\ reads' = reads \ {query}
    /\ UNCHANGED <<table, faults>>

ShowPage(query) ==
    /\ ~Stale(query) /\ ~query.error
    /\ LET t == Sought(Appended(table, query.page)) IN
       Shows(t, reads \ {query}, t.pending # Nothing /\ tab = "table")
    /\ UNCHANGED faults

ShowError(query) ==
    /\ ~Stale(query) /\ query.error
    /\ table' = Broken(table) /\ reads' = reads \ {query}
    /\ UNCHANGED faults

ShowFails(query) ==
    /\ ~Stale(query) /\ ~query.error /\ faults < MaxFaults
    /\ faults' = faults + 1
    /\ \E shown \in 0..Len(query.page) : table' = Interrupted(table, query.page, shown)
    /\ reads' = reads \ {query}

FinishPage(query) ==
    /\ query \in reads /\ query.page # Nothing
    /\ DropPage(query) \/ ShowPage(query) \/ ShowError(query) \/ ShowFails(query)
    /\ UNCHANGED <<opening, state, connected, ceiling, known, searching, span, cursor, tab, graphs, shut>>

-----------------------------------------------------------------------------
(* What the user does to the table *)

Search(term) ==
    /\ Running /\ term # table.term /\ table.gen < MaxResets
    /\ Shows(Synced(Reset([table EXCEPT !.term = term]), cursor), reads, FALSE)
    /\ searching' = TRUE
    /\ UNCHANGED <<sources, span, cursor, tab, graphs, shut>>

(* The timer of a search starts the load.                                  *)
StartSearch ==
    /\ Running /\ searching
    /\ searching' = FALSE
    /\ Shows(table, reads, TRUE)
    /\ UNCHANGED <<sources, span, cursor, tab, graphs, shut>>

SelectRange(bounds) ==
    /\ Running /\ bounds # span /\ table.gen < MaxResets
    /\ span' = bounds
    /\ Shows(Ranged(table, bounds, cursor), reads, bounds # table.bounds)
    /\ UNCHANGED <<sources, searching, cursor, tab, graphs, shut>>

(* A drag selects while it moves; the table follows at its end.            *)
DragRange(bounds) ==
    /\ Running /\ tab = "graph" /\ bounds # span
    /\ span' = bounds
    /\ UNCHANGED <<sources, table, reads, searching, cursor, tab, graphs, shut>>

EndDrag ==
    /\ Running /\ span # table.bounds /\ table.gen < MaxResets
    /\ Shows(Ranged(table, span, cursor), reads, TRUE)
    /\ UNCHANGED <<sources, searching, span, cursor, tab, graphs, shut>>

Scroll ==
    /\ Running /\ tab = "table"
    /\ table.hasMore /\ ~table.loading /\ table.loaded # <<>> /\ Len(table.loaded) % PageSize = 0
    /\ Shows(table, reads, TRUE)
    /\ UNCHANGED <<sources, searching, span, cursor, tab, graphs, shut>>

(* A click sets the cursor on any record the snapshot has, a second click  *)
(* also lifts the selection.                                               *)
SetCursor(record) ==
    /\ Running /\ record # cursor
    /\ cursor' = record
    /\ LET t == Synced(table, record) IN Shows(t, reads, t.pending # Nothing /\ tab = "table")
    /\ UNCHANGED <<sources, searching, span, tab, graphs, shut>>

ClickTwice(record) ==
    /\ Running /\ tab = "graph"
    /\ table.bounds # Nothing => table.gen < MaxResets
    /\ span' = Nothing /\ cursor' = record
    /\ Shows(Synced(Ranged(table, Nothing, cursor), record), reads, table.bounds # Nothing)
    /\ UNCHANGED <<sources, searching, tab, graphs, shut>>

OpenTable ==
    /\ Running /\ tab = "graph" /\ (span # table.bounds => table.gen < MaxResets)
    /\ tab' = "table"
    /\ LET t == Synced(Ranged(table, span, cursor), cursor)
       IN  Shows(t, reads, span # table.bounds \/ t.pending # Nothing)
    /\ UNCHANGED <<sources, searching, span, cursor, graphs, shut>>

OpenGraph ==
    /\ Running /\ tab = "table"
    /\ tab' = "graph"
    /\ UNCHANGED <<sources, table, reads, searching, span, cursor, graphs, shut>>

-----------------------------------------------------------------------------
(* The graph *)

(* _queue_graph_read: a newer request outdates the reads under way.        *)
Queued(view) ==
    IF view = Empty
    THEN [graph EXCEPT !.gen = @ + 1, !.timer = FALSE, !.loading = FALSE, !.view = view,
                       !.data = view]
    ELSE [graph EXCEPT !.gen = @ + 1, !.timer = TRUE, !.loading = TRUE, !.view = view]

AskGraph(view) ==
    /\ Running /\ graph.gen < MaxAsks
    /\ graph' = Queued(view)
    /\ UNCHANGED <<sources, tables, graphReads, overview, shut>>

StartGraphRead ==
    /\ Running /\ graph.timer
    /\ graph' = [graph EXCEPT !.timer = FALSE]
    /\ graphReads' = graphReads \cup {[gen |-> graph.gen, view |-> graph.view]}
    /\ UNCHANGED <<sources, tables, overview, shut>>

(* The overview and the graph read pages of their own, which may be the    *)
(* ones that meet a failing source or an invalid row.                      *)
OthersRead == overview \/ graphReads # {}

GraphReadMeetsFault(s) ==
    /\ OthersRead /\ s \in connected /\ faults < MaxFaults
    /\ faults' = faults + 1
    /\ state' = [state EXCEPT ![s] = "error"]
    /\ known' = IF s = "system" THEN {} ELSE known
    /\ UNCHANGED <<opening, connected, ceiling, tables, graphs, shut>>

GraphReadMeetsInvalid ==
    /\ OthersRead /\ "system" \in connected
    /\ \E row \in Rows("system") : ~row.good
    /\ known' = {}
    /\ UNCHANGED <<opening, state, connected, ceiling, faults, tables, graphs, shut>>

(* The overview tells which fields there are, and the graph is asked for   *)
(* those the user chose; one that failed leaves the graph as it is.        *)
FinishOverview(view) ==
    /\ overview
    /\ overview' = FALSE
    /\ graph' = graph \/ (~shut /\ graph' = Queued(view))
    /\ UNCHANGED <<sources, tables, graphReads, shut>>

(* A read that failed leaves the graph with nothing.                       *)
FinishGraphRead(read, data) ==
    /\ read \in graphReads
    /\ graphReads' = graphReads \ {read}
    /\ graph' = IF shut \/ read.gen # graph.gen THEN graph
                ELSE [graph EXCEPT !.loading = FALSE, !.data = data]
    /\ UNCHANGED <<sources, tables, overview, shut>>

-----------------------------------------------------------------------------
(* What the user does to both                                              *)

Resets(bounds) == bounds # table.bounds

CanReset(bounds) == Running /\ graph.gen < MaxAsks /\ (Resets(bounds) => table.gen < MaxResets)

(* Zooming selects what it shows.                                          *)
Zoom(view, bounds) ==
    /\ CanReset(bounds)
    /\ graph' = Queued(view)
    /\ span' = bounds
    /\ Shows(Ranged(table, bounds, cursor), reads, Resets(bounds))
    /\ UNCHANGED <<sources, searching, cursor, tab, graphReads, overview, shut>>

(* Fit shows the selected interval in the graph.                           *)
Fit(view) ==
    /\ CanReset(span) /\ span # Nothing
    /\ graph' = Queued(view)
    /\ Shows(Ranged(table, span, cursor), reads, Resets(span))
    /\ UNCHANGED <<sources, searching, span, cursor, tab, graphReads, overview, shut>>

(* The rows selected in the table become the interval, and are shown.      *)
ViewSelection(view, bounds) ==
    /\ CanReset(bounds)
    /\ \E e \in ToSet(table.loaded) : e.at \in bounds
    /\ graph' = Queued(view)
    /\ span' = bounds
    /\ Shows(Ranged(table, bounds, cursor), reads, Resets(bounds))
    /\ tab' = "graph"
    /\ UNCHANGED <<sources, searching, cursor, graphReads, overview, shut>>

(* A row that is opened gets the cursor and the middle of the graph.       *)
FocusRecord(i, view) ==
    /\ Running /\ tab = "table" /\ graph.gen < MaxAsks
    /\ cursor' = [id |-> table.loaded[i].id, at |-> table.loaded[i].at]
    /\ table' = Synced(table, cursor')
    /\ graph' = Queued(view)
    /\ tab' = "graph"
    /\ UNCHANGED <<sources, reads, searching, span, graphReads, overview, shut>>

(* The graph goes back to where it began.                                  *)
ResetView(view) ==
    /\ CanReset(Nothing)
    /\ cursor' = Nothing /\ span' = Nothing
    /\ Shows(Synced(Ranged(table, Nothing, Nothing), Nothing), reads, Resets(Nothing))
    /\ graph' = Queued(view)
    /\ UNCHANGED <<sources, searching, tab, graphReads, overview, shut>>

(* Back to everything, the search included.                                *)
AllHistory(view) ==
    /\ Running /\ table.gen < MaxResets /\ graph.gen < MaxAsks
    /\ cursor' = Nothing /\ span' = Nothing
    /\ Shows(Reset([table EXCEPT !.term = NoTerm, !.bounds = Nothing, !.pending = Nothing]),
             reads, TRUE)
    /\ graph' = Queued(view)
    /\ UNCHANGED <<sources, searching, tab, graphReads, overview, shut>>

Shutdown ==
    /\ Running
    /\ shut' = TRUE
    /\ connected' = {}
    /\ UNCHANGED <<opening, state, ceiling, known, faults, tables, graphs>>

-----------------------------------------------------------------------------
ViewerInit ==
    /\ opening = "system"
    /\ state = [s \in Sources |-> "unavailable"] /\ connected = {}
    /\ ceiling = [s \in Sources |-> 0] /\ known = {} /\ faults = 0
    /\ table = [gen |-> 0, term |-> NoTerm, bounds |-> Nothing, after |-> Nothing,
                hasMore |-> TRUE, loading |-> FALSE, loaded |-> <<>>, pending |-> Nothing,
                failed |-> FALSE]
    /\ reads = {} /\ searching = FALSE /\ span = Nothing /\ cursor = Nothing
    /\ tab = "graph"
    /\ graph = [gen |-> 0, timer |-> FALSE, loading |-> FALSE, view |-> Nothing, data |-> Nothing]
    /\ graphReads = {} /\ overview = FALSE /\ shut = FALSE

Opens ==
    /\ \/ OpenCoverage \/ \E s \in Sources : OpenSource(s) \/ OpenFails(s)
    /\ UNCHANGED <<tables, graphs, shut>>

Records ==
    {[id |-> r.id, at |-> r.at] :
        r \in {r \in Rows("system") \cup Rows("user") : r.good /\ r.id \in Marks}}

ViewerNext ==
    \/ Opens \/ LoadFirst
    \/ \E query \in reads : ReadPage(query) \/ FinishPage(query)
    \/ \E term \in Terms : Search(term)
    \/ StartSearch \/ EndDrag \/ Scroll \/ OpenTable \/ OpenGraph
    \/ \E bounds \in Spans \cup {Nothing} : SelectRange(bounds)
    \/ \E bounds \in Spans : DragRange(bounds)
    \/ \E record \in Records : SetCursor(record) \/ ClickTwice(record)
    \/ \E view \in Views :
           \/ AskGraph(view) \/ AllHistory(view) \/ Fit(view) \/ ResetView(view)
           \/ FinishOverview(view)
           \/ \E bounds \in Spans : Zoom(view, bounds) \/ ViewSelection(view, bounds)
           \/ \E i \in DOMAIN table.loaded : FocusRecord(i, view)
    \/ StartGraphRead
    \/ \E s \in Sources : GraphReadMeetsFault(s)
    \/ GraphReadMeetsInvalid
    \/ \E read \in graphReads, data \in Views \cup {Nothing} :
           data \in {read.view, Nothing} /\ FinishGraphRead(read, data)
    \/ Shutdown

(* Threads run, and the main loop serves what they hand to it and its      *)
(* timers; the user owes nothing.                                          *)
ViewerFairness ==
    /\ WF_viewer(\E query \in reads : ReadPage(query))
    /\ WF_viewer(\E query \in reads : FinishPage(query))
    /\ WF_viewer(StartSearch)

-----------------------------------------------------------------------------
(* Properties *)

Query == [term |-> table.term, bounds |-> table.bounds]

(* The rows a source owes the table for what is asked now: of the user's   *)
(* those that the system, if it could be opened, neither has nor covers.   *)
Owed(s) ==
    {r \in Rows(s) :
        /\ r.good /\ Matches(r, Query)
        /\ s = "user" /\ "system" \in connected =>
               ~Suppressed(r, covered) /\ r.id \notin Ids(Rows("system"))}

Healthy == {s \in connected : state[s] = "ready"}

InTable(s, r) ==
    \E i \in DOMAIN table.loaded : table.loaded[i].source = s /\ table.loaded[i].id = r.id

(* The table is in order, shows only rows of its snapshot that match what  *)
(* is asked now, has no gap before its last row in what a healthy source   *)
(* owes, and lacks what comes after only while it says that there is more, *)
(* or once a read of this question has failed.                             *)
TableCurrent ==
    /\ \A i \in DOMAIN table.loaded :
         LET e == table.loaded[i] IN
         /\ i > 1 => Before(table.loaded[i - 1], e)
         /\ \E r \in Rows(e.source) : r.id = e.id /\ r.at = e.at /\ r.good /\ Matches(r, Query)
    /\ \A s \in Healthy : \A r \in Owed(s) :
         \/ InTable(s, r)
         \/ /\ table.hasMore \/ table.failed
            /\ table.loaded # <<>> => Before(table.loaded[Len(table.loaded)], r)

(* While every source is healthy and every row valid, no record is shown   *)
(* twice, and the user's copy of it never.                                 *)
SystemPreferred ==
    (Healthy = Sources /\ \A r \in Rows("system") : r.good) =>
        \A i, j \in DOMAIN table.loaded :
            table.loaded[i].id = table.loaded[j].id => i = j

(* A graph that is not loading shows what was asked for last, or nothing.  *)
GraphCurrent == ~graph.loading => graph.data \in {graph.view, Nothing}

(* Whatever was searched, selected, dragged and scrolled while pages were  *)
(* on their way, and whichever source failed in between, the window shows  *)
(* what is asked now: no row of an older question, no gap, no repeated     *)
(* record, and no graph of an older view; and a read that fails in between *)
(* ends the table early, with nothing missing before its end.              *)
WindowFaithful == TableCurrent /\ SystemPreferred /\ GraphCurrent

(* What the user waits for: the first rows of a table that was emptied, or *)
(* the cursor that the open table looks for page by page.  A failed read   *)
(* ends the search of the cursor without giving it up: it is taken up or   *)
(* given up when the table is next emptied or another record is chosen.    *)
Waiting ==
    /\ Running
    /\ \/ table.loaded = <<>> /\ table.hasMore
       \/ tab = "table" /\ table.pending # Nothing /\ ~table.failed

(* The table always comes to rest: a table emptied by a search, a          *)
(* selection or a button fills again, whichever reads were outdated on the *)
(* way, and a cursor is found or given up, unless a read fails.            *)
TableSettles == []<>~Waiting
=============================================================================
