---------------------------- MODULE HistoryStore ----------------------------
(***************************************************************************)
(* The two history databases as their readers see them, and the writers    *)
(* that go on appending to them (TelemetryWriter of burnbag_history.py is  *)
(* modelled in HistoryWriter; here a committed transaction is one step).   *)
(*                                                                         *)
(* A row has an identity, the wall time of its capture (`at', which may    *)
(* step back between rows), the time since boot (`boot', which does not),  *)
(* whether it is a measurement or an event, whether it can be decoded, and *)
(* the search terms it contains.  A measurement has one stream, on one     *)
(* machine and boot.                                                       *)
(***************************************************************************)
EXTENDS Integers, Sequences, FiniteSets, SequencesExt

CONSTANTS
    Histories,      \* what the databases may hold when a reader opens them
    Times,          \* wall times of new rows
    Terms,          \* what may be searched for
    MaxAppends      \* bound: rows appended while a reader is at work

Sources == {"system", "user"}

(* A row, and a history a reader may find: each table names its rows apart *)
(* and before any row still to come, and of a record that was copied to    *)
(* both databases the system has it no later than the user.                *)
Stored == [id : Int, at : Int, boot : Int, sample : BOOLEAN, good : BOOLEAN, terms : SUBSET Terms]

WellFormed(h) ==
    /\ h.db \in [Sources -> Seq(Stored)]
    /\ \A s \in Sources : \A i, j \in DOMAIN h.db[s] :
         /\ h.db[s][i].id < 100
         /\ h.db[s][i].id = h.db[s][j].id => i = j
    /\ \A i \in DOMAIN h.db["system"], j \in DOMAIN h.db["user"] :
         h.db["system"][i].id = h.db["user"][j].id => h.db["system"][i].at <= h.db["user"][j].at

ASSUME StoreAssumption ==
    /\ Times \subseteq Int /\ MaxAppends \in Nat
    /\ \A h \in Histories : WellFormed(h)

VARIABLES
    db,             \* per source: the rows of its table in the order of their rowids
    covered,        \* the boot times inside the coverage segments of the system
    appends         \* rows appended so far

store == <<db, covered, appends>>

-----------------------------------------------------------------------------
(* Rows *)

(* ORDER BY captured_at,id *)
Before(a, b) == a.at < b.at \/ (a.at = b.at /\ a.id < b.id)

(* The rows of a set in that order, and the first few of them.             *)
InOrder(rows) ==
    [i \in 1..Cardinality(rows) |->
        CHOOSE r \in rows : Cardinality({q \in rows : Before(q, r)}) = i - 1]

FirstOf(rows, count) ==
    {r \in rows : Cardinality({q \in rows : Before(q, r)}) < count}

(* The rows up to a rowid: a table only ever grows at its end.             *)
Snapshot(s, ceiling) == {db[s][i] : i \in 1..ceiling}

(* The identities of records two stores may have in common.                *)
Ids(rows) == {r.id : r \in rows}

-----------------------------------------------------------------------------
(* The writers *)

LastBoot == CHOOSE b \in covered \cup {0} : \A c \in covered : c <= b
NewBoot == 100 + appends

(* The commit of a row, and for a measurement of the system of its         *)
(* coverage, which continues the last segment or begins another.           *)
Commit(s, at, sample, continuous) ==
    /\ appends < MaxAppends
    /\ db' = [db EXCEPT ![s] = Append(@,
            [id |-> NewBoot, at |-> at, boot |-> NewBoot, sample |-> sample,
             good |-> TRUE, terms |-> {}])]
    /\ covered' =
            IF s = "user" \/ ~sample THEN covered
            ELSE covered \cup (IF continuous THEN LastBoot..NewBoot ELSE {NewBoot})
    /\ appends' = appends + 1

StoreInit ==
    /\ \E h \in Histories : db = h.db /\ covered = h.covered
    /\ appends = 0
=============================================================================
