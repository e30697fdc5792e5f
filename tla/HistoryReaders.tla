--------------------------- MODULE HistoryReaders ---------------------------
(***************************************************************************)
(* Both readers of the history over the same two databases while their     *)
(* writers append: a report (HistoryReport) and a viewer (HistoryViewer),  *)
(* processes of their own that share nothing but the databases.            *)
(***************************************************************************)
EXTENDS HistoryViewer

CONSTANTS Limit, KeyPage, Interval

VARIABLES
    stage, source, subset, wanted, passed, picked, kept,
    limits,         \* the report's rowid ceilings
    gathered, precedence, failed, answer

Report == INSTANCE HistoryReport WITH ceiling <- limits

ASSUME ReportLimits == Report!ReportAssumption

reporting == <<stage, source, subset, wanted, passed, picked, kept, limits,
               gathered, precedence, failed, answer>>
readers == <<store, viewer, reporting>>

-----------------------------------------------------------------------------
Appends ==
    \E s \in Sources, at \in Times, sample, continuous \in BOOLEAN :
        Commit(s, at, sample, continuous)

ReadersInit == StoreInit /\ ViewerInit /\ Report!ReportInit

ReadersNext ==
    \/ Report!ReportNext /\ UNCHANGED <<store, viewer>>
    \/ ViewerNext /\ UNCHANGED <<store, reporting>>
    \/ Appends /\ UNCHANGED <<viewer, reporting>>

ReadersSpec == ReadersInit /\ [][ReadersNext]_readers

-----------------------------------------------------------------------------
(* A report hides nothing that was due (HistoryReport).                    *)
NothingHidden == Report!NothingHidden

(* Its representatives span the interval (HistoryReport).                  *)
SpansInterval == Report!SpansInterval
=============================================================================
