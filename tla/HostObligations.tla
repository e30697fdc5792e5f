--------------------------- MODULE HostObligations ---------------------------
(***************************************************************************)
(* What a run of burnbag owes the host, with no signals, callbacks, timers *)
(* or log failures: a change is announced, then promised to be undone, and *)
(* only then made; the promise stands until the change is undone or, in    *)
(* normal mode, kept; and who goes with a promise open says so.            *)
(***************************************************************************)
CONSTANTS
    Things,     \* what a run may change
    Handles     \* those of them that are had by a handle, which is the promise

VARIABLES
    phase,      \* "working", "recovering" or "over"
    announced,  \* the changes whose intent is on disk
    promised,   \* the changes to undo
    host,       \* the changes the host shows
    kept,       \* the changes that are to stay
    blamed      \* the exit status is not zero

obligations == <<phase, announced, promised, host, kept, blamed>>

Init ==
    /\ phase = "working"
    /\ announced = {} /\ promised = {} /\ host = {} /\ kept = {}
    /\ blamed = FALSE

(* Once it is to be blamed a run stays so.                                 *)
MayBlame == blamed' \in {blamed, TRUE}

(* The record is on disk, although what follows it may fail.               *)
Announce(c) ==
    /\ phase = "working"
    /\ announced' = announced \cup {c}
    /\ MayBlame
    /\ UNCHANGED <<phase, promised, host, kept>>

Promise(c) ==
    /\ phase = "working" /\ c \in announced \ Handles
    /\ promised' = promised \cup {c}
    /\ UNCHANGED <<phase, announced, host, kept, blamed>>

(* A change may be made and yet be reported as failed.                     *)
Change(c) ==
    /\ phase = "working" /\ c \in announced \cap promised
    /\ host' = host \cup {c}
    /\ MayBlame
    /\ UNCHANGED <<phase, announced, promised, kept>>

(* The change hands out what undoes it.                                    *)
Take(c) ==
    /\ phase = "working" /\ c \in announced \cap Handles
    /\ host' = host \cup {c} /\ promised' = promised \cup {c}
    /\ MayBlame
    /\ UNCHANGED <<phase, announced, kept>>

(* Only what was promised is undone: the rest is not the run's to touch.   *)
Undo(c) ==
    /\ phase # "over" /\ c \in promised \ kept
    /\ host' = host \ {c} /\ promised' = promised \ {c}
    /\ UNCHANGED <<phase, announced, kept, blamed>>

(* An attempt to undo that failed, before or after its effect.             *)
Botch(c) ==
    /\ phase # "over" /\ c \in promised \ kept
    /\ host' \in {host, host \ {c}}
    /\ blamed' = TRUE
    /\ UNCHANGED <<phase, announced, promised, kept>>

Keep(c) ==
    /\ phase = "working" /\ c \notin Handles
    /\ kept' = kept \cup {c} /\ promised' = promised \ {c}
    /\ UNCHANGED <<phase, announced, host, blamed>>

Blame ==
    /\ phase # "over"
    /\ blamed' = TRUE
    /\ UNCHANGED <<phase, announced, promised, host, kept>>

Recover ==
    /\ phase = "working"
    /\ phase' = "recovering"
    /\ UNCHANGED <<announced, promised, host, kept, blamed>>

(* Nothing but what is kept is left behind, or the run is to be blamed.    *)
End ==
    /\ phase = "recovering"
    /\ phase' = "over"
    /\ MayBlame
    /\ blamed' \/ host \subseteq kept
    /\ UNCHANGED <<announced, promised, host, kept>>

Next ==
    \/ \E c \in Things :
         \/ Announce(c) \/ Promise(c) \/ Change(c) \/ Take(c) \/ Undo(c)
         \/ Botch(c) \/ Keep(c)
    \/ Blame \/ Recover \/ End

Spec == Init /\ [][Next]_obligations

-----------------------------------------------------------------------------
(* At every instant the host shows only what was announced and is owed or  *)
(* kept, and after the end only what is kept, unless the run is blamed.    *)
Honoured ==
    /\ host \subseteq announced \cap (promised \cup kept)
    /\ phase = "over" => blamed \/ host \subseteq kept
=============================================================================
