----------------------------- MODULE RunningLog -----------------------------
(***************************************************************************)
(* burnbag.RunningLog: processes that share one append-only file of JSON   *)
(* lines.  Each opens it (closing an interrupted last line), appends       *)
(* numbered records under an exclusive flock, and synchronizes each one    *)
(* before it goes on.  Writes may stop half way, calls may fail, processes *)
(* may be killed, and the machine may lose power.                          *)
(*                                                                         *)
(* The file is a sequence of pieces: a record is a "head" and a "rest",    *)
(* the rest ending with the newline; a lone "newline" closes a fragment.   *)
(***************************************************************************)
EXTENDS Naturals, Sequences

CONSTANTS
    Processes,   \* processes that may open the log
    NoHolder,      \* the holder of a free lock
    MaxSessions, \* bound of the model on sessions
    MaxRecords   \* bound of the model on records of a session

ASSUME RunningLogAssumption ==
    /\ NoHolder \notin Processes
    /\ MaxSessions \in Nat
    /\ MaxRecords \in Nat

VARIABLES
    file,      \* the pieces in the file
    synced,    \* how many of them fsync has made durable
    lock,      \* the process that holds the flock
    pc,        \* where each process is in open() or append()
    session,   \* session_id of each process
    sequence,  \* sequence of each process
    failed,    \* failed_reason is set
    sessions,  \* sessions started so far
    acked,     \* the records whose append() returned
    base       \* where the file ended when each session had closed an
               \* interrupted last line (history)

logVars == <<file, synced, lock, pc, session, sequence, failed, sessions, acked, base>>

Pieces ==
    [session : 1 .. MaxSessions, number : 0 .. MaxRecords,
     part : {"head", "rest", "newline"}]

Piece(p, part) ==
    [session |-> session[p], number |-> sequence[p] + 1, part |-> part]

Newline(p) == [session |-> session[p], number |-> 0, part |-> "newline"]

LogInit ==
    /\ file = <<>> /\ synced = 0 /\ lock = NoHolder
    /\ pc = [p \in Processes |-> "down"]
    /\ session = [p \in Processes |-> 0]
    /\ sequence = [p \in Processes |-> 0]
    /\ failed = [p \in Processes |-> FALSE]
    /\ sessions = 0 /\ acked = {}
    /\ base = [s \in 1 .. MaxSessions |-> 0]

(* The file ends inside a line.                                            *)
PartialTail == file # <<>> /\ file[Len(file)].part = "head"

Free == lock = NoHolder

(* Defect: the lock is not taken.                                          *)
AcquireNothing(p) == UNCHANGED lock

Acquire(p) == Free /\ lock' = p

Release(p) == lock' = IF lock = p THEN NoHolder ELSE lock

At(p, here) == pc[p] = here

GoTo(p, there) == pc' = [pc EXCEPT ![p] = there]

-----------------------------------------------------------------------------
(* RunningLog.open.                                                        *)

Launch(p) ==
    /\ At(p, "down") /\ sessions < MaxSessions
    /\ sessions' = sessions + 1
    /\ session' = [session EXCEPT ![p] = sessions + 1]
    /\ sequence' = [sequence EXCEPT ![p] = 0]
    /\ failed' = [failed EXCEPT ![p] = FALSE]
    /\ GoTo(p, "opening")
    /\ UNCHANGED <<file, synced, lock, acked, base>>

LockToOpen(p) ==
    /\ At(p, "opening")
    /\ Acquire(p)
    /\ GoTo(p, "inspecting")
    /\ UNCHANGED <<file, synced, session, sequence, failed, sessions, acked, base>>

(* Defect: the opener leaves an interrupted line as it is.                 *)
KeepTail(p) ==
    /\ At(p, "inspecting")
    /\ base' = [base EXCEPT ![session[p]] = Len(file)]
    /\ GoTo(p, "opened")
    /\ UNCHANGED <<file, synced, lock, session, sequence, failed, sessions, acked>>

TerminateTail(p) ==
    /\ At(p, "inspecting")
    /\ file' = IF PartialTail THEN Append(file, Newline(p)) ELSE file
    /\ base' = [base EXCEPT ![session[p]] = Len(file')]
    /\ GoTo(p, "opened")
    /\ UNCHANGED <<synced, lock, session, sequence, failed, sessions, acked>>

SyncOpened(p) ==
    /\ At(p, "opened")
    /\ synced' = Len(file)
    /\ Release(p)
    /\ GoTo(p, "ready")
    /\ UNCHANGED <<file, session, sequence, failed, sessions, acked, base>>

(* An OSError while opening closes the file, and with it drops the lock.   *)
OpenFails(p) ==
    /\ pc[p] \in {"opening", "inspecting", "opened"}
    /\ Release(p)
    /\ GoTo(p, "down")
    /\ UNCHANGED <<file, synced, session, sequence, failed, sessions, acked, base>>

-----------------------------------------------------------------------------
(* RunningLog.append.                                                      *)

BeginAppend(p) ==
    /\ At(p, "ready") /\ ~failed[p] /\ sequence[p] < MaxRecords
    /\ Acquire(p)
    /\ GoTo(p, "writing")
    /\ UNCHANGED <<file, synced, session, sequence, failed, sessions, acked, base>>

WriteHead(p) ==
    /\ At(p, "writing")
    /\ file' = Append(file, Piece(p, "head"))
    /\ GoTo(p, "torn")
    /\ UNCHANGED <<synced, lock, session, sequence, failed, sessions, acked, base>>

WriteRest(p) ==
    /\ At(p, "torn")
    /\ file' = Append(file, Piece(p, "rest"))
    /\ GoTo(p, "written")
    /\ UNCHANGED <<synced, lock, session, sequence, failed, sessions, acked, base>>

(* Defect: the record is acknowledged before it is synchronized.           *)
SyncLater(p) ==
    /\ At(p, "written")
    /\ acked' = acked \cup {<<session[p], sequence[p] + 1>>}
    /\ sequence' = [sequence EXCEPT ![p] = @ + 1]
    /\ Release(p)
    /\ GoTo(p, "ready")
    /\ UNCHANGED <<file, synced, session, failed, sessions, base>>

SyncRecord(p) ==
    /\ At(p, "written")
    /\ synced' = Len(file)
    /\ acked' = acked \cup {<<session[p], sequence[p] + 1>>}
    /\ sequence' = [sequence EXCEPT ![p] = @ + 1]
    /\ Release(p)
    /\ GoTo(p, "ready")
    /\ UNCHANGED <<file, session, failed, sessions, base>>

(* Defect: a failed append does not stop the next one.                     *)
RetryAfterFailure(p) == UNCHANGED failed

MarkFailed(p) == failed' = [failed EXCEPT ![p] = TRUE]

(* write, fsync or unlock fails: the log of this session takes no more.    *)
AppendFails(p) ==
    /\ pc[p] \in {"writing", "torn", "written"}
    /\ synced' \in {synced, IF At(p, "written") THEN Len(file) ELSE synced}
    /\ MarkFailed(p)
    /\ Release(p)
    /\ GoTo(p, "ready")
    /\ UNCHANGED <<file, session, sequence, sessions, acked, base>>

-----------------------------------------------------------------------------
(* The end of a process, by close() or by a signal: the kernel drops its   *)
(* lock.  A power loss ends them all and may lose what is not durable.     *)

LeaveLog(p) ==
    /\ pc[p] # "down"
    /\ Release(p)
    /\ GoTo(p, "down")
    /\ UNCHANGED <<file, synced, session, sequence, failed, sessions, acked, base>>

PowerLoss ==
    /\ file # <<>>
    /\ \E kept \in synced .. Len(file) :
         /\ file' = SubSeq(file, 1, kept)
         /\ synced' = kept
    /\ lock' = NoHolder
    /\ pc' = [p \in Processes |-> "down"]
    /\ UNCHANGED <<session, sequence, failed, sessions, acked, base>>

Open(p) == Launch(p) \/ LockToOpen(p) \/ TerminateTail(p) \/ SyncOpened(p) \/ OpenFails(p)

AppendRecord(p) ==
    BeginAppend(p) \/ WriteHead(p) \/ WriteRest(p) \/ SyncRecord(p) \/ AppendFails(p)

LogNext ==
    \/ \E p \in Processes : Open(p) \/ AppendRecord(p) \/ LeaveLog(p)
    \/ PowerLoss

LogSpec == LogInit /\ [][LogNext]_logVars

-----------------------------------------------------------------------------
States == {"down", "opening", "inspecting", "opened", "ready", "writing", "torn", "written"}

(* Every variable has a value of its kind.                                 *)
LogTypeOK ==
    /\ file \in Seq(Pieces)
    /\ synced \in 0 .. Len(file)
    /\ lock \in Processes \cup {NoHolder}
    /\ pc \in [Processes -> States]
    /\ session \in [Processes -> 0 .. MaxSessions]
    /\ sequence \in [Processes -> 0 .. MaxRecords]
    /\ failed \in [Processes -> BOOLEAN]
    /\ sessions \in 0 .. MaxSessions
    /\ acked \subseteq (1 .. MaxSessions) \X (1 .. MaxRecords)
    /\ base \in [1 .. MaxSessions -> Nat]

IsRecord(i, s, n) ==
    /\ i + 1 \in DOMAIN file
    /\ file[i] = [session |-> s, number |-> n, part |-> "head"]
    /\ file[i + 1] = [session |-> s, number |-> n, part |-> "rest"]

(* An append that returned survives a power loss: its bytes are in the     *)
(* synchronized part of the file.                                          *)
AckedIsDurable ==
    \A a \in acked : \E i \in 1 .. synced - 1 : IsRecord(i, a[1], a[2])

(* "The per-record lock must prevent cooperating writers from              *)
(* interleaving records": a record that is whole is whole in one place.    *)
NoInterleaving ==
    \A i \in DOMAIN file :
        file[i].part = "rest" => i > 1 /\ IsRecord(i - 1, file[i].session, file[i].number)

(* The records of a session carry the numbers 1, 2, 3, ... in file order,  *)
(* none twice, whatever failed on the way.                                 *)
NumbersInOrder ==
    \A i \in DOMAIN file : file[i].part = "head" =>
        LET earlier == {j \in 1 .. i - 1 : file[j].part = "head"
                                           /\ file[j].session = file[i].session}
        IN {file[j].number : j \in earlier} = 1 .. file[i].number - 1

(* Opening closes what an interrupted process has left: an acknowledged    *)
(* record begins a line, or stands behind a fragment that was left while   *)
(* its own session already had the log open.                               *)
LegibleAfterOpening ==
    \A a \in acked : \E i \in DOMAIN file :
        /\ IsRecord(i, a[1], a[2])
        /\ i = 1 \/ file[i - 1].part # "head" \/ i - 1 > base[a[1]]

(* "so a later record is never concatenated to bytes from the interrupted  *)
(* process": every acknowledged record begins a line.  append() never      *)
(* looks at the end of the file, so that this fails behind the fragment of *)
(* a process interrupted beside an open log.                               *)
AckedIsLegible ==
    \A a \in acked : \E i \in DOMAIN file :
        IsRecord(i, a[1], a[2]) /\ (i = 1 \/ file[i - 1].part # "head")
=============================================================================
