--------------------------- MODULE RunningLogProofs ---------------------------
(***************************************************************************)
(* What holds of burnbag.RunningLog for every number of processes,         *)
(* sessions and records, wherever writes stop half way.                    *)
(***************************************************************************)
EXTENDS RunningLog, SequenceTheorems, TLAPS

(* A process inside open() or append() holds the flock.                    *)
Holding == {"inspecting", "opened", "writing", "torn", "written"}

LockHeld == \A p \in Processes : pc[p] \in Holding => lock = p

HeadOf(p) == [session |-> session[p], number |-> sequence[p] + 1, part |-> "head"]
RestOf(p) == [session |-> session[p], number |-> sequence[p] + 1, part |-> "rest"]

(* What a process has written of its record is the end of the file.        *)
Tails ==
    \A p \in Processes :
        /\ pc[p] = "torn" => Len(file) >= 1 /\ file[Len(file)] = HeadOf(p)
        /\ pc[p] = "written" => /\ Len(file) >= 2
                                /\ file[Len(file) - 1] = HeadOf(p)
                                /\ file[Len(file)] = RestOf(p)

(* A process that is past opening has a session and room for a record.     *)
Ready ==
    \A p \in Processes :
        /\ pc[p] # "down" => session[p] \in 1 .. MaxSessions
        /\ pc[p] \in {"writing", "torn", "written"} => sequence[p] + 1 \in 1 .. MaxRecords

IInv == LogTypeOK /\ LockHeld /\ Tails /\ Ready /\ NoInterleaving /\ AckedIsDurable

-----------------------------------------------------------------------------
(* Appending keeps what was there.                                         *)
LEMMA AppendFacts ==
  ASSUME NEW S, NEW f \in Seq(S), NEW x \in S
  PROVE  /\ Append(f, x) \in Seq(S)
         /\ Len(Append(f, x)) = Len(f) + 1
         /\ \A i \in 1 .. Len(f) : Append(f, x)[i] = f[i]
         /\ Append(f, x)[Len(f) + 1] = x
  BY AppendProperties

LEMMA PrefixFacts ==
  ASSUME NEW S, NEW f \in Seq(S), NEW n \in 0 .. Len(f)
  PROVE  /\ SubSeq(f, 1, n) \in Seq(S)
         /\ Len(SubSeq(f, 1, n)) = n
         /\ \A i \in 1 .. n : SubSeq(f, 1, n)[i] = f[i]
  BY SubSeqProperties

LEMMA InitIInv == LogInit => IInv
<1> SUFFICES ASSUME LogInit PROVE IInv
  OBVIOUS
<1>1. LogTypeOK
  BY RunningLogAssumption DEF LogInit, LogTypeOK, States
<1>2. LockHeld /\ Tails /\ Ready
  BY DEF LogInit, LockHeld, Tails, Ready, Holding
<1>3. NoInterleaving /\ AckedIsDurable
  BY DEF LogInit, NoInterleaving, AckedIsDurable
<1>4. QED  BY <1>1, <1>2, <1>3 DEF IInv
-----------------------------------------------------------------------------
(* What a step of one process preserves.                                   *)
LEMMA LockStep ==
  ASSUME IInv, NEW p \in Processes, Open(p) \/ AppendRecord(p) \/ LeaveLog(p)
  PROVE  LockHeld'
<1> USE RunningLogAssumption DEF IInv, LogTypeOK, LockHeld, Holding, At, GoTo, Acquire, Release,
        Free
<1>1. CASE Launch(p)  BY <1>1 DEF Launch
<1>2. CASE LockToOpen(p)  BY <1>2 DEF LockToOpen
<1>3. CASE TerminateTail(p)  BY <1>3 DEF TerminateTail
<1>4. CASE SyncOpened(p)  BY <1>4 DEF SyncOpened
<1>5. CASE OpenFails(p)  BY <1>5 DEF OpenFails
<1>6. CASE BeginAppend(p)  BY <1>6 DEF BeginAppend
<1>7. CASE WriteHead(p)  BY <1>7 DEF WriteHead
<1>8. CASE WriteRest(p)  BY <1>8 DEF WriteRest
<1>9. CASE SyncRecord(p)  BY <1>9 DEF SyncRecord
<1>10. CASE AppendFails(p)  BY <1>10 DEF AppendFails
<1>11. CASE LeaveLog(p)  BY <1>11 DEF LeaveLog
<1>12. QED  BY <1>1, <1>2, <1>3, <1>4, <1>5, <1>6, <1>7, <1>8, <1>9, <1>10, <1>11
               DEF Open, AppendRecord

LEMMA ReadyStep ==
  ASSUME IInv, NEW p \in Processes, Open(p) \/ AppendRecord(p) \/ LeaveLog(p)
  PROVE  Ready'
<1> USE RunningLogAssumption DEF IInv, LogTypeOK, Ready, At, GoTo, Acquire, Free
<1>1. CASE Launch(p)  BY <1>1 DEF Launch
<1>2. CASE LockToOpen(p)  BY <1>2 DEF LockToOpen
<1>3. CASE TerminateTail(p)  BY <1>3 DEF TerminateTail
<1>4. CASE SyncOpened(p)  BY <1>4 DEF SyncOpened
<1>5. CASE OpenFails(p)  BY <1>5 DEF OpenFails
<1>6. CASE BeginAppend(p)  BY <1>6 DEF BeginAppend
<1>7. CASE WriteHead(p)  BY <1>7 DEF WriteHead
<1>8. CASE WriteRest(p)  BY <1>8 DEF WriteRest
<1>9. CASE SyncRecord(p)  BY <1>9 DEF SyncRecord
<1>10. CASE AppendFails(p)  BY <1>10 DEF AppendFails
<1>11. CASE LeaveLog(p)  BY <1>11 DEF LeaveLog
<1>12. QED  BY <1>1, <1>2, <1>3, <1>4, <1>5, <1>6, <1>7, <1>8, <1>9, <1>10, <1>11
               DEF Open, AppendRecord

LEMMA PieceTypes ==
  ASSUME IInv, NEW p \in Processes, pc[p] \in {"inspecting", "writing", "torn"}
  PROVE  /\ pc[p] = "inspecting" => Newline(p) \in Pieces
         /\ pc[p] = "writing" => Piece(p, "head") \in Pieces
         /\ pc[p] = "torn" => Piece(p, "rest") \in Pieces
  BY RunningLogAssumption DEF IInv, Ready, Pieces, Newline, Piece

LEMMA FileStep ==
  ASSUME IInv, NEW p \in Processes, Open(p) \/ AppendRecord(p) \/ LeaveLog(p)
  PROVE  file' \in Seq(Pieces) /\ synced' \in 0 .. Len(file')
<1> USE DEF IInv, LogTypeOK, At
<1>1. CASE Launch(p)  BY <1>1 DEF Launch
<1>2. CASE LockToOpen(p)  BY <1>2 DEF LockToOpen
<1>3. CASE TerminateTail(p)
  BY <1>3, PieceTypes, AppendFacts DEF TerminateTail
<1>4. CASE SyncOpened(p)  BY <1>4 DEF SyncOpened
<1>5. CASE OpenFails(p)  BY <1>5 DEF OpenFails
<1>6. CASE BeginAppend(p)  BY <1>6 DEF BeginAppend
<1>7. CASE WriteHead(p)
  BY <1>7, PieceTypes, AppendFacts DEF WriteHead
<1>8. CASE WriteRest(p)
  BY <1>8, PieceTypes, AppendFacts DEF WriteRest
<1>9. CASE SyncRecord(p)  BY <1>9 DEF SyncRecord
<1>10. CASE AppendFails(p)  BY <1>10 DEF AppendFails
<1>11. CASE LeaveLog(p)  BY <1>11 DEF LeaveLog
<1>12. QED  BY <1>1, <1>2, <1>3, <1>4, <1>5, <1>6, <1>7, <1>8, <1>9, <1>10, <1>11
               DEF Open, AppendRecord

LEMMA TypeStep ==
  ASSUME IInv, NEW p \in Processes, Open(p) \/ AppendRecord(p) \/ LeaveLog(p)
  PROVE  LogTypeOK'
<1>1. file' \in Seq(Pieces) /\ synced' \in 0 .. Len(file')
  BY FileStep
<1>2. lock' \in Processes \cup {NoHolder}
  BY DEF IInv, LogTypeOK, Open, AppendRecord, Launch, LockToOpen, TerminateTail, SyncOpened,
         OpenFails, BeginAppend, WriteHead, WriteRest, SyncRecord, AppendFails, LeaveLog,
         Acquire, Release
<1>3. pc' \in [Processes -> States]
  BY DEF IInv, LogTypeOK, Open, AppendRecord, Launch, LockToOpen, TerminateTail, SyncOpened,
         OpenFails, BeginAppend, WriteHead, WriteRest, SyncRecord, AppendFails, LeaveLog,
         GoTo, States
<1>4. session' \in [Processes -> 0 .. MaxSessions] /\ sessions' \in 0 .. MaxSessions
  <2>1. CASE Launch(p)
    <3>1. sessions + 1 \in 0 .. MaxSessions
      BY <2>1, RunningLogAssumption DEF Launch, IInv, LogTypeOK
    <3>2. QED  BY <2>1, <3>1 DEF Launch, IInv, LogTypeOK
  <2>2. CASE ~Launch(p)
    BY <2>2 DEF IInv, LogTypeOK, Open, AppendRecord, LockToOpen, TerminateTail, SyncOpened,
           OpenFails, BeginAppend, WriteHead, WriteRest, SyncRecord, AppendFails, LeaveLog
  <2>3. QED  BY <2>1, <2>2
<1>5. sequence' \in [Processes -> 0 .. MaxRecords]
  <2>1. CASE Launch(p)
    <3>1. 0 \in 0 .. MaxRecords
      BY RunningLogAssumption
    <3>2. QED  BY <2>1, <3>1 DEF Launch, IInv, LogTypeOK
  <2>2. CASE SyncRecord(p)
    <3>1. sequence[p] + 1 \in 0 .. MaxRecords
      BY <2>2, RunningLogAssumption DEF SyncRecord, At, IInv, Ready
    <3>2. QED  BY <2>2, <3>1 DEF SyncRecord, IInv, LogTypeOK
  <2>3. CASE ~Launch(p) /\ ~SyncRecord(p)
    BY <2>3 DEF IInv, LogTypeOK, Open, AppendRecord, LockToOpen, TerminateTail, SyncOpened,
           OpenFails, BeginAppend, WriteHead, WriteRest, AppendFails, LeaveLog
  <2>4. QED  BY <2>1, <2>2, <2>3
<1>6. failed' \in [Processes -> BOOLEAN]
  BY DEF IInv, LogTypeOK, Open, AppendRecord, Launch, LockToOpen, TerminateTail, SyncOpened,
         OpenFails, BeginAppend, WriteHead, WriteRest, SyncRecord, AppendFails, LeaveLog,
         MarkFailed
<1>7. acked' \subseteq (1 .. MaxSessions) \X (1 .. MaxRecords)
  <2>1. CASE SyncRecord(p)
    <3>1. session[p] \in 1 .. MaxSessions /\ sequence[p] + 1 \in 1 .. MaxRecords
      BY <2>1 DEF SyncRecord, At, IInv, Ready
    <3>2. QED  BY <2>1, <3>1 DEF SyncRecord, IInv, LogTypeOK
  <2>2. CASE ~SyncRecord(p)
    BY <2>2 DEF IInv, LogTypeOK, Open, AppendRecord, Launch, LockToOpen, TerminateTail,
           SyncOpened, OpenFails, BeginAppend, WriteHead, WriteRest, AppendFails, LeaveLog
  <2>3. QED  BY <2>1, <2>2
<1>8. base' \in [1 .. MaxSessions -> Nat]
  <2>1. CASE TerminateTail(p)
    <3>1. Len(file') \in Nat
      BY <1>1
    <3>2. QED  BY <2>1, <3>1 DEF TerminateTail, IInv, LogTypeOK
  <2>2. CASE ~TerminateTail(p)
    BY <2>2 DEF IInv, LogTypeOK, Open, AppendRecord, Launch, LockToOpen, SyncOpened,
           OpenFails, BeginAppend, WriteHead, WriteRest, SyncRecord, AppendFails, LeaveLog
  <2>3. QED  BY <2>1, <2>2
<1>9. QED  BY <1>1, <1>2, <1>3, <1>4, <1>5, <1>6, <1>7, <1>8 DEF LogTypeOK

-----------------------------------------------------------------------------
(* The records in the file.                                                *)

(* A record stays where it is when something is appended.                  *)
LEMMA RecordStays ==
  ASSUME IInv, NEW x \in Pieces, file' = Append(file, x),
         NEW s, NEW n, NEW i \in 1 .. Len(file), IsRecord(i, s, n)
  PROVE  IsRecord(i, s, n)'
<1>1. /\ i + 1 \in 1 .. Len(file)
      /\ file[i] = [session |-> s, number |-> n, part |-> "head"]
      /\ file[i + 1] = [session |-> s, number |-> n, part |-> "rest"]
  BY DEF IsRecord, IInv, LogTypeOK
<1>2. file'[i] = file[i] /\ file'[i + 1] = file[i + 1] /\ Len(file') = Len(file) + 1
      /\ file' \in Seq(Pieces)
  BY <1>1, AppendFacts DEF IInv, LogTypeOK
<1>3. QED  BY <1>1, <1>2 DEF IsRecord

LEMMA AppendingStep ==
  ASSUME IInv, NEW x \in Pieces, file' = Append(file, x), UNCHANGED <<synced, acked>>,
         x.part = "rest" => /\ Len(file) >= 1
                            /\ x = [session |-> x.session, number |-> x.number, part |-> "rest"]
                            /\ file[Len(file)] = [session |-> x.session, number |-> x.number,
                                                  part |-> "head"]
  PROVE  NoInterleaving' /\ AckedIsDurable'
<1>1. /\ file' \in Seq(Pieces) /\ Len(file') = Len(file) + 1
      /\ \A i \in 1 .. Len(file) : file'[i] = file[i]
      /\ file'[Len(file) + 1] = x
  BY AppendFacts DEF IInv, LogTypeOK
<1>2. NoInterleaving'
  <2> SUFFICES ASSUME NEW i \in 1 .. Len(file) + 1, file'[i].part = "rest"
               PROVE  i > 1 /\ IsRecord(i - 1, file[i].session, file[i].number)'
    BY <1>1 DEF NoInterleaving
  <2>1. CASE i \in 1 .. Len(file)
    <3>1. file[i].part = "rest" /\ file'[i] = file[i]
      BY <1>1, <2>1
    <3>2. i > 1 /\ IsRecord(i - 1, file[i].session, file[i].number)
      BY <2>1, <3>1 DEF IInv, LogTypeOK, NoInterleaving
    <3>3. i - 1 \in 1 .. Len(file)
      BY <2>1, <3>2 DEF IInv, LogTypeOK
    <3>4. QED  BY <3>1, <3>2, <3>3, RecordStays
  <2>2. CASE i = Len(file) + 1
    <3>1. Len(file) >= 1 /\ file'[Len(file)] = file[Len(file)] /\ file'[i] = x
      BY <1>1, <2>2 DEF IInv, LogTypeOK
    <3>2. QED  BY <1>1, <2>2, <3>1 DEF IsRecord, IInv, LogTypeOK
  <2>3. QED  BY <2>1, <2>2 DEF IInv, LogTypeOK
<1>3. AckedIsDurable'
  <2> SUFFICES ASSUME NEW a \in acked
               PROVE  \E i \in 1 .. synced - 1 : IsRecord(i, a[1], a[2])'
    BY DEF AckedIsDurable
  <2>1. PICK i \in 1 .. synced - 1 : IsRecord(i, a[1], a[2])
    BY DEF IInv, AckedIsDurable
  <2>2. i \in 1 .. Len(file)
    BY DEF IInv, LogTypeOK
  <2>3. QED  BY <2>1, <2>2, RecordStays
<1>4. QED  BY <1>2, <1>3

LEMMA RecordStep ==
  ASSUME IInv, NEW p \in Processes, Open(p) \/ AppendRecord(p) \/ LeaveLog(p)
  PROVE  NoInterleaving' /\ AckedIsDurable'
<1> USE DEF At
<1>1. CASE TerminateTail(p)
  <2>1. CASE PartialTail
    <3>1. Newline(p) \in Pieces /\ Newline(p).part = "newline"
      BY <1>1, PieceTypes DEF TerminateTail, Newline
    <3>2. QED  BY <1>1, <2>1, <3>1, AppendingStep DEF TerminateTail
  <2>2. CASE ~PartialTail
    BY <1>1, <2>2 DEF TerminateTail, IInv, NoInterleaving, AckedIsDurable, IsRecord
  <2>3. QED  BY <2>1, <2>2
<1>2. CASE WriteHead(p)
  <2>1. Piece(p, "head") \in Pieces /\ Piece(p, "head").part = "head"
    BY <1>2, PieceTypes DEF WriteHead, Piece
  <2>2. QED  BY <1>2, <2>1, AppendingStep DEF WriteHead
<1>3. CASE WriteRest(p)
  <2>1. /\ Piece(p, "rest") \in Pieces
        /\ Len(file) >= 1 /\ file[Len(file)] = HeadOf(p)
    BY <1>3, PieceTypes DEF WriteRest, IInv, Tails
  <2>2. QED  BY <1>3, <2>1, AppendingStep DEF WriteRest, Piece, HeadOf
<1>4. CASE SyncRecord(p)
  <2>1. NoInterleaving'
    BY <1>4 DEF SyncRecord, IInv, NoInterleaving, IsRecord
  <2>2. AckedIsDurable'
    <3> SUFFICES ASSUME NEW a \in acked'
                 PROVE  \E i \in 1 .. Len(file) - 1 : IsRecord(i, a[1], a[2])'
      BY <1>4 DEF SyncRecord, AckedIsDurable
    <3>1. CASE a \in acked
      <4>1. PICK i \in 1 .. synced - 1 : IsRecord(i, a[1], a[2])
        BY <3>1 DEF IInv, AckedIsDurable
      <4>2. i \in 1 .. Len(file) - 1
        BY DEF IInv, LogTypeOK
      <4>3. QED  BY <1>4, <4>1, <4>2 DEF SyncRecord, IsRecord
    <3>2. CASE a = <<session[p], sequence[p] + 1>>
      <4>1. Len(file) - 1 \in 1 .. Len(file) - 1
        BY <1>4 DEF SyncRecord, IInv, LogTypeOK, Tails
      <4>2. IsRecord(Len(file) - 1, a[1], a[2])'
        <5>1. file' = file
          BY <1>4 DEF SyncRecord
        <5>2. IsRecord(Len(file) - 1, session[p], sequence[p] + 1)
          BY <1>4 DEF SyncRecord, IInv, LogTypeOK, Tails, IsRecord, HeadOf, RestOf
        <5>3. a[1] = session[p] /\ a[2] = sequence[p] + 1
          BY <3>2
        <5>4. QED  BY <5>1, <5>2, <5>3 DEF IsRecord
      <4>3. QED  BY <1>4, <4>1, <4>2 DEF SyncRecord
    <3>3. QED  BY <1>4, <3>1, <3>2 DEF SyncRecord
  <2>3. QED  BY <2>1, <2>2
<1>5. CASE file' = file /\ acked' = acked /\ synced' \in {synced, Len(file)}
  <2>1. NoInterleaving'
    BY <1>5 DEF IInv, NoInterleaving, IsRecord
  <2>2. AckedIsDurable'
    <3> SUFFICES ASSUME NEW a \in acked
                 PROVE  \E i \in 1 .. synced' - 1 : IsRecord(i, a[1], a[2])'
      BY <1>5 DEF AckedIsDurable
    <3>1. PICK i \in 1 .. synced - 1 : IsRecord(i, a[1], a[2])
      BY DEF IInv, AckedIsDurable
    <3>2. i \in 1 .. synced' - 1
      <4>1. synced \in 0 .. Len(file) /\ Len(file) \in Nat
        BY DEF IInv, LogTypeOK
      <4>2. CASE synced' = synced  BY <3>1, <4>2
      <4>3. CASE synced' = Len(file)
        <5>1. i \in 1 .. Len(file) - 1
          BY <3>1, <4>1
        <5>2. QED  BY <4>3, <5>1
      <4>4. QED  BY <1>5, <4>2, <4>3
    <3>3. QED  BY <1>5, <3>1, <3>2 DEF IsRecord
  <2>3. QED  BY <2>1, <2>2
<1>6. QED
  BY <1>1, <1>2, <1>3, <1>4, <1>5
     DEF Open, AppendRecord, Launch, LockToOpen, SyncOpened, OpenFails, BeginAppend,
         AppendFails, LeaveLog

LEMMA TailStep ==
  ASSUME IInv, NEW p \in Processes, Open(p) \/ AppendRecord(p) \/ LeaveLog(p)
  PROVE  Tails'
<1> SUFFICES ASSUME NEW q \in Processes
             PROVE  /\ pc'[q] = "torn" => Len(file') >= 1 /\ file'[Len(file')] = HeadOf(q)'
                    /\ pc'[q] = "written" => /\ Len(file') >= 2
                                             /\ file'[Len(file') - 1] = HeadOf(q)'
                                             /\ file'[Len(file')] = RestOf(q)'
  BY DEF Tails
<1> USE DEF IInv, LogTypeOK, At, GoTo
<1>1. CASE TerminateTail(p)
  <2>1. \A r \in Processes : pc[r] \notin {"torn", "written"}
    BY <1>1, RunningLogAssumption DEF TerminateTail, LockHeld, Holding
  <2>2. QED  BY <1>1, <2>1 DEF TerminateTail
<1>2. CASE WriteHead(p)
  <2>1. \A r \in Processes : pc[r] \notin {"torn", "written"}
    BY <1>2, RunningLogAssumption DEF WriteHead, LockHeld, Holding
  <2>2. file' = Append(file, HeadOf(p)) /\ Len(file') = Len(file) + 1
        /\ file'[Len(file')] = HeadOf(p)
    BY <1>2, PieceTypes, AppendFacts DEF WriteHead, Piece, HeadOf
  <2>3. HeadOf(p)' = HeadOf(p)
    BY <1>2 DEF WriteHead, HeadOf
  <2>4. QED  BY <1>2, <2>1, <2>2, <2>3 DEF WriteHead
<1>3. CASE WriteRest(p)
  <2>1. \A r \in Processes : r # p => pc[r] \notin {"torn", "written"}
    BY <1>3, RunningLogAssumption DEF WriteRest, LockHeld, Holding
  <2>2. Len(file) >= 1 /\ file[Len(file)] = HeadOf(p)
    BY <1>3 DEF WriteRest, Tails
  <2>3. file' = Append(file, RestOf(p)) /\ RestOf(p) \in Pieces
    BY <1>3, PieceTypes DEF WriteRest, Piece, RestOf
  <2>4. Len(file') = Len(file) + 1 /\ file'[Len(file) + 1] = RestOf(p)
        /\ file'[Len(file)] = file[Len(file)]
    BY <2>2, <2>3, AppendFacts
  <2>5. HeadOf(p)' = HeadOf(p) /\ RestOf(p)' = RestOf(p)
    BY <1>3 DEF WriteRest, HeadOf, RestOf
  <2>6. pc' = [pc EXCEPT ![p] = "written"]
    BY <1>3 DEF WriteRest
  <2>7. QED  BY <2>1, <2>2, <2>4, <2>5, <2>6
<1>4. CASE file' = file
  <2>1. CASE pc'[q] \notin {"torn", "written"}
    BY <2>1
  <2>2. CASE pc'[q] \in {"torn", "written"}
    <3>1. pc[q] = pc'[q] /\ session'[q] = session[q] /\ sequence'[q] = sequence[q]
      BY <1>4, <2>2
         DEF Open, AppendRecord, Launch, LockToOpen, TerminateTail, SyncOpened, OpenFails,
             BeginAppend, WriteHead, WriteRest, SyncRecord, AppendFails, LeaveLog
    <3>2. HeadOf(q)' = HeadOf(q) /\ RestOf(q)' = RestOf(q)
      BY <3>1 DEF HeadOf, RestOf
    <3>3. QED  BY <1>4, <3>1, <3>2 DEF Tails
  <2>3. QED  BY <2>1, <2>2
<1>5. QED
  BY <1>1, <1>2, <1>3, <1>4
     DEF Open, AppendRecord, Launch, LockToOpen, SyncOpened, OpenFails, BeginAppend,
         SyncRecord, AppendFails, LeaveLog

-----------------------------------------------------------------------------
(* A power loss keeps the synchronized part of the file, and a prefix.     *)
LEMMA PowerLossStep ==
  ASSUME IInv, PowerLoss
  PROVE  IInv'
<1>1. PICK kept \in synced .. Len(file) :
        file' = SubSeq(file, 1, kept) /\ synced' = kept
  BY DEF PowerLoss
<1>2. kept \in 0 .. Len(file) /\ kept >= synced /\ synced \in Nat
  BY <1>1 DEF IInv, LogTypeOK
<1>3. /\ file' \in Seq(Pieces) /\ Len(file') = kept
      /\ \A i \in 1 .. kept : file'[i] = file[i]
  BY <1>1, <1>2, PrefixFacts DEF IInv, LogTypeOK
<1>4. pc' = [p \in Processes |-> "down"] /\ lock' = NoHolder
      /\ UNCHANGED <<session, sequence, failed, sessions, acked, base>>
  BY DEF PowerLoss
<1>5. LogTypeOK'
  <2>1. synced' \in 0 .. Len(file')
    BY <1>1, <1>2, <1>3
  <2>2. pc' \in [Processes -> States]
    BY <1>4 DEF States
  <2>3. QED  BY <1>3, <1>4, <2>1, <2>2 DEF IInv, LogTypeOK
<1>6. LockHeld' /\ Tails' /\ Ready'
  BY <1>4 DEF LockHeld, Tails, Ready, Holding
<1>7. NoInterleaving'
  <2> SUFFICES ASSUME NEW i \in 1 .. kept, file'[i].part = "rest"
               PROVE  i > 1 /\ IsRecord(i - 1, file[i].session, file[i].number)'
    BY <1>3 DEF NoInterleaving
  <2>1. i \in 1 .. Len(file) /\ file'[i] = file[i]
    BY <1>2, <1>3 DEF IInv, LogTypeOK
  <2>2. i > 1 /\ IsRecord(i - 1, file[i].session, file[i].number)
    BY <2>1 DEF IInv, LogTypeOK, NoInterleaving
  <2>3. i - 1 \in 1 .. kept /\ file'[i - 1] = file[i - 1]
    BY <1>2, <1>3, <2>2
  <2>4. QED  BY <1>2, <1>3, <2>1, <2>2, <2>3 DEF IsRecord
<1>8. AckedIsDurable'
  <2> SUFFICES ASSUME NEW a \in acked
               PROVE  \E i \in 1 .. kept - 1 : IsRecord(i, a[1], a[2])'
    BY <1>1, <1>4 DEF AckedIsDurable
  <2>1. PICK i \in 1 .. synced - 1 : IsRecord(i, a[1], a[2])
    BY DEF IInv, AckedIsDurable
  <2>2. i \in 1 .. kept - 1 /\ i + 1 \in 1 .. kept /\ i \in 1 .. kept
    BY <1>2, <2>1
  <2>3. file'[i] = file[i] /\ file'[i + 1] = file[i + 1]
    BY <1>3, <2>2
  <2>4. QED  BY <1>3, <2>1, <2>2, <2>3 DEF IsRecord
<1>9. QED  BY <1>5, <1>6, <1>7, <1>8 DEF IInv

LEMMA Stutter == ASSUME IInv, UNCHANGED logVars PROVE IInv'
<1>1. LogTypeOK' /\ LockHeld' /\ Ready'
  BY DEF IInv, LogTypeOK, LockHeld, Ready, logVars
<1>2. Tails' /\ NoInterleaving' /\ AckedIsDurable'
  BY DEF IInv, Tails, HeadOf, RestOf, NoInterleaving, AckedIsDurable, IsRecord, logVars
<1>3. QED  BY <1>1, <1>2 DEF IInv

(* The strengthening is an invariant of the specification.                 *)
THEOREM Invariance == LogSpec => []IInv
<1>1. IInv /\ [LogNext]_logVars => IInv'
  <2> SUFFICES ASSUME IInv, [LogNext]_logVars PROVE IInv'
    OBVIOUS
  <2>1. ASSUME NEW p \in Processes, Open(p) \/ AppendRecord(p) \/ LeaveLog(p)
        PROVE  IInv'
    BY <2>1, TypeStep, LockStep, TailStep, ReadyStep, RecordStep DEF IInv
  <2>2. CASE PowerLoss
    BY <2>2, PowerLossStep
  <2>3. CASE UNCHANGED logVars
    BY <2>3, Stutter
  <2>4. QED  BY <2>1, <2>2, <2>3 DEF LogNext
<1>2. QED  BY InitIInv, <1>1, PTL DEF LogSpec

(* Every variable has a value of its kind (RunningLog).                    *)
THEOREM TypeCorrect == LogSpec => []LogTypeOK
<1>1. IInv => LogTypeOK
  BY DEF IInv
<1>2. QED  BY <1>1, Invariance, PTL

(* A record whose append() returned survives every power loss, however     *)
(* many processes write, fail, tear their writes or die.                   *)
THEOREM AcknowledgedSurvives == LogSpec => []AckedIsDurable
<1>1. IInv => AckedIsDurable
  BY DEF IInv
<1>2. QED  BY <1>1, Invariance, PTL

(* The flock keeps every record that is whole in one place.                *)
THEOREM RecordsStayWhole == LogSpec => []NoInterleaving
<1>1. IInv => NoInterleaving
  BY DEF IInv
<1>2. QED  BY <1>1, Invariance, PTL

-----------------------------------------------------------------------------
(* A process that opens or writes has not failed.                          *)
Sound == \A p \in Processes : pc[p] \notin {"down", "ready"} => ~failed[p]

LEMMA SoundStep ==
  ASSUME IInv, Sound, NEW p \in Processes, Open(p) \/ AppendRecord(p) \/ LeaveLog(p)
  PROVE  Sound'
<1> USE DEF IInv, LogTypeOK, Sound, At, GoTo, MarkFailed
<1>1. CASE Launch(p)  BY <1>1 DEF Launch
<1>2. CASE LockToOpen(p)  BY <1>2 DEF LockToOpen
<1>3. CASE TerminateTail(p)  BY <1>3 DEF TerminateTail
<1>4. CASE SyncOpened(p)  BY <1>4 DEF SyncOpened
<1>5. CASE OpenFails(p)  BY <1>5 DEF OpenFails
<1>6. CASE BeginAppend(p)  BY <1>6 DEF BeginAppend
<1>7. CASE WriteHead(p)  BY <1>7 DEF WriteHead
<1>8. CASE WriteRest(p)  BY <1>8 DEF WriteRest
<1>9. CASE SyncRecord(p)  BY <1>9 DEF SyncRecord
<1>10. CASE AppendFails(p)  BY <1>10 DEF AppendFails
<1>11. CASE LeaveLog(p)  BY <1>11 DEF LeaveLog
<1>12. QED  BY <1>1, <1>2, <1>3, <1>4, <1>5, <1>6, <1>7, <1>8, <1>9, <1>10, <1>11
               DEF Open, AppendRecord

-----------------------------------------------------------------------------
(* The numbers of the records.                                             *)

(* The numbers that session s has used in the first n pieces of f.         *)
Used(f, s, n) == {f[j].number : j \in {k \in 1 .. n : f[k].part = "head" /\ f[k].session = s}}

(* No two live processes share a session, and none is used before it is    *)
(* given out.                                                              *)
Sessions ==
    /\ \A p \in Processes : pc[p] # "down" => session[p] <= sessions
    /\ \A p, q \in Processes :
         p # q /\ pc[p] # "down" /\ pc[q] # "down" => session[p] # session[q]
    /\ \A i \in 1 .. Len(file) : file[i].part = "head" => file[i].session <= sessions

(* A session that has not failed has used the numbers it counted.          *)
Counted ==
    \A p \in Processes :
        pc[p] # "down" /\ ~failed[p] =>
          Used(file, session[p], Len(file)) =
            1 .. (IF pc[p] \in {"torn", "written"} THEN sequence[p] + 1 ELSE sequence[p])

Numbering == Sound /\ Sessions /\ Counted /\ NumbersInOrder

LEMMA UsedAppend ==
  ASSUME NEW S, NEW f \in Seq(S), NEW x \in S, NEW s
  PROVE  /\ \A n \in 0 .. Len(f) : Used(Append(f, x), s, n) = Used(f, s, n)
         /\ ~(x.part = "head" /\ x.session = s) =>
              Used(Append(f, x), s, Len(f) + 1) = Used(f, s, Len(f))
         /\ x.part = "head" /\ x.session = s =>
              Used(Append(f, x), s, Len(f) + 1) = Used(f, s, Len(f)) \cup {x.number}
<1> DEFINE g == Append(f, x)
<1>1. /\ \A i \in 1 .. Len(f) : g[i] = f[i]
      /\ g[Len(f) + 1] = x /\ Len(f) \in Nat
  BY AppendFacts
<1> HIDE DEF g
<1>2. ASSUME NEW n \in 0 .. Len(f) PROVE Used(g, s, n) = Used(f, s, n)
  <2>1. \A i \in 1 .. n : g[i] = f[i]
    BY <1>1
  <2>2. QED  BY <2>1 DEF Used
<1>3. 1 .. Len(f) + 1 = (1 .. Len(f)) \cup {Len(f) + 1}
  BY <1>1
<1>4. ~(x.part = "head" /\ x.session = s) => Used(g, s, Len(f) + 1) = Used(f, s, Len(f))
  BY <1>1, <1>3 DEF Used
<1>5. x.part = "head" /\ x.session = s =>
        Used(g, s, Len(f) + 1) = Used(f, s, Len(f)) \cup {x.number}
  BY <1>1, <1>3 DEF Used
<1>6. QED  BY <1>2, <1>4, <1>5 DEF g

LEMMA OrderIsUse ==
  NumbersInOrder <=> \A i \in DOMAIN file : file[i].part = "head" =>
                        Used(file, file[i].session, i - 1) = 1 .. file[i].number - 1
  BY DEF NumbersInOrder, Used

(* Steps that leave the file alone.                                        *)
LEMMA SameFile ==
  ASSUME IInv, Numbering, NEW p \in Processes, Open(p) \/ AppendRecord(p) \/ LeaveLog(p),
         file' = file
  PROVE  Numbering'
<1> DEFINE Count(q) == IF pc[q] \in {"torn", "written"} THEN sequence[q] + 1 ELSE sequence[q]
<1>1. Sound'
  BY SoundStep DEF Numbering
<1>2. NumbersInOrder'
  BY DEF Numbering, NumbersInOrder
<1>3. \A q \in Processes :
         pc[q] # "down" /\ ~failed[q] => Used(file, session[q], Len(file)) = 1 .. Count(q)
  BY DEF Numbering, Counted
<1>4. SUFFICES Sessions' /\ \A q \in Processes : pc'[q] # "down" /\ ~failed'[q] =>
                  Used(file, session'[q], Len(file)) = 1 .. Count(q)'
  BY <1>1, <1>2 DEF Numbering, Counted
<1>5. \A q \in Processes : q # p => pc'[q] = pc[q] /\ sequence'[q] = sequence[q]
                                     /\ session'[q] = session[q] /\ failed'[q] = failed[q]
  BY DEF Open, AppendRecord, Launch, LockToOpen, TerminateTail, SyncOpened, OpenFails, BeginAppend,
     WriteHead, WriteRest, SyncRecord, AppendFails, LeaveLog, MarkFailed, GoTo, IInv, LogTypeOK
<1>6. CASE Launch(p)
  <2>1. /\ pc'[p] = "opening" /\ session'[p] = sessions + 1 /\ sequence'[p] = 0
        /\ sessions' = sessions + 1 /\ sessions \in Nat
    BY <1>6 DEF Launch, GoTo, IInv, LogTypeOK
  <2>2. \A i \in 1 .. Len(file) : file[i].part = "head" => file[i].session <= sessions
    BY DEF Numbering, Sessions
  <2>3. \A q \in Processes : session[q] \in Nat
    BY DEF IInv, LogTypeOK
  <2>4. \A i \in 1 .. Len(file) : file[i].session \in Nat
    <3>1. \A i \in 1 .. Len(file) : file[i] \in Pieces
      BY DEF IInv, LogTypeOK
    <3>2. \A x \in Pieces : x.session \in Nat
      BY RunningLogAssumption DEF Pieces
    <3>3. QED  BY <3>1, <3>2
  <2>5. Used(file, sessions + 1, Len(file)) = {}
    BY <2>1, <2>2, <2>4 DEF Used
  <2>6. \A q \in Processes : pc'[q] # "down" => session'[q] <= sessions + 1
    BY <1>5, <2>1, <2>3 DEF Numbering, Sessions
  <2>7. \A q, r \in Processes :
           q # r /\ pc'[q] # "down" /\ pc'[r] # "down" => session'[q] # session'[r]
    <3>1. \A q \in Processes : q # p /\ pc'[q] # "down" => session'[q] # sessions + 1
      BY <1>5, <2>1, <2>3 DEF Numbering, Sessions
    <3>2. \A q, r \in Processes : q # p /\ r # p /\ q # r /\ pc'[q] # "down" /\ pc'[r] # "down" =>
             session'[q] # session'[r]
      BY <1>5 DEF Numbering, Sessions
    <3>3. QED  BY <2>1, <3>1, <3>2
  <2>8. \A i \in 1 .. Len(file) : file[i].part = "head" => file[i].session <= sessions + 1
    BY <2>1, <2>2, <2>4
  <2>9. Sessions'
    BY <2>1, <2>6, <2>7, <2>8 DEF Sessions
  <2>10. ASSUME NEW q \in Processes, pc'[q] # "down", ~failed'[q]
         PROVE  Used(file, session'[q], Len(file)) = 1 .. Count(q)'
    <3>1. CASE q = p
      <4>1. Count(q)' = 0 /\ session'[q] = sessions + 1
        BY <2>1, <3>1
      <4>2. 1 .. 0 = {}
        OBVIOUS
      <4>3. QED  BY <2>5, <4>1, <4>2
    <3>2. CASE q # p
      BY <1>3, <1>5, <2>10, <3>2
    <3>3. QED  BY <3>1, <3>2
  <2>11. QED  BY <2>9, <2>10
<1>7. CASE ~Launch(p)
  <2>1. session' = session /\ sessions' = sessions /\ pc[p] # "down"
    BY <1>7 DEF Open, AppendRecord, LockToOpen, TerminateTail, SyncOpened, OpenFails, BeginAppend,
           WriteHead, WriteRest, SyncRecord, AppendFails, LeaveLog, At
  <2>2. \A q \in Processes : pc'[q] # "down" => pc[q] # "down"
    BY <1>5, <2>1
  <2>3. Sessions'
    BY <2>1, <2>2 DEF Numbering, Sessions
  <2>4. ASSUME pc'[p] # "down", ~failed'[p] PROVE ~failed[p] /\ Count(p)' = Count(p)
    <3> USE DEF IInv, LogTypeOK, At, GoTo
    <3>1. CASE WriteHead(p) \/ WriteRest(p)
      <4>1. PICK x \in Pieces : file' = Append(file, x)
        BY <3>1, PieceTypes DEF WriteHead, WriteRest
      <4>2. Len(file') = Len(file) + 1
        BY <4>1, AppendFacts
      <4>3. QED  BY <4>2
    <3>2. CASE LockToOpen(p) \/ TerminateTail(p) \/ SyncOpened(p)
      BY <2>4, <3>2 DEF LockToOpen, TerminateTail, SyncOpened
    <3>3. CASE BeginAppend(p)
      BY <2>4, <3>3 DEF BeginAppend
    <3>4. CASE SyncRecord(p)
      BY <2>4, <3>4 DEF SyncRecord
    <3>5. CASE OpenFails(p) \/ AppendFails(p) \/ LeaveLog(p)
      BY <2>4, <3>5 DEF OpenFails, AppendFails, LeaveLog, MarkFailed
    <3>6. QED  BY <1>7, <3>1, <3>2, <3>3, <3>4, <3>5 DEF Open, AppendRecord
  <2>5. ASSUME NEW q \in Processes, pc'[q] # "down", ~failed'[q]
        PROVE  Used(file, session'[q], Len(file)) = 1 .. Count(q)'
    <3>1. CASE q = p
      BY <1>3, <2>1, <2>4, <2>5, <3>1
    <3>2. CASE q # p
      BY <1>3, <1>5, <2>5, <3>2
    <3>3. QED  BY <3>1, <3>2
  <2>6. QED  BY <2>3, <2>5
<1>8. QED  BY <1>6, <1>7

(* Steps that append a piece.                                              *)
LEMMA OtherPiece ==
  ASSUME IInv, Numbering, NEW p \in Processes, TerminateTail(p) \/ WriteRest(p),
         NEW x \in Pieces, x.part # "head", file' = Append(file, x)
  PROVE  Numbering'
<1>1. /\ session' = session /\ sessions' = sessions /\ sequence' = sequence /\ failed' = failed
      /\ \A q \in Processes : pc[q] = "down" => pc'[q] = "down"
      /\ \A q \in Processes : pc[q] \in {"torn", "written"} <=> pc'[q] \in {"torn", "written"}
  BY DEF TerminateTail, WriteRest, At, GoTo, IInv, LogTypeOK
<1>2. /\ Len(file') = Len(file) + 1 /\ Len(file) \in Nat
      /\ \A i \in 1 .. Len(file) : file'[i] = file[i]
      /\ file'[Len(file) + 1] = x /\ file' \in Seq(Pieces)
  BY AppendFacts DEF IInv, LogTypeOK
<1>3. \A s : /\ Used(file', s, Len(file')) = Used(file, s, Len(file))
             /\ \A n \in 0 .. Len(file) : Used(file', s, n) = Used(file, s, n)
  <2> SUFFICES ASSUME NEW s
               PROVE  /\ Used(file', s, Len(file')) = Used(file, s, Len(file))
                      /\ \A n \in 0 .. Len(file) : Used(file', s, n) = Used(file, s, n)
    OBVIOUS
  <2>1. file \in Seq(Pieces)
    BY DEF IInv, LogTypeOK
  <2>2. /\ \A n \in 0 .. Len(file) : Used(Append(file, x), s, n) = Used(file, s, n)
        /\ Used(Append(file, x), s, Len(file) + 1) = Used(file, s, Len(file))
    BY <2>1, UsedAppend
  <2>3. QED  BY <1>2, <2>2
<1>4. Sound'
  BY SoundStep DEF Open, AppendRecord, Numbering
<1>5. Sessions'
  <2>1. \A i \in 1 .. Len(file') : file'[i].part = "head" => file'[i].session <= sessions
    BY <1>2 DEF Numbering, Sessions
  <2>2. QED  BY <1>1, <2>1 DEF Numbering, Sessions
<1>6. Counted'
  BY <1>1, <1>3 DEF Numbering, Counted
<1>7. NumbersInOrder'
  <2> SUFFICES ASSUME NEW i \in DOMAIN file', file'[i].part = "head"
               PROVE  Used(file', file'[i].session, i - 1) = 1 .. file'[i].number - 1
    BY DEF NumbersInOrder, Used
  <2>5. i \in 1 .. Len(file) + 1
    BY <1>2
  <2>1. i \in 1 .. Len(file) /\ file'[i] = file[i] /\ i - 1 \in 0 .. Len(file)
    BY <1>2, <2>5
  <2>2. i \in DOMAIN file
    BY <2>1 DEF IInv, LogTypeOK
  <2>3. Used(file, file[i].session, i - 1) = 1 .. file[i].number - 1
    BY <2>1, <2>2, OrderIsUse DEF Numbering
  <2>4. QED  BY <1>3, <2>1, <2>3
<1>8. QED  BY <1>4, <1>5, <1>6, <1>7 DEF Numbering

LEMMA NextHead ==
  ASSUME IInv, Numbering, NEW p \in Processes, WriteHead(p)
  PROVE  Numbering'
<1>1. /\ session' = session /\ sessions' = sessions /\ sequence' = sequence /\ failed' = failed
      /\ pc[p] = "writing" /\ pc' = [pc EXCEPT ![p] = "torn"]
  BY DEF WriteHead, At, GoTo
<1> DEFINE x == HeadOf(p)
<1>2. x \in Pieces /\ file' = Append(file, x)
  BY <1>1, PieceTypes DEF WriteHead, Piece, HeadOf
<1>3. x.part = "head" /\ x.session = session[p] /\ x.number = sequence[p] + 1
  BY DEF HeadOf
<1> HIDE DEF x
<1>4. /\ Len(file') = Len(file) + 1 /\ Len(file) \in Nat
      /\ \A i \in 1 .. Len(file) : file'[i] = file[i]
      /\ file'[Len(file) + 1] = x /\ file' \in Seq(Pieces)
  BY <1>2, AppendFacts DEF IInv, LogTypeOK
<1>14. file \in Seq(Pieces)
  BY DEF IInv, LogTypeOK
<1>5. \A s : \A n \in 0 .. Len(file) : Used(file', s, n) = Used(file, s, n)
  BY <1>2, <1>14, UsedAppend
<1>6. ASSUME NEW s, s # session[p] PROVE Used(file', s, Len(file')) = Used(file, s, Len(file))
  <2>1. Used(Append(file, x), s, Len(file) + 1) = Used(file, s, Len(file))
    BY <1>2, <1>3, <1>6, <1>14, UsedAppend
  <2>2. QED  BY <1>2, <1>4, <2>1
<1>7. Used(file', session[p], Len(file')) = Used(file, session[p], Len(file)) \cup {sequence[p] + 1}
  <2>1. Used(Append(file, x), session[p], Len(file) + 1)
          = Used(file, session[p], Len(file)) \cup {x.number}
    BY <1>2, <1>3, <1>14, UsedAppend
  <2>2. QED  BY <1>2, <1>3, <1>4, <2>1
<1>8. ~failed[p] /\ Used(file, session[p], Len(file)) = 1 .. sequence[p] /\ sequence[p] \in Nat
  <2>1. ~failed[p] /\ sequence[p] \in Nat
    <3>1. ~failed[p]
      BY <1>1 DEF Numbering, Sound
    <3>2. sequence[p] \in 0 .. MaxRecords
      BY DEF IInv, LogTypeOK
    <3>3. QED  BY <3>1, <3>2
  <2>2. QED  BY <1>1, <2>1 DEF Numbering, Counted
<1>9. Sound'
  BY SoundStep DEF AppendRecord, Numbering
<1>10. Sessions'
  <2>1. session[p] <= sessions
    BY <1>1 DEF Numbering, Sessions
  <2>2. \A i \in 1 .. Len(file') : file'[i].part = "head" => file'[i].session <= sessions
    BY <1>3, <1>4, <2>1 DEF Numbering, Sessions
  <2>3. \A q \in Processes : pc[q] = "down" => pc'[q] = "down"
    BY <1>1 DEF IInv, LogTypeOK
  <2>4. QED  BY <1>1, <2>2, <2>3 DEF Numbering, Sessions
<1>11. Counted'
  <2> SUFFICES ASSUME NEW q \in Processes, pc'[q] # "down", ~failed[q]
               PROVE  Used(file', session[q], Len(file')) =
                        1 .. (IF pc'[q] \in {"torn", "written"} THEN sequence[q] + 1
                                                                ELSE sequence[q])
    BY <1>1 DEF Counted
  <2>1. CASE q = p
    <3>1. Used(file', session[p], Len(file')) = 1 .. sequence[p] + 1
      BY <1>7, <1>8
    <3>2. pc'[p] = "torn"
      BY <1>1 DEF IInv, LogTypeOK
    <3>3. QED  BY <2>1, <3>1, <3>2
  <2>2. CASE q # p
    <3>1. pc'[q] = pc[q]
      BY <1>1, <2>2 DEF IInv, LogTypeOK
    <3>2. session[q] # session[p]
      BY <1>1, <2>2, <3>1 DEF Numbering, Sessions
    <3>3. QED  BY <1>6, <3>1, <3>2 DEF Numbering, Counted
  <2>3. QED  BY <2>1, <2>2
<1>12. NumbersInOrder'
  <2> SUFFICES ASSUME NEW i \in DOMAIN file', file'[i].part = "head"
               PROVE  Used(file', file'[i].session, i - 1) = 1 .. file'[i].number - 1
    BY DEF NumbersInOrder, Used
  <2>1. i \in 1 .. Len(file) + 1 /\ i - 1 \in 0 .. Len(file)
    BY <1>4
  <2>2. CASE i = Len(file) + 1
    <3>1. file'[i] = x /\ i - 1 = Len(file)
      BY <1>4, <2>2
    <3>2. Used(file', session[p], Len(file)) = 1 .. sequence[p]
      BY <1>4, <1>5, <1>8
    <3>3. file'[i].session = session[p] /\ file'[i].number - 1 = sequence[p]
      BY <1>3, <1>8, <3>1
    <3>4. QED  BY <3>1, <3>2, <3>3
  <2>3. CASE i # Len(file) + 1
    <3>1. i \in 1 .. Len(file) /\ file'[i] = file[i]
      BY <1>4, <2>1, <2>3
    <3>2. Used(file, file[i].session, i - 1) = 1 .. file[i].number - 1
      BY <3>1, OrderIsUse DEF Numbering, IInv, LogTypeOK
    <3>3. QED  BY <1>5, <2>1, <3>1, <3>2
  <2>4. QED  BY <2>2, <2>3
<1>13. QED  BY <1>9, <1>10, <1>11, <1>12 DEF Numbering

LEMMA NumbersAfterPowerLoss == ASSUME IInv, Numbering, PowerLoss PROVE Numbering'
<1>1. PICK kept \in synced .. Len(file) : file' = SubSeq(file, 1, kept)
  BY DEF PowerLoss
<1>2. kept \in 0 .. Len(file)
  BY <1>1 DEF IInv, LogTypeOK
<1>3. Len(file') = kept /\ file' \in Seq(Pieces) /\ \A i \in 1 .. kept : file'[i] = file[i]
  BY <1>1, <1>2, PrefixFacts DEF IInv, LogTypeOK
<1>4. Sound' /\ Counted'
  BY DEF PowerLoss, Sound, Counted
<1>5. Sessions'
  BY <1>2, <1>3 DEF PowerLoss, Numbering, Sessions
<1>6. NumbersInOrder'
  <2> SUFFICES ASSUME NEW i \in 1 .. kept, file'[i].part = "head"
               PROVE  Used(file', file'[i].session, i - 1) = 1 .. file'[i].number - 1
    BY <1>3 DEF NumbersInOrder, Used
  <2>1. i \in 1 .. Len(file) /\ file'[i] = file[i] /\ \A j \in 1 .. i - 1 : file'[j] = file[j]
    BY <1>2, <1>3
  <2>2. Used(file', file[i].session, i - 1) = Used(file, file[i].session, i - 1)
    BY <2>1 DEF Used
  <2>3. QED  BY <2>1, <2>2, OrderIsUse DEF Numbering, IInv, LogTypeOK
<1>7. QED  BY <1>4, <1>5, <1>6 DEF Numbering

(* What a session counts is what it has written.                           *)
LEMMA AlwaysNumbered == LogSpec => []Numbering
<1>1. LogInit => Numbering
  <2> SUFFICES ASSUME LogInit PROVE Numbering
    OBVIOUS
  <2>1. Sound /\ Counted
    BY DEF LogInit, Sound, Counted
  <2>2. Sessions /\ NumbersInOrder
    BY DEF LogInit, Sessions, NumbersInOrder
  <2>3. QED  BY <2>1, <2>2 DEF Numbering
<1>2. IInv /\ Numbering /\ [LogNext]_logVars => Numbering'
  <2> SUFFICES ASSUME IInv, Numbering, [LogNext]_logVars PROVE Numbering'
    OBVIOUS
  <2>1. ASSUME NEW p \in Processes, Open(p) \/ AppendRecord(p) \/ LeaveLog(p)
        PROVE  Numbering'
    <3>1. CASE WriteHead(p)
      BY <3>1, NextHead
    <3>2. CASE WriteRest(p)
      <4>1. Piece(p, "rest") \in Pieces /\ Piece(p, "rest").part # "head"
        BY <3>2, PieceTypes DEF WriteRest, At, Piece
      <4>2. QED  BY <3>2, <4>1, OtherPiece DEF WriteRest
    <3>3. CASE TerminateTail(p) /\ PartialTail
      <4>1. Newline(p) \in Pieces /\ Newline(p).part # "head"
        BY <3>3, PieceTypes DEF TerminateTail, At, Newline
      <4>2. QED  BY <3>3, <4>1, OtherPiece DEF TerminateTail
    <3>4. CASE file' = file
      BY <2>1, <3>4, SameFile
    <3>5. QED
      BY <2>1, <3>1, <3>2, <3>3, <3>4
         DEF Open, AppendRecord, Launch, LockToOpen, TerminateTail, SyncOpened, OpenFails,
             BeginAppend, SyncRecord, AppendFails, LeaveLog
  <2>2. CASE PowerLoss
    BY <2>2, NumbersAfterPowerLoss
  <2>3. CASE UNCHANGED logVars
    BY <2>3 DEF Numbering, Sound, Sessions, Counted, NumbersInOrder, logVars
  <2>4. QED  BY <2>1, <2>2, <2>3 DEF LogNext
<1>3. QED  BY <1>1, <1>2, Invariance, PTL DEF LogSpec

(* The records of a session carry 1, 2, 3, ... in the order of the file,   *)
(* wherever writes tear and whatever fails (RunningLog.append).            *)
THEOREM NumbersAreOrdered == LogSpec => []NumbersInOrder
<1>1. Numbering => NumbersInOrder
  BY DEF Numbering
<1>2. QED  BY <1>1, AlwaysNumbered, PTL

-----------------------------------------------------------------------------
(* Lines: a record joins no fragment that its session found on opening.    *)

PastOpening == {"opened", "ready", "writing", "torn", "written"}

(* A process that is past TerminateTail has a base in the file, and the    *)
(* piece there ends a line.                                                *)
Grounded ==
    \A p \in Processes : pc[p] \in PastOpening =>
        /\ base[session[p]] <= Len(file)
        /\ base[session[p]] = 0 \/ file[base[session[p]]].part # "head"

(* A session that is being opened has written nothing.                     *)
Fresh ==
    \A p \in Processes : pc[p] \in {"opening", "inspecting"} =>
        \A i \in 1 .. Len(file) : file[i].part = "head" => file[i].session # session[p]

(* A record that stands behind a fragment has it above its base.           *)
Joined ==
    \A i \in 2 .. Len(file) :
        file[i].part = "head" /\ file[i - 1].part = "head" => i - 1 > base[file[i].session]

Lines == Grounded /\ Fresh /\ Joined

(* A head carries the number of a session.                                 *)
LEMMA HeadSessions ==
  ASSUME IInv, Numbering, NEW i \in 1 .. Len(file), file[i].part = "head"
  PROVE  file[i].session \in 1 .. MaxSessions /\ file[i].session <= sessions
<1>1. file[i] \in Pieces
  BY DEF IInv, LogTypeOK
<1>2. QED  BY <1>1 DEF Pieces, Numbering, Sessions

LEMMA FreshStep ==
  ASSUME IInv, Numbering, Fresh, NEW p \in Processes, Open(p) \/ AppendRecord(p) \/ LeaveLog(p)
  PROVE  Fresh'
<1> SUFFICES ASSUME NEW q \in Processes, pc'[q] \in {"opening", "inspecting"},
                    NEW i \in 1 .. Len(file'), file'[i].part = "head"
             PROVE  file'[i].session # session'[q]
  BY DEF Fresh
<1> USE DEF IInv, LogTypeOK, At, GoTo
<1>1. CASE Launch(p)
  <2>1. file' = file /\ i \in 1 .. Len(file) /\ file[i].part = "head"
    BY <1>1 DEF Launch
  <2>2. file[i].session <= sessions /\ file[i].session \in Nat /\ sessions \in Nat
    BY <2>1, HeadSessions
  <2>3. CASE q = p
    BY <1>1, <2>1, <2>2, <2>3 DEF Launch
  <2>4. CASE q # p
    BY <1>1, <2>1, <2>4 DEF Launch, Fresh
  <2>5. QED  BY <2>3, <2>4
<1>2. CASE WriteHead(p)
  <2>1. q # p /\ pc[q] = pc'[q] /\ pc[p] # "down" /\ session' = session
    BY <1>2 DEF WriteHead
  <2>2. Piece(p, "head") \in Pieces /\ Piece(p, "head").session = session[p]
    BY <1>2, PieceTypes DEF WriteHead, Piece
  <2>3. /\ Len(file') = Len(file) + 1 /\ Len(file) \in Nat
        /\ \A j \in 1 .. Len(file) : file'[j] = file[j]
        /\ file'[Len(file) + 1] = Piece(p, "head")
    BY <1>2, <2>2, AppendFacts DEF WriteHead
  <2>4. CASE i \in 1 .. Len(file)
    BY <2>1, <2>3, <2>4 DEF Fresh
  <2>5. CASE i = Len(file) + 1
    <3>1. session[p] # session[q]
      BY <2>1 DEF Numbering, Sessions
    <3>2. QED  BY <2>1, <2>2, <2>3, <2>5, <3>1
  <2>6. QED  BY <2>3, <2>4, <2>5
<1>3. CASE TerminateTail(p) \/ WriteRest(p)
  <2>1. pc[q] = pc'[q] /\ session' = session
    BY <1>3 DEF TerminateTail, WriteRest
  <2>2. i \in 1 .. Len(file) /\ file[i] = file'[i]
    <3>1. CASE file' = file
      BY <3>1
    <3>2. CASE \E x \in Pieces : x.part # "head" /\ file' = Append(file, x)
      <4>1. PICK x \in Pieces : x.part # "head" /\ file' = Append(file, x)
        BY <3>2
      <4>2. /\ Len(file') = Len(file) + 1 /\ Len(file) \in Nat
            /\ \A j \in 1 .. Len(file) : file'[j] = file[j]
            /\ file'[Len(file) + 1] = x
        BY <4>1, AppendFacts
      <4>3. QED  BY <4>1, <4>2
    <3>3. QED
      <4>1. CASE TerminateTail(p)
        BY <4>1, <3>1, <3>2, PieceTypes DEF TerminateTail, Newline
      <4>2. CASE WriteRest(p)
        BY <4>2, <3>2, PieceTypes DEF WriteRest, Piece
      <4>3. QED  BY <1>3, <4>1, <4>2
  <2>3. QED  BY <2>1, <2>2 DEF Fresh
<1>4. CASE ~Launch(p) /\ file' = file
  <2>1. session' = session /\ pc[q] \in {"opening", "inspecting"}
    BY <1>4 DEF Open, AppendRecord, LockToOpen, TerminateTail, SyncOpened, OpenFails,
           BeginAppend, WriteHead, WriteRest, SyncRecord, AppendFails, LeaveLog
  <2>2. QED  BY <1>4, <2>1 DEF Fresh
<1>5. QED
  BY <1>1, <1>2, <1>3, <1>4
     DEF Open, AppendRecord, LockToOpen, SyncOpened, OpenFails, BeginAppend, SyncRecord,
         AppendFails, LeaveLog

LEMMA GroundedStep ==
  ASSUME IInv, Numbering, Grounded, NEW p \in Processes,
         Open(p) \/ AppendRecord(p) \/ LeaveLog(p)
  PROVE  Grounded'
<1> SUFFICES ASSUME NEW q \in Processes, pc'[q] \in PastOpening
             PROVE  /\ base'[session'[q]] <= Len(file')
                    /\ base'[session'[q]] = 0 \/ file'[base'[session'[q]]].part # "head"
  BY DEF Grounded
<1> USE DEF IInv, LogTypeOK, At, GoTo, PastOpening
<1>1. CASE ~TerminateTail(p)
  <2>1. /\ base' = base /\ session'[q] = session[q] /\ pc[q] \in PastOpening
        /\ session[q] \in 1 .. MaxSessions
    BY <1>1 DEF Ready, Open, AppendRecord, Launch, LockToOpen, SyncOpened, OpenFails, BeginAppend,
           WriteHead, WriteRest, SyncRecord, AppendFails, LeaveLog
  <2>2. /\ base[session[q]] \in Nat /\ base[session[q]] <= Len(file) /\ Len(file) \in Nat
        /\ base[session[q]] = 0 \/ file[base[session[q]]].part # "head"
    BY <2>1 DEF Grounded
  <2>3. CASE file' = file
    BY <2>1, <2>2, <2>3
  <2>4. CASE WriteHead(p) \/ WriteRest(p)
    <3>1. PICK x \in Pieces : file' = Append(file, x)
      BY <2>4, PieceTypes DEF WriteHead, WriteRest
    <3>2. /\ Len(file') = Len(file) + 1
          /\ \A j \in 1 .. Len(file) : file'[j] = file[j]
      BY <3>1, AppendFacts
    <3>3. QED  BY <2>1, <2>2, <3>2
  <2>5. QED
    BY <1>1, <2>3, <2>4
       DEF Open, AppendRecord, Launch, LockToOpen, SyncOpened, OpenFails, BeginAppend,
           SyncRecord, AppendFails, LeaveLog
<1>2. CASE TerminateTail(p)
  <2>1. /\ session' = session /\ pc[p] = "inspecting" /\ session[p] \in 1 .. MaxSessions
        /\ base' = [base EXCEPT ![session[p]] = Len(file')]
    BY <1>2 DEF TerminateTail, Ready
  <2>2. /\ Len(file) \in Nat /\ Len(file') \in Nat /\ Len(file) <= Len(file')
        /\ \A j \in 1 .. Len(file) : file'[j] = file[j]
        /\ Len(file') = 0 \/ file'[Len(file')].part # "head"
    <3>1. CASE PartialTail
      <4>1. Newline(p) \in Pieces /\ Newline(p).part = "newline"
        BY <2>1, PieceTypes DEF Newline
      <4>2. file' = Append(file, Newline(p))
        BY <1>2, <3>1 DEF TerminateTail
      <4>3. /\ Len(file') = Len(file) + 1 /\ Len(file) \in Nat
            /\ \A j \in 1 .. Len(file) : file'[j] = file[j]
            /\ file'[Len(file) + 1] = Newline(p)
        BY <4>1, <4>2, AppendFacts
      <4>4. QED  BY <4>1, <4>3
    <3>2. CASE ~PartialTail
      <4>1. file' = file
        BY <1>2, <3>2 DEF TerminateTail
      <4>2. QED  BY <3>2, <4>1 DEF PartialTail
    <3>3. QED  BY <3>1, <3>2
  <2>3. CASE q = p
    BY <2>1, <2>2, <2>3
  <2>4. CASE q # p
    <3>1. pc'[q] = pc[q]
      BY <1>2, <2>4 DEF TerminateTail
    <3>2. session[q] # session[p] /\ session[q] \in 1 .. MaxSessions
      BY <2>1, <2>4, <3>1 DEF Ready, Numbering, Sessions
    <3>3. base'[session'[q]] = base[session[q]]
      BY <2>1, <3>2
    <3>4. /\ base[session[q]] \in Nat /\ base[session[q]] <= Len(file)
          /\ base[session[q]] = 0 \/ file[base[session[q]]].part # "head"
      BY <3>1, <3>2 DEF Grounded
    <3>5. QED  BY <2>2, <3>3, <3>4
  <2>5. QED  BY <2>3, <2>4
<1>3. QED  BY <1>1, <1>2

LEMMA JoinedStep ==
  ASSUME IInv, Numbering, Lines, NEW p \in Processes, Open(p) \/ AppendRecord(p) \/ LeaveLog(p)
  PROVE  Joined'
<1> USE DEF IInv, LogTypeOK, At, Lines
<1>1. CASE WriteHead(p)
  <2>1. base' = base /\ session[p] \in 1 .. MaxSessions /\ base[session[p]] \in Nat
    BY <1>1 DEF WriteHead, Ready
  <2>2. Piece(p, "head") \in Pieces /\ Piece(p, "head").session = session[p]
    BY <1>1, PieceTypes DEF WriteHead, Piece
  <2>3. /\ Len(file') = Len(file) + 1 /\ Len(file) \in Nat
        /\ \A j \in 1 .. Len(file) : file'[j] = file[j]
        /\ file'[Len(file) + 1] = Piece(p, "head")
    BY <1>1, <2>2, AppendFacts DEF WriteHead
  <2>4. /\ base[session[p]] <= Len(file)
        /\ base[session[p]] = 0 \/ file[base[session[p]]].part # "head"
    BY <1>1 DEF WriteHead, Grounded, PastOpening
  <2>5. SUFFICES ASSUME NEW i \in 2 .. Len(file'), file'[i].part = "head",
                        file'[i - 1].part = "head"
                 PROVE  i - 1 > base[file'[i].session]
    BY <2>1 DEF Joined
  <2>6. i - 1 \in 1 .. Len(file) /\ file'[i - 1] = file[i - 1]
    BY <2>3
  <2>7. CASE i \in 2 .. Len(file)
    <3>1. file'[i] = file[i]
      BY <2>3, <2>7
    <3>2. QED  BY <2>5, <2>6, <2>7, <3>1 DEF Joined
  <2>8. CASE i = Len(file) + 1
    <3>1. base[session[p]] # i - 1
      BY <2>3, <2>4, <2>5, <2>6, <2>8
    <3>2. QED  BY <2>1, <2>2, <2>3, <2>4, <2>8, <3>1
  <2>9. QED  BY <2>3, <2>7, <2>8
<1>2. ASSUME NEW i \in 1 .. Len(file), file[i].part = "head", TerminateTail(p)
      PROVE  base'[file[i].session] = base[file[i].session]
  <2>1. file[i].session # session[p] /\ file[i].session \in 1 .. MaxSessions
    BY <1>2, HeadSessions DEF TerminateTail, Fresh
  <2>2. QED  BY <1>2, <2>1 DEF TerminateTail
<1>3. CASE TerminateTail(p) \/ WriteRest(p)
  <2>1. \A i \in 1 .. Len(file) : file[i].part = "head" =>
            base'[file[i].session] = base[file[i].session]
    BY <1>2, <1>3 DEF WriteRest
  <2>2. CASE file' = file
    <3> SUFFICES ASSUME NEW i \in 2 .. Len(file), file[i].part = "head",
                        file[i - 1].part = "head"
                 PROVE  i - 1 > base'[file[i].session]
      BY <2>2 DEF Joined
    <3>1. i - 1 > base[file[i].session] /\ i \in 1 .. Len(file)
      BY DEF Joined
    <3>2. QED  BY <2>1, <3>1
  <2>3. CASE \E x \in Pieces : x.part # "head" /\ file' = Append(file, x)
    <3>1. PICK x \in Pieces : x.part # "head" /\ file' = Append(file, x)
      BY <2>3
    <3>2. /\ Len(file') = Len(file) + 1 /\ Len(file) \in Nat
          /\ \A i \in 1 .. Len(file) : file'[i] = file[i]
          /\ file'[Len(file) + 1] = x
      BY <3>1, AppendFacts
    <3> SUFFICES ASSUME NEW i \in 2 .. Len(file'), file'[i].part = "head",
                        file'[i - 1].part = "head"
                 PROVE  i - 1 > base'[file'[i].session]
      BY DEF Joined
    <3>3. i \in 2 .. Len(file) /\ i \in 1 .. Len(file) /\ i - 1 \in 1 .. Len(file)
      BY <3>1, <3>2
    <3>4. file[i].part = "head" /\ file[i - 1].part = "head" /\ file'[i] = file[i]
      BY <3>2, <3>3
    <3>5. i - 1 > base[file[i].session]
      BY <3>3, <3>4 DEF Joined
    <3>6. QED  BY <2>1, <3>3, <3>4, <3>5
  <2>4. QED
    <3>1. CASE TerminateTail(p)
      BY <3>1, <2>2, <2>3, PieceTypes DEF TerminateTail, Newline
    <3>2. CASE WriteRest(p)
      BY <3>2, <2>3, PieceTypes DEF WriteRest, Piece
    <3>3. QED  BY <1>3, <3>1, <3>2
<1>4. CASE file' = file /\ base' = base
  BY <1>4 DEF Joined
<1>5. QED
  BY <1>1, <1>3, <1>4
     DEF Open, AppendRecord, Launch, LockToOpen, SyncOpened, OpenFails, BeginAppend,
         SyncRecord, AppendFails, LeaveLog

LEMMA LinesAfterPowerLoss == ASSUME IInv, Lines, PowerLoss PROVE Lines'
<1>1. PICK kept \in synced .. Len(file) : file' = SubSeq(file, 1, kept)
  BY DEF PowerLoss
<1>2. kept \in 0 .. Len(file)
  BY <1>1 DEF IInv, LogTypeOK
<1>3. Len(file') = kept /\ \A i \in 1 .. kept : file'[i] = file[i]
  BY <1>1, <1>2, PrefixFacts DEF IInv, LogTypeOK
<1>4. Grounded' /\ Fresh'
  BY DEF PowerLoss, Grounded, Fresh, PastOpening
<1>5. Joined'
  BY <1>2, <1>3 DEF Lines, Joined, PowerLoss
<1>6. QED  BY <1>4, <1>5 DEF Lines

LEMMA LinesStep == ASSUME IInv, Numbering, Lines, [LogNext]_logVars PROVE Lines'
<1>1. ASSUME NEW p \in Processes, Open(p) \/ AppendRecord(p) \/ LeaveLog(p)
      PROVE  Lines'
  BY <1>1, GroundedStep, FreshStep, JoinedStep DEF Lines
<1>2. CASE PowerLoss
  BY <1>2, LinesAfterPowerLoss
<1>3. CASE UNCHANGED logVars
  BY <1>3 DEF Lines, Grounded, Fresh, Joined, logVars
<1>4. QED  BY <1>1, <1>2, <1>3 DEF LogNext

(* However writes tear, an acknowledged record joins no fragment that its  *)
(* session found when it opened the log (RunningLog.open).                 *)
THEOREM OpeningKeepsLegible == LogSpec => []LegibleAfterOpening
<1>1. LogInit => Lines
  BY DEF LogInit, Lines, Grounded, Fresh, Joined, PastOpening
<1>2. IInv /\ Lines => LegibleAfterOpening
  <2> SUFFICES ASSUME IInv, Lines, NEW a \in acked
               PROVE  \E i \in DOMAIN file :
                         /\ IsRecord(i, a[1], a[2])
                         /\ i = 1 \/ file[i - 1].part # "head" \/ i - 1 > base[a[1]]
    BY DEF LegibleAfterOpening
  <2>1. PICK i \in 1 .. synced - 1 : IsRecord(i, a[1], a[2])
    BY DEF IInv, AckedIsDurable
  <2>2. i \in 1 .. Len(file) /\ i \in DOMAIN file
    BY <2>1 DEF IInv, LogTypeOK
  <2>3. file[i].part = "head" /\ file[i].session = a[1]
    BY <2>1 DEF IsRecord
  <2>4. i = 1 \/ file[i - 1].part # "head" \/ i - 1 > base[a[1]]
    BY <2>2, <2>3 DEF Lines, Joined, IInv, LogTypeOK
  <2>5. QED  BY <2>1, <2>2, <2>4
<1>3. IInv /\ Numbering /\ Lines /\ [LogNext]_logVars => Lines'
  BY LinesStep
<1>4. QED  BY <1>1, <1>2, <1>3, Invariance, AlwaysNumbered, PTL DEF LogSpec
=============================================================================
