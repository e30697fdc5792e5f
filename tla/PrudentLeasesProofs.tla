------------------------- MODULE PrudentLeasesProofs -------------------------
(***************************************************************************)
(* What holds of PrudentLeases for any finite set of slots, any runs and   *)
(* any number of requests: the counter counts, and the policy of a writer  *)
(* is the one that the requests it serves call for.                        *)
(***************************************************************************)
EXTENDS PrudentLeases, FiniteSetTheorems, TLAPS

(* The threads between leases += 1 and leases -= 1, and those of them that *)
(* set the policy.                                                         *)
Counted(k) == {i \in Slots : conn[i].phase \in {"counted", "held", "leaving"} /\ conn[i].at = k}
Granted(k) == {i \in Slots : conn[i].phase \in {"counted", "held"} /\ conn[i].at = k}

Tally(k) == leases[k] = Cardinality(Counted(k))

Policy(k) ==
    up[k] = "open" => /\ base[k] => policy[k]
                      /\ Granted(k) # {} => policy[k]
                      /\ policy[k] => base[k] \/ Counted(k) # {}

Deserted(k) == up[k] = "down" => Serving(k) = {}

Books == \A k \in Collectors : Tally(k) /\ Policy(k) /\ Deserted(k)

IInv == TypeOK /\ Books

-----------------------------------------------------------------------------
LEMMA CountedIsFinite ==
  ASSUME NEW k \in Collectors
  PROVE  /\ IsFiniteSet(Counted(k)) /\ Cardinality(Counted(k)) \in Nat
         /\ Cardinality(Counted(k)) = 0 <=> Counted(k) = {}
<1>1. Counted(k) \subseteq Slots
  BY DEF Counted
<1>2. IsFiniteSet(Counted(k))
  BY <1>1, PrudentLeasesAssumption, FS_Subset
<1>3. QED  BY <1>2, FS_CardinalityType, FS_EmptySet

LEMMA ConnectionFields ==
  ASSUME NEW e \in Connections \cup {Free}
  PROVE  /\ e.phase \in {"free", "asked", "counted", "held", "leaving"}
         /\ e.phase = "free" <=> e = Free
         /\ e.phase # "free" => e \in Connections /\ e.client \in Clients
                                /\ e.at \in Collectors /\ e.open \in BOOLEAN
  BY DEF Connections, Free

LEMMA InitIInv == Init => IInv
<1> SUFFICES ASSUME Init PROVE IInv
  OBVIOUS
<1>1. TypeOK
  <2>1. /\ up \in [Collectors -> {"open", "failed", "closing", "down"}]
        /\ base \in [Collectors -> BOOLEAN] /\ policy \in [Collectors -> BOOLEAN]
        /\ leases \in [Collectors -> Nat]
    BY DEF Init
  <2>2. /\ conn \in [Slots -> Connections \cup {Free}]
        /\ lease \in [Clients -> {"none", "asking", "held", "dead"}]
    BY DEF Init
  <2>3. wants \subseteq Runs /\ address \in [Runs -> Collectors]
    BY DEF Init, Collectors
  <2>4. asks \in 0 .. MaxAsks
    BY PrudentLeasesAssumption DEF Init
  <2>5. delegated \in BOOLEAN /\ needs \in BOOLEAN /\ sampler \in {"look", "need", "act"}
    BY DEF Init
  <2>6. QED  BY <2>1, <2>2, <2>3, <2>4, <2>5 DEF TypeOK
<1>2. ASSUME NEW k \in Collectors PROVE Tally(k) /\ Policy(k) /\ Deserted(k)
  <2>1. \A i \in Slots : conn[i].phase = "free"
    BY DEF Init, Free
  <2>2. Counted(k) = {} /\ Granted(k) = {} /\ Serving(k) = {}
    BY <2>1 DEF Counted, Granted, Serving
  <2>3. QED  BY <2>2, FS_EmptySet DEF Init, Tally, Policy, Deserted
<1>3. QED  BY <1>1, <1>2 DEF IInv, Books

(* A step that counts nothing and moves no policy keeps the books.         *)
LEMMA BooksStand ==
  ASSUME Books, NEW k \in Collectors,
         Counted(k)' = Counted(k), Granted(k)' \subseteq Granted(k),
         leases'[k] = leases[k], policy'[k] = policy[k], base' = base,
         \/ up'[k] = up[k] \/ up'[k] \in {"failed", "closing"},
         up[k] = "down" \/ up'[k] # "down",
         up'[k] = "down" => Serving(k)' \subseteq Serving(k)
  PROVE  (Tally(k) /\ Policy(k) /\ Deserted(k))'
  BY DEF Books, Tally, Policy, Deserted

(* Closing the client's end changes who is connected, not who is served.   *)
LEMMA HangStep ==
  ASSUME TypeOK, NEW c \in Clients, Hang(c)
  PROVE  /\ conn' \in [Slots -> Connections \cup {Free}]
         /\ lease' \in [Clients -> {"none", "asking", "held", "dead"}]
         /\ \A k \in Collectors : /\ Counted(k)' = Counted(k) /\ Granted(k)' = Granted(k)
                                  /\ Serving(k)' = Serving(k)
<1>1. ASSUME NEW i \in Slots
      PROVE  /\ conn'[i] \in Connections \cup {Free}
             /\ conn'[i].phase = conn[i].phase /\ conn'[i].at = conn[i].at
  <2>1. conn[i] \in Connections \cup {Free}
    BY DEF TypeOK
  <2>2. CASE i \in Open(c)
    <3>1. conn[i] \in Connections /\ conn'[i] = [conn[i] EXCEPT !.open = FALSE]
      BY <2>1, <2>2, ConnectionFields DEF Open, Hang
    <3>2. QED  BY <3>1 DEF Connections
  <2>3. CASE i \notin Open(c)
    BY <2>1, <2>3 DEF Hang
  <2>4. QED  BY <2>2, <2>3
<1>2. conn' \in [Slots -> Connections \cup {Free}]
  BY <1>1 DEF Hang
<1>3. lease' \in [Clients -> {"none", "asking", "held", "dead"}]
  BY DEF Hang, TypeOK
<1>4. QED  BY <1>1, <1>2, <1>3 DEF Counted, Granted, Serving

LEMMA AskStep ==
  ASSUME TypeOK, NEW c \in Clients, NEW a \in Collectors, Ask(c, a)
  PROVE  /\ conn' \in [Slots -> Connections \cup {Free}]
         /\ lease' \in [Clients -> {"none", "asking", "held", "dead"}]
         /\ up[a] \in {"open", "failed"}
         /\ \A k \in Collectors : /\ Counted(k)' = Counted(k) /\ Granted(k)' = Granted(k)
                                  /\ k # a => Serving(k)' = Serving(k)
<1>1. PICK i \in Slots :
        /\ conn[i] = Free
        /\ conn' = [conn EXCEPT ![i] = [client |-> c, at |-> a, phase |-> "asked", open |-> TRUE]]
  BY DEF Ask
<1>2. /\ conn[i].phase = "free" /\ conn'[i].phase = "asked" /\ conn'[i].at = a
      /\ conn'[i] \in Connections
      /\ \A j \in Slots : j # i => conn'[j] = conn[j]
  BY <1>1 DEF TypeOK, Free, Connections
<1>3. conn' \in [Slots -> Connections \cup {Free}]
  BY <1>1, <1>2 DEF TypeOK
<1>4. lease' \in [Clients -> {"none", "asking", "held", "dead"}] /\ up[a] \in {"open", "failed"}
  BY DEF Ask, TypeOK
<1>5. ASSUME NEW k \in Collectors
      PROVE  /\ Counted(k)' = Counted(k) /\ Granted(k)' = Granted(k)
             /\ k # a => Serving(k)' = Serving(k)
  BY <1>2 DEF Counted, Granted, Serving
<1>6. QED  BY <1>3, <1>4, <1>5
(* The runs and waiting clients.                                           *)
LEMMA RunStep ==
  ASSUME IInv,
         \/ \E r \in Runs : RunLooks(r) \/ RunAsks(r) \/ RunFails(r) \/ RunEnds(r)
         \/ \E c \in Clients : GiveUp(c)
  PROVE  IInv'
<1>1. UNCHANGED <<up, base, leases, policy, delegated, sampler, needs>>
  BY DEF RunLooks, RunAsks, RunFails, RunEnds, GiveUp, collectors, counted, relay
<1>2. /\ wants' \subseteq Runs /\ address' \in [Runs -> Collectors] /\ asks' \in 0 .. MaxAsks
      /\ \/ UNCHANGED <<conn, lease>>
         \/ \E c \in Clients : Hang(c) \/ \E a \in Collectors : up[a] # "down" /\ Ask(c, a)
  <2>1. CASE \E r \in Runs : RunLooks(r)
    BY <2>1 DEF RunLooks, IInv, TypeOK, Clients, Collectors
  <2>2. CASE \E r \in Runs : RunFails(r) \/ RunEnds(r)
    BY <2>2 DEF RunFails, RunEnds, IInv, TypeOK, Clients, runs
  <2>3. CASE \E c \in Clients : GiveUp(c)
    BY <2>3 DEF GiveUp, IInv, TypeOK, runs
  <2>4. CASE \E r \in Runs : RunAsks(r)
    <3>1. PICK r \in Runs : RunAsks(r)
      BY <2>4
    <3>2. r \in Clients /\ address[r] \in Collectors /\ Ask(r, address[r])
      BY <3>1 DEF RunAsks, IInv, TypeOK, Clients
    <3>3. asks' \in 0 .. MaxAsks
      BY <3>1, PrudentLeasesAssumption DEF RunAsks, IInv, TypeOK
    <3>4. up[address[r]] # "down"
      BY <3>2 DEF Ask
    <3>5. UNCHANGED <<wants, address>>
      BY <3>1 DEF RunAsks
    <3>6. QED  BY <3>2, <3>3, <3>4, <3>5 DEF IInv, TypeOK
  <2>5. QED  BY <2>1, <2>2, <2>3, <2>4
<1>3. /\ conn' \in [Slots -> Connections \cup {Free}]
      /\ lease' \in [Clients -> {"none", "asking", "held", "dead"}]
      /\ \A k \in Collectors : /\ Counted(k)' = Counted(k) /\ Granted(k)' = Granted(k)
                               /\ up[k] = "down" => Serving(k)' = Serving(k)
  <2>1. CASE UNCHANGED <<conn, lease>>
    BY <2>1 DEF IInv, TypeOK, Counted, Granted, Serving
  <2>2. CASE \E c \in Clients : Hang(c)
    BY <2>2, HangStep DEF IInv
  <2>3. CASE \E c \in Clients : \E a \in Collectors : up[a] # "down" /\ Ask(c, a)
    <3>1. PICK c \in Clients, a \in Collectors : up[a] # "down" /\ Ask(c, a)
      BY <2>3
    <3>2. QED  BY <3>1, AskStep DEF IInv
  <2>4. QED  BY <1>2, <2>1, <2>2, <2>3
<1>4. TypeOK'
  BY <1>1, <1>2, <1>3 DEF IInv, TypeOK
<1>5. ASSUME NEW k \in Collectors PROVE (Tally(k) /\ Policy(k) /\ Deserted(k))'
  BY <1>1, <1>3, BooksStand DEF IInv
<1>6. QED  BY <1>4, <1>5 DEF IInv, Books

(* The threads that serve.                                                 *)
LEMMA CountStep == ASSUME IInv, NEW i \in Slots, Count(i) PROVE IInv'
<1>0. PICK k \in Collectors : k = conn[i].at /\ conn[i] \in Connections
  BY ConnectionFields DEF Count, Release, IInv, TypeOK, Free
<1>1. /\ conn[i] \in Connections /\ conn[i].phase = "asked" /\ k \in Collectors
      /\ leases' = [leases EXCEPT ![k] = leases[k] + 1]
      /\ UNCHANGED <<up, base, lease, delegated, sampler, needs, wants, address, asks>>
  BY <1>0 DEF Count, IInv, TypeOK, collectors, relay, runs, Free
<1>2. /\ up[k] = "open" => /\ policy' = [policy EXCEPT ![k] = TRUE]
                           /\ conn' = [conn EXCEPT ![i].phase = "counted"]
      /\ up[k] # "open" => /\ conn' = [conn EXCEPT ![i].phase = "leaving"]
                           /\ policy' = policy
  BY <1>0 DEF Count
<1>3. /\ conn' \in [Slots -> Connections \cup {Free}]
      /\ conn'[i].phase = IF up[k] = "open" THEN "counted" ELSE "leaving"
      /\ conn'[i].at = k
      /\ \A j \in Slots : j # i => conn'[j] = conn[j]
  <2>1. conn \in [Slots -> Connections \cup {Free}]
    BY DEF IInv, TypeOK
  <2> DEFINE e == [conn[i] EXCEPT !.phase = IF up[k] = "open" THEN "counted" ELSE "leaving"]
  <2>2. conn' = [conn EXCEPT ![i] = e]
    BY <1>2, <2>1
  <2>3. e \in Connections /\ e.at = k /\ e.phase = IF up[k] = "open" THEN "counted" ELSE "leaving"
    BY <1>0, <1>1 DEF Connections
  <2> HIDE DEF e
  <2>4. QED  BY <2>1, <2>2, <2>3
<1>4. TypeOK'
  <2>1. policy' \in [Collectors -> BOOLEAN]
    BY <1>1, <1>2 DEF IInv, TypeOK
  <2>2. leases' \in [Collectors -> Nat]
    BY <1>1 DEF IInv, TypeOK
  <2>3. QED  BY <1>1, <1>3, <2>1, <2>2 DEF IInv, TypeOK
<1>5. ASSUME NEW j \in Collectors, j # k PROVE (Tally(j) /\ Policy(j) /\ Deserted(j))'
  <2>1. Counted(j)' = Counted(j) /\ Granted(j)' = Granted(j) /\ Serving(j)' = Serving(j)
    BY <1>0, <1>1, <1>3, <1>5 DEF Counted, Granted, Serving
  <2>2. leases'[j] = leases[j] /\ policy'[j] = policy[j]
    BY <1>1, <1>2, <1>5 DEF IInv, TypeOK
  <2>3. QED  BY <1>1, <2>1, <2>2, BooksStand DEF IInv
<1>6. (Tally(k) /\ Policy(k) /\ Deserted(k))'
  <2>1. i \notin Counted(k) /\ i \in Serving(k)
    BY <1>0, <1>1 DEF Counted, Serving
  <2>2. Counted(k)' = Counted(k) \cup {i}
    BY <1>0, <1>1, <1>3 DEF Counted
  <2>3. Tally(k)'
    <3>1. Cardinality(Counted(k) \cup {i}) = Cardinality(Counted(k)) + 1
      BY <1>1, <2>1, CountedIsFinite, FS_AddElement
    <3>2. leases'[k] = leases[k] + 1 /\ leases[k] = Cardinality(Counted(k))
      BY <1>1 DEF IInv, TypeOK, Books, Tally
    <3>3. QED  BY <2>2, <3>1, <3>2 DEF Tally
  <2>4. up[k] # "down"
    BY <1>1, <2>1 DEF IInv, Books, Deserted
  <2>5. Policy(k)'
    <3>1. CASE up[k] = "open"
      BY <1>1, <1>2, <2>2, <3>1 DEF Policy, IInv, TypeOK
    <3>2. CASE up[k] # "open"
      BY <1>1, <3>2 DEF Policy
    <3>3. QED  BY <3>1, <3>2
  <2>6. QED  BY <1>1, <2>3, <2>4, <2>5 DEF Deserted
<1>7. QED  BY <1>4, <1>5, <1>6 DEF IInv, Books

LEMMA ServeStep ==
  ASSUME IInv, NEW i \in Slots, Grant(i) \/ Deny(i) \/ HoldEnds(i)
  PROVE  IInv'
<1>1. /\ UNCHANGED <<up, base, leases, policy, delegated, sampler, needs, wants, address, asks>>
      /\ conn[i].phase \in {"counted", "held"}
      /\ \/ conn' = [conn EXCEPT ![i].phase = "held"] /\ conn[i].phase = "counted"
         \/ conn' = [conn EXCEPT ![i].phase = "leaving"]
  BY DEF Grant, Deny, HoldEnds, collectors, counted, relay, runs
<1>2. conn[i] \in Connections
  BY <1>1, ConnectionFields DEF IInv, TypeOK, Free
<1>3. /\ conn' \in [Slots -> Connections \cup {Free}]
      /\ conn'[i].at = conn[i].at /\ conn'[i].phase \in {"held", "leaving"}
      /\ \A j \in Slots : j # i => conn'[j] = conn[j]
  <2>1. conn \in [Slots -> Connections \cup {Free}]
    BY DEF IInv, TypeOK
  <2>2. ASSUME NEW ph \in {"held", "leaving"}
        PROVE  /\ [conn[i] EXCEPT !.phase = ph] \in Connections
               /\ [conn[i] EXCEPT !.phase = ph].at = conn[i].at
               /\ [conn[i] EXCEPT !.phase = ph].phase = ph
    BY <1>2 DEF Connections
  <2>3. PICK ph \in {"held", "leaving"} : conn' = [conn EXCEPT ![i] = [conn[i] EXCEPT !.phase = ph]]
    BY <1>1, <2>1
  <2> DEFINE e == [conn[i] EXCEPT !.phase = ph]
  <2>4. e \in Connections /\ e.at = conn[i].at /\ e.phase = ph /\ conn' = [conn EXCEPT ![i] = e]
    BY <2>2, <2>3
  <2> HIDE DEF e
  <2>5. QED  BY <2>1, <2>4
<1>4. lease' \in [Clients -> {"none", "asking", "held", "dead"}]
  BY DEF Grant, Deny, HoldEnds, IInv, TypeOK
<1>5. TypeOK'
  BY <1>1, <1>3, <1>4 DEF IInv, TypeOK
<1>6. ASSUME NEW k \in Collectors PROVE (Tally(k) /\ Policy(k) /\ Deserted(k))'
  <2>1. /\ Counted(k)' = Counted(k) /\ Granted(k)' \subseteq Granted(k)
        /\ Serving(k)' = Serving(k)
    BY <1>1, <1>3 DEF Counted, Granted, Serving
  <2>2. QED  BY <1>1, <2>1, BooksStand DEF IInv
<1>7. QED  BY <1>5, <1>6 DEF IInv, Books

LEMMA ReleaseStep == ASSUME IInv, NEW i \in Slots, Release(i) PROVE IInv'
<1>0. PICK k \in Collectors : k = conn[i].at /\ conn[i] \in Connections
  BY ConnectionFields DEF Count, Release, IInv, TypeOK, Free
<1>1. /\ conn[i] \in Connections /\ conn[i].phase = "leaving" /\ k \in Collectors
      /\ leases' = [leases EXCEPT ![k] = leases[k] - 1]
      /\ policy' = [policy EXCEPT ![k] = IF up[k] = "open" THEN base[k] \/ leases'[k] > 0
                                                         ELSE policy[k]]
      /\ conn' = [j \in Slots |-> IF j = i THEN Free ELSE conn[j]]
      /\ lease' \in [Clients -> {"none", "asking", "held", "dead"}]
      /\ UNCHANGED <<up, base, delegated, sampler, needs, wants, address, asks>>
  BY <1>0 DEF Release, Cut, IInv, TypeOK, collectors, relay, runs, Free
<1>2. i \in Counted(k)
  BY <1>0, <1>1 DEF Counted
<1>3. Counted(k)' = Counted(k) \ {i} /\ Granted(k)' = Granted(k) /\ Serving(k)' \subseteq Serving(k)
  BY <1>0, <1>1 DEF Counted, Granted, Serving, Free
<1>4. /\ leases[k] = Cardinality(Counted(k)) /\ leases[k] \in Nat
      /\ leases'[k] = leases[k] - 1
  BY <1>1 DEF IInv, TypeOK, Books, Tally
<1>5. /\ Cardinality(Counted(k) \ {i}) = Cardinality(Counted(k)) - 1
      /\ Cardinality(Counted(k) \ {i}) \in Nat
      /\ Cardinality(Counted(k) \ {i}) = 0 <=> Counted(k) \ {i} = {}
  <2>1. IsFiniteSet(Counted(k)) /\ IsFiniteSet(Counted(k) \ {i})
    BY <1>1, CountedIsFinite, FS_RemoveElement
  <2>2. QED  BY <1>2, <2>1, FS_RemoveElement, FS_CardinalityType, FS_EmptySet
<1>6. leases'[k] = Cardinality(Counted(k)') /\ leases'[k] \in Nat
      /\ (leases'[k] > 0 <=> Counted(k)' # {})
  BY <1>3, <1>4, <1>5
<1>7. TypeOK'
  <2>1. leases' \in [Collectors -> Nat]
    BY <1>1, <1>6 DEF IInv, TypeOK
  <2>2. policy' \in [Collectors -> BOOLEAN]
    BY <1>1 DEF IInv, TypeOK
  <2>3. conn' \in [Slots -> Connections \cup {Free}]
    BY <1>1 DEF IInv, TypeOK
  <2>4. QED  BY <1>1, <2>1, <2>2, <2>3 DEF IInv, TypeOK
<1>8. ASSUME NEW j \in Collectors, j # k PROVE (Tally(j) /\ Policy(j) /\ Deserted(j))'
  <2>1. Counted(j)' = Counted(j) /\ Granted(j)' = Granted(j) /\ Serving(j)' = Serving(j)
    BY <1>0, <1>1, <1>8 DEF Counted, Granted, Serving, Free
  <2>2. leases'[j] = leases[j] /\ policy'[j] = policy[j]
    BY <1>1, <1>8 DEF IInv, TypeOK
  <2>3. QED  BY <1>1, <2>1, <2>2, BooksStand DEF IInv
<1>9. (Tally(k) /\ Policy(k) /\ Deserted(k))'
  <2>1. Tally(k)'
    BY <1>6 DEF Tally
  <2>2. Granted(k)' \subseteq Counted(k)'
    BY DEF Granted, Counted
  <2>3. up'[k] = "open" => (policy'[k] <=> base'[k] \/ Counted(k)' # {})
    BY <1>1, <1>6 DEF IInv, TypeOK
  <2>4. Policy(k)'
    BY <2>2, <2>3 DEF Policy
  <2>5. Deserted(k)'
    BY <1>1, <1>3 DEF IInv, Books, Deserted
  <2>6. QED  BY <2>1, <2>4, <2>5
<1>10. QED  BY <1>7, <1>8, <1>9 DEF IInv, Books

(* The collectors.                                                         *)
LEMMA FailStep == ASSUME IInv, NEW a \in Collectors, StorageFails(a) \/ Closes(a) PROVE IInv'
<1>1. /\ UNCHANGED <<base, leases, policy, conn, lease, delegated, sampler, needs, wants, address, asks>>
      /\ up[a] \in {"open", "failed"}
      /\ \E u \in {"failed", "closing"} : up' = [up EXCEPT ![a] = u]
  BY DEF StorageFails, Closes, counted, relay, runs
<1>2. TypeOK'
  BY <1>1 DEF IInv, TypeOK
<1>3. /\ \A k \in Collectors : Counted(k)' = Counted(k) /\ Granted(k)' = Granted(k) /\ Serving(k)' = Serving(k)
  BY <1>1 DEF Counted, Granted, Serving
<1>5. ASSUME NEW k \in Collectors PROVE (Tally(k) /\ Policy(k) /\ Deserted(k))'
  <2>1. (up'[k] = up[k] \/ up'[k] \in {"failed", "closing"}) /\ (up[k] = "down" \/ up'[k] # "down")
    BY <1>1 DEF IInv, TypeOK
  <2>2. QED  BY <1>1, <1>3, <2>1, BooksStand DEF IInv
<1>4. QED  BY <1>2, <1>5 DEF IInv, Books

LEMMA StartStep == ASSUME IInv, NEW a \in Collectors, Starts(a) PROVE IInv'
<1>1. /\ UNCHANGED <<base, leases, conn, lease, delegated, sampler, needs, wants, address, asks>>
      /\ up[a] = "down" /\ up' = [up EXCEPT ![a] = "open"]
      /\ policy' = [policy EXCEPT ![a] = base[a]]
  BY DEF Starts, relay, runs
<1>2. TypeOK'
  BY <1>1 DEF IInv, TypeOK
<1>3. \A k \in Collectors : Counted(k)' = Counted(k) /\ Granted(k)' = Granted(k) /\ Serving(k)' = Serving(k)
  BY <1>1 DEF Counted, Granted, Serving
<1>4. Granted(a) = {}
  BY <1>1 DEF IInv, Books, Deserted, Serving, Granted
<1>5. ASSUME NEW k \in Collectors PROVE (Tally(k) /\ Policy(k) /\ Deserted(k))'
  <2>1. CASE k = a
    BY <1>1, <1>3, <1>4, <2>1 DEF IInv, TypeOK, Books, Tally, Policy, Deserted
  <2>2. CASE k # a
    <3>1. up'[k] = up[k] /\ policy'[k] = policy[k]
      BY <1>1, <2>2 DEF IInv, TypeOK
    <3>2. QED  BY <1>1, <1>3, <3>1, BooksStand DEF IInv
  <2>3. QED  BY <2>1, <2>2
<1>6. QED  BY <1>2, <1>5 DEF IInv, Books

LEMMA GoneStep == ASSUME IInv, NEW a \in Collectors, Gone(a) PROVE IInv'
<1>1. /\ UNCHANGED <<base, policy, wants, address, asks>>
      /\ up' = [up EXCEPT ![a] = "down"] /\ leases' = [leases EXCEPT ![a] = 0]
      /\ delegated' \in BOOLEAN /\ needs' \in BOOLEAN /\ sampler' \in {"look", "need", "act"}
  BY DEF Gone, runs, relay, IInv, TypeOK
<1>2. lease' \in [Clients -> {"none", "asking", "held", "dead"}]
  BY DEF Gone, IInv, TypeOK
<1> DEFINE mine == IF a = "local" THEN Open(Upstream) ELSE {}
<1>3. conn' = [i \in Slots |-> IF i \in Serving(a) THEN Free
                              ELSE IF i \in mine THEN [conn[i] EXCEPT !.open = FALSE]
                              ELSE conn[i]]
  BY DEF Gone
<1>4. ASSUME NEW i \in Slots
      PROVE  /\ conn'[i] \in Connections \cup {Free}
             /\ i \in Serving(a) => conn'[i].phase = "free"
             /\ i \notin Serving(a) => conn'[i].phase = conn[i].phase /\ conn'[i].at = conn[i].at
  <2>1. conn[i] \in Connections \cup {Free}
    BY DEF IInv, TypeOK
  <2>2. CASE i \in Serving(a)
    BY <1>3, <2>2 DEF Free
  <2>3. CASE i \notin Serving(a) /\ i \in mine
    <3>1. conn[i].phase # "free"
      BY <2>3 DEF Open
    <3>2. conn[i] \in Connections /\ conn'[i] = [conn[i] EXCEPT !.open = FALSE]
      BY <1>3, <2>1, <2>3, <3>1, ConnectionFields
    <3>3. QED  BY <2>3, <3>2 DEF Connections
  <2>4. CASE i \notin Serving(a) /\ i \notin mine
    BY <1>3, <2>1, <2>4
  <2>5. QED  BY <2>2, <2>3, <2>4
<1>5. conn' \in [Slots -> Connections \cup {Free}]
  BY <1>3, <1>4
<1>6. TypeOK'
  BY <1>1, <1>2, <1>5 DEF IInv, TypeOK
<1>7. ASSUME NEW k \in Collectors PROVE (Tally(k) /\ Policy(k) /\ Deserted(k))'
  <2>1. CASE k = a
    <3>1. Counted(k)' = {} /\ Serving(k)' = {}
      BY <1>4, <2>1 DEF Counted, Serving
    <3>2. leases'[k] = 0 /\ up'[k] = "down"
      BY <1>1, <2>1 DEF IInv, TypeOK
    <3>3. QED  BY <3>1, <3>2, FS_EmptySet DEF Tally, Policy, Deserted
  <2>2. CASE k # a
    <3>1. Counted(k)' = Counted(k) /\ Granted(k)' = Granted(k) /\ Serving(k)' = Serving(k)
      BY <1>4, <2>2 DEF Counted, Granted, Serving
    <3>2. leases'[k] = leases[k] /\ up'[k] = up[k]
      BY <1>1, <2>2 DEF IInv, TypeOK
    <3>3. QED  BY <1>1, <3>1, <3>2, BooksStand DEF IInv
  <2>3. QED  BY <2>1, <2>2
<1>8. QED  BY <1>6, <1>7 DEF IInv, Books

(* The sampling loop that relays.                                          *)
LEMMA SamplerStep == ASSUME IInv, Sampler PROVE IInv'
<1>1. /\ UNCHANGED <<base, leases, policy, wants, address, asks>>
      /\ delegated' \in BOOLEAN /\ needs' \in BOOLEAN /\ sampler' \in {"look", "need", "act"}
  <2>1. UNCHANGED <<base, leases, policy, wants, address, asks>>
    BY DEF Sampler, SamplerLooks, SamplerFails, SamplerNeeds, SamplerActs,
           collectors, counted, runs
  <2>2. delegated \in BOOLEAN /\ needs \in BOOLEAN /\ sampler \in {"look", "need", "act"}
    BY DEF IInv, TypeOK
  <2>3. sampler' \in {"look", "need", "act"}
    BY <2>2 DEF Sampler, SamplerLooks, SamplerFails, SamplerNeeds, SamplerActs, relay
  <2>4. delegated' = delegated \/ delegated' = (up["svc"] = "open")
    BY DEF Sampler, SamplerLooks, SamplerFails, SamplerNeeds, SamplerActs, relay
  <2>5. needs' = needs \/ needs' = (base["local"] \/ leases["local"] > 0)
    BY DEF Sampler, SamplerLooks, SamplerFails, SamplerNeeds, SamplerActs, relay
  <2>6. delegated' \in BOOLEAN
    BY <2>2, <2>4, Zenon
  <2>7. needs' \in BOOLEAN
    BY <2>2, <2>5, Zenon
  <2>8. QED  BY <2>1, <2>3, <2>6, <2>7
<1>2. /\ up' \in [Collectors -> {"open", "failed", "closing", "down"}]
      /\ \A k \in Collectors : /\ up'[k] = up[k] \/ up'[k] \in {"failed", "closing"}
                               /\ up[k] = "down" <=> up'[k] = "down"
  BY DEF Sampler, SamplerLooks, SamplerFails, SamplerNeeds, SamplerActs, collectors,
         IInv, TypeOK, Collectors
<1>3. \/ UNCHANGED <<conn, lease>>
      \/ Hang(Upstream)
      \/ Ask(Upstream, "svc")
  BY DEF Sampler, SamplerLooks, SamplerFails, SamplerNeeds, SamplerActs
<1>4. Upstream \in Clients /\ "svc" \in Collectors
  BY DEF Clients, Collectors
<1>5. /\ conn' \in [Slots -> Connections \cup {Free}]
      /\ lease' \in [Clients -> {"none", "asking", "held", "dead"}]
      /\ \A k \in Collectors : /\ Counted(k)' = Counted(k) /\ Granted(k)' = Granted(k)
                               /\ up[k] = "down" => Serving(k)' = Serving(k)
  <2>1. CASE UNCHANGED <<conn, lease>>
    BY <2>1 DEF IInv, TypeOK, Counted, Granted, Serving
  <2>2. CASE Hang(Upstream)
    BY <1>4, <2>2, HangStep DEF IInv
  <2>3. CASE Ask(Upstream, "svc")
    BY <1>4, <2>3, AskStep DEF IInv
  <2>4. QED  BY <1>3, <2>1, <2>2, <2>3
<1>6. TypeOK'
  BY <1>1, <1>2, <1>5 DEF IInv, TypeOK
<1>7. ASSUME NEW k \in Collectors PROVE (Tally(k) /\ Policy(k) /\ Deserted(k))'
  BY <1>1, <1>2, <1>5, BooksStand DEF IInv
<1>8. QED  BY <1>6, <1>7 DEF IInv, Books

LEMMA NextKeepsIInv == IInv /\ [Next]_vars => IInv'
<1> SUFFICES ASSUME IInv, [Next]_vars PROVE IInv'
  OBVIOUS
<1>1. CASE \/ \E r \in Runs : RunLooks(r) \/ RunAsks(r) \/ RunFails(r) \/ RunEnds(r)
           \/ \E c \in Clients : GiveUp(c)
  BY <1>1, RunStep
<1>2. CASE \E i \in Slots : Serve(i)
  BY <1>2, CountStep, ServeStep, ReleaseStep DEF Serve
<1>3. CASE \E k \in Collectors : StorageFails(k) \/ Closes(k) \/ Gone(k) \/ Starts(k)
  BY <1>3, FailStep, GoneStep, StartStep
<1>4. CASE Sampler
  BY <1>4, SamplerStep
<1>5. CASE UNCHANGED vars
  <2>1. /\ UNCHANGED <<up, base, leases, policy, conn, lease, wants, address, delegated, sampler,
                       needs, asks>>
    BY <1>5 DEF vars, collectors, counted, relay, runs
  <2>2. QED
    BY <2>1 DEF IInv, TypeOK, Books, Tally, Policy, Deserted, Counted, Granted, Serving
<1>6. QED  BY <1>1, <1>2, <1>3, <1>4, <1>5 DEF Next

THEOREM Invariance == Spec => []IInv
<1>1. Init => IInv
  BY InitIInv
<1>2. IInv /\ [Next]_vars => IInv'
  BY NextKeepsIInv
<1>3. QED  BY <1>1, <1>2, PTL DEF Spec

-----------------------------------------------------------------------------
(* Every variable has a value of its kind; in particular no release takes  *)
(* the counter of a collector below zero.                                  *)
THEOREM TypeCorrect == Spec => []TypeOK
<1>1. IInv => TypeOK
  BY DEF IInv
<1>2. QED  BY <1>1, Invariance, PTL

(* The counter of a collector is the number of threads between leases += 1 *)
(* and leases -= 1, through every failure, refusal, kill and new start.    *)
THEOREM CounterCounts == Spec => [](\A k \in Collectors : Tally(k))
<1>1. IInv => \A k \in Collectors : Tally(k)
  BY DEF IInv, Books
<1>2. QED  BY <1>1, Invariance, PTL

(* The policy of a writer is the one of its start, or prudent while a      *)
(* request is served: granted requests are honoured, the start-up policy   *)
(* stands, and nothing is left over when the last request is gone.         *)
THEOREM PolicyIsThatOfRequests == Spec => []PolicyFollowsRequests
<1>1. IInv => PolicyFollowsRequests
  <2> SUFFICES ASSUME IInv PROVE PolicyFollowsRequests
    OBVIOUS
  <2>1. RequestsHonoured
    <3> SUFFICES ASSUME NEW i \in Slots, conn[i].phase = "held", up[conn[i].at] = "open"
                 PROVE  policy[conn[i].at]
      BY DEF RequestsHonoured
    <3>1. conn[i].at \in Collectors /\ i \in Granted(conn[i].at)
      BY ConnectionFields DEF IInv, TypeOK, Granted
    <3>2. QED  BY <3>1 DEF IInv, Books, Policy
  <2>2. StartupPolicyStands
    BY DEF IInv, Books, Policy, StartupPolicyStands
  <2>3. NothingLeftOver
    <3> SUFFICES ASSUME NEW k \in Collectors, up[k] = "open", Serving(k) = {}
                 PROVE  policy[k] = base[k]
      BY DEF NothingLeftOver
    <3>1. Counted(k) = {}
      BY DEF Counted, Serving
    <3>2. policy[k] \in BOOLEAN /\ base[k] \in BOOLEAN
      BY DEF IInv, TypeOK
    <3>3. policy[k] <=> base[k]
      BY <3>1 DEF IInv, Books, Policy
    <3>4. QED  BY <3>2, <3>3
  <2>4. QED  BY <2>1, <2>2, <2>3 DEF PolicyFollowsRequests
<1>2. QED  BY <1>1, Invariance, PTL
=============================================================================
