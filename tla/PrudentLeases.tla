---------------------------- MODULE PrudentLeases ----------------------------
(***************************************************************************)
(* --prudent-writes: a run asks the collector that records for it to       *)
(* commit every update at once.  The request is a connection; it lasts as  *)
(* long as the connection does.  A collector counts the requests it        *)
(* serves, each on a thread of its own, and sets the policy of its writer  *)
(* from the count.  A local collector that delegates to the service makes  *)
(* one request there on behalf of those it serves.                         *)
(***************************************************************************)
EXTENDS Naturals, FiniteSets

CONSTANTS
    Runs,      \* foreground runs that ask for prudent writes
    Upstream,  \* the local collector as a client of the service
    Slots,     \* the connections that can be served at a time (client_slots)
    TimeOuts,  \* may a flush or a waiting client run into its deadline?
    MaxAsks    \* bound of the model on requests made by runs

Clients == Runs \cup {Upstream}

Collectors == {"svc", "local"}

ASSUME PrudentLeasesAssumption ==
    /\ Upstream \notin Runs
    /\ IsFiniteSet(Slots)
    /\ TimeOuts \in BOOLEAN
    /\ MaxAsks \in Nat

VARIABLES
    up,         \* a collector: "open", "failed" (storage), "closing" or "down"
    base,       \* base_prudent, the policy it was started with
    leases,     \* leases, its counter
    policy,     \* _prudent of its writer
    conn,       \* what serves each slot: client, collector, phase of _client,
                \* and whether the client's end is open
    lease,      \* a client's request: "none", "asking", "held" or "dead"
    wants,      \* the runs that still want prudent writes
    address,    \* ForegroundRecorder.address
    delegated,  \* _Collector.delegated of the local collector
    sampler,    \* its sampling loop: "look", "need" or "act"
    needs,      \* needs_prudent, as that loop last read it
    asks        \* requests made by runs so far

collectors == <<up, base>>
counted == <<leases, policy>>
relay == <<delegated, sampler, needs>>
runs == <<wants, address, asks>>
vars == <<collectors, counted, conn, lease, relay, runs>>

Free == [phase |-> "free"]

Serving(k) == {i \in Slots : conn[i].phase # "free" /\ conn[i].at = k}

Open(c) == {i \in Slots : conn[i].phase # "free" /\ conn[i].client = c /\ conn[i].open}

Init ==
    /\ up = [k \in Collectors |-> "open"]
    /\ base \in [Collectors -> BOOLEAN] /\ policy = base
    /\ leases = [k \in Collectors |-> 0]
    /\ conn = [i \in Slots |-> Free]
    /\ lease = [c \in Clients |-> "none"]
    /\ wants = Runs /\ address = [r \in Runs |-> "svc"]
    /\ delegated = FALSE /\ sampler = "look" /\ needs = FALSE
    /\ asks = 0

-----------------------------------------------------------------------------
(* PrudentLease, the client's end of a request.                            *)

(* Connecting is refused when nobody listens, and cut off at once when all *)
(* slots are taken.                                                        *)
Ask(c, k) ==
    /\ lease[c] = "none"
    /\ up[k] \in {"open", "failed"}
    /\ \E i \in Slots :
        /\ conn[i] = Free
        /\ conn' = [conn EXCEPT ![i] = [client |-> c, at |-> k, phase |-> "asked", open |-> TRUE]]
    /\ lease' = [lease EXCEPT ![c] = "asking"]

(* close(), or the end of the client's process.                            *)
Hang(c) ==
    /\ conn' = [i \in Slots |-> IF i \in Open(c) THEN [conn[i] EXCEPT !.open = FALSE]
                                                 ELSE conn[i]]
    /\ lease' = [lease EXCEPT ![c] = "none"]

(* A request that was not answered within its deadline is closed.          *)
GiveUp(c) ==
    /\ lease[c] = "asking" /\ (TimeOuts \/ Open(c) = {})
    /\ Hang(c)
    /\ UNCHANGED <<collectors, counted, relay, runs>>

(* ForegroundRecorder._run: a lease that is dead or held elsewhere is      *)
(* closed, and a new one requested.                                        *)
RunLooks(r) ==
    /\ lease[r] # "asking" /\ r \in wants
    /\ address' = [address EXCEPT ![r] = IF up["svc"] = "open" THEN "svc" ELSE "local"]
    /\ IF lease[r] = "dead" \/ address'[r] # address[r]
         THEN Hang(r) ELSE UNCHANGED <<conn, lease>>
    /\ UNCHANGED <<collectors, counted, relay, wants, asks>>

RunAsks(r) ==
    /\ r \in wants /\ asks < MaxAsks
    /\ asks' = asks + 1
    /\ Ask(r, address[r])
    /\ UNCHANGED <<collectors, counted, relay, wants, address>>

(* Any other request of the run that fails closes its lease as well.       *)
RunFails(r) ==
    /\ r \in wants /\ lease[r] \in {"held", "dead"}
    /\ TimeOuts \/ up[address[r]] # "open"
    /\ Hang(r)
    /\ UNCHANGED <<collectors, counted, relay, runs>>

RunEnds(r) ==
    /\ r \in wants
    /\ wants' = wants \ {r}
    /\ Hang(r)
    /\ UNCHANGED <<collectors, counted, relay, address, asks>>

-----------------------------------------------------------------------------
(* _Collector._client, the thread that serves one request.                 *)

(* Under the lock: leases += 1, and set_prudent, which raises when the     *)
(* writer has failed or is closing.                                        *)
Count(i) ==
    LET k == conn[i].at
    IN /\ conn[i].phase = "asked"
       /\ leases' = [leases EXCEPT ![k] = @ + 1]
       /\ IF up[k] = "open"
            THEN /\ policy' = [policy EXCEPT ![k] = TRUE]
                 /\ conn' = [conn EXCEPT ![i].phase = "counted"]
            ELSE /\ conn' = [conn EXCEPT ![i].phase = "leaving"] /\ UNCHANGED policy
       /\ UNCHANGED <<collectors, lease, relay, runs>>

(* The writer has committed what it held; the request is answered.         *)
Grant(i) ==
    /\ conn[i].phase = "counted" /\ up[conn[i].at] # "failed"
    /\ conn' = [conn EXCEPT ![i].phase = "held"]
    /\ lease' = IF conn[i].open THEN [lease EXCEPT ![conn[i].client] = "held"] ELSE lease
    /\ UNCHANGED <<collectors, counted, relay, runs>>

Deny(i) ==
    /\ conn[i].phase = "counted" /\ (up[conn[i].at] = "failed" \/ TimeOuts)
    /\ conn' = [conn EXCEPT ![i].phase = "leaving"]
    /\ UNCHANGED <<collectors, counted, lease, relay, runs>>

(* recv() returns nothing, or the collector stops.                         *)
HoldEnds(i) ==
    /\ conn[i].phase = "held"
    /\ ~conn[i].open \/ up[conn[i].at] = "closing"
    /\ conn' = [conn EXCEPT ![i].phase = "leaving"]
    /\ UNCHANGED <<collectors, counted, lease, relay, runs>>

(* A connection closed by the collector: the client's end reads dead.      *)
Cut(gone) ==
    LET cut == {conn[i].client : i \in {j \in gone : conn[j].open}}
    IN /\ conn' = [i \in Slots |-> IF i \in gone THEN Free ELSE conn[i]]
       /\ lease' = [c \in Clients |-> IF c \in cut THEN "dead" ELSE lease[c]]

(* Defect: the last word on the policy is that of whoever leaves.          *)
ReleaseForAll(i) ==
    LET k == conn[i].at
    IN /\ conn[i].phase = "leaving"
       /\ leases' = [leases EXCEPT ![k] = @ - 1]
       /\ policy' = [policy EXCEPT ![k] = IF up[k] = "open" THEN base[k] ELSE @]
       /\ Cut({i})
       /\ UNCHANGED <<collectors, relay, runs>>

(* The finally clause, under the lock.                                     *)
Release(i) ==
    LET k == conn[i].at
    IN /\ conn[i].phase = "leaving"
       /\ leases' = [leases EXCEPT ![k] = @ - 1]
       /\ policy' = [policy EXCEPT ![k] = IF up[k] = "open" THEN base[k] \/ leases'[k] > 0 ELSE @]
       /\ Cut({i})
       /\ UNCHANGED <<collectors, relay, runs>>

Serve(i) == Count(i) \/ Grant(i) \/ Deny(i) \/ HoldEnds(i) \/ Release(i)

-----------------------------------------------------------------------------
(* The collectors: storage fails, close(), kill, and a new start.          *)

StorageFails(k) ==
    /\ up[k] = "open"
    /\ up' = [up EXCEPT ![k] = "failed"]
    /\ UNCHANGED <<base, counted, conn, lease, relay, runs>>

Closes(k) ==
    /\ up[k] \in {"open", "failed"}
    /\ up' = [up EXCEPT ![k] = "closing"]
    /\ UNCHANGED <<base, counted, conn, lease, relay, runs>>

(* The process is gone: the kernel closes every connection it had, and the *)
(* request a local collector has made at the service ends with it.         *)
Gone(k) ==
    /\ up[k] # "down"
    /\ up' = [up EXCEPT ![k] = "down"]
    /\ leases' = [leases EXCEPT ![k] = 0]
    /\ LET cut == {conn[i].client : i \in {j \in Serving(k) : conn[j].open}}
           mine == IF k = "local" THEN Open(Upstream) ELSE {}
       IN /\ conn' = [i \in Slots |->
                        IF i \in Serving(k) THEN Free
                        ELSE IF i \in mine THEN [conn[i] EXCEPT !.open = FALSE] ELSE conn[i]]
          /\ lease' = [c \in Clients |->
                         IF k = "local" /\ c = Upstream THEN "none"
                         ELSE IF c \in cut THEN "dead" ELSE lease[c]]
    /\ IF k = "local"
         THEN delegated' = FALSE /\ sampler' = "look" /\ needs' = FALSE
         ELSE UNCHANGED relay
    /\ UNCHANGED <<base, policy, runs>>

Starts(k) ==
    /\ up[k] = "down"
    /\ up' = [up EXCEPT ![k] = "open"]
    /\ policy' = [policy EXCEPT ![k] = base[k]]
    /\ UNCHANGED <<base, leases, conn, lease, relay, runs>>

-----------------------------------------------------------------------------
(* The sampling loop of the local collector: _sample_loop_inner.           *)

Sampling == up["local"] \in {"open", "failed"} /\ lease[Upstream] # "asking"

SamplerLooks ==
    /\ Sampling /\ sampler = "look"
    /\ delegated' = (up["svc"] = "open")
    /\ up["local"] = "failed" => delegated' = delegated
    /\ sampler' = IF delegated' THEN "need" ELSE "look"
    /\ IF ~delegated' /\ lease[Upstream] # "none"
         THEN Hang(Upstream) ELSE UNCHANGED <<conn, lease>>
    /\ UNCHANGED <<collectors, counted, needs, runs>>

(* _set_delegated flushes first; when that fails the loop, and with it the *)
(* collector, stops.                                                       *)
SamplerFails ==
    /\ Sampling /\ sampler = "look"
    /\ up["local"] = "failed" /\ delegated # (up["svc"] = "open")
    /\ up' = [up EXCEPT !["local"] = "closing"]
    /\ UNCHANGED <<base, counted, conn, lease, relay, runs>>

(* Defect: only the policy of the start is passed on.                      *)
SamplerNeedsBase ==
    /\ Sampling /\ sampler = "need"
    /\ needs' = base["local"]
    /\ sampler' = "act"
    /\ IF lease[Upstream] = "dead" THEN Hang(Upstream) ELSE UNCHANGED <<conn, lease>>
    /\ UNCHANGED <<collectors, counted, delegated, runs>>

SamplerNeeds ==
    /\ Sampling /\ sampler = "need"
    /\ needs' = (base["local"] \/ leases["local"] > 0)
    /\ sampler' = "act"
    /\ IF lease[Upstream] = "dead" THEN Hang(Upstream) ELSE UNCHANGED <<conn, lease>>
    /\ UNCHANGED <<collectors, counted, delegated, runs>>

(* Defect: a request upstream is kept until recording returns.             *)
SamplerActsOnce ==
    /\ Sampling /\ sampler = "act"
    /\ sampler' = "look"
    /\ \/ needs /\ lease[Upstream] = "none" /\ Ask(Upstream, "svc")
       \/ (lease[Upstream] # "none" \/ ~needs \/ up["svc"] \notin {"open", "failed"})
          /\ UNCHANGED <<conn, lease>>
    /\ UNCHANGED <<collectors, counted, delegated, needs, runs>>

(* The request is made, dropped, or left as it is; it may be refused.      *)
SamplerActs ==
    /\ Sampling /\ sampler = "act"
    /\ sampler' = "look"
    /\ \/ needs /\ lease[Upstream] = "none" /\ Ask(Upstream, "svc")
       \/ /\ needs
          /\ lease[Upstream] # "none" \/ up["svc"] \notin {"open", "failed"}
                                      \/ \A i \in Slots : conn[i] # Free
          /\ UNCHANGED <<conn, lease>>
       \/ ~needs /\ Hang(Upstream)
    /\ UNCHANGED <<collectors, counted, delegated, needs, runs>>

Sampler == SamplerLooks \/ SamplerFails \/ SamplerNeeds \/ SamplerActs

Next ==
    \/ \E r \in Runs : RunLooks(r) \/ RunAsks(r) \/ RunFails(r) \/ RunEnds(r)
    \/ \E c \in Clients : GiveUp(c)
    \/ \E i \in Slots : Serve(i)
    \/ \E k \in Collectors : StorageFails(k) \/ Closes(k) \/ Gone(k) \/ Starts(k)
    \/ Sampler

(* The threads of the collectors run; a client whose connection is cut     *)
(* while it waits stops waiting.                                           *)
Fairness ==
    /\ \A i \in Slots : WF_vars(Serve(i))
    /\ \A c \in Clients : WF_vars(Open(c) = {} /\ GiveUp(c))
    /\ WF_vars(Sampler)

Spec == Init /\ [][Next]_vars /\ Fairness

-----------------------------------------------------------------------------
Connections ==
    [client : Clients, at : Collectors, open : BOOLEAN,
     phase : {"asked", "counted", "held", "leaving"}]

(* Every variable has a value of its kind; the counters do not go below    *)
(* zero.                                                                   *)
TypeOK ==
    /\ up \in [Collectors -> {"open", "failed", "closing", "down"}]
    /\ base \in [Collectors -> BOOLEAN] /\ policy \in [Collectors -> BOOLEAN]
    /\ leases \in [Collectors -> Nat]
    /\ conn \in [Slots -> Connections \cup {Free}]
    /\ lease \in [Clients -> {"none", "asking", "held", "dead"}]
    /\ wants \subseteq Runs /\ address \in [Runs -> Collectors]
    /\ delegated \in BOOLEAN /\ needs \in BOOLEAN
    /\ sampler \in {"look", "need", "act"} /\ asks \in 0 .. MaxAsks

(* "Multiple requesting runs combine": as long as one client holds a       *)
(* request that was granted, its collector writes prudently, whoever else  *)
(* comes, goes, fails or is refused.                                       *)
RequestsHonoured ==
    \A i \in Slots :
        conn[i].phase = "held" /\ conn[i].open /\ up[conn[i].at] = "open" => policy[conn[i].at]

(* "A collector's startup prudent policy cannot be disabled by a client."  *)
StartupPolicyStands == \A k \in Collectors : up[k] = "open" /\ base[k] => policy[k]

(* "Disconnect/crash releases each request": when no thread serves a       *)
(* request any more, the writer is back at the policy of its start.        *)
NothingLeftOver ==
    \A k \in Collectors : up[k] = "open" /\ Serving(k) = {} => policy[k] = base[k]

(* The policy of a writer is that of its start, or the prudent one while   *)
(* anyone asks for it, whoever else comes, goes, fails, is refused or      *)
(* leaves the slot to another.                                             *)
PolicyFollowsRequests == RequestsHonoured /\ StartupPolicyStands /\ NothingLeftOver

(* A request held at a collector that delegates reaches the service.       *)
RelayedInTheEnd ==
    LET relaying == up["local"] = "open" /\ delegated
                    /\ \E i \in Slots : conn[i].phase = "held" /\ conn[i].open
                                        /\ conn[i].at = "local"
    IN relaying ~> ~relaying \/ up["svc"] # "open" \/ policy["svc"]

(* When the last request at the local collector is gone, the service is    *)
(* not kept prudent on its behalf.                                         *)
UpstreamFollows ==
    LET idle == up["local"] = "open" /\ ~base["local"] /\ leases["local"] = 0
    IN lease[Upstream] = "held" /\ idle ~> lease[Upstream] # "held" \/ ~idle
=============================================================================
