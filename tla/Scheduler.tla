----------------------------- MODULE Scheduler ------------------------------
(* The distributed scheduler (etcd/scheduler/scheduler.go), the "rr"         *)
(* strategy (scheduler/rrstrategy.go) and what the schedule resource and the *)
(* engine do with it (engine/resources/schedule.go, engine/graph/            *)
(* background.go): hosts vote for themselves with a key in etcd, and the     *)
(* elected host picks some of those that have a vote.  One namespace.        *)
EXTENDS Election

CONSTANTS
    Order,      \* the hosts as sort.Strings has them
    Persist,    \* hosts whose resource has persist
    TTL,        \* hosts whose resource has a ttl
    MaxCount,   \* the max of the resources: how many hosts are picked
    MaxSwaps,   \* bound: how often a host gets a new graph
    MaxFaults   \* bound: how often something fails

ASSUME SchedulerAssumption ==
    /\ Order \in Seq(Host) /\ Range(Order) = Host /\ IsInjective(Order)
    /\ Persist \subseteq Host /\ TTL \subseteq Host /\ Persist \cap TTL = {}
    /\ MaxCount \in Nat \ {0} /\ MaxSwaps \in Nat /\ MaxFaults \in Nat

VARIABLES
    vote,       \* the key of each host: "none", "leased", "forever" or, with a lease
                \* that nobody renews, "orphan"
    schedule,   \* the decision that is stored
    loop,       \* Scheduler of each host: "off", "wait", "decide", "exit" and
                \* "die" while it returns, "dead" if it returned on its own
    hostEv,     \* hosts whose hostnameChan has an event
    snap,       \* what getData of the host returned
    cache,      \* rrStrategy.hosts
    session,    \* schedulerSessions: "none", "open" or expired, "done"
    requests,   \* hosts whose cleanupRequests has the namespace
    exited,     \* hosts whose schedulerExited is set
    stuck,      \* hosts whose schedulerMutex is never unlocked again
    res,        \* the schedule resource of the host: "none", "add" or "withdraw"
    next,       \* what it is after the swap
    swap,       \* the swap: "no", "clean", "enter" or "stop"
    due,        \* hosts whose CheckApply has to run
    swaps, faults,
    usurped,    \* history: a decision was stored by a host that did not hold the election
    voteLost    \* history: a vote was lost or could not be cast, with its resource in place

etcdVars == <<vote, schedule, hostEv>>
leaderVars == <<snap, cache>>
apparatusVars == <<session, requests, exited, stuck>>
resVars == <<res, next, swap, due>>
boundVars == <<swaps, faults>>
historyVars == <<usurped, voteLost>>
vars == <<electionVars, etcdVars, loop, leaderVars, apparatusVars, resVars, boundVars, historyVars>>

\* hosts start with or without a schedule resource in their first graph
Init ==
    /\ ElectionInit
    /\ vote = [h \in Host |-> "none"] /\ schedule = {} /\ hostEv = {}
    /\ loop = [h \in Host |-> "off"]
    /\ snap = [h \in Host |-> {}] /\ cache = [h \in Host |-> <<>>]
    /\ session = [h \in Host |-> "none"] /\ requests = {} /\ exited = {} /\ stuck = {}
    /\ res = [h \in Host |-> "none"] /\ next \in [Host -> {"none", "add"}]
    /\ swap = [h \in Host |-> IF next[h] = "none" THEN "no" ELSE "enter"]
    /\ due = {}
    /\ swaps = 0 /\ faults = 0 /\ usurped = FALSE /\ voteLost = FALSE

Voters == {h \in Host : vote[h] # "none"}
Looping == {h \in Host : loop[h] \in {"wait", "decide"}}

\* the schedulers that do something when they see a vote change
Watching == {h \in Looping : elected[h] = h}

\* a vote changes, and the schedulers that watch see it
SetVote(h, v) ==
    /\ vote' = [vote EXCEPT ![h] = v]
    /\ hostEv' = IF v = vote[h] THEN hostEv ELSE hostEv \cup Watching

Goto(h, place) == loop' = [loop EXCEPT ![h] = place]
Fault == faults < MaxFaults /\ faults' = faults + 1

-----------------------------------------------------------------------------
(* Scheduler. *)

\* mutant: namespaces are those of the votes
VotesOnly(h, isElected) ==
    IF isElected /\ Voters # {}
      THEN Goto(h, "decide") /\ snap' = [snap EXCEPT ![h] = Voters]
      ELSE UNCHANGED <<loop, snap>>
\* what follows an event: the elected host gets the data; a namespace without a
\* vote and without a decision is not in it
getData(h, isElected) ==
    IF isElected /\ (Voters # {} \/ schedule # {})
      THEN Goto(h, "decide") /\ snap' = [snap EXCEPT ![h] = Voters]
      ELSE UNCHANGED <<loop, snap>>

\* the strategy is forgotten when another host is elected
Invalidated(h) == IF elected'[h] # h THEN <<>> ELSE cache[h]

ElectionEvent(h) ==
    /\ loop[h] = "wait" /\ (TellStartup(h) \/ TellLeader(h))
    /\ getData(h, elected'[h] = h)
    /\ cache' = [cache EXCEPT ![h] = Invalidated(h)]
    /\ UNCHANGED <<etcdVars, apparatusVars, resVars, boundVars, historyVars>>

HostnameEvent(h) ==
    /\ loop[h] = "wait" /\ h \in hostEv
    /\ hostEv' = hostEv \ {h}
    /\ getData(h, elected[h] = h)
    /\ UNCHANGED <<electionVars, vote, schedule, cache, apparatusVars, resVars, boundVars, historyVars>>

Sorted(S) == Filter(Order, S)

\* mutant: the decision before this one is not looked up
NoLast(h) == cache[h]
\* what rr starts from: its memory, or the decision that is stored
Known(h) == IF cache[h] = <<>> THEN Sorted(schedule) ELSE cache[h]

\* rr: hosts without a vote are taken out of the list, new ones go to its end
Rotation(h) ==
    LET known == Known(h)
        new == Sorted(snap[h] \ Range(known))
    IN  Filter(known, snap[h]) \o new

\* hosts whose CheckApply has something to do
Unsettled ==
    {h \in Host : (res[h] = "add" /\ vote[h] \in {"none", "orphan"})
                   \/ (res[h] = "withdraw" /\ vote[h] # "none")}

\* the first of the rotation are stored; who watches the decision sees a new one
doScheduled(h) ==
    LET rotation == Rotation(h)
        hosts == {rotation[i] : i \in 1..Min({MaxCount, Len(rotation)})}
    IN  /\ loop[h] = "decide" /\ Goto(h, "wait")
        /\ cache' = [cache EXCEPT ![h] = IF snap[h] = {} THEN @ ELSE rotation]
        /\ snap' = [snap EXCEPT ![h] = {}]
        /\ schedule' = hosts
        /\ due' = IF hosts = schedule THEN due ELSE due \cup Unsettled
        /\ usurped' = (usurped \/ ~HoldsElection(h))
        /\ UNCHANGED <<electionVars, vote, hostEv, apparatusVars, res, next, swap, boundVars, voteLost>>

\* the context is done: the Observer resigns, the deferred functions follow
Leave(h, how) ==
    /\ Goto(h, how) /\ snap' = [snap EXCEPT ![h] = {}]
    /\ ObserverReturns(h)

\* Scheduler returns on its own
Die(h) ==
    /\ Leave(h, "die")
    /\ UNCHANGED <<etcdVars, cache, apparatusVars, resVars, swaps, historyVars>>

\* a call to etcd failed or a stream was closed
SchedulerFails(h) == h \in Looping /\ Fault /\ Die(h)

\* the Campaign goroutine; its error ends Scheduler
Campaign(h) ==
    /\ h \in Looping
    /\ \/ /\ CampaignPuts(h) \/ CampaignWins(h)
          /\ UNCHANGED <<etcdVars, loop, leaderVars, apparatusVars, resVars, boundVars, historyVars>>
       \/ CampaignErrs(h) /\ Die(h) /\ UNCHANGED faults

\* a session that is closed takes the vote with it, the others expire some day
VoteAfterExit(h) ==
    IF vote[h] # "leased" THEN vote[h] ELSE IF h \in requests THEN "none" ELSE "orphan"

\* the deferred functions, which need the mutex
SchedulerReturns(h) ==
    /\ loop[h] \in {"exit", "die"} /\ h \notin stuck
    /\ vote' = [vote EXCEPT ![h] = VoteAfterExit(h)]
    /\ hostEv' = (hostEv \cup (IF vote' = vote THEN {} ELSE Watching)) \ {h}
    /\ session' = [session EXCEPT ![h] = "none"]
    /\ requests' = requests \ {h} /\ exited' = exited \cup {h}
    /\ voteLost' = (voteLost \/ loop[h] = "die")
    /\ Goto(h, IF loop[h] = "die" THEN "dead" ELSE "off")
    /\ UNCHANGED <<electionVars, schedule, leaderVars, stuck, resVars, boundVars, usurped>>

-----------------------------------------------------------------------------
(* The schedule resource. *)

\* the vote of a resource with its session
Vote(h) == IF res[h] = "withdraw" THEN "none" ELSE IF h \in Persist THEN "forever" ELSE "leased"

\* SchedulerAdd: a session if there is none or it is done, and the vote; the
\* resource is applied (one with noop opens the session, and does not vote)
SchedulerAdd(h) ==
    /\ swap[h] = "no" /\ res[h] = "add" /\ h \in due \ stuck
    /\ session' = [session EXCEPT ![h] = "open"] /\ due' = due \ {h}
    /\ SetVote(h, Vote(h))
    /\ UNCHANGED <<electionVars, schedule, loop, leaderVars, requests, exited, stuck, res, next, swap, boundVars, historyVars>>

\* NewSession fails: the error is returned with the mutex locked
NewSessionFails(h) ==
    /\ swap[h] = "no" /\ res[h] = "add" /\ h \in due \ stuck
    /\ session[h] # "open" /\ Fault
    /\ stuck' = stuck \cup {h} /\ voteLost' = TRUE
    /\ UNCHANGED <<electionVars, etcdVars, loop, leaderVars, session, requests, exited, resVars, swaps, usurped>>

SchedulerWithdraw(h) ==
    /\ swap[h] = "no" /\ res[h] = "withdraw" /\ h \in due
    /\ SetVote(h, Vote(h)) /\ due' = due \ {h}
    /\ UNCHANGED <<electionVars, schedule, loop, leaderVars, apparatusVars, res, next, swap, boundVars, historyVars>>

\* the transaction of either returns an error, which does not say whether etcd
\* has run it; CheckApply is tried again
TxnFails(h) ==
    /\ swap[h] = "no" /\ h \in due /\ Fault
    /\ \/ res[h] = "add" /\ h \notin stuck /\ session' = [session EXCEPT ![h] = "open"]
       \/ res[h] = "withdraw" /\ session' = session
    /\ SetVote(h, Vote(h)) \/ UNCHANGED <<vote, hostEv>>
    /\ UNCHANGED <<electionVars, schedule, loop, leaderVars, requests, exited, stuck, resVars, swaps, historyVars>>

-----------------------------------------------------------------------------
(* The graph of a host is swapped. *)

Swap(h, r) ==
    /\ swap[h] = "no" /\ swaps < MaxSwaps /\ (r # res[h] \/ r = "add")
    /\ swaps' = swaps + 1
    /\ next' = [next EXCEPT ![h] = r]
    /\ swap' = [swap EXCEPT ![h] = IF res[h] = "none" THEN "enter" ELSE "clean"]
    /\ UNCHANGED <<electionVars, etcdVars, loop, leaderVars, apparatusVars, res, due, faults, historyVars>>

Orphan(h) == res[h] = "add" /\ h \in Persist \cup TTL

\* deferred by Watch: the session is closed by Scheduler when it returns, or here
\* if it has returned before
SchedulerCleanup(h) ==
    /\ h \notin stuck
    /\ \/ /\ ~Orphan(h) /\ h \notin exited
          /\ requests' = requests \cup {h}
          /\ UNCHANGED <<session, vote, hostEv>>
       \/ /\ ~Orphan(h) /\ h \in exited
          /\ session' = [session EXCEPT ![h] = "none"]
          /\ SetVote(h, IF vote[h] = "leased" THEN "none" ELSE vote[h])
          /\ UNCHANGED requests
       \/ Orphan(h) /\ UNCHANGED <<requests, session, vote, hostEv>>
    /\ UNCHANGED <<electionVars, schedule, loop, leaderVars, exited, stuck, res, next, historyVars>>

\* Watch of the old resource returns
WatchReturns(h) ==
    /\ swap[h] = "clean" /\ SchedulerCleanup(h)
    /\ swap' = [swap EXCEPT ![h] = IF next[h] = "none" THEN "stop" ELSE "enter"]
    /\ UNCHANGED <<due, boundVars>>

\* mutant: Watch waits for the scheduler before it says anything
NoStartupEvent(h) == {}
\* the event with which Watch starts
StartupEvent(h) == {h}

\* Watch fails, as the stream of decisions did, and is started again
WatchFails(h) ==
    /\ swap[h] = "no" /\ res[h] # "none" /\ Fault /\ SchedulerCleanup(h)
    /\ due' = due \cup StartupEvent(h)
    /\ UNCHANGED <<swap, swaps>>

\* the new resource: StartBackground if there is none, then its Watch
Enter(h) ==
    /\ swap[h] = "enter"
    /\ swap' = [swap EXCEPT ![h] = "no"] /\ res' = [res EXCEPT ![h] = next[h]]
    /\ due' = due \cup StartupEvent(h)
    /\ IF loop[h] = "off"
         THEN ObserveStarts(h) /\ Goto(h, "wait")
         ELSE UNCHANGED <<electionVars, loop>>
    /\ UNCHANGED <<etcdVars, leaderVars, apparatusVars, next, boundVars, historyVars>>

\* there is no resource any more: StopBackground, which waits for Scheduler
StopBackground(h) ==
    /\ swap[h] = "stop"
    /\ \/ /\ h \in Looping /\ Leave(h, "exit")
          /\ UNCHANGED <<res, swap, due>>
       \/ /\ loop[h] \in {"off", "dead"} /\ Goto(h, "off")
          /\ swap' = [swap EXCEPT ![h] = "no"] /\ res' = [res EXCEPT ![h] = "none"]
          /\ due' = due \ {h}
          /\ UNCHANGED <<electionVars, snap>>
    /\ UNCHANGED <<etcdVars, cache, apparatusVars, next, boundVars, historyVars>>

-----------------------------------------------------------------------------
(* What can happen to a host. *)

\* the process dies, with all that it remembers
Crash(h) ==
    /\ loop[h] # "off" /\ Fault
    /\ ObserverDies(h)
    /\ vote' = [vote EXCEPT ![h] = IF @ = "leased" THEN "orphan" ELSE @]
    /\ hostEv' = hostEv \ {h} /\ Goto(h, "off")
    /\ snap' = [snap EXCEPT ![h] = {}] /\ cache' = [cache EXCEPT ![h] = <<>>]
    /\ session' = [session EXCEPT ![h] = "none"]
    /\ requests' = requests \ {h} /\ exited' = exited \ {h} /\ stuck' = stuck \ {h}
    /\ res' = [res EXCEPT ![h] = "none"] /\ next' = [next EXCEPT ![h] = "none"]
    /\ swap' = [swap EXCEPT ![h] = "no"] /\ due' = due \ {h}
    /\ UNCHANGED <<schedule, swaps, historyVars>>

\* leases that nobody renews run out
Expiry ==
    \/ KeyExpires /\ UNCHANGED etcdVars
    \/ /\ \E h \in Host : vote[h] = "orphan" /\ SetVote(h, "none")
       /\ UNCHANGED <<electionVars, schedule>>

Expires ==
    /\ Expiry
    /\ UNCHANGED <<loop, leaderVars, apparatusVars, resVars, boundVars, historyVars>>

\* a host is cut off for longer than a lease of its lasts
CutOff(h) ==
    /\ Fault
    /\ \/ /\ h \in Looping /\ SessionLost(h)
          /\ UNCHANGED <<etcdVars, session, voteLost>>
       \/ /\ session[h] = "open"
          /\ session' = [session EXCEPT ![h] = "done"]
          /\ SetVote(h, IF vote[h] = "leased" THEN "none" ELSE vote[h])
          /\ voteLost' = TRUE
          /\ UNCHANGED <<electionVars, schedule>>
    /\ UNCHANGED <<loop, leaderVars, requests, exited, stuck, resVars, swaps, usurped>>

-----------------------------------------------------------------------------
SchedulerStep(h) ==
    ElectionEvent(h) \/ HostnameEvent(h) \/ doScheduled(h) \/ SchedulerReturns(h)
EngineStep(h) ==
    \/ SchedulerAdd(h) \/ SchedulerWithdraw(h)
    \/ WatchReturns(h) \/ Enter(h) \/ StopBackground(h)
Failure(h) ==
    \/ NewSessionFails(h) \/ TxnFails(h) \/ WatchFails(h)
    \/ SchedulerFails(h) \/ Crash(h) \/ CutOff(h)

Next ==
    \/ Expires
    \/ \E h \in Host :
        \/ SchedulerStep(h) \/ Campaign(h) \/ EngineStep(h) \/ Failure(h)
        \/ \E r \in {"none", "add", "withdraw"} : Swap(h, r)

Spec == Init /\ [][Next]_vars

\* every goroutine goes on, calls to etcd return, and leases run out
FairSpec ==
    /\ Spec /\ WF_vars(Expires)
    /\ \A h \in Host :
        WF_vars(SchedulerStep(h)) /\ WF_vars(Campaign(h)) /\ WF_vars(EngineStep(h))

-----------------------------------------------------------------------------
(* Properties. *)

\* Types; a strategy remembers every host once.
TypeOK ==
    /\ keys \in Seq([host : Host, live : BOOLEAN]) /\ leaderEv \subseteq Host /\ lost \subseteq Host
    /\ campaign \in [Host -> {"off", "nil", "put", "wait", "done"}]
    /\ startup \in [Host -> Host \cup {None}] /\ elected \in [Host -> Host \cup {None}]
    /\ vote \in [Host -> {"none", "leased", "orphan", "forever"}]
    /\ schedule \subseteq Host /\ hostEv \subseteq Host
    /\ loop \in [Host -> {"off", "wait", "decide", "exit", "die", "dead"}]
    /\ snap \in [Host -> SUBSET Host]
    /\ cache \in [Host -> Seq(Host)] /\ \A h \in Host : IsInjective(cache[h])
    /\ session \in [Host -> {"none", "open", "done"}]
    /\ requests \subseteq Host /\ exited \subseteq Host /\ stuck \subseteq Host
    /\ res \in [Host -> {"none", "add", "withdraw"}] /\ next \in [Host -> {"none", "add", "withdraw"}]
    /\ swap \in [Host -> {"no", "clean", "enter", "stop"}]
    /\ due \subseteq Host
    /\ swaps \in 0..MaxSwaps /\ faults \in 0..MaxFaults
    /\ usurped \in BOOLEAN /\ voteLost \in BOOLEAN

Leads(h) == h \in Looping /\ elected[h] = h /\ HoldsElection(h)
Fits ==
    /\ schedule \subseteq Voters
    /\ Cardinality(schedule) = Min({MaxCount, Cardinality(Voters)})

\* Once the elected host has seen every event, the decision that is stored
\* picks as many hosts as it may and only hosts that have a vote, over crashes,
\* expiries and changes of the elected host (Scheduler and doScheduled).  The
\* one exception is a decision of a host that was no longer elected.
DecisionFitsVotes ==
    \A h \in Host : Leads(h) /\ loop[h] = "wait" /\ h \notin hostEv /\ ~usurped => Fits

\* A host that was chosen and still has its vote is not replaced by another one,
\* also when another host was elected since ("there won't be unnecessary churn
\* in scheduled hosts", scheduler.go).  The exception is a host whose scheduler
\* was started anew in the same process: its strategy is that of the first one.
NoChurn ==
    [][\A h \in Host : doScheduled(h) /\ HoldsElection(h) /\ h \notin exited /\ ~usurped
         => schedule \cap snap[h] \subseteq schedule']_vars

\* A vote that is renewed belongs to a resource that is in the graph or on its
\* way out: no session is left open behind a resource that is gone, unless a
\* session failed (SchedulerCleanup and the deferred functions of Scheduler).
VotesHaveOwners ==
    \A h \in Host : vote[h] = "leased" => res[h] # "none" \/ swap[h] # "no" \/ voteLost

\* Whoever assumes to be elected while another host is hears of it, or returns.
StepsDown ==
    \A h \in Host : []<>(elected[h] = h => Leader \in {h, None})

\* Whoever has something to vote for gets its vote, and keeps it, unless one of
\* its sessions failed.
VotesArrive ==
    \A h \in Host : <>[](res[h] = "add" /\ swap[h] = "no")
        => <>[](vote[h] \in {"leased", "forever"} \/ voteLost)

\* As long as a scheduler runs, some host is elected again and again ("except
\* that it runs Campaign automatically", election.go).
SomeoneIsElected ==
    (\E h \in Host : <>[](h \in Looping)) => <>[](Leader # None)
=============================================================================
