------------------------------ MODULE Election ------------------------------
(* The election of the host that schedules (etcd/util/election/election.go): *)
(* an Observer on every host tells its scheduler who is elected, and runs    *)
(* the Campaign.  Campaign, Observe, Leader and Resign are those of etcd's   *)
(* concurrency package: each candidate has a key with the lease of its       *)
(* session, and the oldest key is the leader's.                              *)
EXTENDS Integers, Sequences, FiniteSets, FiniteSetsExt

CONSTANTS
    Host,
    None        \* no host

ASSUME NoneAssumption == None \notin Host

VARIABLES
    keys,       \* the keys in the order of creation; a key is live while its session is
    campaign,   \* the Observer: "off", no campaign yet ("nil"), "put", "wait" or "done"
    startup,    \* the leader that the Observer found when it started, until it says so
    leaderEv,   \* hosts whose Observe has yet to deliver the present leader
    elected,    \* who the scheduler of each host assumes is elected
    lost        \* hosts whose own session has expired under them

electionVars == <<keys, campaign, startup, leaderEv, elected, lost>>

ElectionInit ==
    /\ keys = <<>> /\ leaderEv = {} /\ lost = {}
    /\ campaign = [h \in Host |-> "off"]
    /\ startup = [h \in Host |-> None] /\ elected = [h \in Host |-> None]

\* a list without what is not in S
Filter(list, S) ==
    LET upTo(i) == {j \in 1..i : list[j] \in S}
        nth(k) == CHOOSE i \in 1..Len(list) : list[i] \in S /\ Cardinality(upTo(i)) = k
    IN  [k \in 1..Cardinality(upTo(Len(list))) |-> list[nth(k)]]

Key(h) == [host |-> h, live |-> TRUE]
Leader == IF keys = <<>> THEN None ELSE Head(keys).host
HoldsElection(h) == keys # <<>> /\ Head(keys) = Key(h)

Observing == {h \in Host : campaign[h] # "off"}

\* the keys change; Observe delivers a leader that has another key than the last
SetKeys(new) ==
    /\ keys' = new
    /\ leaderEv' = IF new # <<>> /\ (keys = <<>> \/ Head(new) # Head(keys))
                   THEN Observing ELSE leaderEv

Without(key) == Filter(keys, Range(keys) \ {key})

\* Observe starts: it campaigns if it finds no leader, and says so once if it
\* finds one (that etcd delivers the same leader once more is left out)
ObserveStarts(h) ==
    /\ campaign' = [campaign EXCEPT ![h] = IF keys = <<>> THEN "put" ELSE "nil"]
    /\ startup' = [startup EXCEPT ![h] = Leader]
    /\ elected' = [elected EXCEPT ![h] = None]
    /\ lost' = lost \ {h}
    /\ UNCHANGED <<keys, leaderEv>>

\* a host that is not elected campaigns if its last campaign is over
CampaignAfter(h, x) == IF x # h /\ campaign[h] = "done" THEN "put" ELSE campaign[h]

\* the Observer tells the scheduler, then sees to the campaign
Tell(h, x) ==
    /\ elected' = [elected EXCEPT ![h] = x]
    /\ campaign' = [campaign EXCEPT ![h] = CampaignAfter(h, x)]
    /\ UNCHANGED <<keys, lost>>

TellStartup(h) ==
    /\ startup[h] # None
    /\ Tell(h, startup[h])
    /\ startup' = [startup EXCEPT ![h] = None]
    /\ UNCHANGED leaderEv

\* mutant: an event of the election does not replace the leader that was known
TellKnownLeader(h) ==
    /\ h \in leaderEv /\ keys # <<>>
    /\ Tell(h, IF startup[h] # None THEN startup[h] ELSE elected[h])
    /\ leaderEv' = leaderEv \ {h}
    /\ startup' = [startup EXCEPT ![h] = None]
TellLeader(h) ==
    /\ h \in leaderEv /\ keys # <<>>
    /\ Tell(h, Leader)
    /\ leaderEv' = leaderEv \ {h}
    /\ startup' = [startup EXCEPT ![h] = None]

\* Campaign writes its key, or fails because its lease has expired
CampaignPuts(h) ==
    /\ campaign[h] = "put" /\ h \notin lost
    /\ SetKeys(IF Key(h) \in Range(keys) THEN keys ELSE Append(keys, Key(h)))
    /\ campaign' = [campaign EXCEPT ![h] = "wait"]
    /\ UNCHANGED <<startup, elected, lost>>

CampaignErrs(h) == campaign[h] = "put" /\ h \in lost

\* Campaign returns when there is no older key left
CampaignWins(h) ==
    /\ campaign[h] = "wait" /\ (HoldsElection(h) \/ h \in lost)
    /\ campaign' = [campaign EXCEPT ![h] = "done"]
    /\ UNCHANGED <<keys, startup, leaderEv, elected, lost>>

\* the Observer returns: a campaign or a leader resigns, and the session, if
\* it is closed after that, takes the key with it as well
ObserverReturns(h) ==
    /\ keys' = Without(Key(h))
    /\ leaderEv' = IF keys' # <<>> /\ Head(keys') # Head(keys)
                   THEN Observing \ {h} ELSE leaderEv \ {h}
    /\ campaign' = [campaign EXCEPT ![h] = "off"]
    /\ startup' = [startup EXCEPT ![h] = None]
    /\ elected' = [elected EXCEPT ![h] = None]
    /\ lost' = lost \ {h}

\* the process dies: its key stays until the lease runs out
ObserverDies(h) ==
    /\ keys' = [i \in DOMAIN keys |->
                    IF keys[i].host = h THEN [host |-> h, live |-> FALSE] ELSE keys[i]]
    /\ leaderEv' = leaderEv \ {h}
    /\ campaign' = [campaign EXCEPT ![h] = "off"]
    /\ startup' = [startup EXCEPT ![h] = None]
    /\ elected' = [elected EXCEPT ![h] = None]
    /\ lost' = lost \ {h}

\* the lease of a process that is gone runs out
KeyExpires ==
    /\ \E k \in Range(keys) : ~k.live /\ SetKeys(Without(k))
    /\ UNCHANGED <<campaign, startup, elected, lost>>

\* the lease of a running host runs out, as it could not renew it in time
SessionLost(h) ==
    /\ campaign[h] # "off" /\ h \notin lost
    /\ lost' = lost \cup {h}
    /\ SetKeys(Without(Key(h)))
    /\ UNCHANGED <<campaign, startup, elected>>
=============================================================================
