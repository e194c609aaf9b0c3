-------------------------------- MODULE Apply -------------------------------
(* What Process does with a resource between its timestamp check and its     *)
(* pokes: semaphores, send/recv, CheckApply and, at the same time, the       *)
(* export to the world (engine/graph/actions.go, sendrecv.go, semaphore.go   *)
(* and exporter.go), and what a graph swap does to all of these.             *)
(*                                                                           *)
(* One sender "s" whose CheckApply sends a value, one receiver "r" with one  *)
(* field that receives it.  The receiver may be exported to hosts.           *)
EXTENDS Semaphores

CONSTANTS
    Value,       \* what can be sent
    Nil,         \* no value
    Hosts,       \* the hosts that r can be exported to
    MaxSends,    \* bound: how many values are sent, beyond the first of each sender
    MaxSwaps,    \* bound: how many graphs follow the first one
    MaxFaults    \* bound: how many calls fail

ASSUME ApplyAssumption ==
    /\ Nil \notin Value /\ Vertex = {"s", "r"}
    /\ MaxSends \in Nat /\ MaxSwaps \in Nat /\ MaxFaults \in Nat

VARIABLES
    pc,          \* per vertex: "idle", "lock" or "body"; for r then "apply"
    mode,        \* the engine is "up", paused for the "prune", or the program ends: "exit"
    sent,        \* what the sender that runs has sent
    due,         \* the vertices with an event, a poke or a retry to serve
    r,           \* the receiver: which object, field, exports, changed, isStateOK
    inGraph,     \* r is in the graph
    machine,     \* what CheckApply of r has made of the machine
    ca,          \* CheckApply of this Process: "none", "skipped", "ok" or "err"
    ex,          \* the export of this Process: "none", "write", "ok", "notok" or "err"
    todo,        \* the hosts it still has to write to
    cache,       \* Exporter.state
    prev,        \* Exporter.prev: the object at the last Prune, 0 if none
    world,       \* what is stored in the world
    sends, swaps, faults,
    owed,        \* history: r has a new value that no successful CheckApply was told of
    worldFailed  \* history: a call to the world failed

exportVars == <<ex, todo, cache, prev, world, worldFailed>>
boundVars == <<sends, swaps, faults>>
vars == <<used, pos, pc, mode, sent, due, r, inGraph, machine, ca, ex, todo, cache,
          prev, world, sends, swaps, faults, owed, worldFailed>>

\* a receiver as the language makes it, before anything is received
NewReceiver(id, hosts) ==
    [id |-> id, field |-> Nil, exports |-> hosts, changed |-> FALSE, isStateOK |-> FALSE]

Init ==
    /\ SemaInit
    /\ pc = [v \in Vertex |-> "idle"]
    /\ mode = "up" /\ sent = Nil /\ due = Vertex
    /\ \E hosts \in SUBSET Hosts : r = NewReceiver(1, hosts)
    /\ inGraph = TRUE
    /\ machine = Nil /\ ca = "none" /\ ex = "none" /\ todo = {}
    /\ cache = <<>> /\ prev = [h \in Hosts |-> 0] /\ world = [h \in Hosts |-> Nil]
    /\ sends = 0 /\ swaps = 0 /\ faults = 0
    /\ owed = FALSE /\ worldFailed = FALSE

MayFail == faults < MaxFaults
Fault == MayFail /\ faults' = faults + 1

-----------------------------------------------------------------------------
(* Process begins and ends.  r does not go ahead of a sender that has not    *)
(* run: its timestamp would be newer.                                        *)

ProcessStarts(v) ==
    /\ mode = "up" /\ pc[v] = "idle" /\ v \in due
    /\ v = "r" => inGraph /\ sent # Nil
    /\ pc' = [pc EXCEPT ![v] = "lock"]
    /\ due' = due \ {v}
    /\ UNCHANGED <<semaVars, mode, sent, r, inGraph, machine, ca, exportVars, boundVars, owed>>

semaLock(v) ==
    /\ pc[v] = "lock" /\ SemaP(v)
    /\ UNCHANGED <<pc, mode, sent, due, r, inGraph, machine, ca, exportVars, boundVars, owed>>

Locked(v) ==
    /\ pc[v] = "lock" /\ HasAll(v)
    /\ pc' = [pc EXCEPT ![v] = "body"]
    /\ UNCHANGED <<semaVars, mode, sent, due, r, inGraph, machine, ca, exportVars, boundVars, owed>>

\* Process returns: the deferred semaUnlock, and whom it leaves to run
Returns(v, then) ==
    /\ SemaUnlock(v)
    /\ pc' = [pc EXCEPT ![v] = "idle"]
    /\ due' = due \cup then

\* CheckApply of the sender sends a value; r is poked
SenderApplies ==
    /\ pc["s"] = "body"
    /\ \E x \in Value : sent' = x
    /\ Returns("s", IF inGraph THEN {"r"} ELSE {})
    /\ UNCHANGED <<mode, r, inGraph, machine, ca, exportVars, boundVars, owed>>

SenderFails ==
    /\ pc["s"] = "body" /\ Fault
    /\ Returns("s", {"s"})
    /\ UNCHANGED <<mode, sent, r, inGraph, machine, ca, exportVars, sends, swaps, owed>>

-----------------------------------------------------------------------------
(* The receiver. *)

\* mutant: changed says only what this transfer did
NotSticky(x) == sent # x.field
\* the flag is only ever turned on here
Sticky(x) == x.changed \/ sent # x.field

\* the field takes the value of the sender, and a changed field is dirty
Transfer(x) ==
    [x EXCEPT !.field = sent, !.changed = Sticky(x), !.isStateOK = @ /\ ~Sticky(x)]

\* the cached state lets Export do nothing
ExportOK(x) == ~x.changed /\ \A h \in x.exports : h \in DOMAIN cache /\ cache[h]

\* sendRecv, then CheckApply and Export are started side by side
sendRecv ==
    /\ pc["r"] = "body"
    /\ LET x == Transfer(r) IN
        /\ r' = x
        /\ owed' = (owed \/ sent # r.field)
        /\ ca' = IF x.isStateOK THEN "skipped" ELSE "none"
        /\ ex' = IF ExportOK(x) THEN "ok" ELSE "write"
        /\ todo' = IF ExportOK(x) THEN {} ELSE x.exports
    /\ pc' = [pc EXCEPT !["r"] = "apply"]
    /\ UNCHANGED <<semaVars, mode, sent, due, inGraph, machine, cache, prev, world, worldFailed, boundVars>>

\* Validate refuses what was received; it may accept what is received next
ValidateFails ==
    /\ pc["r"] = "body" /\ Fault
    /\ r' = Transfer(r) /\ owed' = (owed \/ sent # r.field)
    /\ Returns("r", {"r"})
    /\ UNCHANGED <<mode, sent, inGraph, machine, ca, exportVars, sends, swaps>>

CheckApply ==
    /\ pc["r"] = "apply" /\ ca = "none"
    /\ ca' = "ok" /\ machine' = r.field
    /\ owed' = (owed /\ ~r.changed)
    /\ UNCHANGED <<semaVars, pc, mode, sent, due, r, inGraph, exportVars, boundVars>>

CheckApplyFails ==
    /\ pc["r"] = "apply" /\ ca = "none" /\ Fault
    /\ ca' = "err"
    /\ UNCHANGED <<semaVars, pc, mode, sent, due, r, inGraph, machine, exportVars, sends, swaps, owed>>

\* ResExport writes to one host after the other, where the value differs
ResExport ==
    /\ pc["r"] = "apply" /\ ex \in {"write", "notok"} /\ todo # {}
    /\ LET h == CHOOSE x \in todo : TRUE IN
        /\ world' = [world EXCEPT ![h] = r.field]
        /\ todo' = todo \ {h}
        \* the answer is true if there was something to write everywhere
        /\ ex' = IF world[h] = r.field THEN "notok" ELSE ex
    /\ UNCHANGED <<semaVars, pc, mode, sent, due, r, inGraph, machine, ca, cache, prev, worldFailed, boundVars, owed>>

ResExportFails ==
    /\ pc["r"] = "apply" /\ ex \in {"write", "notok"} /\ todo # {} /\ Fault
    /\ ex' = "err" /\ todo' = {} /\ worldFailed' = TRUE
    /\ UNCHANGED <<semaVars, pc, mode, sent, due, r, inGraph, machine, ca, cache, prev, world, sends, swaps, owed>>

\* all is written: the cache says so
Exported == ex \in {"write", "notok"} /\ todo = {}
CacheExported ==
    IF Exported THEN [h \in r.exports \cup DOMAIN cache |-> h \in r.exports \/ cache[h]]
                ELSE cache

\* CheckApply has run without an error
ClearRecv == ca = "ok"

\* mutant: a Process that fails is not run again
ForgetRetry == {}
\* the Worker runs a Process again that failed
Retry == IF ca = "err" \/ ex = "err" THEN {"r"} ELSE {}

\* both are done: flags are cleared, the state is good if nothing failed
ProcessEnds ==
    /\ pc["r"] = "apply" /\ ca # "none" /\ (ex \in {"ok", "err"} \/ Exported)
    /\ cache' = CacheExported
    /\ r' = [r EXCEPT !.changed = @ /\ ~ClearRecv,
                      !.isStateOK = @ \/ (ca # "err" /\ ex # "err")]
    /\ ca' = "none" /\ ex' = "none" /\ todo' = {}
    /\ Returns("r", Retry)
    /\ UNCHANGED <<mode, sent, inGraph, machine, prev, world, worldFailed, boundVars, owed>>

-----------------------------------------------------------------------------
(* Events between two runs. *)

\* the sender's Watch has an event: its CheckApply will send again
SenderEvent ==
    /\ mode = "up" /\ pc["s"] = "idle" /\ "s" \notin due /\ sends < MaxSends
    /\ sends' = sends + 1 /\ due' = due \cup {"s"}
    /\ UNCHANGED <<semaVars, pc, mode, sent, r, inGraph, machine, ca, exportVars, swaps, faults, owed>>

\* the machine was changed by someone else and the receiver's Watch sees it
ReceiverEvent ==
    /\ mode = "up" /\ pc["r"] = "idle" /\ inGraph /\ sends < MaxSends
    /\ sends' = sends + 1 /\ due' = due \cup {"r"}
    /\ machine' = Nil /\ r' = [r EXCEPT !.isStateOK = FALSE]
    /\ UNCHANGED <<semaVars, pc, mode, sent, inGraph, ca, exportVars, swaps, faults, owed>>

-----------------------------------------------------------------------------
(* The graph swap, with every vertex paused. *)

\* SendRecv of the engine: the new receiver gets what the old one could receive
PreFill(x) == IF inGraph /\ sent # Nil THEN [x EXCEPT !.field = sent] ELSE x

\* GraphSync keeps the old receiver if the new one is no different
Same(x) == inGraph /\ r.field = x.field /\ r.exports = x.exports

\* mutant: a new object of the same name counts as exported
PruneKeeps(gone, obj) == [h \in DOMAIN cache \ gone |-> cache[h]]
\* Prune forgets what is gone, and doubts what belongs to another object now
Prune(gone, obj) ==
    [h \in DOMAIN cache \ gone |-> cache[h] /\ prev[h] = obj]

\* Pause, SendRecv, Commit with or without r and with the old or a new sender,
\* and the part of Prune that works on its own maps
Swap(keepSender, in, hosts) ==
    LET new == PreFill(NewReceiver(r.id + 1, hosts))
        keep == in /\ Same(new)
        now == IF keep THEN r ELSE new
        gone == {h \in DOMAIN cache : ~(in /\ h \in hosts)}
    IN  /\ mode = "up" /\ swaps < MaxSwaps /\ \A v \in Vertex : pc[v] = "idle"
        /\ swaps' = swaps + 1 /\ mode' = "prune"
        /\ r' = now /\ inGraph' = in
        /\ owed' = (owed /\ keep)
        /\ sent' = IF keepSender THEN sent ELSE Nil
        /\ due' = (IF in THEN due ELSE due \ {"r"})
                  \cup (IF keepSender THEN {} ELSE {"s"})
                  \cup (IF in /\ ~keep THEN {"r"} ELSE {})
        /\ cache' = Prune(gone, now.id)
        /\ prev' = [h \in Hosts |-> IF h \notin DOMAIN cache THEN prev[h]
                                    ELSE IF h \in gone THEN 0 ELSE now.id]
        /\ todo' = gone
        /\ UNCHANGED <<semaVars, pc, machine, ca, ex, world, worldFailed, sends, faults>>

\* ResDelete, one host after the other
ResDelete ==
    /\ mode = "prune" /\ todo # {}
    /\ LET h == CHOOSE x \in todo : TRUE IN
        world' = [world EXCEPT ![h] = Nil] /\ todo' = todo \ {h}
    /\ UNCHANGED <<semaVars, pc, mode, sent, due, r, inGraph, machine, ca, ex, cache, prev, worldFailed, boundVars, owed>>

\* an error of Prune ends the program
ResDeleteFails ==
    /\ mode = "prune" /\ todo # {} /\ Fault
    /\ mode' = "exit" /\ worldFailed' = TRUE
    /\ UNCHANGED <<semaVars, pc, sent, due, r, inGraph, machine, ca, ex, todo, cache, prev, world, sends, swaps, owed>>

Resume ==
    /\ mode = "prune" /\ todo = {}
    /\ mode' = "up"
    /\ UNCHANGED <<semaVars, pc, sent, due, r, inGraph, machine, ca, exportVars, boundVars, owed>>

-----------------------------------------------------------------------------
\* nothing is left to do
Settled == mode = "up" /\ \A v \in Vertex : pc[v] = "idle" /\ v \notin due

VertexStep(v) == ProcessStarts(v) \/ semaLock(v) \/ Locked(v)
Apply == SenderApplies \/ SenderFails
Receive ==
    \/ sendRecv \/ ValidateFails \/ CheckApply \/ CheckApplyFails
    \/ ResExport \/ ResExportFails \/ ProcessEnds
Pruning == ResDelete \/ ResDeleteFails \/ Resume

Next ==
    \/ \E v \in Vertex : VertexStep(v)
    \/ Apply \/ Receive \/ Pruning
    \/ SenderEvent \/ ReceiverEvent
    \/ \E keepSender, in \in BOOLEAN : \E hosts \in SUBSET Hosts :
           (in \/ hosts = {}) /\ Swap(keepSender, in, hosts)

Spec == Init /\ [][Next]_vars

\* a resource's CheckApply, a call to the world and the main loop's commit come
\* back; a free semaphore is taken
FairSpec ==
    /\ Spec
    /\ \A v \in Vertex : WF_vars(VertexStep(v))
    /\ WF_vars(Apply) /\ WF_vars(Receive) /\ WF_vars(Pruning)

-----------------------------------------------------------------------------
(* Properties. *)

Receiver ==
    [id : 1..MaxSwaps + 1, field : Value \cup {Nil}, exports : SUBSET Hosts,
     changed : BOOLEAN, isStateOK : BOOLEAN]

\* Types.
TypeOK ==
    /\ used \in [SemaId -> Nat] /\ pos \in [Vertex -> Nat]
    /\ pc \in [Vertex -> {"idle", "lock", "body", "apply"}] /\ mode \in {"up", "prune", "exit"}
    /\ sent \in Value \cup {Nil} /\ due \subseteq Vertex /\ machine \in Value \cup {Nil}
    /\ r \in Receiver
    /\ ca \in {"none", "skipped", "ok", "err"} /\ ex \in {"none", "write", "ok", "notok", "err"}
    /\ todo \subseteq Hosts /\ DOMAIN cache \subseteq Hosts
    /\ world \in [Hosts -> Value \cup {Nil}]
    /\ sends \in 0..MaxSends /\ swaps \in 0..MaxSwaps /\ faults \in 0..MaxFaults
    /\ inGraph \in BOOLEAN /\ owed \in BOOLEAN /\ worldFailed \in BOOLEAN

\* A semaphore is taken by no more vertices than its size, and by exactly those
\* whose Process runs, also after a Process that failed: V never panics and none
\* is lost (semaphore.go and the deferred semaUnlock of Process).
SemaphoresBalance ==
    \A id \in SemaId :
        /\ used[id] <= SemaSize[id]
        /\ used[id] = Taken("s", id) + Taken("r", id)
        /\ \A v \in Vertex : pc[v] = "idle" => Taken(v, id) = 0

\* What the receiver has received and applied: a receiver that Process regards
\* as clean has its machine in the state of its field, over failed and skipped
\* runs, refused values and graph swaps (actions.go, isStateOK).
CleanIsApplied == inGraph /\ pc["r"] = "idle" /\ r.isStateOK => machine = r.field

\* A value that was received stays flagged as changed until a CheckApply that
\* could see the flag has succeeded: not a failed one, a skipped one, or a
\* transfer that found nothing new (sendRecv and ClearRecv of sendrecv.go).
NotificationKept == owed => r.changed

\* When nothing is left to do, the receiver has what the sender sent last and
\* the machine is in that state, also when sender or receiver were replaced.
ReceivesLastValue == Settled /\ inGraph => r.field = sent /\ machine = sent

\* When nothing is left to do and no call to the world has failed, the world
\* has the receiver as it is, on the hosts it is exported to and on no other
\* (exporter.go: the cache, its invalidation by Prune, and the deletions).
ExportsFollowGraph ==
    Settled /\ ~worldFailed =>
        world = [h \in Hosts |-> IF inGraph /\ h \in r.exports THEN r.field ELSE Nil]

\* The export that Process has reported as done is the present one ("If
\* send/recv or any other weird resource method changes things, then we also
\* want to invalidate the state cache", exporter.go).
ExportsAreCurrent ==
    Settled /\ inGraph => \A h \in r.exports : world[h] = r.field

\* Once no more events and swaps come, every Process returns and nothing is left
\* to do: nobody waits for a semaphore of a vertex that waits for it (semaLock
\* sorts what it takes), and a failed Process is retried until it succeeds.
ComesToRest == <>[](Settled \/ mode = "exit")
=============================================================================
