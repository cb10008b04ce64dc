------------------------------- MODULE ResourceProbe ----------------------------
(***************************************************************************)
(* The resource probe (resource_probe.py) and the broker that samples it   *)
(* (resources.py): how a snapshot of the GPU is taken step by step while   *)
(* runtimes and processes come and go, how snapshots are numbered across   *)
(* crashes and power losses, and what a plan, a lease and an activation    *)
(* may conclude from one.                                                  *)
(*                                                                         *)
(* The broker takes one sample at a time.  A call that gives up leaves its *)
(* request behind: the probe serves it to the end, and as an inventory     *)
(* only reads, what is left of that is the generation it still takes.      *)
(*                                                                         *)
(* Every error and every unknown consumer is one thing here, doubt: each   *)
(* unknown consumer is entered as an error too, an error makes the         *)
(* snapshot degraded, and the broker closes admission on either.           *)
(***************************************************************************)
EXTENDS Routing

CONSTANTS
  Docker,        \* profiles whose runtime is a container
  Units,         \* profiles whose runtime is a systemd user unit
  Identities,    \* what may run a profile: container ids, digests of executables
  Certified,     \* the containers of a pinned image, the pinned executables
  Processes,     \* process ids; none is used again while a snapshot is taken
  Threads,       \* requests the probe can serve at a time
  Main,          \* the start of a probe process, before it serves
  Workers,       \* broker threads that plan and admit jobs
  Observers,     \* broker threads that sample for a status
  Jobs,          \* requests of the jobs
  Coexist,       \* sharedCertifications: certified pairs of profiles
  None,
  MaxGeneration, \* bound: generations
  MaxStarts      \* bound: starts of a probe process

Callers == Workers \cup Observers
Numberers == Threads \cup {Main}
Found == UNION {Identities[p] : p \in Profiles}

ASSUME ProfilesAssumption ==
  /\ Docker \cap Units = {} /\ Profiles = Docker \cup Units
  /\ DOMAIN Identities = Profiles /\ Certified \subseteq Found
  /\ None \notin Profiles \cup Found \cup Threads \cup Routes \cup Jobs \cup Callers
ASSUME ThreadsAssumption == Main \notin Threads \cup {None} /\ Workers \cap Observers = {}
ASSUME JobsAssumption == Jobs \subseteq Requests
ASSUME CoexistAssumption == Coexist \subseteq SUBSET Profiles
ASSUME BoundAssumption == MaxGeneration \in Nat /\ MaxStarts \in Nat

VARIABLES
  runtime,    \* what runs a profile: an identity, or None
  process,    \* the processes that use the GPU
  born,       \* process ids used so far
  file,       \* the number in the generation file
  durable,    \* the number a power loss cannot take back
  lock,       \* who holds the lock of the generation file
  handed,     \* history: the generation handed out last
  up,         \* a probe process listens
  starts,     \* starts of probe processes so far
  stage,      \* where each request, and the starting process, is
  asker,      \* the caller that still waits for a request
  generation, \* the generation of a request
  scan,       \* what a request has read so far
  pc,         \* where each caller of _combined_snapshot is
  job,        \* the job a worker has to plan, None if it has none
  plan,       \* the route it is planned on, None before
  result,     \* the snapshot a caller got, None for a refusal
  seen,       \* history: who used the GPU at the moments of a caller's sample
  newest      \* _last_probe_generation

world == <<runtime, process, born>>
store == <<file, durable, lock, handed>>
server == <<up, starts>>
requests == <<stage, asker, generation, scan>>
callers == <<pc, job, plan, result, seen, newest>>
vars == <<world, store, server, requests, callers>>

Stranger == [profile |-> None, identity |-> None]
Consumers ==
  {Stranger} \cup UNION {[profile : {p}, identity : Identities[p]] : p \in Profiles}
Scans ==
  [left : SUBSET Profiles, inspected : [Profiles -> Found \cup {None}],
   rows : SUBSET Processes, active : SUBSET Profiles, unhealthy : SUBSET Profiles,
   doubt : BOOLEAN]
Snapshots == [active : SUBSET Profiles, unhealthy : SUBSET Profiles, doubt : BOOLEAN]

Blank ==
  [left |-> Profiles, inspected |-> [p \in Profiles |-> None], rows |-> {}, active |-> {},
   unhealthy |-> {}, doubt |-> FALSE]

Numbering == {"lock", "replace", "sync"}
Reading == {"inspect", "list", "attribute", "done"}

WorldTypes ==
  /\ runtime \in [Profiles -> Found \cup {None}]
  /\ process \in [Processes -> Consumers \cup {None}]
  /\ born \in SUBSET Processes
StoreTypes ==
  /\ file \in Nat /\ durable \in Nat /\ handed \in Nat
  /\ lock \in Numberers \cup {None}
  /\ up \in BOOLEAN /\ starts \in Nat
RequestTypes ==
  /\ stage \in [Numberers -> {"idle"} \cup Numbering \cup Reading]
  /\ asker \in [Numberers -> Callers \cup {None}]
  /\ generation \in [Numberers -> Nat]
  /\ scan \in [Numberers -> Scans]
CallerTypes ==
  /\ pc \in [Callers -> {"idle", "waiting", "sampling", "answered", "leased"}]
  /\ job \in [Callers -> Jobs \cup {None}]
  /\ plan \in [Callers -> Routes \cup {None}]
  /\ result \in [Callers -> Snapshots \cup {None}]
  /\ seen \in [Callers -> SUBSET SUBSET (Profiles \cup {None})]
  /\ newest \in Nat

\* One request at a time has a caller that waits for it.
Linked ==
  \A t \in Numberers : asker[t] # None =>
    /\ t \in Threads /\ pc[asker[t]] = "sampling"
    /\ \A r \in Threads : asker[r] # None => r = t

TypeOK == WorldTypes /\ StoreTypes /\ RequestTypes /\ CallerTypes /\ Linked

Init ==
  /\ runtime = [p \in Profiles |-> None]
  /\ process = [x \in Processes |-> None]
  /\ born = {}
  /\ file = 0 /\ durable = 0 /\ lock = None /\ handed = 0
  /\ up = FALSE /\ starts = 0
  /\ stage = [t \in Numberers |-> "idle"]
  /\ asker = [t \in Numberers |-> None]
  /\ generation = [t \in Numberers |-> 0]
  /\ scan = [t \in Numberers |-> Blank]
  /\ pc = [c \in Callers |-> "idle"]
  /\ job = [c \in Callers |-> None]
  /\ plan = [c \in Callers |-> None]
  /\ result = [c \in Callers |-> None]
  /\ seen = [c \in Callers |-> {}]
  /\ newest = 0

--------------------------------------------------------------------------------
(* The host: runtimes, and the processes that use the GPU *)

Consuming(x) == process[x] # None

\* The profile a process may be counted for, None if it belongs to nobody or
\* does not run what was certified.
Owner(x) == IF process[x].identity \in Certified THEN process[x].profile ELSE None

\* Who uses the GPU at this moment.
Users == {Owner(x) : x \in {y \in Processes : Consuming(y)}}

Witness ==
  seen' = [c \in Callers |-> IF pc[c] = "sampling" THEN seen[c] \cup {Users'} ELSE seen[c]]

WorldMoves == Witness /\ UNCHANGED <<store, server, requests, pc, job, plan, result, newest>>

\* A container is created or started again, a unit is started.
StartRuntime(p) ==
  /\ runtime[p] = None
  /\ \E i \in Identities[p] : runtime' = [runtime EXCEPT ![p] = i]
  /\ UNCHANGED <<process, born>>
  /\ WorldMoves

\* A runtime ends with its processes.
StopRuntime(p) ==
  /\ runtime[p] # None
  /\ runtime' = [runtime EXCEPT ![p] = None]
  /\ process' = [x \in Processes |->
                   IF Consuming(x) /\ process[x].profile = p THEN None ELSE process[x]]
  /\ UNCHANGED born
  /\ WorldMoves

\* A process opens a context on the GPU: one in a container, one in the control
\* group of a unit, whatever it executes, or one that belongs to no profile.
Launch(x, q) ==
  /\ x \notin born
  /\ q # Stranger =>
       /\ runtime[q.profile] # None
       /\ q.profile \in Docker => q.identity = runtime[q.profile]
  /\ process' = [process EXCEPT ![x] = q]
  /\ born' = born \cup {x}
  /\ UNCHANGED runtime
  /\ WorldMoves

Exit(x) ==
  /\ Consuming(x)
  /\ process' = [process EXCEPT ![x] = None]
  /\ UNCHANGED <<runtime, born>>
  /\ WorldMoves

\* A status is answered at once; a worker goes on with what it got.
Return(c) == IF c \in Workers THEN "answered" ELSE "idle"

--------------------------------------------------------------------------------
(* GenerationStore.next *)

Leave(t) ==
  /\ stage' = [stage EXCEPT ![t] = "idle"]
  /\ asker' = [asker EXCEPT ![t] = None]
  /\ generation' = [generation EXCEPT ![t] = 0]
  /\ scan' = [scan EXCEPT ![t] = Blank]

\* The bound leaves a number for every request that will take one.
MayNumber ==
  file + Cardinality({t \in Numberers : stage[t] \in {"lock", "replace"}}) < MaxGeneration

Unlock(T) == lock' = IF lock \in T THEN None ELSE lock

\* Calls of the callers in C come back with an exception.
Refuse(C) ==
  /\ pc' = [c \in Callers |-> IF c \in C THEN Return(c) ELSE pc[c]]
  /\ seen' = [c \in Callers |-> IF c \in C THEN {} ELSE seen[c]]
  /\ UNCHANGED <<job, plan, result, newest>>

\* Mutant: the file is read without the lock.
MutantLock(t) ==
  /\ stage[t] = "lock"
  /\ lock' = t
  /\ generation' = [generation EXCEPT ![t] = file + 1]
  /\ stage' = [stage EXCEPT ![t] = "replace"]
  /\ UNCHANGED <<world, file, durable, handed, server, asker, scan, callers>>

\* The lock of the process and of the file are taken, the number is read.
Lock(t) ==
  /\ stage[t] = "lock" /\ lock = None
  /\ lock' = t
  /\ generation' = [generation EXCEPT ![t] = file + 1]
  /\ stage' = [stage EXCEPT ![t] = "replace"]
  /\ UNCHANGED <<world, file, durable, handed, server, asker, scan, callers>>

\* The next number was written and synced under a name of its own.
Replace(t) ==
  /\ stage[t] = "replace"
  /\ file' = generation[t]
  /\ stage' = [stage EXCEPT ![t] = "sync"]
  /\ UNCHANGED <<world, durable, lock, handed, server, asker, generation, scan, callers>>

\* A process that starts now listens, or finds that another one does.  A
\* request goes on to the inventory, which matters to the caller that waits.
Number(t) ==
  /\ lock' = None
  /\ handed' = generation[t]
  /\ up' = (up \/ t = Main)
  /\ IF asker[t] = None
     THEN Leave(t)
     ELSE /\ stage' = [stage EXCEPT ![t] = "inspect"]
          /\ UNCHANGED <<asker, generation, scan>>
  /\ UNCHANGED <<world, file, starts, callers>>

\* Mutant: the directory is not synced.
MutantSync(t) ==
  /\ stage[t] = "sync"
  /\ UNCHANGED durable
  /\ Number(t)

\* The directory is synced; the number is the caller's.
Sync(t) ==
  /\ stage[t] = "sync"
  /\ durable' = file
  /\ Number(t)

\* A file cannot be opened, read or written.
NumberingFails(t) ==
  /\ stage[t] \in Numbering
  /\ Unlock({t})
  /\ Leave(t)
  /\ Refuse({asker[t]})
  /\ UNCHANGED <<world, file, durable, handed, server>>

--------------------------------------------------------------------------------
(* ResourceInventory.snapshot *)

Scanning(t) ==
  UNCHANGED <<world, store, server, asker, generation, callers>>

\* A runtime that is not the certified one matches no process.
Verified(p) == IF runtime[p] \in Certified THEN runtime[p] ELSE None

\* docker inspect, or systemctl show and the executable of the main process
Inspect(t, p) ==
  /\ stage[t] = "inspect" /\ p \in scan[t].left
  /\ scan' = [scan EXCEPT ![t] =
       [scan[t] EXCEPT !.left = @ \ {p},
                 !.inspected = [scan[t].inspected EXCEPT ![p] = Verified(p)],
                 !.doubt = @ \/ runtime[p] \notin Certified \cup {None}]]
  /\ UNCHANGED stage
  /\ Scanning(t)

\* A unit that is active but not running
InspectUnhealthy(t, p) ==
  /\ stage[t] = "inspect" /\ p \in scan[t].left \cap Units /\ runtime[p] # None
  /\ scan' = [scan EXCEPT ![t] =
       [scan[t] EXCEPT !.left = @ \ {p},
                 !.inspected = [scan[t].inspected EXCEPT ![p] = Verified(p)],
                 !.unhealthy = @ \cup {p}, !.doubt = TRUE]]
  /\ UNCHANGED stage
  /\ Scanning(t)

InspectFails(t, p) ==
  /\ stage[t] = "inspect" /\ p \in scan[t].left
  /\ scan' = [scan EXCEPT ![t] = [scan[t] EXCEPT !.left = @ \ {p}, !.doubt = TRUE]]
  /\ UNCHANGED stage
  /\ Scanning(t)

\* nvidia-smi --query-compute-apps shows the processes that compute, which is
\* some of those that use the GPU.
QueryCompute(t) ==
  /\ stage[t] = "inspect" /\ scan[t].left = {}
  /\ \E S \in SUBSET {x \in Processes : Consuming(x)} :
       scan' = [scan EXCEPT ![t] = [scan[t] EXCEPT !.rows = S]]
  /\ stage' = [stage EXCEPT ![t] = "list"]
  /\ Scanning(t)

\* Mutant: graphics contexts are not looked for.
MutantList(t) ==
  /\ stage[t] = "list"
  /\ UNCHANGED scan
  /\ stage' = [stage EXCEPT ![t] = "attribute"]
  /\ Scanning(t)

\* nvidia-smi pmon shows all of them; the two lists are united.
List(t) ==
  /\ stage[t] = "list"
  /\ scan' = [scan EXCEPT ![t] =
       [scan[t] EXCEPT !.rows = @ \cup {x \in Processes : Consuming(x)}]]
  /\ stage' = [stage EXCEPT ![t] = "attribute"]
  /\ Scanning(t)

EnumerationFails(t) ==
  /\ stage[t] \in {"inspect", "list"} /\ scan[t].left = {}
  /\ scan' = [scan EXCEPT ![t] = [scan[t] EXCEPT !.rows = {}, !.doubt = TRUE]]
  /\ stage' = [stage EXCEPT ![t] = "attribute"]
  /\ Scanning(t)

\* A process is of the runtime whose container or control group it is in.
Matches(t, x, p) ==
  /\ process[x].profile = p
  /\ scan[t].inspected[p] # None
  /\ p \in Docker => process[x].identity = scan[t].inspected[p]

\* Mutant: the executable of a process in the control group is not looked at.
MutantAttribute(t, x) ==
  /\ stage[t] = "attribute" /\ x \in scan[t].rows
  /\ scan' = [scan EXCEPT ![t] =
       IF Consuming(x) /\ \E p \in Profiles : Matches(t, x, p)
       THEN [scan[t] EXCEPT !.rows = @ \ {x}, !.active = @ \cup {process[x].profile}]
       ELSE [scan[t] EXCEPT !.rows = @ \ {x}, !.doubt = TRUE]]
  /\ UNCHANGED stage
  /\ Scanning(t)

\* The control group of a listed process, and for a unit its executable, are
\* read; a process that is gone, matches nothing or runs something else is an
\* unknown consumer.
Attribute(t, x) ==
  /\ stage[t] = "attribute" /\ x \in scan[t].rows
  /\ scan' = [scan EXCEPT ![t] =
       IF Consuming(x) /\ process[x].identity \in Certified
          /\ \E p \in Profiles : Matches(t, x, p)
       THEN [scan[t] EXCEPT !.rows = @ \ {x}, !.active = @ \cup {process[x].profile}]
       ELSE [scan[t] EXCEPT !.rows = @ \ {x}, !.doubt = TRUE]]
  /\ UNCHANGED stage
  /\ Scanning(t)

\* Memory that no process accounts for, metrics that cannot be read and
\* controller states that cannot be loaded degrade the snapshot.
Finish(t) ==
  /\ stage[t] = "attribute" /\ scan[t].rows = {}
  /\ \E doubt \in {scan[t].doubt, TRUE} :
       scan' = [scan EXCEPT ![t] =
         [Blank EXCEPT !.active = scan[t].active, !.doubt = doubt,
            !.unhealthy = scan[t].unhealthy \cap scan[t].active]]
  /\ stage' = [stage EXCEPT ![t] = "done"]
  /\ Scanning(t)

--------------------------------------------------------------------------------
(* The probe process *)

\* systemd starts the probe, or somebody starts a second one.
StartProbe ==
  /\ stage[Main] = "idle" /\ starts < MaxStarts /\ MayNumber
  /\ stage' = [stage EXCEPT ![Main] = "lock"]
  /\ starts' = starts + 1
  /\ UNCHANGED <<world, store, up, asker, generation, scan, callers>>

StartEnds ==
  /\ stage[Main] # "idle"
  /\ Unlock({Main})
  /\ Leave(Main)
  /\ UNCHANGED <<world, file, durable, handed, server, callers>>

Vanish(T) ==
  /\ stage' = [t \in Numberers |-> IF t \in T THEN "idle" ELSE stage[t]]
  /\ asker' = [t \in Numberers |-> IF t \in T THEN None ELSE asker[t]]
  /\ generation' = [t \in Numberers |-> IF t \in T THEN 0 ELSE generation[t]]
  /\ scan' = [t \in Numberers |-> IF t \in T THEN Blank ELSE scan[t]]

\* The process that listens ends; its clients see the connection close.
ProbeEnds ==
  /\ up
  /\ up' = FALSE
  /\ Unlock(Threads)
  /\ Vanish(Threads)
  /\ Refuse({c \in Callers : pc[c] = "sampling"})
  /\ UNCHANGED <<world, file, durable, handed, starts>>

Forget ==
  /\ pc' = [c \in Callers |-> "idle"]
  /\ job' = [c \in Callers |-> None]
  /\ plan' = [c \in Callers |-> None]
  /\ result' = [c \in Callers |-> None]
  /\ seen' = [c \in Callers |-> {}]
  /\ newest' = 0

\* The host loses power; a rename whose directory was not synced may be lost.
PowerLoss ==
  /\ runtime' = [p \in Profiles |-> None]
  /\ process' = [x \in Processes |-> None]
  /\ file' \in {file, durable} /\ durable' = file' /\ lock' = None
  /\ up' = FALSE
  /\ Vanish(Numberers)
  /\ Forget
  /\ UNCHANGED <<born, handed, starts>>

--------------------------------------------------------------------------------
(* The broker: _combined_snapshot and its callers *)

Snapshot(t) ==
  [active |-> scan[t].active, unhealthy |-> scan[t].unhealthy, doubt |-> scan[t].doubt]

Calling == UNCHANGED <<world, store, server, requests, newest>>

\* A worker takes a job and asks for hints.
TakeJob(c) ==
  /\ c \in Workers /\ pc[c] = "idle"
  /\ \E j \in Jobs : job' = [job EXCEPT ![c] = j]
  /\ pc' = [pc EXCEPT ![c] = "waiting"]
  /\ UNCHANGED <<plan, result, seen>>
  /\ Calling

AskStatus(c) ==
  /\ c \in Observers /\ pc[c] = "idle"
  /\ pc' = [pc EXCEPT ![c] = "waiting"]
  /\ UNCHANGED <<job, plan, result, seen>>
  /\ Calling

\* Mutant: samples are not serialized.
MutantSend(c, t) ==
  /\ pc[c] = "waiting"
  /\ up /\ stage[t] = "idle" /\ MayNumber
  /\ stage' = [stage EXCEPT ![t] = "lock"]
  /\ asker' = [asker EXCEPT ![t] = c]
  /\ pc' = [pc EXCEPT ![c] = "sampling"]
  /\ seen' = [seen EXCEPT ![c] = {Users}]
  /\ UNCHANGED <<world, store, server, generation, scan, job, plan, result, newest>>

\* _probe_generation_lock is taken and a request sent.
Send(c, t) ==
  /\ pc[c] = "waiting"
  /\ \A d \in Callers : pc[d] # "sampling"
  /\ up /\ stage[t] = "idle" /\ MayNumber
  /\ stage' = [stage EXCEPT ![t] = "lock"]
  /\ asker' = [asker EXCEPT ![t] = c]
  /\ pc' = [pc EXCEPT ![c] = "sampling"]
  /\ seen' = [seen EXCEPT ![c] = {Users}]
  /\ UNCHANGED <<world, store, server, generation, scan, job, plan, result, newest>>

NoConnection(c) ==
  /\ pc[c] = "waiting" /\ ~up
  /\ \A d \in Callers : pc[d] # "sampling"
  /\ Refuse({c})
  /\ UNCHANGED <<world, store, server, requests>>

\* The request of c is answered.  A number below the newest is refused.
Accept(c, t) ==
  /\ stage[t] = "done" /\ asker[t] = c
  /\ Leave(t)
  /\ IF generation[t] < newest
     THEN Refuse({c})
     ELSE /\ newest' = generation[t]
          /\ pc' = [pc EXCEPT ![c] = Return(c)]
          /\ result' = IF c \in Workers THEN [result EXCEPT ![c] = Snapshot(t)] ELSE result
          /\ seen' = IF plan[c] # None THEN seen ELSE [seen EXCEPT ![c] = {}]
          /\ UNCHANGED <<job, plan>>
  /\ UNCHANGED <<world, store, server>>

\* The answer does not come in time.  A request that has no number yet still
\* takes one.
GiveUp(c, t) ==
  /\ asker[t] = c
  /\ Refuse({c})
  /\ IF stage[t] \in Numbering
     THEN asker' = [asker EXCEPT ![t] = None] /\ UNCHANGED <<stage, generation, scan>>
     ELSE Leave(t)
  /\ UNCHANGED <<world, store, server>>

Done(c) ==
  /\ pc' = [pc EXCEPT ![c] = "idle"]
  /\ job' = [job EXCEPT ![c] = None]
  /\ plan' = [plan EXCEPT ![c] = None]
  /\ result' = [result EXCEPT ![c] = None]
  /\ seen' = [seen EXCEPT ![c] = {}]
  /\ Calling

\* routing_context: what a refused sample tells is nothing.
Hint(snapshot) ==
  IF snapshot = None THEN NoHint
  ELSE [NoHint EXCEPT !.active = snapshot.active, !.unhealthy = snapshot.unhealthy]

Planning(c) == pc[c] = "answered" /\ job[c] # None
Admitting(c) == pc[c] = "answered" /\ plan[c] # None

\* _validate_snapshot: no unknown consumer, the probe and the profile healthy
Valid(snapshot) == snapshot # None /\ ~snapshot.doubt

\* _validate_compatibility: other profiles are active only in certified pairs.
Compatible(snapshot, profile) ==
  \A q \in snapshot.active \ {profile} : {q, profile} \in Coexist

\* Mutant: the sample that planned the job admits it.
MutantPlan(c) ==
  /\ Planning(c)
  /\ \E r \in Routes :
       /\ Decides(r, job[c], Hint(result[c]))
       /\ plan' = [plan EXCEPT ![c] = r]
  /\ pc' = [pc EXCEPT ![c] = IF Valid(result[c]) THEN "leased" ELSE "waiting"]
  /\ result' = [result EXCEPT ![c] = None]
  /\ job' = [job EXCEPT ![c] = None]
  /\ seen' = [seen EXCEPT ![c] = {}]
  /\ Calling

\* The executor plans on the hints; acquire samples again.
Plan(c) ==
  /\ Planning(c)
  /\ \E r \in Routes :
       /\ Decides(r, job[c], Hint(result[c]))
       /\ plan' = [plan EXCEPT ![c] = r]
  /\ pc' = [pc EXCEPT ![c] = "waiting"]
  /\ result' = [result EXCEPT ![c] = None]
  /\ job' = [job EXCEPT ![c] = None]
  /\ seen' = [seen EXCEPT ![c] = {}]
  /\ Calling

\* No route serves the job: it fails.
PlanFails(c) ==
  /\ Planning(c)
  /\ Candidates(job[c], Hint(result[c])) = {}
  /\ Done(c)

\* acquire: the lease becomes active.
Acquire(c) ==
  /\ Admitting(c)
  /\ Valid(result[c])
  /\ Compatible(result[c], plan[c].profile)
  /\ pc' = [pc EXCEPT ![c] = "leased"]
  /\ result' = [result EXCEPT ![c] = None]
  /\ UNCHANGED <<job, plan, seen>>
  /\ Calling

\* Refused by the sample, or for want of memory: the job is deferred.
Defer(c) ==
  /\ Admitting(c)
  /\ Done(c)

Release(c) ==
  /\ pc[c] = "leased"
  /\ Done(c)

--------------------------------------------------------------------------------

Host ==
  \/ \E p \in Profiles : StartRuntime(p) \/ StopRuntime(p)
  \/ \E x \in Processes : Exit(x) \/ \E q \in Consumers : Launch(x, q)

Probe ==
  \/ \E t \in Numberers :
       Lock(t) \/ Replace(t) \/ Sync(t) \/ NumberingFails(t)
  \/ \E t \in Threads :
       \/ \E p \in Profiles : Inspect(t, p) \/ InspectUnhealthy(t, p) \/ InspectFails(t, p)
       \/ QueryCompute(t) \/ List(t) \/ EnumerationFails(t)
       \/ \E x \in Processes : Attribute(t, x)
       \/ Finish(t)
  \/ StartProbe \/ StartEnds \/ ProbeEnds

Broker ==
  \E c \in Callers :
    \/ TakeJob(c) \/ AskStatus(c) \/ NoConnection(c)
    \/ \E t \in Threads : Send(c, t) \/ Accept(c, t) \/ GiveUp(c, t)
    \/ Plan(c) \/ PlanFails(c) \/ Acquire(c) \/ Defer(c) \/ Release(c)

Next == Host \/ Probe \/ Broker \/ PowerLoss

Spec == Init /\ [][Next]_vars

--------------------------------------------------------------------------------
(* Properties *)

\* "Durable and monotonic for observations": across crashes, power losses, failed
\* writes and probes started side by side, the numbers handed out only grow.
Counter == INSTANCE GenerationCounter WITH last <- handed
GenerationsOnlyGrow == Counter!Spec

\* "Every served value is durable": no power loss takes back a number that was
\* handed out.
ServedIsDurable == handed <= durable

\* The broker never takes the probe's numbers for going backwards, nor a sample
\* for older than the one before it, whatever requests it gave up on.
SamplesAdvance ==
  \A t \in Threads : stage[t] \in Reading => generation[t] > newest

\* A snapshot without errors hides no consumer, though it was read piece by
\* piece: at one moment since it was asked for, everybody on the GPU was a
\* profile it lists, running what was certified.
NothingHidden ==
  \A t \in Threads :
    stage[t] = "done" /\ Valid(Snapshot(t)) =>
      \E U \in seen[asker[t]] : U \subseteq Snapshot(t).active

\* A profile that a snapshot lists did use the GPU since it was asked for: what
\* verify_activation concludes from it is not the state before the activation.
ListedWasThere ==
  \A t \in Threads :
    stage[t] = "done" => \A p \in Snapshot(t).active : \E U \in seen[asker[t]] : p \in U

\* "A stale routing hint ... can never grant a lease": a lease rests on a moment
\* after the job was planned, at which nobody was on the GPU but the profile
\* it is for and those certified to be there with it.
LeaseIsGrounded ==
  \A c \in Callers : pc[c] = "leased" =>
    \E U \in seen[c] : \A q \in U \ {plan[c].profile} : {q, plan[c].profile} \in Coexist

\* What the hint is for: a job that may run anywhere is planned on a profile
\* known to be active, when one of them serves it.
ResidentIsPreferred ==
  [][\A c \in Callers :
       plan[c] = None /\ plan'[c] # None /\ job[c].preference = "balanced" =>
         LET hint == Hint(result[c])
         IN  (\E r \in Candidates(job[c], hint) : r.profile \in hint.active)
               => plan'[c].profile \in hint.active]_plan
================================================================================
