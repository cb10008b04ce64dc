--------------------------- MODULE ResourceProbeProofs --------------------------
(***************************************************************************)
(* Theorems about ResourceProbe, for any profiles, runtimes, processes,    *)
(* routes and jobs, any number of requests, callers and starts.            *)
(***************************************************************************)
EXTENDS ResourceProbe, FiniteInduction, SequenceTheorems

--------------------------------------------------------------------------------
(* What the steps of each group have in common *)

\* A process comes to the GPU under an id that was not used, or leaves it.
LEMMA HostStep ==
  ASSUME TypeOK, \A x \in Processes : Consuming(x) => x \in born, Host
  PROVE  /\ WorldMoves /\ WorldTypes'
         /\ \A x \in Processes :
              /\ process'[x] \in {process[x], None} \/ x \notin born
              /\ Consuming(x)' => x \in born'
         /\ born \subseteq born'
<1> USE DEF TypeOK, WorldTypes, Consuming
<1>0. /\ DOMAIN Identities = Profiles /\ Stranger \in Consumers
      /\ \A p \in Profiles : Identities[p] \subseteq Found
  BY ProfilesAssumption DEF Found, Consumers
<1>1. CASE \E p \in Profiles : StartRuntime(p)
  BY <1>0, <1>1 DEF StartRuntime
<1>2. CASE \E p \in Profiles : StopRuntime(p)
  BY <1>2 DEF StopRuntime
<1>3. CASE \E x \in Processes : Exit(x)
  BY <1>3 DEF Exit
<1>4. ASSUME NEW x \in Processes, NEW q \in Consumers, Launch(x, q)
      PROVE  /\ WorldMoves /\ WorldTypes'
             /\ \A y \in Processes :
                  /\ process'[y] \in {process[y], None} \/ y \notin born
                  /\ Consuming(y)' => y \in born'
             /\ born \subseteq born'
  <2>1. /\ WorldMoves /\ runtime' = runtime /\ x \notin born /\ born' = born \cup {x}
        /\ process' = [process EXCEPT ![x] = q]
    BY <1>4 DEF Launch
  <2>2. WorldTypes'
    BY <2>1
  <2>3. \A y \in Processes : Consuming(y)' => y \in born'
    BY <2>1
  <2> QED
    BY <2>1, <2>2, <2>3
<1> QED
  BY <1>1, <1>2, <1>3, <1>4 DEF Host

\* A step of an inventory is of one request, and stays within it.
Scan(t) ==
  \/ \E p \in Profiles : Inspect(t, p) \/ InspectUnhealthy(t, p) \/ InspectFails(t, p)
  \/ QueryCompute(t) \/ List(t) \/ EnumerationFails(t)
  \/ \E x \in Processes : Attribute(t, x)
  \/ Finish(t)

LEMMA ScanStep ==
  ASSUME TypeOK, NEW t \in Threads, Scan(t)
  PROVE  /\ Scanning(t) /\ stage[t] \in Reading
         /\ \E s \in Reading : stage' = [stage EXCEPT ![t] = s]
         /\ \E r \in Scans : scan' = [scan EXCEPT ![t] = r]
<1> USE DEF TypeOK, RequestTypes, WorldTypes, Numberers, Reading
<1>0. scan[t] \in Scans /\ t \in DOMAIN stage /\ stage[t] \in {"idle"} \cup Numbering \cup Reading
  OBVIOUS
<1>a. stage = [stage EXCEPT ![t] = stage[t]]
  OBVIOUS
<1>b. \A p \in Profiles : Verified(p) \in Found \cup {None}
  BY DEF Verified
<1>1. ASSUME NEW p \in Profiles, Inspect(t, p) PROVE \E r \in Scans : scan' = [scan EXCEPT ![t] = r]
  <2> DEFINE r == [scan[t] EXCEPT !.left = @ \ {p},
                 !.inspected = [scan[t].inspected EXCEPT ![p] = Verified(p)],
                 !.doubt = @ \/ runtime[p] \notin Certified \cup {None}]
  <2>1. r \in Scans
    BY <1>0, <1>b DEF Scans
  <2>2. scan' = [scan EXCEPT ![t] = r]
    BY <1>1 DEF Inspect
  <2> QED
    BY <2>1, <2>2
<1>2. ASSUME NEW p \in Profiles, InspectUnhealthy(t, p) PROVE \E r \in Scans : scan' = [scan EXCEPT ![t] = r]
  <2> DEFINE r == [scan[t] EXCEPT !.left = @ \ {p},
                 !.inspected = [scan[t].inspected EXCEPT ![p] = Verified(p)],
                 !.unhealthy = @ \cup {p}, !.doubt = TRUE]
  <2>1. r \in Scans
    BY <1>0, <1>b DEF Scans
  <2>2. scan' = [scan EXCEPT ![t] = r]
    BY <1>2 DEF InspectUnhealthy
  <2> QED
    BY <2>1, <2>2
<1>3. ASSUME NEW p \in Profiles, InspectFails(t, p) PROVE \E r \in Scans : scan' = [scan EXCEPT ![t] = r]
  <2> DEFINE r == [scan[t] EXCEPT !.left = @ \ {p}, !.doubt = TRUE]
  <2>1. r \in Scans
    BY <1>0 DEF Scans
  <2>2. scan' = [scan EXCEPT ![t] = r]
    BY <1>3 DEF InspectFails
  <2> QED
    BY <2>1, <2>2
<1>4. ASSUME QueryCompute(t) PROVE \E r \in Scans : scan' = [scan EXCEPT ![t] = r]
  <2>1. PICK S \in SUBSET {x \in Processes : Consuming(x)} :
          scan' = [scan EXCEPT ![t] = [@ EXCEPT !.rows = S]]
    BY <1>4 DEF QueryCompute
  <2>2. [scan[t] EXCEPT !.rows = S] \in Scans
    BY <1>0 DEF Scans
  <2> QED
    BY <2>1, <2>2
<1>5. ASSUME List(t) PROVE \E r \in Scans : scan' = [scan EXCEPT ![t] = r]
  <2>1. [scan[t] EXCEPT !.rows = @ \cup {x \in Processes : Consuming(x)}] \in Scans
    BY <1>0 DEF Scans
  <2> QED
    BY <1>5, <2>1 DEF List
<1>6. ASSUME EnumerationFails(t) PROVE \E r \in Scans : scan' = [scan EXCEPT ![t] = r]
  <2>1. [scan[t] EXCEPT !.rows = {}, !.doubt = TRUE] \in Scans
    BY <1>0 DEF Scans
  <2> QED
    BY <1>6, <2>1 DEF EnumerationFails
<1>7. ASSUME NEW x \in Processes, Attribute(t, x) PROVE \E r \in Scans : scan' = [scan EXCEPT ![t] = r]
  <2>1. [scan[t] EXCEPT !.rows = @ \ {x}, !.doubt = TRUE] \in Scans
    BY <1>0 DEF Scans
  <2>2. process[x].profile \in Profiles =>
          [scan[t] EXCEPT !.rows = @ \ {x}, !.active = @ \cup {process[x].profile}] \in Scans
    BY <1>0 DEF Scans
  <2>3. (\E p \in Profiles : Matches(t, x, p)) => process[x].profile \in Profiles
    BY DEF Matches
  <2> QED
    BY <1>7, <2>1, <2>2, <2>3 DEF Attribute
<1>8. ASSUME Finish(t) PROVE \E r \in Scans : scan' = [scan EXCEPT ![t] = r]
  <2>1. PICK doubt \in {scan[t].doubt, TRUE} :
       scan' = [scan EXCEPT ![t] =
         [Blank EXCEPT !.active = scan[t].active, !.doubt = doubt,
            !.unhealthy = scan[t].unhealthy \cap scan[t].active]]
    BY <1>8 DEF Finish
  <2>2. [Blank EXCEPT !.active = scan[t].active, !.doubt = doubt,
            !.unhealthy = scan[t].unhealthy \cap scan[t].active] \in Scans
    BY <1>0 DEF Scans, Blank
  <2> QED
    BY <2>1, <2>2
<1>9. Scanning(t) /\ stage[t] \in Reading /\ \E s \in Reading : stage' = [stage EXCEPT ![t] = s]
  BY <1>a DEF Scan, Inspect, InspectUnhealthy, InspectFails, QueryCompute, List, EnumerationFails,
              Attribute, Finish
<1> QED
  BY <1>1, <1>2, <1>3, <1>4, <1>5, <1>6, <1>7, <1>8, <1>9 DEF Scan

\* The steps, by what they belong to.
LEMMA Steps ==
  ASSUME Next
  PROVE  \/ Host
         \/ \E t \in Threads : Scan(t)
         \/ \E t \in Numberers : Lock(t) \/ Replace(t) \/ Sync(t) \/ NumberingFails(t)
         \/ StartProbe \/ StartEnds \/ ProbeEnds \/ PowerLoss
         \/ \E c \in Callers :
              \/ TakeJob(c) \/ AskStatus(c) \/ NoConnection(c)
              \/ \E t \in Threads : Send(c, t) \/ Accept(c, t) \/ GiveUp(c, t)
              \/ Plan(c) \/ Acquire(c)
              \/ pc[c] \in {"answered", "leased"} /\ Done(c)
BY DEF Next, Probe, Broker, Scan, PlanFails, Defer, Release, Planning, Admitting

--------------------------------------------------------------------------------
(* Types *)

LEMMA Blanks ==
  /\ Blank \in Scans /\ None \notin Callers /\ None \notin Numberers /\ Main \notin Threads
  /\ Threads \subseteq Numberers /\ Main \in Numberers /\ Workers \subseteq Callers
BY ProfilesAssumption, ThreadsAssumption DEF Blank, Scans, Numberers, Callers

LEMMA InitTypes == Init => TypeOK
<1> SUFFICES ASSUME Init PROVE TypeOK
  OBVIOUS
<1> USE DEF Init
<1>1. WorldTypes
  BY DEF WorldTypes
<1>2. StoreTypes
  BY Zenon DEF StoreTypes
<1>3. RequestTypes
  BY Blanks DEF RequestTypes
<1>4. CallerTypes
  BY DEF CallerTypes
<1>5. Linked
  BY DEF Linked
<1> QED
  BY <1>1, <1>2, <1>3, <1>4, <1>5 DEF TypeOK

\* Leave and Refuse keep the types.
LEMMA LeaveTypes ==
  ASSUME RequestTypes, NEW t \in Numberers, Leave(t)
  PROVE  RequestTypes'
BY Blanks DEF RequestTypes, Leave

LEMMA RefuseTypes ==
  ASSUME CallerTypes, NEW C, Refuse(C)
  PROVE  CallerTypes'
BY DEF CallerTypes, Refuse, Return

LEMMA SnapshotTypes ==
  ASSUME RequestTypes, NEW t \in Numberers
  PROVE  Snapshot(t) \in Snapshots
<1>1. scan[t] \in Scans
  BY DEF RequestTypes
<1> QED
  BY <1>1 DEF Scans, Snapshot, Snapshots

LEMMA UsersTypes ==
  /\ WorldTypes => Users \in SUBSET (Profiles \cup {None})
  /\ WorldTypes' => Users' \in SUBSET (Profiles \cup {None})
<1>1. \A q \in Consumers : q.profile \in Profiles \cup {None}
  BY DEF Consumers, Stranger
<1> QED
  BY <1>1 DEF WorldTypes, Users, Owner, Consuming

LEMMA TypesStep ==
  ASSUME TypeOK, \A x \in Processes : Consuming(x) => x \in born, [Next]_vars
  PROVE  TypeOK'
<1> USE Blanks
<1>0. WorldTypes /\ StoreTypes /\ RequestTypes /\ CallerTypes /\ Linked
  BY DEF TypeOK
<1>a. ASSUME UNCHANGED world PROVE WorldTypes'
  BY <1>0, <1>a DEF WorldTypes, world
<1>b. ASSUME UNCHANGED <<store, server>> PROVE StoreTypes'
  BY <1>0, <1>b DEF StoreTypes, store, server
<1>c. ASSUME UNCHANGED requests PROVE RequestTypes'
  BY <1>0, <1>c DEF RequestTypes, requests
<1>d. ASSUME UNCHANGED callers PROVE CallerTypes'
  BY <1>0, <1>d DEF CallerTypes, callers
<1>e. ASSUME UNCHANGED <<asker, pc>> PROVE Linked'
  BY <1>0, <1>e DEF Linked
<1>f. ASSUME NEW c \in Callers, pc[c] # "sampling", UNCHANGED asker,
             \E s \in {"idle", "waiting", "sampling", "answered", "leased"} :
               pc' = [pc EXCEPT ![c] = s]
      PROVE  Linked'
  BY <1>0, <1>f DEF Linked, RequestTypes, CallerTypes
<1>1. CASE Host
  <2>1. WorldMoves /\ WorldTypes'
    BY <1>1, HostStep
  <2>2. CallerTypes'
    BY <2>1, <1>0, UsersTypes DEF WorldMoves, Witness, CallerTypes
  <2> QED
    BY <2>1, <2>2, <1>b, <1>c, <1>e DEF TypeOK, WorldMoves, requests
<1>2. ASSUME NEW t \in Threads, Scan(t) PROVE TypeOK'
  <2>1. /\ Scanning(t)
        /\ \E s \in Reading : stage' = [stage EXCEPT ![t] = s]
        /\ \E r \in Scans : scan' = [scan EXCEPT ![t] = r]
    BY <1>2, ScanStep
  <2>2. RequestTypes'
    BY <2>1, <1>0 DEF RequestTypes, Scanning
  <2> QED
    BY <2>1, <2>2, <1>a, <1>b, <1>d, <1>e DEF TypeOK, Scanning, callers
<1>3. ASSUME NEW t \in Numberers, Lock(t) PROVE TypeOK'
  <2>1. StoreTypes' /\ RequestTypes'
    BY <1>3, <1>0 DEF Lock, StoreTypes, RequestTypes, server, Numbering
  <2> QED
    BY <2>1, <1>3, <1>a, <1>d, <1>e DEF Lock, TypeOK, callers
<1>4. ASSUME NEW t \in Numberers, Replace(t) PROVE TypeOK'
  <2>1. StoreTypes' /\ RequestTypes'
    BY <1>4, <1>0 DEF Replace, StoreTypes, RequestTypes, server, Numbering
  <2> QED
    BY <2>1, <1>4, <1>a, <1>d, <1>e DEF Replace, TypeOK, callers
<1>5. ASSUME NEW t \in Numberers, Sync(t) PROVE TypeOK'
  <2>1. StoreTypes'
    <3>1. generation[t] \in Nat /\ file' \in Nat /\ durable' \in Nat /\ starts' \in Nat
      BY <1>5, <1>0 DEF Sync, Number, StoreTypes, RequestTypes
    <3>2. handed' \in Nat /\ lock' \in Numberers \cup {None}
      BY <1>5, <3>1 DEF Sync, Number
    <3>3. up' \in BOOLEAN
      BY <1>5, <1>0, Zenon DEF Sync, Number, StoreTypes
    <3> QED
      BY <3>1, <3>2, <3>3, Zenon DEF StoreTypes
  <2>2. RequestTypes' /\ Linked'
    <3>1. CASE asker[t] = None
      BY <1>5, <3>1, <1>0, LeaveTypes DEF Sync, Number, Leave, Linked, RequestTypes, callers
    <3>2. CASE asker[t] # None
      BY <1>5, <3>2, <1>0 DEF Sync, Number, Linked, RequestTypes, callers, Reading
    <3> QED
      BY <3>1, <3>2
  <2> QED
    BY <2>1, <2>2, <1>5, <1>a, <1>d DEF Sync, Number, TypeOK
<1>6. ASSUME NEW t \in Numberers, NumberingFails(t) PROVE TypeOK'
  <2>1. StoreTypes'
    BY <1>6, <1>0 DEF NumberingFails, StoreTypes, Unlock, server
  <2>2. RequestTypes' /\ CallerTypes'
    BY <1>6, <1>0, LeaveTypes, RefuseTypes DEF NumberingFails
  <2>3. Linked'
    BY <1>6, <1>0 DEF NumberingFails, Linked, Leave, Refuse, RequestTypes, CallerTypes
  <2> QED
    BY <2>1, <2>2, <2>3, <1>6, <1>a DEF NumberingFails, TypeOK
<1>7. CASE StartProbe
  <2>1. StoreTypes' /\ RequestTypes'
    BY <1>7, <1>0 DEF StartProbe, StoreTypes, RequestTypes, store, Numbering
  <2> QED
    BY <2>1, <1>7, <1>a, <1>d, <1>e DEF StartProbe, TypeOK, callers
<1>8. CASE StartEnds
  <2>1. StoreTypes'
    BY <1>8, <1>0 DEF StartEnds, StoreTypes, Unlock, server
  <2>2. RequestTypes'
    BY <1>8, <1>0, LeaveTypes DEF StartEnds
  <2>3. Linked'
    BY <1>8, <1>0 DEF StartEnds, Linked, Leave, RequestTypes, callers
  <2> QED
    BY <2>1, <2>2, <2>3, <1>8, <1>a, <1>d DEF StartEnds, TypeOK
<1>9. CASE ProbeEnds
  <2>1. StoreTypes'
    BY <1>9, <1>0 DEF ProbeEnds, StoreTypes, Unlock
  <2>2. RequestTypes' /\ CallerTypes'
    BY <1>9, <1>0, RefuseTypes DEF ProbeEnds, Vanish, RequestTypes
  <2>3. Linked'
    BY <1>9, <1>0 DEF ProbeEnds, Linked, Vanish
  <2> QED
    BY <2>1, <2>2, <2>3, <1>9, <1>a DEF ProbeEnds, TypeOK
<1>10. CASE PowerLoss
  <2>1. WorldTypes'
    BY <1>10, <1>0 DEF PowerLoss, WorldTypes
  <2>2. StoreTypes'
    BY <1>10, <1>0 DEF PowerLoss, StoreTypes
  <2>3. RequestTypes' /\ Linked'
    BY <1>10, <1>0 DEF PowerLoss, Vanish, RequestTypes, Linked
  <2>4. CallerTypes'
    BY <1>10 DEF PowerLoss, Forget, CallerTypes
  <2> QED
    BY <2>1, <2>2, <2>3, <2>4 DEF TypeOK
<1>11. ASSUME NEW c \in Callers, TakeJob(c) \/ AskStatus(c) PROVE TypeOK'
  <2>1. CallerTypes'
    BY <1>11, <1>0 DEF TakeJob, AskStatus, Calling, CallerTypes
  <2> QED
    BY <2>1, <1>11, <1>a, <1>b, <1>c, <1>f
    DEF TakeJob, AskStatus, Calling, TypeOK, requests
<1>12. ASSUME NEW c \in Callers, NoConnection(c) PROVE TypeOK'
  <2>1. CallerTypes'
    BY <1>12, <1>0, RefuseTypes DEF NoConnection
  <2>2. Linked'
    BY <1>12, <1>0 DEF NoConnection, Refuse, Linked, RequestTypes, requests
  <2> QED
    BY <2>1, <2>2, <1>12, <1>a, <1>b, <1>c DEF NoConnection, TypeOK
<1>13. ASSUME NEW c \in Callers, NEW t \in Threads, Send(c, t) PROVE TypeOK'
  <2>1. CallerTypes'
    BY <1>13, <1>0, UsersTypes DEF Send, CallerTypes
  <2>2. RequestTypes'
    BY <1>13, <1>0 DEF Send, RequestTypes, Numbering
  <2>3. \A r \in Numberers : asker[r] = None
    BY <1>13, <1>0 DEF Send, Linked, RequestTypes
  <2>4. Linked'
    BY <1>13, <1>0, <2>3 DEF Send, Linked, RequestTypes, CallerTypes
  <2> QED
    BY <2>1, <2>2, <2>4, <1>13, <1>a, <1>b DEF Send, TypeOK
<1>14. ASSUME NEW c \in Callers, NEW t \in Threads, Accept(c, t) PROVE TypeOK'
  <2>1. CallerTypes'
    <3>1. CASE generation[t] < newest
      BY <3>1, <1>14, <1>0, RefuseTypes DEF Accept
    <3>2. CASE ~(generation[t] < newest)
      <4>1. newest' \in Nat
        BY <3>2, <1>14, <1>0 DEF Accept, RequestTypes
      <4>2. result' \in [Callers -> Snapshots \cup {None}]
        BY <3>2, <1>14, <1>0, SnapshotTypes DEF Accept, CallerTypes
      <4> QED
        BY <4>1, <4>2, <3>2, <1>14, <1>0 DEF Accept, CallerTypes, Return
    <3> QED
      BY <3>1, <3>2
  <2>2. RequestTypes'
    BY <1>14, <1>0, LeaveTypes DEF Accept
  <2>3. \A r \in Numberers : asker'[r] = None
    BY <1>14, <1>0 DEF Accept, Leave, Linked, RequestTypes
  <2> QED
    BY <2>1, <2>2, <2>3, <1>14, <1>a, <1>b DEF Accept, TypeOK, Linked
<1>15. ASSUME NEW c \in Callers, NEW t \in Threads, GiveUp(c, t) PROVE TypeOK'
  <2>1. CallerTypes'
    BY <1>15, <1>0, RefuseTypes DEF GiveUp
  <2>2. RequestTypes'
    BY <1>15, <1>0, LeaveTypes DEF GiveUp, RequestTypes
  <2>3. \A r \in Numberers : asker'[r] = None
    BY <1>15, <1>0 DEF GiveUp, Leave, Linked, RequestTypes
  <2> QED
    BY <2>1, <2>2, <2>3, <1>15, <1>a, <1>b DEF GiveUp, TypeOK, Linked
<1>16. ASSUME NEW c \in Callers, Plan(c) \/ Acquire(c) PROVE TypeOK'
  <2>1. CallerTypes'
    BY <1>16, <1>0 DEF Plan, Acquire, Calling, CallerTypes
  <2> QED
    BY <2>1, <1>16, <1>a, <1>b, <1>c, <1>f
    DEF Plan, Acquire, Planning, Admitting, Calling, TypeOK, requests
<1>17. ASSUME NEW c \in Callers, pc[c] \in {"answered", "leased"}, Done(c) PROVE TypeOK'
  <2>1. CallerTypes'
    BY <1>17, <1>0 DEF Done, Calling, CallerTypes
  <2> QED
    BY <2>1, <1>17, <1>a, <1>b, <1>c, <1>f DEF Done, Calling, TypeOK, requests
<1>18. CASE UNCHANGED vars
  BY <1>18, <1>a, <1>b, <1>c, <1>d, <1>e DEF vars, TypeOK, requests, callers
<1> QED
  BY <1>1, <1>2, <1>3, <1>4, <1>5, <1>6, <1>7, <1>8, <1>9, <1>10, <1>11, <1>12, <1>13, <1>14,
     <1>15, <1>16, <1>17, <1>18, Steps

--------------------------------------------------------------------------------
(* Generations *)

\* Only the holder of the lock writes; what it writes follows what it read, and
\* is handed out once it is durable.
Numbers ==
  /\ handed <= durable /\ durable <= file
  /\ \A t \in Numberers :
       /\ stage[t] \in {"replace", "sync"} => lock = t
       /\ stage[t] = "replace" => generation[t] = file + 1
       /\ stage[t] = "sync" => generation[t] = file /\ handed < file

\* An inventory in progress has a caller, and a generation that no caller got.
Fresh ==
  /\ newest <= handed
  /\ \A t \in Numberers : stage[t] \in Reading =>
       asker[t] # None /\ newest < generation[t] /\ generation[t] <= handed

LEMMA NumbersStep ==
  ASSUME TypeOK, Numbers, [Next]_vars
  PROVE  Numbers' /\ (handed' = handed \/ handed' > handed)
<1> USE Blanks DEF Numbers, TypeOK, StoreTypes, RequestTypes
<1>a. ASSUME UNCHANGED <<file, durable, handed, lock, stage, generation>>
      PROVE  Numbers' /\ handed' = handed
  BY <1>a
<1>1. CASE Host
  BY <1>1, <1>a, Zenon DEF Host, StartRuntime, StopRuntime, Exit, Launch, WorldMoves, store,
     requests
<1>2. ASSUME NEW t \in Threads, Scan(t) PROVE Numbers' /\ handed' = handed
  <2>1. Scanning(t) /\ \E s \in Reading : stage' = [stage EXCEPT ![t] = s]
    BY <1>2, ScanStep
  <2> QED
    BY <2>1 DEF Scanning, store, Reading
<1>3. ASSUME NEW t \in Numberers, Lock(t) PROVE Numbers' /\ handed' = handed
  BY <1>3 DEF Lock
<1>4. ASSUME NEW t \in Numberers, Replace(t) PROVE Numbers' /\ handed' = handed
  <2>1. \A r \in Numberers : stage[r] \in {"replace", "sync"} => r = t
    BY <1>4 DEF Replace
  <2> QED
    BY <1>4, <2>1 DEF Replace
<1>5. ASSUME NEW t \in Numberers, Sync(t) PROVE Numbers' /\ handed' > handed
  <2>1. \A r \in Numberers : stage[r] \in {"replace", "sync"} => r = t
    BY <1>5 DEF Sync
  <2>2. generation[t] = file /\ handed < file
    BY <1>5 DEF Sync
  <2>3. handed' = file /\ durable' = file /\ file' = file
    BY <1>5, <2>2 DEF Sync, Number
  <2>4. \A r \in Numberers : stage'[r] \notin {"replace", "sync"}
    BY <1>5, <2>1 DEF Sync, Number, Leave
  <2> QED
    BY <2>2, <2>3, <2>4
<1>6. ASSUME NEW t \in Numberers, NumberingFails(t) PROVE Numbers' /\ handed' = handed
  BY <1>6 DEF NumberingFails, Unlock, Leave
<1>7. CASE StartProbe
  BY <1>7 DEF StartProbe, store
<1>8. CASE StartEnds
  BY <1>8 DEF StartEnds, Unlock, Leave
<1>9. CASE ProbeEnds
  BY <1>9 DEF ProbeEnds, Unlock, Vanish
<1>10. CASE PowerLoss
  BY <1>10 DEF PowerLoss, Vanish
<1>11. ASSUME NEW c \in Callers,
              \/ TakeJob(c) \/ AskStatus(c) \/ NoConnection(c)
              \/ Plan(c) \/ Acquire(c) \/ Done(c)
       PROVE  Numbers' /\ handed' = handed
  BY <1>11, <1>a, Zenon
  DEF TakeJob, AskStatus, NoConnection, Plan, Acquire, Done, Calling, store, requests
<1>12. ASSUME NEW c \in Callers, NEW t \in Threads, Send(c, t)
       PROVE  Numbers' /\ handed' = handed
  BY <1>12 DEF Send, store
<1>13. ASSUME NEW c \in Callers, NEW t \in Threads, Accept(c, t)
       PROVE  Numbers' /\ handed' = handed
  BY <1>13 DEF Accept, store, Leave
<1>14. ASSUME NEW c \in Callers, NEW t \in Threads, GiveUp(c, t)
       PROVE  Numbers' /\ handed' = handed
  BY <1>14 DEF GiveUp, store, Leave, Numbering
<1>15. CASE UNCHANGED vars
  BY <1>15, <1>a DEF vars, store, requests
<1> QED
  BY <1>1, <1>2, <1>3, <1>4, <1>5, <1>6, <1>7, <1>8, <1>9, <1>10, <1>11, <1>12, <1>13, <1>14,
     <1>15, Steps

LEMMA FreshStep ==
  ASSUME TypeOK, Numbers, Fresh, [Next]_vars
  PROVE  Fresh'
<1> USE Blanks DEF Fresh, TypeOK, StoreTypes, RequestTypes, CallerTypes
<1>a. ASSUME UNCHANGED <<handed, newest, stage, asker, generation>>
      PROVE  Fresh'
  BY <1>a
<1>1. CASE Host
  BY <1>1, <1>a, Zenon DEF Host, StartRuntime, StopRuntime, Exit, Launch, WorldMoves, store,
     requests
<1>2. ASSUME NEW t \in Threads, Scan(t) PROVE Fresh'
  <2>1. Scanning(t) /\ stage[t] \in Reading /\ \E s \in Reading : stage' = [stage EXCEPT ![t] = s]
    BY <1>2, ScanStep
  <2> QED
    BY <2>1 DEF Scanning, store, callers
<1>3. ASSUME NEW t \in Numberers, Lock(t) PROVE Fresh'
  BY <1>3 DEF Lock, callers, Reading
<1>4. ASSUME NEW t \in Numberers, Replace(t) PROVE Fresh'
  BY <1>4 DEF Replace, callers, Reading
<1>5. ASSUME NEW t \in Numberers, Sync(t) PROVE Fresh'
  <2>1. generation[t] = file /\ handed < file
    BY <1>5 DEF Sync, Numbers
  <2>2. handed' = generation[t] /\ newest' = newest
    BY <1>5 DEF Sync, Number, callers
  <2>3. CASE asker[t] = None
    BY <1>5, <2>1, <2>2, <2>3 DEF Sync, Number, Leave, Reading
  <2>4. CASE asker[t] # None
    BY <1>5, <2>1, <2>2, <2>4 DEF Sync, Number
  <2> QED
    BY <2>3, <2>4
<1>6. ASSUME NEW t \in Numberers, NumberingFails(t) PROVE Fresh'
  BY <1>6 DEF NumberingFails, Leave, Refuse, Reading
<1>7. CASE StartProbe
  BY <1>7 DEF StartProbe, store, callers, Reading
<1>8. CASE StartEnds
  BY <1>8 DEF StartEnds, Leave, callers, Reading
<1>9. CASE ProbeEnds
  BY <1>9 DEF ProbeEnds, Vanish, Refuse, Reading
<1>10. CASE PowerLoss
  BY <1>10 DEF PowerLoss, Vanish, Forget, Reading
<1>11. ASSUME NEW c \in Callers,
              \/ TakeJob(c) \/ AskStatus(c) \/ NoConnection(c)
              \/ Plan(c) \/ Acquire(c) \/ Done(c)
       PROVE  Fresh'
  BY <1>11, <1>a, Zenon
  DEF TakeJob, AskStatus, NoConnection, Refuse, Plan, Acquire, Done, Calling, store, requests
<1>12. ASSUME NEW c \in Callers, NEW t \in Threads, Send(c, t) PROVE Fresh'
  BY <1>12 DEF Send, store, Reading
<1>13. ASSUME NEW c \in Callers, NEW t \in Threads, Accept(c, t) PROVE Fresh'
  <2>1. \A r \in Numberers : stage[r] \in Reading => r = t
    BY <1>13 DEF Accept, Linked
  <2>2. newest < generation[t] /\ generation[t] <= handed
    BY <1>13 DEF Accept, Reading
  <2>3. newest' = generation[t] /\ handed' = handed
    BY <1>13, <2>2 DEF Accept, store
  <2>4. \A r \in Numberers : stage'[r] \notin Reading
    BY <1>13, <2>1 DEF Accept, Leave, Reading
  <2> QED
    BY <2>2, <2>3, <2>4
<1>14. ASSUME NEW c \in Callers, NEW t \in Threads, GiveUp(c, t) PROVE Fresh'
  BY <1>14 DEF GiveUp, store, Leave, Refuse, Numbering, Reading
<1>15. CASE UNCHANGED vars
  BY <1>15, <1>a DEF vars, store, requests, callers
<1> QED
  BY <1>1, <1>2, <1>3, <1>4, <1>5, <1>6, <1>7, <1>8, <1>9, <1>10, <1>11, <1>12, <1>13, <1>14,
     <1>15, Steps

--------------------------------------------------------------------------------
(* Inventories *)

\* Who is on the GPU now is among what each sample has seen so far.
Present ==
  /\ \A x \in Processes : Consuming(x) => x \in born
  /\ \A c \in Callers : pc[c] = "sampling" => Users \in seen[c]

\* Everybody in U is entered as active, or stands for a listed process whose
\* control group is still to be read; if it is gone by then, there is doubt.
Covered(U, t) ==
  \A o \in U : \/ o \in scan[t].active
               \/ \E x \in scan[t].rows : Consuming(x) => Owner(x) = o

\* What an inventory has found goes back to what its sample has seen.
Accounted(t) ==
  /\ stage[t] \notin Reading => scan[t] = Blank
  /\ scan[t].rows \subseteq born
  /\ stage[t] = "done" => scan[t].rows = {}
  /\ stage[t] \in Reading =>
       \A p \in scan[t].active : \E U \in seen[asker[t]] : p \in U
  /\ stage[t] \in {"attribute", "done"} /\ ~scan[t].doubt =>
       \E U \in seen[asker[t]] : Covered(U, t)

LEMMA PresentStep ==
  ASSUME TypeOK, Present, [Next]_vars
  PROVE  Present'
<1> USE Blanks DEF Present, TypeOK, WorldTypes, CallerTypes
<1>a. ASSUME UNCHANGED world,
             \A c \in Callers : pc'[c] = "sampling" => pc[c] = "sampling" /\ seen'[c] = seen[c]
      PROVE  Present'
  BY <1>a DEF world, Users, Owner, Consuming
<1>1. CASE Host
  <2>1. /\ WorldMoves
        /\ \A x \in Processes : Consuming(x)' => x \in born'
    BY <1>1, HostStep
  <2> QED
    BY <2>1 DEF WorldMoves, Witness
<1>2. ASSUME NEW t \in Threads, Scan(t) PROVE Present'
  BY <1>2, <1>a, ScanStep DEF Scanning, callers
<1>3. ASSUME NEW t \in Numberers, Lock(t) \/ Replace(t) \/ Sync(t) PROVE Present'
  BY <1>3, <1>a DEF Lock, Replace, Sync, Number, callers
<1>4. ASSUME NEW t \in Numberers, NumberingFails(t) PROVE Present'
  BY <1>4, <1>a DEF NumberingFails, Refuse, Return
<1>5. CASE StartProbe \/ StartEnds
  BY <1>5, <1>a DEF StartProbe, StartEnds, callers
<1>6. CASE ProbeEnds
  BY <1>6, <1>a DEF ProbeEnds, Refuse, Return
<1>7. CASE PowerLoss
  BY <1>7 DEF PowerLoss, Forget, Consuming
<1>8. ASSUME NEW c \in Callers, TakeJob(c) \/ AskStatus(c) \/ Plan(c) \/ Acquire(c) \/ Done(c)
      PROVE  Present'
  BY <1>8, <1>a DEF TakeJob, AskStatus, Plan, Acquire, Done, Calling
<1>9. ASSUME NEW c \in Callers, NoConnection(c) PROVE Present'
  BY <1>9, <1>a DEF NoConnection, Refuse, Return
<1>10. ASSUME NEW c \in Callers, NEW t \in Threads, Send(c, t) PROVE Present'
  <2>1. Users' = Users /\ \A x \in Processes : Consuming(x)' = Consuming(x)
    BY <1>10 DEF Send, world, Users, Owner, Consuming
  <2> QED
    BY <2>1, <1>10 DEF Send, world
<1>11. ASSUME NEW c \in Callers, NEW t \in Threads, Accept(c, t) PROVE Present'
  BY <1>11, <1>a DEF Accept, Refuse, Return
<1>12. ASSUME NEW c \in Callers, NEW t \in Threads, GiveUp(c, t) PROVE Present'
  BY <1>12, <1>a DEF GiveUp, Refuse, Return
<1>13. CASE UNCHANGED vars
  BY <1>13, <1>a DEF vars, callers
<1> QED
  BY <1>1, <1>2, <1>3, <1>4, <1>5, <1>6, <1>7, <1>8, <1>9, <1>10, <1>11, <1>12, <1>13, Steps

LEMMA AccountedKept ==
  ASSUME TypeOK, Fresh, NEW t \in Numberers, Accounted(t),
         scan'[t] = scan[t], stage'[t] = stage[t],
         stage[t] \in Reading =>
           asker'[t] = asker[t] /\ seen[asker[t]] \subseteq seen'[asker[t]],
         \A x \in Processes : process'[x] \in {process[x], None} \/ x \notin born,
         born \subseteq born'
  PROVE  Accounted(t)'
<1>1. scan[t].rows \subseteq Processes
  BY DEF TypeOK, RequestTypes, Scans
<1>2. ASSUME NEW U, Covered(U, t) PROVE Covered(U, t)'
  BY <1>1, <1>2 DEF Accounted, Covered, Consuming, Owner
<1> QED
  BY <1>2 DEF Accounted, Reading

LEMMA AccountedBlank ==
  ASSUME NEW t \in Numberers, scan'[t] = Blank, stage'[t] \notin {"attribute", "done"}
  PROVE  Accounted(t)'
BY DEF Accounted, Blank, Reading

\* The steps of an inventory
LEMMA AccountedScan ==
  ASSUME TypeOK, Fresh, Present, NEW t \in Threads, Accounted(t), Scan(t)
  PROVE  Accounted(t)'
<1> USE Blanks DEF TypeOK, RequestTypes, WorldTypes
<1>0. /\ Scanning(t) /\ stage[t] \in Reading
      /\ \E s \in Reading : stage' = [stage EXCEPT ![t] = s]
      /\ scan[t] \in Scans
  BY ScanStep
<1>a. asker[t] # None /\ asker[t] \in Callers /\ Users \in seen[asker[t]]
  BY <1>0 DEF Fresh, Present, Linked
<1>b. UNCHANGED <<process, born, asker, seen>> /\ stage'[t] \in Reading
  BY <1>0 DEF Scanning, world, callers, Reading
<1>1. ASSUME NEW p \in Profiles, Inspect(t, p) \/ InspectUnhealthy(t, p) \/ InspectFails(t, p)
      PROVE  Accounted(t)'
  <2>1. stage'[t] = "inspect"
    BY <1>1, <1>b DEF Inspect, InspectUnhealthy, InspectFails
  <2>2. scan'[t].rows = scan[t].rows /\ scan'[t].active = scan[t].active
    <3>1. CASE Inspect(t, p)
      BY <3>1, <1>0 DEF Inspect, Scans
    <3>2. CASE InspectUnhealthy(t, p)
      BY <3>2, <1>0 DEF InspectUnhealthy, Scans
    <3>3. CASE InspectFails(t, p)
      BY <3>3, <1>0 DEF InspectFails, Scans
    <3> QED
      BY <1>1, <3>1, <3>2, <3>3
  <2> QED
    BY <1>0, <1>b, <2>1, <2>2 DEF Accounted, Reading
<1>2. ASSUME QueryCompute(t) PROVE Accounted(t)'
  <2>1. stage'[t] = "list"
    BY <1>2 DEF QueryCompute
  <2>2. scan'[t].active = scan[t].active /\ scan'[t].rows \subseteq {x \in Processes : Consuming(x)}
    BY <1>2, <1>0 DEF QueryCompute, Scans
  <2> QED
    BY <1>0, <1>b, <2>1, <2>2 DEF Accounted, Present, Reading
<1>3. ASSUME List(t) PROVE Accounted(t)'
  <2>1. stage'[t] = "attribute"
    BY <1>3 DEF List
  <2>2. /\ scan'[t].active = scan[t].active
        /\ scan'[t].rows = scan[t].rows \cup {x \in Processes : Consuming(x)}
    BY <1>3, <1>0 DEF List, Scans
  <2>3. Covered(Users, t)'
    BY <1>b, <2>2 DEF Covered, Users, Consuming, Owner
  <2>4. scan'[t].rows \subseteq born'
    BY <1>b, <2>2 DEF Accounted, Present
  <2>5. \A p \in scan'[t].active : \E U \in seen'[asker'[t]] : p \in U
    BY <1>0, <1>b, <2>2 DEF Accounted
  <2>6. Users' = Users
    BY <1>b DEF Users, Owner, Consuming
  <2>7. \E U \in seen'[asker'[t]] : Covered(U, t)'
    BY <1>a, <1>b, <2>3, <2>6 DEF Covered
  <2> QED
    BY <1>b, <2>1, <2>4, <2>5, <2>7 DEF Accounted
<1>4. ASSUME EnumerationFails(t) PROVE Accounted(t)'
  <2>1. stage'[t] = "attribute"
    BY <1>4 DEF EnumerationFails
  <2>2. scan'[t].active = scan[t].active /\ scan'[t].rows = {} /\ scan'[t].doubt
    BY <1>4, <1>0 DEF EnumerationFails, Scans
  <2> QED
    BY <1>0, <1>b, <2>1, <2>2 DEF Accounted, Reading
<1>5. ASSUME NEW x \in Processes, Attribute(t, x) PROVE Accounted(t)'
  <2>1. stage[t] = "attribute" /\ stage'[t] = "attribute" /\ scan'[t].rows = scan[t].rows \ {x}
    BY <1>5, <1>0 DEF Attribute, Scans
  <2>2. CASE Consuming(x) /\ process[x].identity \in Certified
             /\ \E p \in Profiles : Matches(t, x, p)
    <3>1. /\ scan'[t].active = scan[t].active \cup {process[x].profile}
          /\ scan'[t].doubt = scan[t].doubt
      BY <1>5, <1>0, <2>2 DEF Attribute, Scans
    <3>2. Owner(x) = process[x].profile /\ Owner(x) \in Users
      BY <2>2 DEF Owner, Users
    <3>3. ASSUME NEW U, Covered(U, t) PROVE Covered(U, t)'
      BY <1>b, <2>1, <2>2, <3>1, <3>2, <3>3 DEF Covered, Consuming, Owner
    <3> QED
      BY <1>0, <1>a, <1>b, <2>1, <3>1, <3>2, <3>3 DEF Accounted, Reading
  <2>3. CASE ~(Consuming(x) /\ process[x].identity \in Certified
               /\ \E p \in Profiles : Matches(t, x, p))
    <3>1. scan'[t].active = scan[t].active /\ scan'[t].doubt
      BY <1>5, <1>0, <2>3 DEF Attribute, Scans
    <3> QED
      BY <1>0, <1>b, <2>1, <3>1 DEF Accounted, Reading
  <2> QED
    BY <2>2, <2>3
<1>6. ASSUME Finish(t) PROVE Accounted(t)'
  <2>1. stage[t] = "attribute" /\ stage'[t] = "done" /\ scan[t].rows = {}
    BY <1>6 DEF Finish
  <2>2. /\ scan'[t].active = scan[t].active /\ scan'[t].rows = {}
        /\ scan[t].doubt => scan'[t].doubt
    <3>1. PICK doubt \in {scan[t].doubt, TRUE} :
            scan' = [scan EXCEPT ![t] =
              [Blank EXCEPT !.active = scan[t].active, !.doubt = doubt,
                 !.unhealthy = scan[t].unhealthy \cap scan[t].active]]
      BY <1>6 DEF Finish
    <3>2. scan'[t] = [Blank EXCEPT !.active = scan[t].active, !.doubt = doubt,
                        !.unhealthy = scan[t].unhealthy \cap scan[t].active]
      BY <3>1
    <3>3. scan'[t].doubt = doubt /\ scan'[t].active = scan[t].active /\ scan'[t].rows = {}
      BY <3>2 DEF Blank
    <3> QED
      BY <3>1, <3>3
  <2>3. ASSUME NEW U, Covered(U, t) PROVE Covered(U, t)'
    BY <2>1, <2>2, <2>3 DEF Covered
  <2> QED
    BY <1>0, <1>b, <2>1, <2>2, <2>3 DEF Accounted, Reading
<1> QED
  BY <1>1, <1>2, <1>3, <1>4, <1>5, <1>6 DEF Scan

\* Every other step leaves an inventory as it is or makes it blank.
LEMMA AccountedStep ==
  ASSUME TypeOK, Fresh, Present, \A t \in Numberers : Accounted(t), [Next]_vars
  PROVE  \A t \in Numberers : Accounted(t)'
<1> USE Blanks DEF TypeOK, RequestTypes, CallerTypes
<1> DEFINE Kept(r) ==
             /\ scan'[r] = scan[r] /\ stage'[r] = stage[r]
             /\ stage[r] \in Reading =>
                  asker'[r] = asker[r] /\ seen[asker[r]] \subseteq seen'[asker[r]]
           Blanked(r) == scan'[r] = Blank /\ stage'[r] \notin {"attribute", "done"}
<1>a. ASSUME UNCHANGED world, NEW r \in Numberers, Kept(r) \/ Blanked(r)
      PROVE  Accounted(r)'
  BY <1>a, AccountedKept, AccountedBlank DEF world
<1>b. \A r \in Numberers : stage[r] \in Reading =>
        /\ r \in Threads /\ asker[r] \in Callers /\ pc[asker[r]] = "sampling"
        /\ \A q \in Threads : asker[q] # None => q = r
  BY DEF Fresh, Linked
<1>c. \A r \in Numberers : stage[r] \notin Reading => scan[r] = Blank
  BY DEF Accounted
<1> HIDE DEF Kept, Blanked
<1>1. CASE Host
  <2>1. /\ WorldMoves /\ born \subseteq born'
        /\ \A x \in Processes : process'[x] \in {process[x], None} \/ x \notin born
    BY <1>1, HostStep DEF Present
  <2>2. \A r \in Numberers : stage[r] \in Reading => seen[asker[r]] \subseteq seen'[asker[r]]
    BY <2>1, <1>b DEF WorldMoves, Witness
  <2> QED
    BY <2>1, <2>2, AccountedKept DEF WorldMoves, requests
<1>2. ASSUME NEW t \in Threads, Scan(t) PROVE \A r \in Numberers : Accounted(r)'
  <2>1. /\ Scanning(t) /\ \E s \in Reading : stage' = [stage EXCEPT ![t] = s]
        /\ \E s \in Scans : scan' = [scan EXCEPT ![t] = s]
    BY <1>2, ScanStep
  <2>2. \A r \in Numberers \ {t} : Kept(r)
    BY <2>1 DEF Kept, Scanning, callers
  <2>3. Accounted(t)'
    BY <1>2, AccountedScan
  <2> QED
    BY <2>1, <2>2, <2>3, <1>a DEF Scanning
<1>3. ASSUME NEW t \in Numberers, Lock(t) \/ Replace(t)
      PROVE  \A r \in Numberers : Accounted(r)'
  <2>1. \A r \in Numberers \ {t} : Kept(r)
    BY <1>3 DEF Lock, Replace, Kept, callers
  <2>2. Blanked(t)
    BY <1>3, <1>c DEF Lock, Replace, Blanked, Reading
  <2> QED
    BY <1>3, <2>1, <2>2, <1>a DEF Lock, Replace
<1>4. ASSUME NEW t \in Numberers, Sync(t) PROVE \A r \in Numberers : Accounted(r)'
  <2>1. \A r \in Numberers \ {t} : Kept(r)
    BY <1>4 DEF Sync, Number, Leave, Kept, callers
  <2>2. Blanked(t)
    BY <1>4, <1>c DEF Sync, Number, Leave, Blanked, Reading
  <2> QED
    BY <1>4, <2>1, <2>2, <1>a DEF Sync, Number
<1>5. ASSUME NEW t \in Numberers, NumberingFails(t) PROVE \A r \in Numberers : Accounted(r)'
  <2>1. \A r \in Numberers \ {t} : stage[r] \in Reading => asker[r] # asker[t]
    BY <1>b DEF Linked
  <2>2. \A r \in Numberers \ {t} : Kept(r)
    BY <1>5, <2>1, <1>b DEF NumberingFails, Leave, Refuse, Kept
  <2>3. Blanked(t)
    BY <1>5 DEF NumberingFails, Leave, Blanked
  <2> QED
    BY <1>5, <2>2, <2>3, <1>a DEF NumberingFails
<1>6. CASE StartProbe \/ StartEnds
  <2>1. \A r \in Numberers \ {Main} : Kept(r)
    BY <1>6 DEF StartProbe, StartEnds, Leave, Kept, callers
  <2>2. Blanked(Main)
    BY <1>6, <1>c DEF StartProbe, StartEnds, Leave, Blanked, Reading
  <2> QED
    BY <1>6, <2>1, <2>2, <1>a DEF StartProbe, StartEnds
<1>7. CASE ProbeEnds
  <2>1. Kept(Main)
    BY <1>7, <1>b DEF ProbeEnds, Vanish, Kept
  <2>2. \A r \in Threads : Blanked(r)
    BY <1>7 DEF ProbeEnds, Vanish, Blanked
  <2> QED
    BY <1>7, <2>1, <2>2, <1>a DEF ProbeEnds, Numberers
<1>8. CASE PowerLoss
  <2>1. \A r \in Numberers : Blanked(r)
    BY <1>8 DEF PowerLoss, Vanish, Blanked
  <2> QED
    BY <2>1, AccountedBlank DEF Blanked
<1>9. ASSUME NEW c \in Callers, pc[c] # "sampling",
             TakeJob(c) \/ AskStatus(c) \/ Plan(c) \/ Acquire(c) \/ Done(c)
      PROVE  \A r \in Numberers : Accounted(r)'
  <2>1. UNCHANGED <<world, requests>> /\ \A d \in Callers \ {c} : seen'[d] = seen[d]
    BY <1>9 DEF TakeJob, AskStatus, Plan, Acquire, Done, Calling
  <2>2. \A r \in Numberers : Kept(r)
    BY <1>9, <2>1, <1>b DEF Kept, requests
  <2> QED
    BY <2>1, <2>2, <1>a
<1>10. ASSUME NEW c \in Callers, NoConnection(c) PROVE \A r \in Numberers : Accounted(r)'
  <2>1. \A r \in Numberers : Kept(r)
    BY <1>10, <1>b DEF NoConnection, Refuse, Kept, requests
  <2> QED
    BY <1>10, <2>1, <1>a DEF NoConnection
<1>11. ASSUME NEW c \in Callers, NEW t \in Threads, Send(c, t)
       PROVE  \A r \in Numberers : Accounted(r)'
  <2>1. \A r \in Numberers \ {t} : Kept(r)
    BY <1>11, <1>b DEF Send, Kept
  <2>2. Blanked(t)
    BY <1>11, <1>c DEF Send, Blanked, Reading
  <2> QED
    BY <1>11, <2>1, <2>2, <1>a DEF Send
<1>12. ASSUME NEW c \in Callers, NEW t \in Threads, Accept(c, t) \/ GiveUp(c, t)
       PROVE  \A r \in Numberers : Accounted(r)'
  <2>1. asker[t] # None /\ UNCHANGED world
    BY <1>12 DEF Accept, GiveUp
  <2>2. \A r \in Numberers \ {t} : stage[r] \notin Reading
    BY <2>1, <1>b
  <2>3. \A r \in Numberers \ {t} : Kept(r)
    BY <1>12, <2>2 DEF Accept, GiveUp, Leave, Kept
  <2>4. Blanked(t)
    BY <1>12, <1>c DEF Accept, GiveUp, Leave, Blanked, Numbering, Reading
  <2> QED
    BY <2>1, <2>3, <2>4, <1>a
<1>13. CASE UNCHANGED vars
  <2>1. \A r \in Numberers : Kept(r)
    BY <1>13 DEF vars, requests, callers, Kept
  <2> QED
    BY <1>13, <2>1, <1>a DEF vars
<1> QED
  BY <1>1, <1>2, <1>3, <1>4, <1>5, <1>6, <1>7, <1>8, <1>9, <1>10, <1>11, <1>12, <1>13, Steps
  DEF TakeJob, AskStatus, Plan, Acquire, Planning, Admitting

--------------------------------------------------------------------------------
(* Callers *)

\* A sample that may admit a planned job hides nobody who was there since the
\* job was planned, and a lease was given on one that did.
Grounded(c) ==
  /\ pc[c] # "answered" => result[c] = None
  /\ Admitting(c) /\ Valid(result[c]) => \E U \in seen[c] : U \subseteq result[c].active
  /\ pc[c] = "leased" =>
       \E U \in seen[c] : \A q \in U \ {plan[c].profile} : {q, plan[c].profile} \in Coexist

LEMMA GroundedStep ==
  ASSUME TypeOK, Fresh, \A t \in Numberers : Accounted(t), \A c \in Callers : Grounded(c),
         [Next]_vars
  PROVE  \A c \in Callers : Grounded(c)'
<1> USE Blanks DEF TypeOK, RequestTypes, CallerTypes
<1> DEFINE Kept(d) == pc'[d] = pc[d] /\ plan'[d] = plan[d] /\ result'[d] = result[d]
                        /\ seen'[d] = seen[d]
           Open(d) == pc'[d] # "leased" /\ result'[d] = None
<1>a. ASSUME NEW d \in Callers, Kept(d) \/ Open(d) PROVE Grounded(d)'
  <2>1. CASE Kept(d)
    BY <2>1 DEF Grounded, Admitting, Valid
  <2>2. CASE Open(d)
    BY <2>2 DEF Grounded, Valid
  <2> QED
    BY <1>a, <2>1, <2>2
<1>b. \A d \in Callers : pc[d] # "answered" => result[d] = None
  BY DEF Grounded
<1> HIDE DEF Kept, Open
<1>c. ASSUME NEW C, Refuse(C), \A d \in C \cap Callers : pc[d] \in {"waiting", "sampling"}
      PROVE  \A d \in Callers : Grounded(d)'
  <2>1. \A d \in Callers \ C : Kept(d)
    BY <1>c DEF Refuse, Kept
  <2>2. \A d \in C \cap Callers : Open(d)
    BY <1>c, <1>b DEF Refuse, Open, Return
  <2> QED
    BY <2>1, <2>2, <1>a
<1>d. ASSUME UNCHANGED callers PROVE \A d \in Callers : Grounded(d)'
  BY <1>a, <1>d DEF callers, Kept
<1>1. CASE Host
  <2>1. WorldMoves
    BY <1>1 DEF Host, StartRuntime, StopRuntime, Exit, Launch
  <2>2. \A d \in Callers : IF pc[d] = "sampling" THEN Open(d) ELSE Kept(d)
    BY <2>1, <1>b DEF WorldMoves, Witness, Open, Kept
  <2> QED
    BY <2>2, <1>a
<1>2. ASSUME NEW t \in Threads, Scan(t) PROVE \A d \in Callers : Grounded(d)'
  BY <1>2, <1>d, ScanStep DEF Scanning
<1>3. ASSUME NEW t \in Numberers, Lock(t) \/ Replace(t) \/ Sync(t)
      PROVE  \A d \in Callers : Grounded(d)'
  BY <1>3, <1>d DEF Lock, Replace, Sync, Number
<1>4. ASSUME NEW t \in Numberers, NumberingFails(t) PROVE \A d \in Callers : Grounded(d)'
  BY <1>4, <1>c DEF NumberingFails, Linked
<1>5. CASE StartProbe \/ StartEnds
  BY <1>5, <1>d DEF StartProbe, StartEnds
<1>6. CASE ProbeEnds
  BY <1>6, <1>c DEF ProbeEnds
<1>7. CASE PowerLoss
  <2>1. \A d \in Callers : Open(d)
    BY <1>7 DEF PowerLoss, Forget, Open
  <2> QED
    BY <2>1, <1>a
<1>8. ASSUME NEW c \in Callers, TakeJob(c) \/ AskStatus(c) \/ Plan(c) \/ Done(c)
      PROVE  \A d \in Callers : Grounded(d)'
  <2>1. \A d \in Callers \ {c} : Kept(d)
    BY <1>8 DEF TakeJob, AskStatus, Plan, Done, Calling, Kept
  <2>2. Open(c)
    BY <1>8, <1>b DEF TakeJob, AskStatus, Plan, Done, Calling, Open
  <2> QED
    BY <2>1, <2>2, <1>a
<1>9. ASSUME NEW c \in Callers, NoConnection(c) PROVE \A d \in Callers : Grounded(d)'
  BY <1>9, <1>c DEF NoConnection
<1>10. ASSUME NEW c \in Callers, NEW t \in Threads, Send(c, t)
       PROVE  \A d \in Callers : Grounded(d)'
  <2>1. \A d \in Callers \ {c} : Kept(d)
    BY <1>10 DEF Send, Kept
  <2>2. Open(c)
    BY <1>10, <1>b DEF Send, Open
  <2> QED
    BY <2>1, <2>2, <1>a
<1>11. ASSUME NEW c \in Callers, NEW t \in Threads, Accept(c, t)
       PROVE  \A d \in Callers : Grounded(d)'
  <2>1. stage[t] = "done" /\ asker[t] = c /\ pc[c] = "sampling"
    BY <1>11 DEF Accept, Linked
  <2>2. CASE generation[t] < newest
    BY <1>11, <1>c, <2>1, <2>2 DEF Accept
  <2>3. CASE ~(generation[t] < newest)
    <3>1. /\ pc' = [pc EXCEPT ![c] = Return(c)] /\ plan' = plan
          /\ result' = IF c \in Workers THEN [result EXCEPT ![c] = Snapshot(t)] ELSE result
          /\ seen' = IF plan[c] # None THEN seen ELSE [seen EXCEPT ![c] = {}]
      BY <1>11, <2>3 DEF Accept
    <3>2. \A d \in Callers \ {c} : Kept(d)
      BY <3>1 DEF Kept
    <3>3. CASE c \notin Workers
      <4>1. Open(c)
        BY <3>1, <3>3, <2>1, <1>b DEF Return, Open
      <4> QED
        BY <3>2, <4>1, <1>a
    <3>4. CASE c \in Workers
      <4>1. pc'[c] = "answered" /\ result'[c] = Snapshot(t) /\ plan'[c] = plan[c]
        BY <3>1, <3>4 DEF Return
      <4>2. ASSUME plan[c] # None, ~scan[t].doubt
            PROVE  \E U \in seen'[c] : U \subseteq scan[t].active
        <5>1. seen'[c] = seen[c]
          BY <3>1, <4>2
        <5>2. scan[t].rows = {} /\ \E U \in seen[c] : Covered(U, t)
          BY <2>1, <4>2 DEF Accounted
        <5> QED
          BY <5>1, <5>2 DEF Covered
      <4>3. Grounded(c)'
        BY <4>1, <4>2 DEF Grounded, Admitting, Valid, Snapshot
      <4> QED
        BY <3>2, <4>3, <1>a
    <3> QED
      BY <3>3, <3>4
  <2> QED
    BY <2>2, <2>3
<1>12. ASSUME NEW c \in Callers, NEW t \in Threads, GiveUp(c, t)
       PROVE  \A d \in Callers : Grounded(d)'
  <2>1. pc[c] = "sampling"
    BY <1>12 DEF GiveUp, Linked
  <2> QED
    BY <1>12, <2>1, <1>c DEF GiveUp
<1>13. ASSUME NEW c \in Callers, Acquire(c) PROVE \A d \in Callers : Grounded(d)'
  <2>1. /\ Admitting(c) /\ Valid(result[c]) /\ Compatible(result[c], plan[c].profile)
        /\ pc' = [pc EXCEPT ![c] = "leased"] /\ result' = [result EXCEPT ![c] = None]
        /\ UNCHANGED <<plan, seen>>
    BY <1>13 DEF Acquire
  <2>2. \A d \in Callers \ {c} : Kept(d)
    BY <2>1 DEF Kept
  <2>3. PICK U \in seen[c] : U \subseteq result[c].active
    BY <2>1 DEF Grounded
  <2>4. \A q \in U \ {plan[c].profile} : {q, plan[c].profile} \in Coexist
    BY <2>1, <2>3 DEF Compatible
  <2>5. Grounded(c)'
    BY <2>1, <2>4 DEF Grounded, Admitting
  <2> QED
    BY <2>2, <2>5, <1>a
<1>14. CASE UNCHANGED vars
  BY <1>14, <1>d DEF vars
<1> QED
  BY <1>1, <1>2, <1>3, <1>4, <1>5, <1>6, <1>7, <1>8, <1>9, <1>10, <1>11, <1>12, <1>13, <1>14,
     Steps

--------------------------------------------------------------------------------
(* The invariant *)

IInv ==
  /\ TypeOK /\ Numbers /\ Fresh /\ Present
  /\ \A t \in Numberers : Accounted(t)
  /\ \A c \in Callers : Grounded(c)

LEMMA InitInvariant == Init => IInv
<1> SUFFICES ASSUME Init PROVE IInv
  OBVIOUS
<1>1. TypeOK
  BY InitTypes
<1>2. Numbers
  BY <1>1 DEF Init, Numbers
<1>3. Fresh
  BY <1>1 DEF Init, Fresh, Reading
<1>4. Present
  BY DEF Init, Present, Consuming
<1>5. ASSUME NEW t \in Numberers PROVE Accounted(t)
  BY DEF Init, Accounted, Blank, Reading
<1>6. ASSUME NEW c \in Callers PROVE Grounded(c)
  BY DEF Init, Grounded, Admitting
<1> QED
  BY <1>1, <1>2, <1>3, <1>4, <1>5, <1>6 DEF IInv

LEMMA Invariance == Spec => []IInv
<1>1. IInv /\ [Next]_vars => IInv'
  <2> SUFFICES ASSUME IInv, [Next]_vars PROVE IInv'
    OBVIOUS
  <2>1. TypeOK'
    BY TypesStep DEF IInv, Present
  <2>2. Numbers' /\ Fresh' /\ Present'
    BY NumbersStep, FreshStep, PresentStep DEF IInv
  <2>3. \A t \in Numberers : Accounted(t)'
    BY AccountedStep DEF IInv
  <2>4. \A c \in Callers : Grounded(c)'
    BY GroundedStep DEF IInv
  <2> QED
    BY <2>1, <2>2, <2>3, <2>4 DEF IInv
<1> QED
  BY InitInvariant, <1>1, PTL DEF Spec

--------------------------------------------------------------------------------
(* Theorems *)

\* Every variable has its type, and one request at a time has a caller.
THEOREM TypeCorrect == Spec => []TypeOK
<1>1. IInv => TypeOK
  BY DEF IInv
<1>2. QED
  BY Invariance, <1>1, PTL

\* A number that was handed out survives every power loss (GenerationStore).
THEOREM ServedStaysDurable == Spec => []ServedIsDurable
<1>1. IInv => ServedIsDurable
  BY DEF IInv, Numbers, ServedIsDurable
<1>2. QED
  BY Invariance, <1>1, PTL

\* The broker never meets a generation below its newest one, nor the same again.
THEOREM SamplesKeepAdvancing == Spec => []SamplesAdvance
<1>1. ASSUME IInv, NEW t \in Threads, stage[t] \in Reading PROVE generation[t] > newest
  <2>1. newest \in Nat /\ generation[t] \in Nat /\ newest < generation[t]
    BY <1>1, Blanks DEF IInv, TypeOK, RequestTypes, CallerTypes, Fresh
  <2> QED
    BY <2>1
<1>2. IInv => SamplesAdvance
  BY <1>1 DEF SamplesAdvance
<1>3. QED
  BY Invariance, <1>2, PTL

\* A snapshot without errors lists everybody who was on the GPU at one moment
\* since it was asked for, whatever came and went while it was taken.
THEOREM HidesNothing == Spec => []NothingHidden
<1>1. ASSUME IInv, NEW t \in Threads, stage[t] = "done", Valid(Snapshot(t))
      PROVE  \E U \in seen[asker[t]] : U \subseteq Snapshot(t).active
  <2>1. ~scan[t].doubt
    BY <1>1 DEF Valid, Snapshot
  <2>2. scan[t].rows = {} /\ \E U \in seen[asker[t]] : Covered(U, t)
    BY <1>1, <2>1, Blanks DEF IInv, Accounted
  <2> QED
    BY <2>2 DEF Covered, Snapshot
<1>2. IInv => NothingHidden
  BY <1>1 DEF NothingHidden
<1>3. QED
  BY Invariance, <1>2, PTL

\* Every profile a snapshot lists used the GPU since the snapshot was asked for.
THEOREM ListsOnlyWhoWasThere == Spec => []ListedWasThere
<1>1. IInv => ListedWasThere
  BY Blanks DEF IInv, Accounted, ListedWasThere, Snapshot, Reading
<1>2. QED
  BY Invariance, <1>1, PTL

\* A lease rests on who was on the GPU after the job was planned, never on the
\* hint it was planned with.
THEOREM LeasesAreGrounded == Spec => []LeaseIsGrounded
<1>1. IInv => LeaseIsGrounded
  BY DEF IInv, Grounded, LeaseIsGrounded
<1>2. QED
  BY Invariance, <1>1, PTL

\* The numbers the probe hands out are those of GenerationCounter.
THEOREM NumbersOnlyGrow == Spec => GenerationsOnlyGrow
<1>1. Init => Counter!Init
  BY DEF Init, Counter!Init
<1>2. IInv /\ IInv' /\ [Next]_vars => [Counter!HandOut]_handed
  <2> SUFFICES ASSUME IInv, IInv', [Next]_vars PROVE [Counter!HandOut]_handed
    OBVIOUS
  <2>1. handed' \in Nat /\ (handed' = handed \/ handed' > handed)
    BY NumbersStep DEF IInv, TypeOK, StoreTypes
  <2> QED
    BY <2>1 DEF Counter!HandOut
<1> QED
  BY Invariance, <1>1, <1>2, PTL DEF Spec, GenerationsOnlyGrow, Counter!Spec

\* A profile known to be active is planned on before any that is not, for every
\* table of routes and every hint.
THEOREM ResidencyDecides == Spec => ResidentIsPreferred
<1>1. ASSUME IInv, [Next]_vars, NEW c \in Callers, plan[c] = None, plan'[c] # None
      PROVE  Plan(c)
  <2> USE <1>1, Blanks DEF IInv, TypeOK, CallerTypes
  <2>a. ~(UNCHANGED plan)
    BY <1>1
  <2>1. ~Host
    BY <2>a DEF Host, StartRuntime, StopRuntime, Exit, Launch, WorldMoves
  <2>2. \A t \in Threads : ~Scan(t)
    BY <2>a, ScanStep DEF Scanning, callers
  <2>3. \A t \in Numberers : ~(Lock(t) \/ Replace(t) \/ Sync(t) \/ NumberingFails(t))
    BY <2>a DEF Lock, Replace, Sync, Number, NumberingFails, Refuse, callers
  <2>4. ~(StartProbe \/ StartEnds \/ ProbeEnds)
    BY <2>a DEF StartProbe, StartEnds, ProbeEnds, Refuse, callers
  <2>5. ~PowerLoss
    BY DEF PowerLoss, Forget
  <2>6. \A d \in Callers, t \in Threads : ~(Send(d, t) \/ Accept(d, t) \/ GiveUp(d, t))
    BY <2>a DEF Send, Accept, GiveUp, Refuse
  <2>7. \A d \in Callers : ~(TakeJob(d) \/ AskStatus(d) \/ NoConnection(d) \/ Acquire(d) \/ Done(d))
    BY <2>a DEF TakeJob, AskStatus, NoConnection, Acquire, Done, Refuse
  <2>8. PICK d \in Callers : Plan(d)
    BY <2>a, <2>1, <2>2, <2>3, <2>4, <2>5, <2>6, <2>7, Steps DEF vars, callers
  <2> QED
    BY <2>8 DEF Plan
<1>2. ASSUME NEW hint, NEW j, j.preference = "balanced",
             NEW r, Decides(r, j, hint),
             NEW q \in Candidates(j, hint), q.profile \in hint.active
      PROVE  r.profile \in hint.active
  <2> SUFFICES ASSUME r.profile \notin hint.active PROVE FALSE
    OBVIOUS
  <2>1. Lexicographic(Rank(r, "balanced", hint), Rank(q, "balanced", hint))
    BY <1>2 DEF Decides
  <2>2. /\ Rank(r, "balanced", hint) = <<1, 0 - r.priority, r.memory, r.id>>
        /\ Rank(q, "balanced", hint) = <<0, 0 - q.priority, q.memory, q.id>>
    BY <1>2 DEF Rank
  <2> QED
    BY <2>1, <2>2 DEF Lexicographic
<1>3. ASSUME IInv, [Next]_vars, NEW c \in Callers,
             plan[c] = None, plan'[c] # None, job[c].preference = "balanced",
             NEW q \in Candidates(job[c], Hint(result[c])),
             q.profile \in Hint(result[c]).active
      PROVE  plan'[c].profile \in Hint(result[c]).active
  <2>1. PICK r \in Routes :
          Decides(r, job[c], Hint(result[c])) /\ plan' = [plan EXCEPT ![c] = r]
    BY <1>1, <1>3 DEF Plan
  <2>2. plan'[c] = r
    BY <2>1, <1>3 DEF IInv, TypeOK, CallerTypes
  <2> QED
    BY <1>2, <1>3, <2>1, <2>2
<1>4. IInv /\ [Next]_vars =>
        [\A c \in Callers :
           plan[c] = None /\ plan'[c] # None /\ job[c].preference = "balanced" =>
             LET hint == Hint(result[c])
             IN  (\E r \in Candidates(job[c], hint) : r.profile \in hint.active)
                   => plan'[c].profile \in hint.active]_plan
  BY <1>3
<1> QED
  BY Invariance, <1>4, PTL DEF Spec, ResidentIsPreferred

--------------------------------------------------------------------------------
(* The decision *)

\* Tuples of one length are strictly and totally ordered by their first difference.
LEMMA LexicographicIsOrder ==
  ASSUME NEW n \in Nat, NEW K,
         \A a \in K : DOMAIN a = 1 .. n /\ \A i \in 1 .. n : a[i] \in Int
  PROVE  /\ \A a \in K : ~Lexicographic(a, a)
         /\ \A a, b, c \in K :
              Lexicographic(a, b) /\ Lexicographic(b, c) => Lexicographic(a, c)
         /\ \A a, b \in K :
              (\E i \in 1 .. n : a[i] # b[i]) => Lexicographic(a, b) \/ Lexicographic(b, a)
<1>1. \A a \in K : ~Lexicographic(a, a)
  BY DEF Lexicographic
<1>2. ASSUME NEW a \in K, NEW b \in K, NEW c \in K, Lexicographic(a, b), Lexicographic(b, c)
      PROVE  Lexicographic(a, c)
  <2>1. PICK i \in 1 .. n : a[i] < b[i] /\ \A l \in 1 .. i - 1 : a[l] = b[l]
    BY <1>2 DEF Lexicographic
  <2>2. PICK j \in 1 .. n : b[j] < c[j] /\ \A l \in 1 .. j - 1 : b[l] = c[l]
    BY <1>2 DEF Lexicographic
  <2>3. CASE i < j
    <3>1. a[i] < c[i] /\ \A l \in 1 .. i - 1 : a[l] = c[l]
      BY <2>1, <2>2, <2>3
    <3> QED
      BY <3>1 DEF Lexicographic
  <2>4. CASE j <= i
    <3>1. a[j] < c[j] /\ \A l \in 1 .. j - 1 : a[l] = c[l]
      <4>1. a[j] \in Int /\ b[j] \in Int /\ c[j] \in Int
        OBVIOUS
      <4>2. j < i => a[j] = b[j]
        BY <2>1
      <4>3. \A l \in 1 .. j - 1 : a[l] = b[l]
        BY <2>1, <2>4
      <4> QED
        BY <2>1, <2>2, <2>4, <4>1, <4>2, <4>3
    <3> QED
      BY <3>1 DEF Lexicographic
  <2> QED
    BY <2>3, <2>4
<1>3. ASSUME NEW a \in K, NEW b \in K, \E i \in 1 .. n : a[i] # b[i]
      PROVE  Lexicographic(a, b) \/ Lexicographic(b, a)
  <2> DEFINE D == {i \in 1 .. n : a[i] # b[i]}
             R == {q \in D \X D : q[1] < q[2]}
  <2>1. IsFiniteSet(D) /\ D # {}
    BY <1>3, FirstNumbers, FS_Subset
  <2>2. \A i, j \in D : i \in Int /\ (<<i, j>> \in R <=> i < j)
    OBVIOUS
  <2>3. \E i \in D : \A j \in D : <<j, i>> \notin R
    <3>1. \A i \in D : <<i, i>> \notin R
      BY <2>2
    <3>2. ASSUME NEW i \in D, NEW j \in D, NEW l \in D, <<i, j>> \in R, <<j, l>> \in R
          PROVE  <<i, l>> \in R
      <4>1. i \in Int /\ j \in Int /\ l \in Int /\ i < j /\ j < l
        BY <2>2, <3>2
      <4>2. i < l
        BY <4>1
      <4> QED
        BY <2>2, <4>2
    <3> HIDE DEF D, R
    <3> QED
      BY <2>1, <3>1, <3>2, FirstElement
  <2>4. PICK i \in D : \A j \in D : ~(j < i)
    <3> HIDE DEF R
    <3> QED
      BY <2>2, <2>3
  <2>5. \A l \in 1 .. i - 1 : a[l] = b[l]
    BY <2>4
  <2>6. a[i] < b[i] \/ b[i] < a[i]
    BY <2>4
  <2> QED
    BY <2>5, <2>6 DEF Lexicographic
<1> QED
  BY <1>1, <1>2, <1>3

\* What a hint may say: numbers, of the profiles it knows.
Numeric(hint) ==
  /\ \A p \in DOMAIN hint.latency : hint.latency[p] \in Int
  /\ \A p \in DOMAIN hint.concurrency : hint.concurrency[p] \in Int

Width(preference) == IF preference \in {"latency", "balanced"} THEN 4 ELSE 3

LEMMA PairsConcatenate ==
  ASSUME NEW a \in Int, NEW b \in Int, NEW c \in Int, NEW e \in Int
  PROVE  <<a, b>> \o <<c, e>> = <<a, b, c, e>>
<1> DEFINE s == <<a, b>>
           t == <<c, e>>
<1>1. s \in Seq(Int) /\ t \in Seq(Int) /\ Len(s) = 2 /\ Len(t) = 2
  OBVIOUS
<1>2. s[1] = a /\ s[2] = b /\ t[1] = c /\ t[2] = e
  OBVIOUS
<1>3. <<a, b, c, e>> \in Seq(Int) /\ Len(<<a, b, c, e>>) = 4
  OBVIOUS
<1>4. \A i \in 1 .. 4 : <<a, b, c, e>>[i] = IF i <= 2 THEN s[i] ELSE t[i - 2]
  <2> TAKE i \in 1 .. 4
  <2>1. i = 1 \/ i = 2 \/ i = 3 \/ i = 4
    OBVIOUS
  <2> QED
    BY <1>2, <2>1
<1> HIDE DEF s, t
<1>5. /\ s \o t \in Seq(Int) /\ Len(s \o t) = 4
      /\ \A i \in 1 .. 4 : (s \o t)[i] = IF i <= 2 THEN s[i] ELSE t[i - 2]
  <2>1. /\ s \o t \in Seq(Int) /\ Len(s \o t) = Len(s) + Len(t)
        /\ \A i \in 1 .. Len(s) + Len(t) :
             (s \o t)[i] = IF i <= Len(s) THEN s[i] ELSE t[i - Len(s)]
    BY <1>1, ConcatProperties, Zenon
  <2>2. Len(s) + Len(t) = 4
    BY <1>1
  <2> QED
    BY <1>1, <2>1, <2>2, Zenon
<1>6. s \o t = <<a, b, c, e>>
  BY <1>3, <1>4, <1>5, SeqEqual
<1> QED
  BY <1>6 DEF s, t

\* Under each preference the sort keys are tuples of one length that end in the id.
LEMMA RankShape ==
  ASSUME NEW r \in Routes, NEW preference \in Preferences, NEW hint, Numeric(hint)
  PROVE  LET k == Rank(r, preference, hint)
             n == Width(preference)
         IN  DOMAIN k = 1 .. n /\ (\A i \in 1 .. n : k[i] \in Int) /\ k[n] = r.id
<1>1. r.id \in Int /\ r.memory \in Int /\ r.priority \in Int
  <2>1. r.id \in Nat /\ r.memory \in 0 .. 1024 /\ r.priority \in 0 .. 100
    BY RoutesAssumption
  <2> QED
    BY <2>1
<1>2. CASE preference = "memory"
  BY <1>1, <1>2 DEF Rank, Width
<1>3. CASE preference = "throughput"
  <2>1. Concurrency(r, hint) \in Int
    BY DEF Concurrency, Numeric
  <2> QED
    BY <1>1, <1>3, <2>1 DEF Rank, Width
<1>4. CASE preference = "balanced"
  <2> DEFINE resident == IF r.profile \in hint.active THEN 0 ELSE 1
  <2>1. resident \in Int
    OBVIOUS
  <2>2. Rank(r, preference, hint) = <<resident, 0 - r.priority, r.memory, r.id>>
    BY <1>4 DEF Rank
  <2> HIDE DEF resident
  <2> QED
    BY <1>1, <1>4, <2>1, <2>2 DEF Width
<1>5. CASE preference = "latency"
  <2>1. PICK x \in Int, y \in Int : Latency(r, hint) = <<x, y>>
    BY DEF Latency, Numeric
  <2>2. Rank(r, preference, hint) = <<x, y>> \o <<0 - r.priority, r.id>>
    BY <1>5, <2>1 DEF Rank
  <2>3. Rank(r, preference, hint) = <<x, y, 0 - r.priority, r.id>>
    BY <1>1, <2>2, PairsConcatenate
  <2> QED
    BY <1>1, <1>5, <2>3 DEF Width
<1> QED
  BY <1>2, <1>3, <1>4, <1>5 DEF Preferences

\* Whenever some route serves a request, decide takes one and could take no other,
\* whatever the table of routes and whatever the hint says (the sort of _ranked and
\* its last key, the id, which the compiled table has once).
THEOREM DecisionIsDetermined ==
  ASSUME NEW request, request.preference \in Preferences, NEW hint, Numeric(hint),
         Candidates(request, hint) # {}
  PROVE  \E r \in Routes : \A q : Decides(q, request, hint) <=> q = r
<1> DEFINE C == Candidates(request, hint)
           key(r) == Rank(r, request.preference, hint)
           n == Width(request.preference)
           R == {p \in C \X C : Lexicographic(key(p[1]), key(p[2]))}
<1>1. C \subseteq Routes /\ IsFiniteSet(C)
  <2>1. C \subseteq Routes
    BY DEF Candidates
  <2> QED
    BY <2>1, RoutesAssumption, FS_Subset
<1>2. n \in Nat /\ n >= 1
  BY DEF Width
<1>3. \A r \in C : /\ DOMAIN key(r) = 1 .. n /\ \A i \in 1 .. n : key(r)[i] \in Int
                   /\ key(r)[n] = r.id
  BY <1>1, RankShape
<1>4. \A q, r \in C : q # r => key(q)[n] # key(r)[n]
  BY <1>1, <1>3, RoutesAssumption
<1>5. /\ \A r \in C : ~Lexicographic(key(r), key(r))
      /\ \A p, q, r \in C : Lexicographic(key(p), key(q)) /\ Lexicographic(key(q), key(r))
                              => Lexicographic(key(p), key(r))
      /\ \A q, r \in C : q # r => \/ Lexicographic(key(q), key(r))
                                  \/ Lexicographic(key(r), key(q))
  <2> DEFINE K == {key(r) : r \in C}
  <2>1. \A a \in K : DOMAIN a = 1 .. n /\ \A i \in 1 .. n : a[i] \in Int
    BY <1>3
  <2>2. \A r \in C : key(r) \in K
    OBVIOUS
  <2>3. n \in 1 .. n
    BY <1>2
  <2> HIDE DEF K, key, n, C
  <2>4. /\ \A a \in K : ~Lexicographic(a, a)
        /\ \A a, b, c \in K :
             Lexicographic(a, b) /\ Lexicographic(b, c) => Lexicographic(a, c)
        /\ \A a, b \in K :
             (\E i \in 1 .. n : a[i] # b[i]) => Lexicographic(a, b) \/ Lexicographic(b, a)
    BY <1>2, <2>1, LexicographicIsOrder
  <2> QED
    BY <1>4, <2>2, <2>3, <2>4
<1>6. \A q, r \in C : <<q, r>> \in R <=> Lexicographic(key(q), key(r))
  OBVIOUS
<1>7. \E r \in C : \A q \in C : <<q, r>> \notin R
  <2>1. \A r \in C : <<r, r>> \notin R
    BY <1>5, <1>6
  <2>2. \A p, q, r \in C : <<p, q>> \in R /\ <<q, r>> \in R => <<p, r>> \in R
    <3> HIDE DEF C, key, R
    <3> QED
      BY <1>5, <1>6
  <2> HIDE DEF C, R
  <2> QED
    BY <1>1, <2>1, <2>2, FirstElement DEF C
<1>8. PICK r \in C : \A q \in C : ~Lexicographic(key(q), key(r))
  <2> HIDE DEF R
  <2> QED
    BY <1>6, <1>7
<1>9. Decides(r, request, hint)
  BY <1>5, <1>8 DEF Decides
<1>10. ASSUME NEW q, Decides(q, request, hint) PROVE q = r
  BY <1>8, <1>10 DEF Decides
<1> QED
  BY <1>1, <1>8, <1>9, <1>10

\* Every job that is planned has exactly one plan, and it fails only when no route
\* serves it: the executor is neither stuck nor free to choose (plan, decide).
THEOREM PlanIsDetermined ==
  Spec => [](\A c \in Callers :
               LET hint == Hint(result[c])
               IN  Planning(c) /\ Candidates(job[c], hint) # {}
                     => \E r \in Routes : \A q : Decides(q, job[c], hint) <=> q = r)
<1>1. ASSUME TypeOK, NEW c \in Callers, Planning(c),
             Candidates(job[c], Hint(result[c])) # {}
      PROVE  \E r \in Routes : \A q : Decides(q, job[c], Hint(result[c])) <=> q = r
  <2>1. job[c] \in Requests
    BY <1>1, JobsAssumption DEF TypeOK, CallerTypes, Planning
  <2>2. job[c].preference \in Preferences
    BY <2>1 DEF Requests
  <2>3. Numeric(Hint(result[c]))
    BY DEF Numeric, Hint, NoHint
  <2> QED
    BY <1>1, <2>2, <2>3, DecisionIsDetermined
<1>2. TypeOK => \A c \in Callers :
                  LET hint == Hint(result[c])
                  IN  Planning(c) /\ Candidates(job[c], hint) # {}
                        => \E r \in Routes : \A q : Decides(q, job[c], hint) <=> q = r
  BY <1>1
<1> QED
  BY <1>2, TypeCorrect, PTL
================================================================================
