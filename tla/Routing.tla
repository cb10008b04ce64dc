---------------------------------- MODULE Routing -------------------------------
(***************************************************************************)
(* Route selection (routing.py): the routes an administrator installed, a  *)
(* request, and what a snapshot of the host says of their profiles, give   *)
(* the route a job is planned on.                                          *)
(*                                                                         *)
(* Identifiers are numbers, compared as the code compares its strings.  A  *)
(* hint is a normalised snapshot: the profiles that are active, the ones   *)
(* recorded as unhealthy, and the metrics of those that report them.       *)
(***************************************************************************)
EXTENDS Integers, FiniteSets, Sequences

CONSTANTS
  Routes,    \* the compiled routes
  NoModel    \* the model of a request that leaves the choice to the broker

Classes == {"interactive", "batch", "background"}
Preferences == {"balanced", "latency", "throughput", "memory"}

\* compile_routing_config refuses any other document.
ASSUME RoutesAssumption ==
  /\ Routes # {} /\ IsFiniteSet(Routes) /\ Cardinality(Routes) <= 32
  /\ \A r \in Routes :
       /\ r.id \in Nat
       /\ r.memory \in 0 .. 1024 /\ r.priority \in 0 .. 100
       /\ r.classes # {} /\ r.classes \subseteq Classes
  /\ \A q, r \in Routes : q.id = r.id \/ q.profile = r.profile => q = r

Profiles == {r.profile : r \in Routes}
Models == {r.model : r \in Routes}
Requests ==
  [model : Models \cup {NoModel}, class : Classes, preference : Preferences]

\* routing_context when the host cannot be sampled: nothing is known.
NoHint == [active |-> {}, unhealthy |-> {}, latency |-> <<>>, concurrency |-> <<>>]

\* The routes that serve a request and are not reported unhealthy.
Candidates(request, hint) ==
  {r \in Routes :
     /\ request.model \in {NoModel, r.model}
     /\ request.class \in r.classes
     /\ r.profile \notin hint.unhealthy}

\* Tuples are compared by their first difference.
Lexicographic(a, b) ==
  \E i \in DOMAIN a : a[i] < b[i] /\ \A j \in 1 .. i - 1 : a[j] = b[j]

\* A profile without a latency comes after every one that has one, a profile
\* without a concurrency counts as one with none to spare.
Latency(r, hint) ==
  IF r.profile \in DOMAIN hint.latency THEN <<0, hint.latency[r.profile]>> ELSE <<1, 0>>
Concurrency(r, hint) ==
  IF r.profile \in DOMAIN hint.concurrency THEN hint.concurrency[r.profile] ELSE 0

\* Mutant: priorities decide before residency does.
MutantRank(r, preference, hint) ==
  <<0 - r.priority, IF r.profile \in hint.active THEN 0 ELSE 1, r.memory, r.id>>

\* The sort key of a route under each preference.
Rank(r, preference, hint) ==
  CASE preference = "memory" -> <<r.memory, 0 - r.priority, r.id>>
    [] preference = "latency" -> Latency(r, hint) \o <<0 - r.priority, r.id>>
    [] preference = "throughput" -> <<0 - Concurrency(r, hint), 0 - r.priority, r.id>>
    [] preference = "balanced" ->
         <<IF r.profile \in hint.active THEN 0 ELSE 1, 0 - r.priority, r.memory, r.id>>

\* RoutingEngine.decide takes r: the first of the candidates.
Decides(r, request, hint) ==
  /\ r \in Candidates(request, hint)
  /\ \A q \in Candidates(request, hint) \ {r} :
       Lexicographic(Rank(r, request.preference, hint), Rank(q, request.preference, hint))
================================================================================
