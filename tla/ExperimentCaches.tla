--------------------------- MODULE ExperimentCaches ---------------------------
(***************************************************************************)
(* The result cache in front of an experiment in aegis/service.py, the     *)
(* same for all five: a handler looks a seed up, runs the experiment if it *)
(* is missing, and reads its answer from the cache again; a rerun drops    *)
(* the seed first. Nothing is locked. A run is a function of its seed.     *)
(***************************************************************************)
CONSTANTS
  Handlers,      \* handler threads of the HTTP server
  Seeds,        \* the bounded integers a request may ask for
  DefaultSeed   \* what a GET, and a POST without a usable seed, ask for

ASSUME SeedAssumption == DefaultSeed \in Seeds

VARIABLES
  cache,     \* the seeds in the cache
  handlerPc, \* where each handler is, or how it ended
  seed,      \* what it was asked for
  overtaken  \* whether its seed was dropped since it looked it up

cacheVars == <<cache, handlerPc, seed, overtaken>>

CacheInit ==
  /\ cache = {}
  /\ handlerPc = [t \in Handlers |-> "idle"]
  /\ seed = [t \in Handlers |-> DefaultSeed]
  /\ overtaken = [t \in Handlers |-> FALSE]

Idle(t) == handlerPc[t] \in {"idle", "answered", "failed"}
Go(t, next) == handlerPc' = [handlerPc EXCEPT ![t] = next]

Drop(s) == overtaken' = [t \in Handlers |-> overtaken[t] \/ seed[t] = s]

Get(t) ==
  /\ Idle(t) /\ Go(t, "look")
  /\ seed' = [seed EXCEPT ![t] = DefaultSeed]
  /\ UNCHANGED <<cache, overtaken>>

\* Variant: the whole cache is dropped.
RerunClears(t) ==
  /\ Idle(t) /\ Go(t, "look")
  /\ \E s \in Seeds :
       /\ seed' = [seed EXCEPT ![t] = s]
       /\ Drop(s)
  /\ cache' = {}

\* A POST drops the seed and goes on like a GET of that seed.
Rerun(t) ==
  /\ Idle(t) /\ Go(t, "look")
  /\ \E s \in Seeds :
       /\ seed' = [seed EXCEPT ![t] = s]
       /\ Drop(s)
       /\ cache' = cache \ {s}

FindCached(t) ==
  /\ handlerPc[t] = "look"
  /\ Go(t, IF seed[t] \in cache THEN "read" ELSE "run")
  /\ overtaken' = [overtaken EXCEPT ![t] = FALSE]
  /\ UNCHANGED <<cache, seed>>

\* The experiment has run, in its own time, and is stored.
Keep(t) ==
  /\ handlerPc[t] = "run" /\ Go(t, "read")
  /\ cache' = cache \cup {seed[t]}
  /\ UNCHANGED <<seed, overtaken>>

\* The subscript raises KeyError on a seed dropped meanwhile, which no
\* handler catches.
Read(t) ==
  /\ handlerPc[t] = "read"
  /\ Go(t, IF seed[t] \in cache THEN "answered" ELSE "failed")
  /\ UNCHANGED <<cache, seed, overtaken>>

CacheNext == \E t \in Handlers : Get(t) \/ Rerun(t) \/ FindCached(t) \/ Keep(t) \/ Read(t)

CacheSpec == CacheInit /\ [][CacheNext]_cacheVars

------------------------------------------------------------------------------

\* A request fails only if a rerun of its own seed overtook it: other seeds
\* and threads that run the same experiment at once do no harm
\* (research_experiment and its four likes).
FailuresAreOvertaken == \A t \in Handlers : handlerPc[t] = "failed" => overtaken[t]

==============================================================================
