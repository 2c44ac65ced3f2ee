---------------------------- MODULE SharedCache ----------------------------
(***************************************************************************)
(* The read-through cache: a copy in the memory of each process and one in *)
(* Redis, each with a life of its own, filled by loads that run for a      *)
(* while and cleared by those who write.  The value is the merchants'      *)
(* configuration, whose editors take the fields they do not change from    *)
(* the cache.                                                              *)
(***************************************************************************)
EXTENDS Naturals, FiniteSets

CONSTANTS
    Processes, Fields,
    MaxEdits,     \* updates of the configuration
    MaxLoads,     \* times the store is read for the cache
    MaxFailures   \* calls of Redis that fail

VARIABLES
    stored,    \* the configuration: for each field the edit it comes from
    acked,     \* the edit last written for each field
    copyAt,    \* localCache of each process
    redis,     \* the copy all share
    loads,     \* inflightLoads: at most one for each process
    edits,     \* updates under way
    lost,      \* edits undone by another that wrote back what it had read
    counted    \* edits, loads and failures so far

cacheVars == <<stored, acked, copyAt, redis, loads, edits, lost, counted>>

NoCopy == [is |-> FALSE, value |-> [f \in Fields |-> 0], why |-> {}]
(* Why a copy may be old: it was read before a write and kept after the    *)
(* clearing ("raced"), another process cleared its own memory and not this *)
(* one's ("elsewhere"), or Redis did not clear it ("failed").              *)
Copy(v, why) == [is |-> TRUE, value |-> v, why |-> why]
Also(c, why) == IF c.is THEN [c EXCEPT !.why = @ \cup {why}] ELSE c

NoLoad == [at |-> "none", value |-> [f \in Fields |-> 0], why |-> {}]

CacheInit ==
    /\ stored = [f \in Fields |-> 0] /\ acked = stored
    /\ copyAt = [p \in Processes |-> NoCopy] /\ redis = NoCopy
    /\ loads = [p \in Processes |-> NoLoad]
    /\ edits = {} /\ lost = {}
    /\ counted = [edits |-> 0, loads |-> 0, failures |-> 0]

Tallies(what) == counted' = [counted EXCEPT ![what] = @ + 1]
Failing == counted.failures < MaxFailures /\ Tallies("failures")

(***************************************************************************)
(* Reading: the process's memory, then Redis, then one load that everyone  *)
(* in the process waits for.  A hit in Redis is not kept in memory.        *)
(***************************************************************************)
StartsLoad(p) == [loads EXCEPT ![p] = [NoLoad EXCEPT !.at = "asked"]]

(* A reader finds nothing: it waits for the load under way or starts one.  *)
Reads(p) ==
    /\ ~copyAt[p].is /\ loads[p].at = "none" /\ counted.loads < MaxLoads
    /\ \/ ~redis.is /\ Tallies("loads")
       \/ /\ redis.is /\ counted.failures < MaxFailures
          /\ counted' = [counted EXCEPT !.loads = @ + 1, !.failures = @ + 1]
    /\ loads' = StartsLoad(p)
    /\ UNCHANGED <<stored, acked, copyAt, redis, edits, lost>>

LoadReads(p) ==
    /\ loads[p].at = "asked"
    /\ loads' = [loads EXCEPT ![p] = [@ EXCEPT !.at = "read", !.value = stored]]
    /\ UNCHANGED <<stored, acked, copyAt, redis, edits, lost, counted>>

(* The memory first; then Redis, which may fail; then whoever waited.      *)
LoadKeeps(p) ==
    /\ loads[p].at = "read"
    /\ copyAt' = [copyAt EXCEPT ![p] = Copy(loads[p].value, loads[p].why)]
    /\ loads' = [loads EXCEPT ![p].at = "kept"]
    /\ UNCHANGED <<stored, acked, redis, edits, lost, counted>>

Given(e, v, why) == [e EXCEPT !.at = "ready", !.current = v, !.why = @ \cup why]
LoadEnds(p) ==
    /\ loads[p].at = "kept"
    /\ \/ redis' = Copy(loads[p].value, loads[p].why) /\ UNCHANGED counted
       \/ Failing /\ UNCHANGED redis
    /\ edits' = {IF e.by = p /\ e.at = "waits" THEN Given(e, loads[p].value, loads[p].why)
                 ELSE e : e \in edits}
    /\ loads' = [loads EXCEPT ![p] = NoLoad]
    /\ UNCHANGED <<stored, acked, copyAt, lost>>

LoadFails(p) ==
    /\ loads[p].at = "asked"
    /\ loads' = [loads EXCEPT ![p] = NoLoad]
    /\ edits' = {e \in edits : ~(e.by = p /\ e.at = "waits")}
    /\ UNCHANGED <<stored, acked, copyAt, redis, lost, counted>>

(* The copies' lives end on their own.                                     *)
Expires ==
    /\ \/ \E p \in Processes : copyAt[p].is /\ copyAt' = [copyAt EXCEPT ![p] = NoCopy]
                               /\ UNCHANGED redis
       \/ redis.is /\ redis' = NoCopy /\ UNCHANGED copyAt
    /\ UNCHANGED <<stored, acked, loads, edits, lost, counted>>

(***************************************************************************)
(* An update: it reads the configuration through the cache, writes all of  *)
(* it with its own field changed, and clears the copies it can reach.      *)
(***************************************************************************)
Under == {e \in edits : e.at \in {"written", "cleared"}}

Edit(p, f) ==
    /\ counted.edits < MaxEdits
    /\ Tallies("edits")
    /\ edits' = edits \cup
          {[id |-> counted.edits + 1, by |-> p, field |-> f, at |-> "asks",
            current |-> stored, why |-> IF Under = {} THEN {} ELSE {"overlap"}]}
    /\ UNCHANGED <<stored, acked, copyAt, redis, loads, lost>>

Turn(e, new) == edits' = (edits \ {e}) \cup {new}
EditHits(e) ==
    /\ e.at = "asks"
    /\ \/ copyAt[e.by].is /\ Turn(e, Given(e, copyAt[e.by].value, copyAt[e.by].why))
       \/ ~copyAt[e.by].is /\ redis.is /\ Turn(e, Given(e, redis.value, redis.why))
    /\ UNCHANGED <<stored, acked, copyAt, redis, loads, lost, counted>>

EditMisses(e) ==
    /\ e.at = "asks" /\ ~copyAt[e.by].is
    /\ redis.is => counted.failures < MaxFailures
    /\ loads[e.by].at # "none" \/ counted.loads < MaxLoads
    /\ counted' = [counted EXCEPT !.failures = @ + (IF redis.is THEN 1 ELSE 0),
                              !.loads = @ + (IF loads[e.by].at = "none" THEN 1 ELSE 0)]
    /\ Turn(e, [e EXCEPT !.at = "waits"])
    /\ loads' = IF loads[e.by].at = "none" THEN StartsLoad(e.by) ELSE loads
    /\ UNCHANGED <<stored, acked, copyAt, redis, lost>>

NextConfig(e) == [e.current EXCEPT ![e.field] = e.id]

EditWrites(e) ==
    /\ e.at = "ready"
    /\ stored' = NextConfig(e)
    /\ acked' = [acked EXCEPT ![e.field] = e.id]
    /\ lost' = lost \cup {[edit |-> stored[f], why |-> e.why] :
                             f \in {g \in Fields \ {e.field} : stored[g] # e.current[g]}}
    /\ edits' = {[d EXCEPT !.why = @ \cup {"overlap"}] : d \in edits \ {e}}
                    \cup {[e EXCEPT !.at = "written"]}
    /\ UNCHANGED <<copyAt, redis, loads, counted>>

StillThere(p) == copyAt[p]
Forgotten(p)  == NoCopy

Raced(l) == IF l.at \in {"read", "kept"} THEN [l EXCEPT !.why = @ \cup {"raced"}] ELSE l

(* invalidateCacheKeys: the memory of the process, then Redis.             *)
ClearsMemory(e) ==
    /\ e.at = "written"
    /\ copyAt' = [q \in Processes |-> IF q = e.by THEN Forgotten(q)
                                      ELSE Also(copyAt[q], "elsewhere")]
    /\ loads' = [p \in Processes |-> Raced(loads[p])]
    /\ Turn(e, [e EXCEPT !.at = "cleared"])
    /\ UNCHANGED <<stored, acked, redis, lost, counted>>

ClearsRedis(e) ==
    /\ e.at = "cleared"
    /\ \/ redis' = NoCopy /\ UNCHANGED counted
       \/ Failing /\ redis' = Also(redis, "failed")
    /\ loads' = [p \in Processes |-> Raced(loads[p])]
    /\ edits' = edits \ {e}
    /\ UNCHANGED <<stored, acked, copyAt, lost>>

CacheNext ==
    \/ \E p \in Processes : \/ Reads(p) \/ LoadReads(p) \/ LoadKeeps(p) \/ LoadEnds(p)
                            \/ LoadFails(p)
                            \/ \E f \in Fields : Edit(p, f)
    \/ \E e \in edits : \/ EditHits(e) \/ EditMisses(e) \/ EditWrites(e)
                        \/ ClearsMemory(e) \/ ClearsRedis(e)
    \/ Expires

CacheSpec == CacheInit /\ [][CacheNext]_cacheVars

-----------------------------------------------------------------------------
Current(c) == c.is => c.value = stored \/ c.why # {}

(* cache.service.ts, merchant-config.service.ts: once no update is under   *)
(* way, a copy differs from the store only if a load had read the store    *)
(* before and kept its answer after the clearing, if another process did   *)
(* the clearing, or if Redis failed; and an update undoes another's field  *)
(* only if they overlapped or it worked from such a copy.                  *)
CopiesAreExcused ==
    /\ edits = {} => Current(redis) /\ \A p \in Processes : Current(copyAt[p])
    /\ \A l \in lost : l.why # {}
    /\ edits = {} /\ lost = {} => stored = acked
=============================================================================
