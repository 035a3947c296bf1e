--------------------------- MODULE OrderCacheCrash ---------------------------
(***************************************************************************)
(* The order cache when Redis itself crashes: compose.yml has it save a    *)
(* snapshot now and then and starts it again when it ends.  The entries    *)
(* are then those of the last snapshot: a Delete may be undone, and an     *)
(* older Set may come back.                                                *)
(***************************************************************************)
EXTENDS OrderCache

VARIABLE saved  \* the entries of the last snapshot, with the ticks they have left

crashVars == <<vars, saved>>

CrashInit ==
  /\ Init
  /\ saved = [o \in OrderIds |-> Nothing]

\* redis-server --save 60 1: a snapshot is written when a minute has passed and a
\* key was changed, which is any time.
Save ==
  /\ saved' = cache
  /\ UNCHANGED vars

\* restart: unless-stopped.  Calls under way fail, as they may at any time.
RedisRestart ==
  /\ cache' = saved
  /\ UNCHANGED <<status, req, job, janitor, age, saved>>

\* The container is made anew, and its snapshot is gone with the old one.
RedisReplaced ==
  /\ cache' = [o \in OrderIds |-> Nothing]
  /\ saved' = cache'
  /\ UNCHANGED <<status, req, job, janitor, age>>

\* A snapshot holds when its entries expire, so they go on expiring in it.
SavedLater == Aged(saved)

CrashNext ==
  \/ Event /\ UNCHANGED saved
  \/ Tick /\ saved' = SavedLater
  \/ Save
  \/ RedisRestart
  \/ RedisReplaced

CrashSpec == CrashInit /\ [][CrashNext]_crashVars

-----------------------------------------------------------------------------

\* A snapshot is as good as the cache was, and grows old with it.
SavedOK(o) == saved[o] # Nothing =>
  /\ saved[o] \in Entry
  /\ Truthful(o, saved[o].view)
  /\ saved[o].left \in 1 .. TTL
  /\ Stale(o, saved[o].view) => age[o] + saved[o].left <= Bound

\* The inductive invariant: that of the cache, and of what a crash makes of it.
CrashIInv ==
  /\ IInv
  /\ saved \in [OrderIds -> Entry \cup {Nothing}]
  /\ \A o \in OrderIds : SavedOK(o)
=============================================================================
