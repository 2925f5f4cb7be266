------------------------------ MODULE Memcached ------------------------------
(****************************************************************************)
(* What one request through cachedfs/memcache.c does to the memcached       *)
(* server, when the reply read is the reply to that request.  A store is a  *)
(* function whose domain is the set of keys present, so a cache_get hits    *)
(* exactly on DOMAIN store, and reads store[key].                           *)
(****************************************************************************)
EXTENDS Integers

\* The server after flush_all: every get misses.
EmptyStore == [k \in {} |-> k]

\* cache_set: "set" stores the value whether or not the key was present.
CacheSet(store, key, val) ==
  [k \in DOMAIN store \cup {key} |-> IF k = key THEN val ELSE store[k]]

\* cache_msg("delete ..."), once for each of keys; a delete that misses is
\* answered NOT_FOUND, which no caller looks at.
CacheDelete(store, keys) == [k \in DOMAIN store \ keys |-> store[k]]

\* store is a partial function from Key to Val.
IsStore(store, Key, Val) ==
  /\ store = [k \in DOMAIN store |-> store[k]]
  /\ DOMAIN store \subseteq Key
  /\ \A k \in DOMAIN store : store[k] \in Val
==============================================================================
