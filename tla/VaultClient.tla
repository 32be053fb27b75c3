---------------------------- MODULE VaultClient ----------------------------
(***************************************************************************)
(* The secret resolver (src/eyeflow-svm-node/src/vault.rs) as operators on *)
(* its TTL cache, a HashMap from secret path to [ver, exp].  A secret's    *)
(* value is the version the KV store held when it was read; time is the    *)
(* clock of the caller (Instant::now) in ticks, and Ttl is cache_ttl.      *)
(* The KV round trip (fetch_from_hashicorp) is its outcome: KvFail (an     *)
(* HTTP, status, parse or missing-key error) or the version it read.  The  *)
(* cache is consulted at t0, when fetch_secret is entered, and the answer  *)
(* is cached at t1, when the round trip's await has returned.              *)
(***************************************************************************)
EXTENDS Integers, Functions

CONSTANTS
    Ttl,           \* cache_ttl
    KvConfigured,  \* vault_addr and vault_token are both Some
    EnvSecret,     \* paths whose VAULT_SECRET_<UPPER_SNAKE> variable is set
    EnvRaw         \* paths whose raw upper-snake key is set

KvFail == -1

\* steps 3 and 4 of fetch_secret: the two environment look-ups, else Err
EnvLookup(p) ==
    IF p \in EnvSecret THEN [ok |-> TRUE, src |-> "env", ver |-> 0]
    ELSE IF p \in EnvRaw THEN [ok |-> TRUE, src |-> "raw", ver |-> 0]
    ELSE [ok |-> FALSE, src |-> "none", ver |-> 0]

\* cache.insert(path, CacheEntry { expires_at: now + cache_ttl })
Insert(cache, p, v, now) ==
    [q \in DOMAIN cache \cup {p} |->
        IF q = p THEN [ver |-> v, exp |-> now + Ttl] ELSE cache[q]]

\* a cache hit that still serves an entry at its expiry instant
FetchSecretExpiryInclusive(cache, p, t0, t1, reply) ==
    IF p \in DOMAIN cache /\ cache[p].exp >= t0
    THEN [cache |-> cache, upstream |-> FALSE,
          res |-> [ok |-> TRUE, src |-> "vault", ver |-> cache[p].ver]]
    ELSE LET c == Restrict(cache, DOMAIN cache \ {p})
         IN  IF KvConfigured /\ reply # KvFail
             THEN [cache |-> Insert(c, p, reply, t1), upstream |-> TRUE,
                   res |-> [ok |-> TRUE, src |-> "vault", ver |-> reply]]
             ELSE [cache |-> c, upstream |-> KvConfigured, res |-> EnvLookup(p)]

\* VaultClient::fetch_secret: a live cache entry answers at once; an
\* expired one is removed; then the KV store (when configured), whose
\* answer is cached with Instant::now() after the await; then the
\* environment, whose answer is not.  The
\* result records whether a request went upstream to the KV store.
FetchSecret(cache, p, t0, t1, reply) ==
    IF p \in DOMAIN cache /\ cache[p].exp > t0
    THEN [cache |-> cache, upstream |-> FALSE,
          res |-> [ok |-> TRUE, src |-> "vault", ver |-> cache[p].ver]]
    ELSE LET c == Restrict(cache, DOMAIN cache \ {p})
         IN  IF KvConfigured /\ reply # KvFail
             THEN [cache |-> Insert(c, p, reply, t1), upstream |-> TRUE,
                   res |-> [ok |-> TRUE, src |-> "vault", ver |-> reply]]
             ELSE [cache |-> c, upstream |-> KvConfigured, res |-> EnvLookup(p)]
=============================================================================
