------------------------------ MODULE KeyCache ------------------------------
(***************************************************************************)
(* The caches of an identity provider's signing keys.  cache = "oidc" is   *)
(* oidc.Verifier (internal/oidc/oidc.go), which bounds the age of its key  *)
(* set; cache = "attest" is attest.JWKSKeySource (internal/attest/         *)
(* jwks.go), which fetches when a kid is missing.  Lookups run             *)
(* concurrently and stall anywhere, a fetch is a request, an answer made   *)
(* at the provider and its arrival in time, and answers overtake each      *)
(* other.                                                                  *)
(***************************************************************************)
EXTENDS Integers, FiniteSets

CONSTANTS
  Lookups,       \* verifications, each made once
  Kids,          \* key identifiers of the provider
  FirstKid,      \* the one published first
  MaxAge,        \* maxAge of the oidc key set
  MinInterval,   \* least time between two fetches
  FetchTimeout,  \* longest time from sending a fetch to storing its answer: the
                 \* timeout of the HTTP client and what its goroutine stalls
  MaxTime        \* bound on the clock

ASSUME KeyCacheAssumption ==
  FirstKid \in Kids /\ {MaxAge, MinInterval, FetchTimeout, MaxTime} \subseteq Nat

Never == -1

VARIABLES
  cache, now,
  publishedAt, withdrawnAt,  \* by kid: when the provider did (Never)
  keys,          \* the cached key set
  fetchedAt,     \* when oidc stored it
  attemptedAt,   \* oidc attemptedAt, attest lastRefresh
  held,          \* the reading a lookup holds: of the clock (oidc tryRefresh),
                 \* of lastRefresh (attest Key)
  stampedAt,     \* the attempt it last stamped (oidc)
  at,            \* at[r]: where lookup r is
  kid, began,    \* the kid it looks for and when it began (oidc)
  sentAt,        \* when its last fetch was sent
  answer,        \* the key set in the answer to it
  failed         \* a fetch has failed since the last that did not (attest)

cacheVars == <<cache, now, publishedAt, withdrawnAt, keys, fetchedAt, attemptedAt,
               held, stampedAt, at, kid, began, sentAt, answer, failed>>
provider == <<publishedAt, withdrawnAt>>
store == <<keys, fetchedAt>>
limiter == <<attemptedAt, held, stampedAt>>

published == {k \in Kids : publishedAt[k] # Never /\ withdrawnAt[k] = Never}

Places == {"idle", "stale", "timed", "stamped", "sent", "answered", "look", "missed", "timedAgain",
           "stampedAgain", "sentAgain", "answeredAgain", "lookAgain", "accepted", "refused"}

CacheTypeOK ==
  /\ cache \in {"oidc", "attest"} /\ now \in 0..MaxTime
  /\ publishedAt \in [Kids -> -1..MaxTime] /\ withdrawnAt \in [Kids -> -1..MaxTime]
  /\ keys \subseteq Kids /\ fetchedAt \in -1..MaxTime /\ attemptedAt \in -1..MaxTime
  /\ held \in [Lookups -> -1..MaxTime] /\ stampedAt \in [Lookups -> -1..MaxTime]
  /\ at \in [Lookups -> Places] /\ kid \in [Lookups -> Kids]
  /\ began \in [Lookups -> -1..MaxTime]
  /\ sentAt \in [Lookups -> -1..MaxTime] /\ answer \in [Lookups -> SUBSET Kids]
  /\ failed \in BOOLEAN

\* NewVerifier has discovered the issuer and loaded its keys, without
\* stamping an attempt; a JWKSKeySource has not fetched anything.
CacheInit ==
  /\ cache \in {"oidc", "attest"} /\ now = 0
  /\ publishedAt = [k \in Kids |-> IF k = FirstKid THEN 0 ELSE Never]
  /\ withdrawnAt = [k \in Kids |-> Never]
  /\ keys = (IF cache = "oidc" THEN {FirstKid} ELSE {})
  /\ fetchedAt = (IF cache = "oidc" THEN 0 ELSE Never)
  /\ attemptedAt = Never
  /\ held = [r \in Lookups |-> Never] /\ stampedAt = [r \in Lookups |-> Never]
  /\ at = [r \in Lookups |-> "idle"] /\ kid = [r \in Lookups |-> FirstKid]
  /\ began = [r \in Lookups |-> Never]
  /\ sentAt = [r \in Lookups |-> Never] /\ answer = [r \in Lookups |-> {}]
  /\ failed = FALSE

goesTo(r, where) == at' = [at EXCEPT ![r] = where]
throttled(reading, last) == last # Never /\ reading - last < MinInterval

(***************************************************************************)
(* The provider and time.                                                  *)
(***************************************************************************)
Publish(k) ==
  /\ publishedAt[k] = Never
  /\ publishedAt' = [publishedAt EXCEPT ![k] = now]
  /\ UNCHANGED <<cache, now, withdrawnAt, store, limiter, at, kid, began, sentAt, answer, failed>>

\* Bound: only the first key is withdrawn.
Withdraw(k) ==
  /\ k \in published /\ k = FirstKid
  /\ withdrawnAt' = [withdrawnAt EXCEPT ![k] = now]
  /\ UNCHANGED <<cache, now, publishedAt, store, limiter, at, kid, began, sentAt, answer, failed>>

Tick ==
  /\ now < MaxTime /\ now' = now + 1
  /\ UNCHANGED <<cache, provider, store, limiter, at, kid, began, sentAt, answer, failed>>

(***************************************************************************)
(* oidc: Verify.                                                           *)
(***************************************************************************)
\* Mutant: a set that was loaded is never stale.
keySetStale_loaded == fetchedAt = Never

keySetStale == fetchedAt = Never \/ now - fetchedAt > MaxAge

OidcBegins(r) ==
  /\ cache = "oidc" /\ at[r] = "idle"
  /\ \E k \in Kids : kid' = [kid EXCEPT ![r] = k]
  /\ began' = [began EXCEPT ![r] = now]
  /\ goesTo(r, IF keySetStale THEN "stale" ELSE "look")
  /\ UNCHANGED <<cache, now, provider, store, limiter, sentAt, answer, failed>>

\* A stale key set is refreshed before it is consulted, and an unknown kid
\* asks for one refresh.  tryRefresh reads the clock before it takes the lock.
OidcReadsClock(r) ==
  /\ cache = "oidc" /\ at[r] \in {"stale", "missed"}
  /\ held' = [held EXCEPT ![r] = now]
  /\ goesTo(r, IF at[r] = "stale" THEN "timed" ELSE "timedAgain")
  /\ UNCHANGED <<cache, now, provider, store, attemptedAt, stampedAt, kid, began, sentAt, answer, failed>>

\* The rest of tryRefresh up to the fetch: the interval is checked and the
\* attempt stamped, with the reading held, under one lock.  A refusal of the
\* limiter refuses the token when the set is stale; after an unknown kid the
\* key is looked for again whether a fetch was made or not.
tryRefresh(r) ==
  /\ cache = "oidc" /\ at[r] \in {"timed", "timedAgain"}
  /\ IF throttled(held[r], attemptedAt)
     THEN /\ goesTo(r, IF at[r] = "timed" THEN "refused" ELSE "lookAgain")
          /\ UNCHANGED <<attemptedAt, stampedAt>>
     ELSE /\ goesTo(r, IF at[r] = "timed" THEN "stamped" ELSE "stampedAgain")
          /\ attemptedAt' = held[r] /\ stampedAt' = [stampedAt EXCEPT ![r] = held[r]]
  /\ held' = [held EXCEPT ![r] = Never]
  /\ UNCHANGED <<cache, now, provider, store, kid, began, sentAt, answer, failed>>

OidcLooks(r) ==
  /\ cache = "oidc" /\ at[r] = "look"
  /\ goesTo(r, IF kid[r] \in keys THEN "accepted" ELSE "missed")
  /\ UNCHANGED <<cache, now, provider, store, limiter, kid, began, sentAt, answer, failed>>

(***************************************************************************)
(* attest: Key and Refresh.                                                *)
(***************************************************************************)
\* The key and lastRefresh are read under the read lock.
AttestLooks(r) ==
  /\ cache = "attest" /\ at[r] = "idle"
  /\ \E k \in Kids :
       /\ kid' = [kid EXCEPT ![r] = k]
       /\ goesTo(r, IF k \in keys THEN "accepted" ELSE "missed")
  /\ held' = [held EXCEPT ![r] = attemptedAt]
  /\ UNCHANGED <<cache, now, provider, store, attemptedAt, stampedAt, began, sentAt, answer, failed>>

\* The interval since the lastRefresh it read; then Refresh stamps the attempt
\* under a lock of its own, with the time it reads there.
AttestRefreshes(r) ==
  /\ cache = "attest" /\ at[r] = "missed"
  /\ IF throttled(now, held[r])
     THEN goesTo(r, "refused") /\ UNCHANGED attemptedAt
     ELSE goesTo(r, "stampedAgain") /\ attemptedAt' = now
  /\ held' = [held EXCEPT ![r] = Never]
  /\ UNCHANGED <<cache, now, provider, store, stampedAt, kid, began, sentAt, answer, failed>>

(***************************************************************************)
(* A fetch.                                                                *)
(***************************************************************************)
Sends(r) ==
  /\ at[r] \in {"stamped", "stampedAgain"}
  /\ sentAt' = [sentAt EXCEPT ![r] = now]
  /\ goesTo(r, IF at[r] = "stamped" THEN "sent" ELSE "sentAgain")
  /\ UNCHANGED <<cache, now, provider, store, limiter, kid, began, answer, failed>>

ProviderAnswers(r) ==
  /\ at[r] \in {"sent", "sentAgain"}
  /\ answer' = [answer EXCEPT ![r] = published]
  /\ goesTo(r, IF at[r] = "sent" THEN "answered" ELSE "answeredAgain")
  /\ UNCHANGED <<cache, now, provider, store, limiter, kid, began, sentAt, failed>>

\* The time at which oidc says it fetched a set: read between the arrival of
\* the answer and the lock.  attest reads its time under the lock.
readings(r) == IF cache = "oidc" THEN sentAt[r]..now ELSE {Never}

\* refreshJWKS and the second half of Refresh: whatever arrives replaces the
\* set.  oidc refuses a set without a usable key; attest stamps again.
AnswerArrives(r) ==
  /\ at[r] \in {"answered", "answeredAgain"} /\ now - sentAt[r] <= FetchTimeout
  /\ IF cache = "oidc" /\ answer[r] = {}
     THEN goesTo(r, "refused") /\ UNCHANGED <<keys, fetchedAt, attemptedAt>> /\ failed' = FALSE
     ELSE /\ keys' = answer[r] /\ fetchedAt' \in readings(r)
          /\ failed' = FALSE
          /\ attemptedAt' = IF cache = "attest" THEN now ELSE attemptedAt
          /\ goesTo(r, IF at[r] = "answered" THEN "look" ELSE "lookAgain")
  /\ answer' = [answer EXCEPT ![r] = {}]
  /\ UNCHANGED <<cache, now, provider, held, stampedAt, kid, began, sentAt>>

\* A transport error, a status, an unreadable document, or the timeout.
FetchFails(r) ==
  /\ at[r] \in {"sent", "answered", "sentAgain", "answeredAgain"}
  /\ goesTo(r, "refused") /\ failed' = (cache = "attest")
  /\ answer' = [answer EXCEPT ![r] = {}]
  /\ UNCHANGED <<cache, now, provider, store, limiter, kid, began, sentAt>>

LooksAgain(r) ==
  /\ at[r] = "lookAgain"
  /\ goesTo(r, IF kid[r] \in keys THEN "accepted" ELSE "refused")
  /\ UNCHANGED <<cache, now, provider, store, limiter, kid, began, sentAt, answer, failed>>

CacheNext ==
  \/ \E k \in Kids : Publish(k) \/ Withdraw(k)
  \/ Tick
  \/ \E r \in Lookups :
       \/ OidcBegins(r) \/ OidcReadsClock(r) \/ tryRefresh(r) \/ OidcLooks(r)
       \/ AttestLooks(r) \/ AttestRefreshes(r)
       \/ Sends(r) \/ ProviderAnswers(r) \/ AnswerArrives(r) \/ FetchFails(r) \/ LooksAgain(r)

(***************************************************************************)
(* Properties.                                                             *)
(***************************************************************************)
\* oidc: a key the provider has withdrawn is not accepted by a verification
\* that begins later than maxAge and the time of one fetch after that, even
\* when the limiter refuses refreshes and an older answer arrives last.
WithdrawnKeyAges ==
  \A r \in Lookups :
    cache = "oidc" /\ at[r] = "accepted" /\ withdrawnAt[kid[r]] # Never =>
      began[r] <= withdrawnAt[kid[r]] + MaxAge + FetchTimeout

\* oidc: the attempts that concurrent verifications stamp are at least
\* MinInterval apart, however old the reading of the clock each of them holds
\* when it gets the lock.  It is the attempts that are spaced: two lookups that
\* stall after the stamp may send at one moment.
AttemptsSpaced ==
  \A r, s \in Lookups :
    cache = "oidc" /\ r # s /\ stampedAt[r] # Never /\ stampedAt[s] # Never =>
      stampedAt[r] - stampedAt[s] >= MinInterval \/ stampedAt[s] - stampedAt[r] >= MinInterval

inFlight(s) ==
  at[s] \in {"missed", "stamped", "stampedAgain", "sent", "sentAgain", "answered", "answeredAgain", "lookAgain"}

\* attest: recovery is delayed at most one minInterval.  Between fetches, and
\* unless the last one failed, a key published more than the time of a fetch
\* before lastRefresh is in the cache, so a lookup the throttle refuses is
\* for a key younger than that, even when an older answer replaced a newer.
NewKeyResolves ==
  cache = "attest" /\ ~ failed /\ (\A r \in Lookups : ~ inFlight(r)) =>
    \A k \in published : attemptedAt > publishedAt[k] + FetchTimeout => k \in keys

\* Withdrawn keys leave the oidc cache in bounded time and its attempts to
\* fetch are spaced; new keys reach the attest cache.  Nothing is said of the
\* attest cache's fetches: concurrent misses each read lastRefresh and fetch.
KeyCacheSafe == CacheTypeOK /\ WithdrawnKeyAges /\ AttemptsSpaced /\ NewKeyResolves
=============================================================================
