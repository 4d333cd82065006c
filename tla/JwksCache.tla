------------------------------ MODULE JwksCache ------------------------------
(***************************************************************************)
(* The signing keys of the identity provider as OidcClient caches them     *)
(* (test_runner_service/oidc.py), under concurrent token verifications and *)
(* key rotation.                                                           *)
(*                                                                         *)
(* A verification looks its key up in the cached key set, fetches the set  *)
(* when it is missing or too old, and fetches it once more when the key is *)
(* not in it.  Every HTTP call is an await during which other              *)
(* verifications run, the provider rotates its keys and time passes.       *)
(* Signatures and claims are abstracted: a token that names a known key is *)
(* accepted or found invalid.                                              *)
(***************************************************************************)
EXTENDS Integers

CONSTANTS
    Keys,          \* key identifiers
    Requests,      \* concurrent verifications
    CacheSeconds,  \* settings.oidc_jwks_cache_seconds
    MaxTime        \* bound: seconds that pass

ASSUME JwksAssumption ==
    /\ CacheSeconds \in Nat \ {0}
    /\ MaxTime \in Nat

VARIABLES
    now,            \* time.monotonic()
    published,      \* the keys the provider publishes
    lastPublished,  \* history: when each key was last published
    endpoints,      \* OidcClient._endpoints is not None
    loaded,         \* OidcClient._jwks is not None
    jwks,           \* OidcClient._jwks: the keys of the cached set
    loadedAt,       \* OidcClient._jwks_loaded_at
    request         \* the verifications

cache == <<endpoints, loaded, jwks, loadedAt>>
provider == <<now, published, lastPublished>>
vars == <<provider, cache, request>>

------------------------------------------------------------------------------
(* Where a verification is.                                                *)
(*   discovering  awaits the discovery document                            *)
(*   asking       has asked for the key set, the provider has not answered *)
(*   receiving    the answer, doc, is on its way                           *)
(*   accepted, invalid, unknown, failed: how it ended; unknown means that  *)
(*   the signing key was not found, failed that a call to the provider was *)
Waiting == {"discovering", "asking", "receiving"}
Ended   == {"accepted", "invalid", "unknown", "failed"}

(* begun is when _key was called and asked the now of the current          *)
(* _get_jwks.  gap is history: the key was unpublished at some moment      *)
(* since the verification began.                                           *)
Verifications ==
    [pc : {"idle"} \cup Waiting \cup Ended, kid : Keys, force : BOOLEAN,
     begun : 0..MaxTime, asked : 0..MaxTime, doc : SUBSET Keys,
     gap : BOOLEAN]

Never == -CacheSeconds

(* Every variable has its type. *)
JwksTypeOK ==
    /\ now \in 0..MaxTime
    /\ published \in SUBSET Keys
    /\ lastPublished \in [Keys -> Int]
    /\ endpoints \in BOOLEAN
    /\ loaded \in BOOLEAN
    /\ jwks \in SUBSET Keys
    /\ loadedAt \in 0..MaxTime
    /\ request \in [Requests -> Verifications]

Init ==
    /\ now = 0
    /\ published \in SUBSET Keys
    /\ lastPublished = [k \in Keys |-> IF k \in published THEN 0 ELSE Never]
    /\ endpoints = FALSE
    /\ loaded = FALSE
    /\ jwks = {}
    /\ loadedAt = 0
    /\ \E k \in Keys :
           request = [r \in Requests |->
                        [pc |-> "idle", kid |-> k, force |-> FALSE,
                         begun |-> 0, asked |-> 0, doc |-> {}, gap |-> FALSE]]
------------------------------------------------------------------------------
(* _get_jwks needs a new key set.                                          *)
Stale(v) ==
    \/ v.force
    \/ ~loaded
    \/ now - loadedAt >= CacheSeconds

(* The fetch of a key set, after the discovery document if it is unknown.  *)
Fetch(v) ==
    [v EXCEPT !.asked = now,
              !.pc = IF endpoints THEN "asking" ELSE "discovering"]

(* The local variables of a verification end with it. *)
End(v, how) ==
    [pc |-> how, kid |-> v.kid, force |-> FALSE, begun |-> v.begun,
     asked |-> 0, doc |-> {}, gap |-> v.gap]

(* The second half of _key and the rest of _verify, for a key in the set.  *)
Decoded(v) == {End(v, "accepted"), End(v, "invalid")}

(* _find_key. *)
Found(v, keys) == v.kid \in keys

(* What a verification becomes once _get_jwks has returned keys: a key     *)
(* that is not there is looked for in a forced refresh, once.              *)
(* Mutants: no refresh; a refresh as often as it takes.                    *)
MutantNoRefresh(v, keys) ==
    IF Found(v, keys) THEN Decoded(v) ELSE {End(v, "unknown")}
MutantRefreshForever(v, keys) ==
    IF Found(v, keys) THEN Decoded(v)
    ELSE {Fetch([v EXCEPT !.force = TRUE])}
Looked(v, keys) ==
    IF Found(v, keys) THEN Decoded(v)
    ELSE IF v.force THEN {End(v, "unknown")}
    ELSE {Fetch([v EXCEPT !.force = TRUE])}

------------------------------------------------------------------------------
(* A token that names key k: _verify up to its first await.                *)
Begin(r, k) ==
    /\ request[r].pc \notin Waiting
    /\ LET v == [pc |-> "idle", kid |-> k, force |-> FALSE, begun |-> now,
                 asked |-> now, doc |-> {}, gap |-> k \notin published]
       IN  \E w \in IF Stale(v) THEN {Fetch(v)} ELSE Looked(v, jwks) :
               request' = [request EXCEPT ![r] = w]
    /\ UNCHANGED <<provider, cache>>

(* _get_endpoints stores the document and the key set is asked for.        *)
Discovered(r) ==
    /\ request[r].pc = "discovering"
    /\ endpoints' = TRUE
    /\ request' = [request EXCEPT ![r].pc = "asking"]
    /\ UNCHANGED <<provider, loaded, jwks, loadedAt>>

(* The provider answers with the keys it publishes at that moment.         *)
Answered(r) ==
    /\ request[r].pc = "asking"
    /\ request' = [request EXCEPT ![r].pc = "receiving", ![r].doc = published]
    /\ UNCHANGED <<provider, cache>>

(* The age of a new key set counts from before it was asked for.           *)
(* Mutant: it counts from the arrival of the answer.                       *)
MutantLoadedNow(v) == now
LoadedAt(v) == v.asked

(* get_json returns in _get_jwks: the answer replaces the cached set, even *)
(* one that another verification fetched later.                            *)
Received(r) ==
    /\ request[r].pc = "receiving"
    /\ loaded' = TRUE
    /\ jwks' = request[r].doc
    /\ loadedAt' = LoadedAt(request[r])
    /\ \E w \in Looked([request[r] EXCEPT !.doc = {}], request[r].doc) :
           request' = [request EXCEPT ![r] = w]
    /\ UNCHANGED <<provider, endpoints>>

(* The provider cannot be reached, takes longer than the timeout of 10 s   *)
(* or answers with something else: OidcError, and the cache is left alone. *)
ProviderFails(r) ==
    /\ request[r].pc \in Waiting
    /\ request' = [request EXCEPT ![r] = End(@, "failed")]
    /\ UNCHANGED <<provider, cache>>
------------------------------------------------------------------------------
(* The provider and the clock.                                             *)
Rotate(keys) ==
    /\ keys # published
    /\ published' = keys
    /\ lastPublished' = [k \in Keys |-> IF k \in keys THEN now
                                                      ELSE lastPublished[k]]
    /\ request' = [r \in Requests |->
                     IF request[r].pc \in Waiting /\ request[r].kid \notin keys
                     THEN [request[r] EXCEPT !.gap = TRUE]
                     ELSE request[r]]
    /\ UNCHANGED <<now, cache>>

Tick ==
    /\ now < MaxTime
    /\ now' = now + 1
    /\ lastPublished' = [k \in Keys |-> IF k \in published THEN now + 1
                                                      ELSE lastPublished[k]]
    /\ UNCHANGED <<published, cache, request>>

Call(r) == Discovered(r) \/ Answered(r) \/ Received(r) \/ ProviderFails(r)

Next ==
    \/ \E r \in Requests, k \in Keys : Begin(r, k)
    \/ \E r \in Requests : Call(r)
    \/ \E keys \in SUBSET Keys : Rotate(keys)
    \/ Tick

Spec == Init /\ [][Next]_vars

(* urlopen has a timeout: every call of the provider returns or raises.    *)
FairSpec == Spec /\ \A r \in Requests : WF_vars(Call(r))
------------------------------------------------------------------------------
(* A token is accepted only if its key was published less than the cache   *)
(* time before the verification began, or later: however slow the          *)
(* provider's answers and in whatever order they are stored (oidc.py:181), *)
(* a withdrawn key is not used for longer than that.                       *)
BoundedStaleness ==
    \A r \in Requests :
        request[r].pc = "accepted" =>
            lastPublished[request[r].kid] + CacheSeconds > request[r].begun

(* A token is refused for an unknown key only if the provider did not      *)
(* publish that key at some moment of the verification: neither an old     *)
(* cache nor a concurrent verification that stores an older key set makes  *)
(* a good token fail (oidc.py:150).                                        *)
NoFalseRefusal ==
    \A r \in Requests : request[r].pc = "unknown" => request[r].gap

(* Every verification ends, at the latest with the provider's timeouts:    *)
(* the search for a key does not go on while the provider lacks it.        *)
VerificationEnds ==
    \A r \in Requests : request[r].pc \in Waiting ~> request[r].pc \in Ended
==============================================================================
