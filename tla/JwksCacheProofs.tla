--------------------------- MODULE JwksCacheProofs ---------------------------
(***************************************************************************)
(* The key cache never uses a withdrawn key for longer than its cache time *)
(* and never refuses a key that was published throughout, for any number   *)
(* of keys and of concurrent verifications.                                *)
(***************************************************************************)
EXTENDS JwksCache, TLAPS

(* The parts that make BoundedStaleness and NoFalseRefusal inductive.      *)

(* The last publication of a key is past, or now if it is published.       *)
PublicationInv ==
    \A k \in Keys :
        /\ lastPublished[k] <= now
        /\ k \in published => lastPublished[k] = now

(* The cached set was published at loadedAt or later.                      *)
CacheInv == \A k \in jwks : lastPublished[k] >= loadedAt

(* So was the set that a verification is about to store, at the moment it  *)
(* asked or later; and a verification whose key it lacks has seen a gap.   *)
AnswerInv ==
    \A r \in Requests :
        LET v == request[r] IN
        /\ v.begun <= now
        /\ v.pc \in Waiting =>
              /\ v.begun <= v.asked /\ v.asked <= now
              /\ v.kid \notin published => v.gap
        /\ v.pc = "receiving" =>
              /\ \A k \in v.doc : lastPublished[k] >= v.asked
              /\ v.kid \notin v.doc => v.gap

FreshInv == PublicationInv /\ CacheInv /\ AnswerInv

(* What a fetch makes of a verification. *)
LEMMA FetchFacts ==
    ASSUME JwksTypeOK, NEW v \in Verifications
    PROVE  /\ Fetch(v) \in Verifications
           /\ Fetch(v).pc \in {"asking", "discovering"}
           /\ Fetch(v).asked = now
           /\ Fetch(v).kid = v.kid
           /\ Fetch(v).begun = v.begun
           /\ Fetch(v).gap = v.gap
BY JwksAssumption DEF JwksTypeOK, Verifications, Fetch, Waiting, Ended

(* What the end of a verification leaves of it. *)
LEMMA EndFacts ==
    ASSUME NEW v \in Verifications, NEW how \in Ended
    PROVE  /\ End(v, how) \in Verifications
           /\ End(v, how).pc = how
           /\ End(v, how).kid = v.kid
           /\ End(v, how).begun = v.begun
           /\ End(v, how).gap = v.gap
<1>1. v.kid \in Keys /\ v.begun \in 0..MaxTime /\ v.gap \in BOOLEAN
  BY DEF Verifications
<1>2. End(v, how) \in Verifications
  BY <1>1, JwksAssumption DEF Verifications, End
<1>. QED
  BY <1>2 DEF End

(* A lookup ends in the key's acceptance, in its refusal after a forced    *)
(* refresh, or in another fetch.                                           *)
LEMMA LookedFacts ==
    ASSUME JwksTypeOK, NEW v \in Verifications, NEW keys \in SUBSET Keys,
           NEW w \in Looked(v, keys)
    PROVE  /\ w \in Verifications
           /\ w.kid = v.kid /\ w.begun = v.begun /\ w.gap = v.gap
           /\ w.pc \in Ended \cup {"asking", "discovering"}
           /\ w.pc \in Waiting => w.asked = now
           /\ w.pc = "accepted" => v.kid \in keys
           /\ w.pc = "unknown" => v.kid \notin keys /\ v.force
<1>1. CASE v.kid \in keys
  <2>1. w = End(v, "accepted") \/ w = End(v, "invalid")
    BY <1>1 DEF Looked, Found, Decoded
  <2>. QED
    BY <1>1, <2>1, EndFacts DEF Waiting, Ended
<1>2. CASE v.kid \notin keys /\ v.force
  <2>1. w = End(v, "unknown")
    BY <1>2 DEF Looked, Found
  <2>. QED
    BY <1>2, <2>1, EndFacts DEF Waiting, Ended
<1>3. CASE v.kid \notin keys /\ ~v.force
  <2>1. /\ [v EXCEPT !.force = TRUE] \in Verifications
        /\ [v EXCEPT !.force = TRUE].kid = v.kid
        /\ [v EXCEPT !.force = TRUE].begun = v.begun
        /\ [v EXCEPT !.force = TRUE].gap = v.gap
    BY DEF Verifications
  <2>2. w = Fetch([v EXCEPT !.force = TRUE])
    BY <1>3 DEF Looked, Found
  <2>. QED
    BY <2>1, <2>2, FetchFacts DEF Waiting, Ended
<1>. QED
  BY <1>1, <1>2, <1>3

------------------------------------------------------------------------------
(* The verification that Begin starts. *)
Begun(k) ==
    [pc |-> "idle", kid |-> k, force |-> FALSE, begun |-> now, asked |-> now,
     doc |-> {}, gap |-> k \notin published]

(* It asks the provider, or finds its key in a set that is recent enough.  *)
LEMMA BeginFacts ==
    ASSUME JwksTypeOK, NEW r \in Requests, NEW k \in Keys, Begin(r, k)
    PROVE  \E w \in Verifications :
             /\ request' = [request EXCEPT ![r] = w]
             /\ w.kid = k /\ w.begun = now /\ (w.gap <=> k \notin published)
             /\ w.pc \in Ended \cup {"asking", "discovering"}
             /\ w.pc \in Waiting => w.asked = now
             /\ w.pc = "accepted" => k \in jwks /\ now - loadedAt < CacheSeconds
             /\ w.pc # "unknown"
<1>1. /\ Begun(k) \in Verifications
      /\ Begun(k).kid = k /\ Begun(k).begun = now /\ ~Begun(k).force
      /\ (Begun(k).gap <=> k \notin published)
  BY DEF JwksTypeOK, Begun, Verifications
<1>2. PICK w \in IF Stale(Begun(k)) THEN {Fetch(Begun(k))}
                                    ELSE Looked(Begun(k), jwks) :
        request' = [request EXCEPT ![r] = w]
  BY DEF Begin, Begun
<1>3. CASE Stale(Begun(k))
  <2>1. w = Fetch(Begun(k))
    BY <1>2, <1>3
  <2>. QED
    BY <1>1, <1>2, <2>1, FetchFacts DEF Waiting, Ended
<1>4. CASE ~Stale(Begun(k))
  <2>1. w \in Looked(Begun(k), jwks)
    BY <1>2, <1>4
  <2>2. now - loadedAt < CacheSeconds
    BY <1>4, JwksAssumption DEF Stale, JwksTypeOK
  <2>. QED
    <3>1. jwks \in SUBSET Keys
      BY DEF JwksTypeOK
    <3>2. /\ w \in Verifications
          /\ w.kid = k /\ w.begun = now /\ w.gap = Begun(k).gap
          /\ w.pc \in Ended \cup {"asking", "discovering"}
          /\ w.pc \in Waiting => w.asked = now
          /\ w.pc = "accepted" => k \in jwks
          /\ w.pc # "unknown"
      BY <1>1, <2>1, <3>1, LookedFacts
    <3>. QED
      BY <1>1, <1>2, <2>2, <3>2
<1>. QED
  BY <1>3, <1>4

(* Received stores the answer and looks the key up in it. *)
LEMMA ReceivedFacts ==
    ASSUME JwksTypeOK, NEW r \in Requests, Received(r)
    PROVE  \E w \in Verifications :
             /\ request' = [request EXCEPT ![r] = w]
             /\ w.kid = request[r].kid /\ w.begun = request[r].begun
             /\ w.gap = request[r].gap
             /\ w.pc \in Ended \cup {"asking", "discovering"}
             /\ w.pc \in Waiting => w.asked = now
             /\ w.pc = "accepted" => request[r].kid \in request[r].doc
             /\ w.pc = "unknown" => request[r].kid \notin request[r].doc
<1>. DEFINE u == [request[r] EXCEPT !.doc = {}]
<1>1. /\ u \in Verifications /\ u.kid = request[r].kid
      /\ u.begun = request[r].begun /\ u.gap = request[r].gap
      /\ request[r].doc \in SUBSET Keys
  BY DEF JwksTypeOK, Verifications
<1>2. PICK w \in Looked(u, request[r].doc) :
        request' = [request EXCEPT ![r] = w]
  BY DEF Received
<1>. HIDE DEF u
<1>. QED
  BY <1>1, <1>2, LookedFacts

------------------------------------------------------------------------------
(* The service starts with a well-typed cache. *)
LEMMA TypeInit == Init => JwksTypeOK
<1>. SUFFICES ASSUME Init PROVE JwksTypeOK
  OBVIOUS
<1>1. Never \in Int
  BY JwksAssumption DEF Never
<1>2. lastPublished \in [Keys -> Int]
  BY <1>1 DEF Init
<1>3. /\ now \in 0..MaxTime /\ loadedAt \in 0..MaxTime
      /\ published \in SUBSET Keys /\ jwks \in SUBSET Keys
  BY JwksAssumption DEF Init
<1>4. endpoints \in BOOLEAN /\ loaded \in BOOLEAN
  BY DEF Init
<1>5. request \in [Requests -> Verifications]
  <2>1. PICK k \in Keys :
          request = [r \in Requests |->
                       [pc |-> "idle", kid |-> k, force |-> FALSE,
                        begun |-> 0, asked |-> 0, doc |-> {}, gap |-> FALSE]]
    BY DEF Init
  <2>. QED
    BY <2>1, JwksAssumption DEF Verifications
<1>. QED
  BY <1>2, <1>3, <1>4, <1>5, Zenon DEF JwksTypeOK

(* Every step of a verification, of the provider or of the clock keeps the *)
(* types.                                                                  *)
LEMMA TypeStep == JwksTypeOK /\ [Next]_vars => JwksTypeOK'
<1>. SUFFICES ASSUME JwksTypeOK, [Next]_vars PROVE JwksTypeOK'
  OBVIOUS
<1>1. ASSUME NEW r \in Requests, NEW k \in Keys, Begin(r, k) PROVE JwksTypeOK'
  <2>1. PICK w \in Verifications : request' = [request EXCEPT ![r] = w]
    BY <1>1, BeginFacts
  <2>. QED
    BY <1>1, <2>1 DEF Begin, JwksTypeOK, provider, cache
<1>2. ASSUME NEW r \in Requests, Discovered(r) PROVE JwksTypeOK'
  BY <1>2 DEF Discovered, JwksTypeOK, Verifications, Waiting, provider
<1>3. ASSUME NEW r \in Requests, Answered(r) PROVE JwksTypeOK'
  BY <1>3 DEF Answered, JwksTypeOK, Verifications, Waiting, provider, cache
<1>4. ASSUME NEW r \in Requests, Received(r) PROVE JwksTypeOK'
  <2>1. PICK w \in Verifications : request' = [request EXCEPT ![r] = w]
    BY <1>4, ReceivedFacts
  <2>2. request[r].asked \in 0..MaxTime /\ request[r].doc \in SUBSET Keys
    BY DEF JwksTypeOK, Verifications
  <2>. QED
    BY <1>4, <2>1, <2>2 DEF Received, LoadedAt, JwksTypeOK, provider
<1>5. ASSUME NEW r \in Requests, ProviderFails(r) PROVE JwksTypeOK'
  <2>1. End(request[r], "failed") \in Verifications
    BY EndFacts DEF JwksTypeOK, Ended
  <2>. QED
    BY <1>5, <2>1 DEF ProviderFails, JwksTypeOK, provider, cache
<1>6. ASSUME NEW keys \in SUBSET Keys, Rotate(keys) PROVE JwksTypeOK'
  <2>1. request' \in [Requests -> Verifications]
    BY <1>6 DEF Rotate, JwksTypeOK, Verifications
  <2>2. lastPublished' \in [Keys -> Int]
    BY <1>6 DEF Rotate, JwksTypeOK
  <2>. QED
    BY <1>6, <2>1, <2>2 DEF Rotate, JwksTypeOK, cache
<1>7. ASSUME Tick PROVE JwksTypeOK'
  BY <1>7, JwksAssumption DEF Tick, JwksTypeOK, cache
<1>8. ASSUME UNCHANGED vars PROVE JwksTypeOK'
  BY <1>8 DEF vars, provider, cache, JwksTypeOK
<1>. QED
  BY <1>1, <1>2, <1>3, <1>4, <1>5, <1>6, <1>7, <1>8 DEF Next, Call

------------------------------------------------------------------------------
(* The inductive invariant. *)
JwksInv == JwksTypeOK /\ FreshInv /\ BoundedStaleness /\ NoFalseRefusal

(* FreshInv, BoundedStaleness and NoFalseRefusal for one verification.     *)
Sound(v) ==
    /\ v.begun <= now
    /\ v.pc \in Waiting =>
          /\ v.begun <= v.asked /\ v.asked <= now
          /\ v.kid \notin published => v.gap
    /\ v.pc = "receiving" =>
          /\ \A k \in v.doc : lastPublished[k] >= v.asked
          /\ v.kid \notin v.doc => v.gap
    /\ v.pc = "accepted" => lastPublished[v.kid] + CacheSeconds > v.begun
    /\ v.pc = "unknown" => v.gap

(* The invariant, one verification at a time. *)
LEMMA InvSplit ==
    JwksInv <=> /\ JwksTypeOK /\ PublicationInv /\ CacheInv
                /\ \A r \in Requests : Sound(request[r])
BY DEF JwksInv, FreshInv, AnswerInv, BoundedStaleness, NoFalseRefusal, Sound

(* A step that changes one verification and neither the keys nor the clock *)
(* keeps the others sound.                                                 *)
LEMMA OneChanged ==
    ASSUME JwksTypeOK, \A r \in Requests : Sound(request[r]),
           NEW r \in Requests, NEW w \in Verifications,
           request' = [request EXCEPT ![r] = w],
           UNCHANGED provider,
           Sound(w)
    PROVE  \A q \in Requests : Sound(request[q])'
<1>. TAKE q \in Requests
<1>1. /\ now' = now /\ published' = published
      /\ lastPublished' = lastPublished
  BY DEF provider
<1>2. request'[q] = w \/ request'[q] = request[q]
  BY DEF JwksTypeOK
<1>. QED
  BY <1>1, <1>2 DEF Sound

(* The invariant holds before the first verification. *)
LEMMA InvInit == Init => JwksInv
<1>. SUFFICES ASSUME Init PROVE JwksInv
  OBVIOUS
<1>1. JwksTypeOK
  BY TypeInit
<1>2. PublicationInv /\ CacheInv
  BY JwksAssumption DEF Init, PublicationInv, CacheInv, Never
<1>3. ASSUME NEW r \in Requests PROVE Sound(request[r])
  <2>1. /\ request[r].pc = "idle" /\ request[r].begun = 0 /\ now = 0
    BY <1>3 DEF Init
  <2>. QED
    BY <2>1 DEF Sound, Waiting
<1>. QED
  BY <1>1, <1>2, <1>3, InvSplit

(* Every step keeps it: a key set is stored with a time that is not later  *)
(* than its publication (oidc.py:181), and the forced refresh sees what is *)
(* published during the verification (oidc.py:151).                        *)
LEMMA InvStep == JwksInv /\ [Next]_vars => JwksInv'
<1>. SUFFICES ASSUME JwksInv, [Next]_vars PROVE JwksInv'
  OBVIOUS
<1>0. /\ JwksTypeOK /\ PublicationInv /\ CacheInv
      /\ \A r \in Requests : Sound(request[r])
  BY InvSplit
<1>t. JwksTypeOK'
  BY <1>0, TypeStep
<1>. SUFFICES PublicationInv' /\ CacheInv' /\ \A r \in Requests : Sound(request[r])'
  BY <1>t, InvSplit DEF JwksInv, FreshInv, AnswerInv, BoundedStaleness,
                        NoFalseRefusal, Sound
<1>. DEFINE Goal == PublicationInv' /\ CacheInv' /\ \A r \in Requests : Sound(request[r])'
<1>1. ASSUME NEW r \in Requests, NEW k \in Keys, Begin(r, k) PROVE Goal
  <2>1. PICK w \in Verifications :
          /\ request' = [request EXCEPT ![r] = w]
          /\ w.kid = k /\ w.begun = now /\ (w.gap <=> k \notin published)
          /\ w.pc \in Ended \cup {"asking", "discovering"}
          /\ w.pc \in Waiting => w.asked = now
          /\ w.pc = "accepted" => k \in jwks /\ now - loadedAt < CacheSeconds
          /\ w.pc # "unknown"
    BY <1>0, <1>1, BeginFacts
  <2>2. UNCHANGED <<provider, cache>>
    BY <1>1 DEF Begin
  <2>3. w.pc = "accepted" => lastPublished[k] + CacheSeconds > now
    BY <1>0, <2>1, JwksAssumption DEF CacheInv, JwksTypeOK
  <2>4. Sound(w)
    BY <1>0, <2>1, <2>3 DEF Sound, JwksTypeOK, Ended
  <2>. QED
    BY <1>0, <2>1, <2>2, <2>4, OneChanged
       DEF provider, cache, PublicationInv, CacheInv
<1>2. ASSUME NEW r \in Requests, Discovered(r) PROVE Goal
  <2>. DEFINE w == [request[r] EXCEPT !.pc = "asking"]
  <2>1. w \in Verifications /\ request' = [request EXCEPT ![r] = w]
    BY <1>0, <1>2 DEF Discovered, JwksTypeOK, Verifications, Waiting
  <2>2. Sound(w)
    BY <1>0, <1>2 DEF Discovered, Sound, JwksTypeOK, Verifications, Waiting
  <2>. QED
    BY <1>0, <1>2, <2>1, <2>2, OneChanged
       DEF Discovered, provider, PublicationInv, CacheInv
<1>3. ASSUME NEW r \in Requests, Answered(r) PROVE Goal
  <2>. DEFINE w == [request[r] EXCEPT !.pc = "receiving", !.doc = published]
  <2>1. w \in Verifications /\ request' = [request EXCEPT ![r] = w]
    BY <1>0, <1>3 DEF Answered, JwksTypeOK, Verifications, Waiting
  <2>2. Sound(w)
    BY <1>0, <1>3
       DEF Answered, Sound, JwksTypeOK, Verifications, Waiting, PublicationInv
  <2>. QED
    BY <1>0, <1>3, <2>1, <2>2, OneChanged
       DEF Answered, provider, cache, PublicationInv, CacheInv
<1>4. ASSUME NEW r \in Requests, Received(r) PROVE Goal
  <2>1. PICK w \in Verifications :
          /\ request' = [request EXCEPT ![r] = w]
          /\ w.kid = request[r].kid /\ w.begun = request[r].begun
          /\ w.gap = request[r].gap
          /\ w.pc \in Ended \cup {"asking", "discovering"}
          /\ w.pc \in Waiting => w.asked = now
          /\ w.pc = "accepted" => request[r].kid \in request[r].doc
          /\ w.pc = "unknown" => request[r].kid \notin request[r].doc
    BY <1>0, <1>4, ReceivedFacts
  <2>2. /\ request[r] \in Verifications /\ Sound(request[r])
        /\ request[r].pc = "receiving"
    BY <1>0, <1>4 DEF Received, JwksTypeOK
  <2>3. Sound(w)
    <3>1. /\ w.begun <= now
          /\ w.pc \in Waiting => (w.kid \notin published => w.gap)
          /\ w.pc = "unknown" => w.gap
      BY <2>1, <2>2 DEF Sound, Waiting
    <3>2. w.pc = "accepted" => lastPublished[w.kid] + CacheSeconds > w.begun
      <4>1. w.pc = "accepted" => /\ lastPublished[w.kid] >= request[r].asked
                                 /\ request[r].asked >= w.begun
        BY <2>1, <2>2 DEF Sound, Waiting
      <4>2. /\ lastPublished[w.kid] \in Int /\ request[r].asked \in Int
            /\ w.begun \in Int
        BY <1>0, <2>1, <2>2 DEF JwksTypeOK, Verifications
      <4>. QED
        BY <4>1, <4>2, JwksAssumption
    <3>3. w.pc # "receiving" /\ (w.pc \in Waiting => w.asked = now /\ now <= now)
      BY <1>0, <2>1 DEF Ended, JwksTypeOK
    <3>. QED
      BY <3>1, <3>2, <3>3 DEF Sound
  <2>4. CacheInv'
    <3>1. jwks' = request[r].doc /\ loadedAt' = request[r].asked
      BY <1>4 DEF Received, LoadedAt
    <3>2. lastPublished' = lastPublished
      BY <1>4 DEF Received, provider
    <3>. QED
      BY <2>2, <3>1, <3>2 DEF Sound, CacheInv
  <2>. QED
    BY <1>0, <1>4, <2>1, <2>3, <2>4, OneChanged
       DEF Received, provider, PublicationInv
<1>5. ASSUME NEW r \in Requests, ProviderFails(r) PROVE Goal
  <2>. DEFINE w == End(request[r], "failed")
  <2>1. /\ w \in Verifications /\ w.pc = "failed"
        /\ w.begun = request[r].begun
    BY <1>0, EndFacts DEF JwksTypeOK, Ended
  <2>2. Sound(w)
    BY <1>0, <2>1 DEF Sound, Waiting
  <2>3. request' = [request EXCEPT ![r] = w] /\ UNCHANGED <<provider, cache>>
    BY <1>5 DEF ProviderFails
  <2>. HIDE DEF w
  <2>. QED
    BY <1>0, <2>1, <2>2, <2>3, OneChanged
       DEF provider, cache, PublicationInv, CacheInv
<1>6. ASSUME NEW keys \in SUBSET Keys, Rotate(keys) PROVE Goal
  <2>1. /\ now' = now /\ published' = keys /\ jwks' = jwks
        /\ loadedAt' = loadedAt
    BY <1>6 DEF Rotate, cache
  <2>2. \A k \in Keys : /\ lastPublished'[k] = (IF k \in keys THEN now
                                                             ELSE lastPublished[k])
                         /\ lastPublished[k] \in Int /\ lastPublished[k] <= now
                         /\ lastPublished'[k] \in Int
                         /\ lastPublished'[k] >= lastPublished[k]
    BY <1>0, <1>6 DEF Rotate, JwksTypeOK, PublicationInv
  <2>3. PublicationInv'
    BY <1>0, <2>1, <2>2 DEF PublicationInv, JwksTypeOK
  <2>4. CacheInv'
    BY <1>0, <2>1, <2>2 DEF CacheInv, JwksTypeOK
  <2>5. ASSUME NEW r \in Requests PROVE Sound(request[r])'
    <3>1. /\ request[r] \in Verifications /\ Sound(request[r])
          /\ request'[r] = IF request[r].pc \in Waiting /\ request[r].kid \notin keys
                           THEN [request[r] EXCEPT !.gap = TRUE]
                           ELSE request[r]
      BY <1>0, <1>6 DEF Rotate, JwksTypeOK
    <3>2. /\ request'[r].pc = request[r].pc /\ request'[r].kid = request[r].kid
          /\ request'[r].begun = request[r].begun
          /\ request'[r].asked = request[r].asked
          /\ request'[r].doc = request[r].doc
          /\ request[r].gap => request'[r].gap
          /\ request[r].pc \in Waiting /\ request[r].kid \notin keys => request'[r].gap
      BY <3>1 DEF Verifications
    <3>3. /\ request[r].kid \in Keys /\ request[r].doc \subseteq Keys
          /\ request[r].asked \in Int /\ request[r].begun \in Int
      BY <3>1 DEF Verifications
    <3>. QED
      BY <2>1, <2>2, <3>1, <3>2, <3>3, JwksAssumption DEF Sound
  <2>. QED
    BY <2>3, <2>4, <2>5
<1>7. ASSUME Tick PROVE Goal
  <2>1. /\ now' = now + 1 /\ published' = published /\ jwks' = jwks
        /\ loadedAt' = loadedAt /\ request' = request
        /\ now \in Int
    BY <1>0, <1>7 DEF Tick, cache, JwksTypeOK
  <2>2. \A k \in Keys : /\ lastPublished'[k] = (IF k \in published THEN now + 1
                                                                  ELSE lastPublished[k])
                         /\ lastPublished[k] \in Int /\ lastPublished[k] <= now
                         /\ lastPublished'[k] \in Int
                         /\ lastPublished'[k] >= lastPublished[k]
    BY <1>0, <1>7, <2>1 DEF Tick, JwksTypeOK, PublicationInv
  <2>3. PublicationInv'
    BY <1>0, <2>1, <2>2 DEF PublicationInv
  <2>4. CacheInv'
    BY <1>0, <2>1, <2>2 DEF CacheInv, JwksTypeOK
  <2>5. ASSUME NEW r \in Requests PROVE Sound(request[r])'
    <3>1. request[r] \in Verifications /\ Sound(request[r])
      BY <1>0 DEF JwksTypeOK
    <3>2. /\ request[r].kid \in Keys /\ request[r].doc \subseteq Keys
          /\ request[r].asked \in Int /\ request[r].begun \in Int
      BY <3>1 DEF Verifications
    <3>. QED
      BY <2>1, <2>2, <3>1, <3>2, JwksAssumption DEF Sound
  <2>. QED
    BY <2>3, <2>4, <2>5
<1>8. ASSUME UNCHANGED vars PROVE Goal
  BY <1>0, <1>8 DEF vars, provider, cache, PublicationInv, CacheInv, Sound
<1>. QED
  BY <1>1, <1>2, <1>3, <1>4, <1>5, <1>6, <1>7, <1>8 DEF Next, Call

------------------------------------------------------------------------------
(* Every reachable state of the key cache is well typed, for any number of *)
(* keys, verifications and seconds.                                        *)
THEOREM JwksTypeCorrect == Spec => []JwksTypeOK
BY TypeInit, TypeStep, PTL DEF Spec

(* A withdrawn key is not used for longer than the cache time, whatever    *)
(* the order in which answers are stored.                                  *)
THEOREM StalenessBounded == Spec => []BoundedStaleness
<1>1. JwksInv => BoundedStaleness
  BY DEF JwksInv
<1>. QED
  BY <1>1, InvInit, InvStep, PTL DEF Spec

(* A key that is published throughout a verification is never unknown.     *)
THEOREM RefusalJustified == Spec => []NoFalseRefusal
<1>1. JwksInv => NoFalseRefusal
  BY DEF JwksInv
<1>. QED
  BY <1>1, InvInit, InvStep, PTL DEF Spec
==============================================================================
