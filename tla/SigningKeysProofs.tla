--------------------------- MODULE SigningKeysProofs ---------------------------
(***************************************************************************)
(* Theorems of SigningKeys, for any number of requests, any tokens, any time   *)
(* to live of the cache and any rotation of the keys.                          *)
(***************************************************************************)
EXTENDS SigningKeys, TLAPS

Steps == {"idle", "fetching", "answering", "answered"}
Replies == {"none", "missing header", "unknown key", "invalid", "expired", "wrong audience", "wrong issuer", "user", "fetch failed"}
TokenType == [kid : Nat, readable : BOOLEAN, signed : BOOLEAN, expired : BOOLEAN, audience : BOOLEAN, issuer : BOOLEAN]

RequestType == [step : Steps, token : TokenType, now : 0..clock, keys : SUBSET Nat, reply : Replies]

\* The types; a request has sampled a time that has been.
KeysTypeOK ==
    /\ clock \in Nat
    /\ keysAt \in [0..clock -> SUBSET Nat]
    /\ jwks \in [keys : SUBSET Nat, at : 0..clock]
    /\ request \in [Requests -> RequestType]

\* Keys in hand, of a request or of the cache, were published no earlier than the time they
\* are kept with.
PublishedSince(keys, time) == \E t \in 0..clock : t >= time /\ keysAt[t] = keys
KeysAreDated ==
    /\ jwks # NoKeys => PublishedSince(jwks.keys, jwks.at)
    /\ \A r \in Requests : request[r].step = "answering" => PublishedSince(request[r].keys, request[r].now)

\* What JudgedByKeysOfTheHour says of one request, of a token, a reply and the time it came.
Just(token, reply, now) ==
    LET window == {t \in 0..clock : t + KeysTtl > now}
    IN  /\ reply = "user" =>
               /\ \E t \in window : token.kid \in keysAt[t]
               /\ token.signed /\ ~token.expired /\ token.audience /\ token.issuer
        /\ reply = "unknown key" => \E t \in window : token.kid \notin keysAt[t]

KeysInv ==
    /\ KeysTypeOK
    /\ KeysAreDated
    /\ \A r \in Requests : Just(request[r].token, request[r].reply, request[r].now)

-----------------------------------------------------------------------------
LEMMA InitKeys == KeysInit => KeysInv
<1> SUFFICES ASSUME KeysInit PROVE KeysInv
  OBVIOUS
<1>1. KeysTypeOK
  <2>1. clock = 0 /\ clock \in Nat /\ 0..clock = {0}
    BY DEF KeysInit
  <2>2. keysAt \in [0..clock -> SUBSET Nat]
    BY <2>1 DEF KeysInit
  <2>3. jwks \in [keys : SUBSET Nat, at : 0..clock]
    BY <2>1 DEF KeysInit, NoKeys
  <2>4. NoToken \in TokenType
    BY TokenAssumption DEF TokenType
  <2>5. request \in [Requests -> RequestType]
    BY <2>1, <2>4 DEF KeysInit, RequestType, Steps, Replies
  <2> QED BY <2>1, <2>2, <2>3, <2>5 DEF KeysTypeOK
<1>2. KeysAreDated
  BY DEF KeysInit, KeysAreDated
<1>3. \A r \in Requests : Just(request[r].token, request[r].reply, request[r].now)
  BY DEF KeysInit, Just
<1> QED BY <1>1, <1>2, <1>3 DEF KeysInv

\* A verdict by keys that were published since a time within KeysTtl of the request is just.
LEMMA VerdictIsJust ==
    ASSUME KeysTypeOK, NEW token \in TokenType, NEW keys, NEW now \in Nat, NEW t \in 0..clock,
           keysAt[t] = keys, t + KeysTtl > now
    PROVE  Verdict(token, keys) \in Replies /\ Just(token, Verdict(token, keys), now)
<1>0. /\ token.readable \in BOOLEAN /\ token.signed \in BOOLEAN /\ token.expired \in BOOLEAN
      /\ token.audience \in BOOLEAN /\ token.issuer \in BOOLEAN
  BY DEF TokenType
<1>1. CASE token.readable /\ token.kid \notin keys
  BY <1>0, <1>1 DEF Verdict, Authentic, Just, Replies
<1>2. CASE Authentic(token, keys) /\ token.expired
  BY <1>0, <1>2 DEF Verdict, Authentic, Just, Replies
<1>3. CASE Authentic(token, keys) /\ ~token.expired /\ ~token.audience
  BY <1>0, <1>3 DEF Verdict, Authentic, Just, Replies
<1>4. CASE Authentic(token, keys) /\ ~token.expired /\ token.audience /\ ~token.issuer
  BY <1>0, <1>4 DEF Verdict, Authentic, Just, Replies
<1>5. CASE Authentic(token, keys) /\ ~token.expired /\ token.audience /\ token.issuer
  <2>1. Verdict(token, keys) = "user"
    BY <1>0, <1>5 DEF Verdict, Authentic
  <2> QED BY <1>5, <2>1 DEF Authentic, Just, Replies
<1>6. CASE ~token.readable \/ (token.kid \in keys /\ ~token.signed)
  BY <1>0, <1>6 DEF Verdict, Authentic, Just, Replies
<1> QED BY <1>0, <1>1, <1>2, <1>3, <1>4, <1>5, <1>6 DEF Authentic

\* An action that changes the cache or one request, and neither the time nor the keys.
LEMMA OneRequest ==
    ASSUME KeysInv, UNCHANGED <<clock, keysAt>>, NEW r \in Requests,
           NEW q \in RequestType,
           request' = [request EXCEPT ![r] = q],
           q.step = "answering" => PublishedSince(q.keys, q.now),
           Just(q.token, q.reply, q.now),
           jwks' \in [keys : SUBSET Nat, at : 0..clock],
           jwks' # NoKeys => PublishedSince(jwks'.keys, jwks'.at)
    PROVE  KeysInv'
<1>1. KeysTypeOK'
  BY DEF KeysInv, KeysTypeOK, RequestType
<1>2. \A s \in Requests : request'[s] = IF s = r THEN q ELSE request[s]
  BY DEF KeysInv, KeysTypeOK
<1>3. KeysAreDated'
  BY <1>2 DEF KeysInv, KeysAreDated, PublishedSince, NoKeys
<1>4. (\A s \in Requests : Just(request[s].token, request[s].reply, request[s].now))'
  BY <1>2 DEF KeysInv, Just
<1> QED BY <1>1, <1>3, <1>4 DEF KeysInv

\* Time only adds to what was published.
LEMMA TickKeepsKeys == ASSUME KeysInv, Tick PROVE KeysInv'
<1>1. clock \in Nat /\ clock' = clock + 1 /\ clock' \in Nat /\ 0..clock \subseteq 0..clock'
  BY DEF KeysInv, KeysTypeOK, Tick
<1>2. UNCHANGED <<jwks, request>>
  BY DEF Tick
<1>3. PICK keys \in {Published, {k + 1 : k \in Published}} :
          keysAt' = [t \in 0..(clock + 1) |-> IF t <= clock THEN keysAt[t] ELSE keys]
  BY DEF Tick
<1>4. keys \in SUBSET Nat
  <2>1. Published \in SUBSET Nat
    BY <1>1 DEF Published, KeysInv, KeysTypeOK
  <2>2. {k + 1 : k \in Published} \in SUBSET Nat
    <3>1. \A k \in Published : k + 1 \in Nat
      BY <2>1
    <3> QED BY <3>1
  <2>3. keys = Published \/ keys = {k + 1 : k \in Published}
    BY <1>3
  <2> QED BY <2>1, <2>2, <2>3
<1>5. \A t \in 0..clock : keysAt'[t] = keysAt[t]
  BY <1>1, <1>3
<1>6. KeysTypeOK'
  <2>1. keysAt' \in [0..clock' -> SUBSET Nat]
    BY <1>1, <1>3, <1>4 DEF KeysInv, KeysTypeOK
  <2>2. \A s : s \in 0..clock => s \in 0..clock'
    BY <1>1
  <2>3. jwks' \in [keys : SUBSET Nat, at : 0..clock']
    BY <1>2, <2>2 DEF KeysInv, KeysTypeOK
  <2>4. \A q \in RequestType : q \in RequestType'
    BY <2>2 DEF RequestType
  <2>5. request' \in [Requests -> RequestType']
    BY <1>2, <2>4 DEF KeysInv, KeysTypeOK
  <2> QED BY <1>1, <2>1, <2>3, <2>5 DEF KeysTypeOK
<1>7. KeysAreDated'
  BY <1>1, <1>2, <1>5 DEF KeysInv, KeysAreDated, PublishedSince, NoKeys
<1>8. (\A r \in Requests : Just(request[r].token, request[r].reply, request[r].now))'
  BY <1>1, <1>2, <1>5 DEF KeysInv, Just
<1> QED BY <1>6, <1>7, <1>8 DEF KeysInv

LEMMA RequestKeepsKeys ==
    ASSUME KeysInv, NEW r \in Requests,
           \/ RefuseHeader(r) \/ UseCached(r) \/ BeginFetch(r) \/ ProviderAnswers(r)
           \/ StoreKeys(r) \/ FetchFails(r) \/ NextRequest(r)
    PROVE  KeysInv'
<1>0. /\ clock \in Nat
      /\ request[r] \in RequestType
      /\ request[r].token \in TokenType /\ request[r].now \in 0..clock
      /\ request[r].keys \in SUBSET Nat /\ request[r].reply \in Replies
      /\ 0 \in 0..clock /\ clock \in 0..clock /\ {} \in SUBSET Nat
      /\ jwks \in [keys : SUBSET Nat, at : 0..clock]
      /\ jwks # NoKeys => PublishedSince(jwks.keys, jwks.at)
      /\ request[r].step = "answering" => PublishedSince(request[r].keys, request[r].now)
      /\ Just(request[r].token, request[r].reply, request[r].now)
      /\ Tokens \subseteq TokenType /\ NoToken \in TokenType
  <2>1. request[r] \in RequestType
    BY DEF KeysInv, KeysTypeOK
  <2>2. /\ request[r].token \in TokenType /\ request[r].now \in 0..clock
        /\ request[r].keys \in SUBSET Nat /\ request[r].reply \in Replies
    BY <2>1 DEF RequestType
  <2>3. Tokens \subseteq TokenType /\ NoToken \in TokenType
    BY TokenAssumption DEF TokenType
  <2>4. /\ clock \in Nat
        /\ jwks \in [keys : SUBSET Nat, at : 0..clock]
        /\ jwks # NoKeys => PublishedSince(jwks.keys, jwks.at)
        /\ request[r].step = "answering" => PublishedSince(request[r].keys, request[r].now)
        /\ Just(request[r].token, request[r].reply, request[r].now)
    BY DEF KeysInv, KeysTypeOK, KeysAreDated
  <2>5. 0 \in 0..clock /\ clock \in 0..clock
    BY <2>4
  <2> QED BY <2>1, <2>2, <2>3, <2>4, <2>5
<1>1. CASE RefuseHeader(r)
  <2> DEFINE q == [request[r] EXCEPT !.step = "answered", !.now = clock, !.reply = "missing header"]
  <2>1. request' = [request EXCEPT ![r] = q] /\ UNCHANGED <<clock, keysAt, jwks>>
    BY <1>1 DEF RefuseHeader
  <2>2. q \in RequestType
    BY <1>0 DEF RequestType, Steps, Replies
  <2>3. q.step # "answering" /\ q.reply \notin {"user", "unknown key"}
    BY <1>0 DEF RequestType
  <2>4. Just(q.token, q.reply, q.now)
    BY <2>3 DEF Just
  <2> QED BY <1>0, <2>1, <2>2, <2>3, <2>4, OneRequest
<1>2. CASE UseCached(r)
  <2>1. PICK token \in Tokens :
            request' = [request EXCEPT ![r] = [step |-> "answered", token |-> token, now |-> clock, keys |-> {},
                                              reply |-> Verdict(token, jwks.keys)]]
    BY <1>2 DEF UseCached
  <2> DEFINE q == [step |-> "answered", token |-> token, now |-> clock, keys |-> {}, reply |-> Verdict(token, jwks.keys)]
  <2>2. jwks # NoKeys /\ clock - jwks.at < KeysTtl /\ UNCHANGED <<clock, keysAt, jwks>>
    BY <1>2 DEF UseCached, Fresh
  <2>3. PICK t \in 0..clock : t >= jwks.at /\ keysAt[t] = jwks.keys
    BY <1>0, <2>2 DEF PublishedSince
  <2>4. jwks.at \in Nat /\ t + KeysTtl > clock
    BY <1>0, <2>2, <2>3, TimeAssumption
  <2>5. KeysTypeOK /\ token \in TokenType
    BY <1>0 DEF KeysInv
  <2>6. Verdict(token, jwks.keys) \in Replies /\ Just(token, Verdict(token, jwks.keys), clock)
    BY <1>0, <2>3, <2>4, <2>5, VerdictIsJust
  <2>7. q \in RequestType
    BY <1>0, <2>5, <2>6 DEF RequestType, Steps, Replies
  <2> QED BY <1>0, <2>1, <2>2, <2>6, <2>7, OneRequest
<1>3. CASE BeginFetch(r)
  <2>1. PICK token \in Tokens :
            request' = [request EXCEPT ![r] = [step |-> "fetching", token |-> token, now |-> clock, keys |-> {}, reply |-> "none"]]
    BY <1>3 DEF BeginFetch
  <2> DEFINE q == [step |-> "fetching", token |-> token, now |-> clock, keys |-> {}, reply |-> "none"]
  <2>2. q \in RequestType
    BY <1>0 DEF RequestType, Steps, Replies
  <2>3. q.step # "answering" /\ q.reply \notin {"user", "unknown key"} /\ Just(q.token, q.reply, q.now)
    BY DEF Just
  <2>4. UNCHANGED <<clock, keysAt, jwks>>
    BY <1>3 DEF BeginFetch
  <2> QED BY <1>0, <2>1, <2>2, <2>3, <2>4, OneRequest
<1>4. CASE ProviderAnswers(r)
  <2> DEFINE q == [request[r] EXCEPT !.step = "answering", !.keys = Published]
  <2>1. request' = [request EXCEPT ![r] = q] /\ UNCHANGED <<clock, keysAt, jwks>>
    BY <1>4 DEF ProviderAnswers
  <2>2. Published \in SUBSET Nat
    BY DEF Published, KeysInv, KeysTypeOK
  <2>3. q \in RequestType
    BY <1>0, <2>2 DEF RequestType, Steps, Replies
  <2>4. PublishedSince(q.keys, q.now)
    <3>1. clock \in 0..clock /\ q.now <= clock /\ q.keys = keysAt[clock]
      BY <1>0 DEF Published
    <3> QED BY <1>0, <3>1 DEF PublishedSince
  <2>5. Just(q.token, q.reply, q.now)
    BY <1>0
  <2> QED BY <1>0, <2>1, <2>3, <2>4, <2>5, OneRequest
<1>5. CASE StoreKeys(r)
  <2> DEFINE verdict == Verdict(request[r].token, request[r].keys)
             q == [request[r] EXCEPT !.step = "answered", !.reply = verdict]
  <2>1. /\ request' = [request EXCEPT ![r] = q] /\ UNCHANGED <<clock, keysAt>>
        /\ jwks' = [keys |-> request[r].keys, at |-> request[r].now]
        /\ request[r].step = "answering"
    BY <1>5 DEF StoreKeys, Answer, FetchedAt
  <2>2. PICK t \in 0..clock : t >= request[r].now /\ keysAt[t] = request[r].keys
    BY <1>0, <2>1 DEF PublishedSince
  <2>3. request[r].now \in Nat /\ t + KeysTtl > request[r].now
    BY <1>0, <2>2, TimeAssumption
  <2>4. KeysTypeOK /\ request[r].token \in TokenType
    BY <1>0 DEF KeysInv
  <2>5. verdict \in Replies /\ Just(request[r].token, verdict, request[r].now)
    BY <2>2, <2>3, <2>4, VerdictIsJust
  <2>6. q \in RequestType
    BY <1>0, <2>5 DEF RequestType, Steps, Replies
  <2>7. /\ jwks' \in [keys : SUBSET Nat, at : 0..clock]
        /\ PublishedSince(jwks'.keys, jwks'.at)
    BY <1>0, <2>1
  <2>8. q.step # "answering" /\ Just(q.token, q.reply, q.now)
    BY <1>0, <2>5
  <2> QED BY <2>1, <2>6, <2>7, <2>8, OneRequest
<1>6. CASE FetchFails(r)
  <2> DEFINE q == [request[r] EXCEPT !.step = "answered", !.reply = "fetch failed"]
  <2>1. request' = [request EXCEPT ![r] = q] /\ UNCHANGED <<clock, keysAt, jwks>>
    BY <1>6 DEF FetchFails, Answer
  <2>2. q \in RequestType
    BY <1>0 DEF RequestType, Steps, Replies
  <2>3. q.step # "answering" /\ q.reply \notin {"user", "unknown key"}
    BY <1>0 DEF RequestType
  <2>4. Just(q.token, q.reply, q.now)
    BY <2>3 DEF Just
  <2> QED BY <1>0, <2>1, <2>2, <2>3, <2>4, OneRequest
<1>7. CASE NextRequest(r)
  <2> DEFINE q == [step |-> "idle", token |-> NoToken, now |-> 0, keys |-> {}, reply |-> "none"]
  <2>1. request' = [request EXCEPT ![r] = q] /\ UNCHANGED <<clock, keysAt, jwks>>
    BY <1>7 DEF NextRequest
  <2>2. q \in RequestType
    BY <1>0 DEF RequestType, Steps, Replies
  <2>3. q.step # "answering" /\ q.reply \notin {"user", "unknown key"} /\ Just(q.token, q.reply, q.now)
    BY DEF Just
  <2> QED BY <1>0, <2>1, <2>2, <2>3, OneRequest
<1> QED BY <1>1, <1>2, <1>3, <1>4, <1>5, <1>6, <1>7

LEMMA KeysInductive == KeysInv /\ [KeysNext]_signing => KeysInv'
<1> SUFFICES ASSUME KeysInv, [KeysNext]_signing PROVE KeysInv'
  OBVIOUS
<1>1. CASE UNCHANGED signing
  BY <1>1 DEF signing, KeysInv, KeysTypeOK, RequestType, KeysAreDated, PublishedSince, Just, NoKeys
<1>2. CASE Tick
  BY <1>2, TickKeepsKeys
<1>3. CASE \E r \in Requests : RefuseHeader(r) \/ UseCached(r) \/ BeginFetch(r) \/ ProviderAnswers(r)
                               \/ StoreKeys(r) \/ FetchFails(r) \/ NextRequest(r)
  BY <1>3, RequestKeepsKeys
<1> QED BY <1>1, <1>2, <1>3 DEF KeysNext

\* Type correctness of the cache and of the requests that wait for it.
THEOREM KeysTypeCorrect == KeysSpec => []KeysTypeOK
<1>1. KeysInv => KeysTypeOK
  BY DEF KeysInv
<1> QED BY InitKeys, KeysInductive, <1>1, PTL DEF KeysSpec

\* However many requests fetch the keys at once, in whatever order their answers are stored
\* in the two globals of auth.py, a request is judged by keys that were published within
\* KeysTtl of the time it came.
THEOREM KeysOfTheHour == KeysSpec => []JudgedByKeysOfTheHour
<1>1. KeysInv => JudgedByKeysOfTheHour
  BY DEF KeysInv, Just, JudgedByKeysOfTheHour, Window
<1> QED BY InitKeys, KeysInductive, <1>1, PTL DEF KeysSpec

=============================================================================
