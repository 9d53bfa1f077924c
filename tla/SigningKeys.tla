------------------------------ MODULE SigningKeys ------------------------------
(***************************************************************************)
(* get_current_user of auth.py: concurrent requests judge their bearer       *)
(* tokens with signing keys cached for an hour in two module globals, while   *)
(* the identity provider rotates its keys.  The provider publishes two keys    *)
(* at a time; a rotation adds the next and withdraws the oldest.              *)
(***************************************************************************)
EXTENDS Naturals

CONSTANTS
    Requests,
    Tokens,      \* the Authorization headers tried: NoToken, or [kid, readable, signed, expired, audience,
                 \* issuer]: what is right with it
    NoToken,     \* a missing or malformed header
    KeysTtl,     \* _JWKS_TTL_SECONDS, in ticks of the clock
    MaxTime      \* cap on the clock

ASSUME TimeAssumption == KeysTtl \in Nat \ {0} /\ MaxTime \in Nat
ASSUME TokenAssumption ==
    Tokens \union {NoToken} \subseteq [kid : Nat, readable : BOOLEAN, signed : BOOLEAN, expired : BOOLEAN,
                                     audience : BOOLEAN, issuer : BOOLEAN]

VARIABLES
    clock,       \* time.monotonic()
    keysAt,      \* the keys published at every time so far
    jwks,        \* _jwks_cache and _jwks_fetched_at: [keys, at], or NoKeys
    request      \* of every request: [step, token, now, keys, reply]

signing == <<clock, keysAt, jwks, request>>

NoKeys == [keys |-> {}, at |-> 0]
Published == keysAt[clock]

KeysInit ==
    /\ clock = 0
    /\ keysAt = [t \in {0} |-> {0, 1}]
    /\ jwks = NoKeys
    /\ request = [r \in Requests |-> [step |-> "idle", token |-> NoToken, now |-> 0, keys |-> {}, reply |-> "none"]]

\* Time passes, with or without a rotation of the keys.
Tick ==
    /\ clock < MaxTime
    /\ clock' = clock + 1
    /\ \E keys \in {Published, {k + 1 : k \in Published}} :
           keysAt' = [t \in 0..(clock + 1) |-> IF t <= clock THEN keysAt[t] ELSE keys]
    /\ UNCHANGED <<jwks, request>>

\* _find_rsa_key, jwt.decode (signature, expiry, audience) and the issuers accepted; a token
\* whose header cannot be read is invalid as well.
Authentic(token, keys) == token.readable /\ token.kid \in keys /\ token.signed
Verdict(token, keys) ==
    CASE token.readable /\ token.kid \notin keys -> "unknown key"
      [] Authentic(token, keys) /\ token.expired -> "expired"
      [] Authentic(token, keys) /\ ~token.expired /\ ~token.audience -> "wrong audience"
      [] Authentic(token, keys) /\ ~token.expired /\ token.audience /\ ~token.issuer -> "wrong issuer"
      [] Authentic(token, keys) /\ ~token.expired /\ token.audience /\ token.issuer -> "user"
      [] OTHER -> "invalid"

Answer(r, verdict) ==
    request' = [request EXCEPT ![r].step = "answered", ![r].reply = verdict]

\* get_current_user up to the cached return of _get_signing_keys (the mutant: a
\* cache that was filled once is used for ever).
EverFetched(now) == jwks # NoKeys
Fresh(now) == jwks # NoKeys /\ now - jwks.at < KeysTtl

RefuseHeader(r) ==
    /\ request[r].step = "idle"
    /\ request' = [request EXCEPT ![r].step = "answered", ![r].now = clock, ![r].reply = "missing header"]
    /\ UNCHANGED <<clock, keysAt, jwks>>

UseCached(r) ==
    /\ request[r].step = "idle"
    /\ Fresh(clock)
    /\ \E token \in Tokens :
           request' = [request EXCEPT ![r] = [step |-> "answered", token |-> token, now |-> clock, keys |-> {},
                                             reply |-> Verdict(token, jwks.keys)]]
    /\ UNCHANGED <<clock, keysAt, jwks>>

\* client.get: the request waits, with the time it sampled.
BeginFetch(r) ==
    /\ request[r].step = "idle"
    /\ ~Fresh(clock)
    /\ \E token \in Tokens :
           request' = [request EXCEPT ![r] = [step |-> "fetching", token |-> token, now |-> clock, keys |-> {}, reply |-> "none"]]
    /\ UNCHANGED <<clock, keysAt, jwks>>

\* The provider answers with the keys it publishes then; the answer travels on.
ProviderAnswers(r) ==
    /\ request[r].step = "fetching"
    /\ request' = [request EXCEPT ![r].step = "answering", ![r].keys = Published]
    /\ UNCHANGED <<clock, keysAt, jwks>>

\* The time the keys are stored with (the mutant: when the answer is there).
StoredWhenReceived(r) == clock
FetchedAt(r) == request[r].now

\* Both globals are assigned without an await in between.
StoreKeys(r) ==
    /\ request[r].step = "answering"
    /\ jwks' = [keys |-> request[r].keys, at |-> FetchedAt(r)]
    /\ Answer(r, Verdict(request[r].token, request[r].keys))
    /\ UNCHANGED <<clock, keysAt>>

\* httpx.HTTPError: raised by the request or by raise_for_status.
FetchFails(r) ==
    /\ request[r].step \in {"fetching", "answering"}
    /\ Answer(r, "fetch failed")
    /\ UNCHANGED <<clock, keysAt, jwks>>

\* The next request of the same client.
NextRequest(r) ==
    /\ request[r].step = "answered"
    /\ request' = [request EXCEPT ![r] = [step |-> "idle", token |-> NoToken, now |-> 0, keys |-> {}, reply |-> "none"]]
    /\ UNCHANGED <<clock, keysAt, jwks>>

KeysNext ==
    \/ Tick
    \/ \E r \in Requests : RefuseHeader(r) \/ UseCached(r) \/ BeginFetch(r) \/ ProviderAnswers(r)
                           \/ StoreKeys(r) \/ FetchFails(r) \/ NextRequest(r)

KeysSpec == KeysInit /\ [][KeysNext]_signing

-----------------------------------------------------------------------------
(* Properties.                                                             *)

\* Whether the key was published at some, or at every, time that the keys in use may stem from.
Window(r) == {t \in 0..clock : t + KeysTtl > request[r].now}

\* Whatever overlapping fetches do to the two globals (the older answer may be
\* stored last), no request is let in by a key that was withdrawn an hour before
\* it came, and none is refused for a key that has been published for an hour.
JudgedByKeysOfTheHour ==
    \A r \in Requests :
        LET token == request[r].token
        IN  /\ request[r].reply = "user" =>
                   /\ \E t \in Window(r) : token.kid \in keysAt[t]
                   /\ token.signed /\ ~token.expired /\ token.audience /\ token.issuer
            /\ request[r].reply = "unknown key" => \E t \in Window(r) : token.kid \notin keysAt[t]

=============================================================================
