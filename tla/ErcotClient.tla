---------------------------- MODULE ErcotClient ----------------------------
(***************************************************************************)
(* ErcotClient: get() and download() by the threads of a process, the      *)
(* bearer token they share, and ERCOT's side of it.  A thread waits for    *)
(* the rate limiter, takes the token (fetching one, under the lock, if the *)
(* cached one is missing or near its expiry), sends the request and acts   *)
(* on the answer: MAX_RETRIES attempts, one refresh when the first attempt *)
(* is refused.  RateLimiter models the wait; here it takes any time.       *)
(***************************************************************************)
EXTENDS Integers, FiniteSets

CONSTANTS
    Thread,     \* threads that share the client
    NoThread,   \* nobody holds the token lock
    MaxRetries, \* config.MAX_RETRIES
    TTL,        \* expires_in
    Margin,     \* config.TOKEN_REFRESH_MARGIN_SECONDS
    Latency,    \* longest time from the issue of a token to its receipt
    Delay,      \* longest time from token() to the arrival of the request
    MaxTokens,  \* bound: tokens ERCOT issues
    MaxTime     \* bound: ticks

ASSUME ClientAssumption ==
    /\ NoThread \notin Thread
    /\ MaxRetries \in Nat \ {0}
    /\ TTL \in Nat /\ Margin \in Nat /\ Latency \in Nat /\ Delay \in Nat
    /\ MaxTokens \in Nat /\ MaxTime \in Nat

Token == 1 .. MaxTokens
NoToken == 0

VARIABLES
    now,        \* time.monotonic()
    issuedAt,   \* issuedAt[k]: when ERCOT issued token k
    issued,     \* how many it has issued
    cached,     \* _token
    expiresAt,  \* _token_expires_at
    holder,     \* the thread that holds _token_lock across a fetch
    call        \* call[t]: the call thread t is in

ercot == <<issuedAt, issued>>
cache == <<cached, expiresAt, holder>>
vars == <<now, ercot, cache, call>>

Stage == {"idle", "pacing", "keying", "fetching", "receiving", "ready",
          "rejected", "backoff"}

\* refused: the tokens this call was refused with.  since: when it became ready.
Call == [kind : {"get", "download"}, stage : Stage, attempt : 0 .. MaxRetries - 1,
         tok : Token \cup {NoToken}, since : 0 .. MaxTime, refused : SUBSET Token]

NoCall == [kind |-> "get", stage |-> "idle", attempt |-> 0, tok |-> NoToken,
           since |-> 0, refused |-> {}]

At(t, stage) == call[t].stage = stage

Goto(t, stage) == call' = [call EXCEPT ![t].stage = stage]

\* The request of this attempt is over.
Done(t, stage, refused) ==
    call' = [call EXCEPT ![t].stage = stage, ![t].tok = NoToken, ![t].since = 0,
                         ![t].refused = @ \cup refused]

End(t) == call' = [call EXCEPT ![t] = NoCall]

Init ==
    /\ now = 0
    /\ issuedAt = [k \in Token |-> 0]
    /\ issued = 0
    /\ cached = NoToken
    /\ expiresAt = 0
    /\ holder = NoThread
    /\ call = [t \in Thread |-> NoCall]

-----------------------------------------------------------------------------
(* ERCOT and time.                                                         *)

\* Neither a request nor a token is under way for longer than the timeout.
Tick ==
    /\ now < MaxTime
    /\ \A t \in Thread :
          /\ At(t, "ready") => now < call[t].since + Delay
          /\ At(t, "receiving") => now < issuedAt[call[t].tok] + Latency
    /\ now' = now + 1
    /\ UNCHANGED <<ercot, cache, call>>

Expired(k) == now >= issuedAt[k] + TTL

-----------------------------------------------------------------------------
(* An attempt, up to the request.                                          *)

Start(t, kind) ==
    /\ At(t, "idle")
    /\ call' = [call EXCEPT ![t] = [NoCall EXCEPT !.kind = kind, !.stage = "pacing"]]
    /\ UNCHANGED <<now, ercot, cache>>

\* _limiter.acquire() returns.
Paced(t) ==
    /\ At(t, "pacing")
    /\ Goto(t, "keying")
    /\ UNCHANGED <<now, ercot, cache>>

\* Mutant of Stale: the token is used until the moment ERCOT's clock ends it.
StaleAtExpiry == cached = NoToken \/ now >= expiresAt + Margin

Stale == cached = NoToken \/ now >= expiresAt

\* token(), with the cached one.
TakeCached(t) ==
    /\ At(t, "keying")
    /\ holder = NoThread
    /\ ~Stale
    /\ call' = [call EXCEPT ![t].stage = "ready", ![t].tok = cached, ![t].since = now]
    /\ UNCHANGED <<now, ercot, cache>>

\* Mutant of FetchToken: what the cache held is not looked at under the lock.
FetchTokenBlindly(t) ==
    /\ At(t, "keying")
    /\ holder = NoThread
    /\ holder' = t
    /\ Goto(t, "fetching")
    /\ UNCHANGED <<now, ercot, cached, expiresAt>>

\* token(): the lock is held until the fetch is over.
FetchToken(t) ==
    /\ At(t, "keying")
    /\ holder = NoThread
    /\ Stale
    /\ holder' = t
    /\ Goto(t, "fetching")
    /\ UNCHANGED <<now, ercot, cached, expiresAt>>

IssueToken(t) ==
    /\ At(t, "fetching")
    /\ issued < MaxTokens
    /\ issued' = issued + 1
    /\ issuedAt' = [issuedAt EXCEPT ![issued + 1] = now]
    /\ call' = [call EXCEPT ![t].stage = "receiving", ![t].tok = issued + 1]
    /\ UNCHANGED <<now, cache>>

\* _fetch_token returns the token and what the process takes for its expiry.
Received(t) ==
    /\ At(t, "receiving")
    /\ cached' = call[t].tok
    /\ expiresAt' = now + TTL - Margin
    /\ holder' = NoThread
    /\ call' = [call EXCEPT ![t].stage = "ready", ![t].since = now]
    /\ UNCHANGED <<now, ercot>>

\* _fetch_token raises: outside the try, so the call fails at once.
FetchFails(t) ==
    /\ At(t, "fetching") \/ At(t, "receiving")
    /\ holder' = NoThread
    /\ End(t)
    /\ UNCHANGED <<now, ercot, cached, expiresAt>>

-----------------------------------------------------------------------------
(* The answer.                                                             *)

Accepted(t) ==
    /\ At(t, "ready")
    /\ ~Expired(call[t].tok)
    /\ End(t)
    /\ UNCHANGED <<now, ercot, cache>>

\* 401 or 403: of a token that has run out, was revoked early, or lacks a right.
Refused(t) ==
    /\ At(t, "ready")
    /\ Done(t, "rejected", {call[t].tok})
    /\ UNCHANGED <<now, ercot, cache>>

\* A transport error, 429 or 5xx: back off, or honour Retry-After.
Throttled(t) ==
    /\ At(t, "ready")
    /\ Done(t, "backoff", {})
    /\ UNCHANGED <<now, ercot, cache>>

\* Any other status is fatal.
Failed(t) ==
    /\ At(t, "ready")
    /\ End(t)
    /\ UNCHANGED <<now, ercot, cache>>

\* Mutant of NextAttempt: the retry does not count.
NextAttemptFree(t) == Goto(t, "pacing")

\* The for loop: one more attempt, or the end after the last one.
NextAttempt(t) ==
    IF call[t].attempt + 1 < MaxRetries
    THEN call' = [call EXCEPT ![t].stage = "pacing", ![t].attempt = @ + 1]
    ELSE End(t)

BackedOff(t) ==
    /\ At(t, "backoff")
    /\ NextAttempt(t)
    /\ UNCHANGED <<now, ercot, cache>>

\* Mutant of Invalidate: the token stays, its expiry is brought back to the
\* moment the process would have refreshed it anyway.
InvalidateNothing == UNCHANGED <<cached, expiresAt>>

\* _invalidate_token: whatever token is cached by now is dropped.
Invalidate ==
    /\ cached' = NoToken
    /\ expiresAt' = 0

\* A refused first attempt drops the token and tries again.
Refresh(t) ==
    /\ At(t, "rejected")
    /\ call[t].attempt = 0
    /\ holder = NoThread
    /\ Invalidate
    /\ NextAttempt(t)
    /\ UNCHANGED <<now, ercot, holder>>

\* A refused later attempt is fatal; get() drops the token, download() does not.
Fatal(t) ==
    /\ At(t, "rejected")
    /\ call[t].attempt > 0
    /\ IF call[t].kind = "get"
       THEN holder = NoThread /\ Invalidate
       ELSE UNCHANGED <<cached, expiresAt>>
    /\ End(t)
    /\ UNCHANGED <<now, ercot, holder>>

Attempt(t) ==
    \/ Paced(t)
    \/ TakeCached(t) \/ FetchToken(t) \/ IssueToken(t) \/ Received(t) \/ FetchFails(t)
    \/ Accepted(t) \/ Refused(t) \/ Throttled(t) \/ Failed(t)
    \/ BackedOff(t) \/ Refresh(t) \/ Fatal(t)

Next ==
    \/ Tick
    \/ \E t \in Thread : (\E kind \in {"get", "download"} : Start(t, kind)) \/ Attempt(t)

Spec == Init /\ [][Next]_vars

-----------------------------------------------------------------------------
(* Properties.                                                             *)

TypeOK ==
    /\ now \in 0 .. MaxTime
    /\ issuedAt \in [Token -> 0 .. MaxTime]
    /\ issued \in 0 .. MaxTokens
    /\ cached \in 0 .. issued
    /\ expiresAt \in Int
    /\ holder \in Thread \cup {NoThread}
    /\ call \in [Thread -> Call]

\* No request is sent with a token that has run out: "refresh early rather than
\* racing expiry".  The time a token takes to arrive counts against the margin,
\* and so does the time from token() to ERCOT; waiting for the limiter and
\* backing off do not, because token() comes after them.
SentBeforeExpiry == \A t \in Thread : At(t, "ready") => ~Expired(call[t].tok)

\* A call never sends a token it was refused with before: whatever the other
\* threads fetch or drop, a retry carries a newer token.
RetryIsFresh == \A t \in Thread : At(t, "ready") => call[t].tok \notin call[t].refused

\* The token lock is held by the one thread that is fetching, and by no other.
LockIsFetch ==
    \A t \in Thread : (At(t, "fetching") \/ At(t, "receiving")) <=> holder = t

\* A token is fetched only to replace one that is missing or about to run out:
\* threads that find it so at the same time fetch one between them.
NoNeedlessFetch ==
    [][\A t \in Thread : At(t, "keying") /\ At(t, "fetching")' =>
          cached = NoToken \/ now >= issuedAt[cached] + TTL - Margin]_vars

\* Every call ends, with an answer or an exception.
CallsEnd == \A t \in Thread : ~At(t, "idle") ~> At(t, "idle")

\* Requests and fetches are answered or time out, sleeps end, and the token lock
\* is obtained in the end by a thread that keeps asking.
Fairness ==
    \A t \in Thread :
        /\ WF_vars(Paced(t))
        /\ SF_vars(TakeCached(t) \/ FetchToken(t))
        /\ WF_vars(IssueToken(t) \/ FetchFails(t))
        /\ WF_vars(Received(t) \/ FetchFails(t))
        /\ WF_vars(Accepted(t) \/ Refused(t) \/ Throttled(t) \/ Failed(t))
        /\ WF_vars(BackedOff(t))
        /\ SF_vars(Refresh(t) \/ Fatal(t))

FairSpec == Spec /\ Fairness
=============================================================================
