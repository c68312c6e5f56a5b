------------------------- MODULE ErcotClientProofs -------------------------
(***************************************************************************)
(* The token cache keeps its promises for any number of threads, tokens    *)
(* and attempts, as long as the margin covers the delays; the rate limiter *)
(* keeps its own for any number of threads, limit and window.              *)
(***************************************************************************)
EXTENDS ErcotClient, RateLimiter, FiniteSetTheorems, TLAPS

\* No thread fetches without the lock; whatever token a thread has was issued.
Tokens ==
    /\ LockIsFetch
    /\ \A t \in Thread :
          /\ (At(t, "receiving") \/ At(t, "ready")) => call[t].tok \in 1 .. issued
          /\ call[t].refused \subseteq 1 .. issued

Base == TypeOK /\ Tokens

LEMMA BaseInit == Init => Base
  BY ClientAssumption DEF Init, Base, TypeOK, Tokens, LockIsFetch, At, NoCall, Call, Stage,
     Token, NoToken

\* A step that gives one call a new record keeps Base if the record is one, its
\* tokens were issued, and the lock agrees with its stage.
LEMMA OneCall ==
    ASSUME Base, NEW t \in Thread, NEW c \in Call, call' = [call EXCEPT ![t] = c],
           issued' \in 0 .. MaxTokens, issued <= issued',
           c.stage \in {"receiving", "ready"} => c.tok \in 1 .. issued',
           c.refused \subseteq 1 .. issued',
           c.stage \in {"fetching", "receiving"} <=> holder' = t,
           \A u \in Thread \ {t} : holder' = u <=> holder = u
    PROVE  call' \in [Thread -> Call] /\ Tokens'
<1>1. /\ call \in [Thread -> Call] /\ issued \in Nat /\ issued' \in Nat
      /\ call'[t] = c /\ \A u \in Thread \ {t} : call'[u] = call[u]
  BY DEF Base, TypeOK
<1>2. call' \in [Thread -> Call]
  BY <1>1
<1>3. 1 .. issued \subseteq 1 .. issued'
  BY <1>1
<1>4. LockIsFetch'
  BY <1>1 DEF Base, Tokens, LockIsFetch, At
<1> QED BY <1>1, <1>2, <1>3, <1>4 DEF Base, Tokens, At

LEMMA BaseStep == Base /\ [Next]_vars => Base'
<1> SUFFICES ASSUME Base, [Next]_vars PROVE Base'
  OBVIOUS
<1>a. /\ NoThread \notin Thread /\ MaxRetries \in Nat \ {0} /\ TTL \in Nat /\ Margin \in Nat
      /\ MaxTokens \in Nat /\ MaxTime \in Nat
  BY ClientAssumption
<1>t. /\ call \in [Thread -> Call] /\ now \in 0 .. MaxTime /\ issued \in 0 .. MaxTokens
      /\ issuedAt \in [Token -> 0 .. MaxTime] /\ cached \in 0 .. issued /\ expiresAt \in Int
      /\ holder \in Thread \cup {NoThread}
  BY DEF Base, TypeOK
<1>n. NoCall \in Call
  BY <1>a DEF NoCall, Call, Stage, Token, NoToken
<1>1. CASE Tick
  <2>1. now' \in 0 .. MaxTime /\ UNCHANGED <<issuedAt, issued, cached, expiresAt, holder, call>>
    BY <1>a, <1>1, <1>t DEF Tick, ercot, cache
  <2> QED BY <1>t, <2>1 DEF Base, TypeOK, Tokens, LockIsFetch, At
<1>2. ASSUME NEW t \in Thread, NEW kind \in {"get", "download"}, Start(t, kind) PROVE Base'
  <2> DEFINE c == [NoCall EXCEPT !.kind = kind, !.stage = "pacing"]
  <2>1. /\ c \in Call /\ c.stage = "pacing" /\ c.refused = {}
    BY <1>n DEF NoCall, Call, Stage
  <2>2. call[t].stage = "idle" /\ holder # t
    BY <1>2 DEF Start, Base, Tokens, LockIsFetch, At
  <2>a. /\ call' = [call EXCEPT ![t] = c] /\ issued' = issued /\ holder' = holder
        /\ issued' \in 0 .. MaxTokens /\ issued <= issued'
    BY <1>a, <1>2, <1>t DEF Start, ercot, cache
  <2>b. /\ c.stage \in {"receiving", "ready"} => c.tok \in 1 .. issued'
        /\ c.refused \subseteq 1 .. issued'
        /\ c.stage \in {"fetching", "receiving"} <=> holder' = t
    BY <2>1, <2>2, <2>a
  <2> HIDE DEF c
  <2>3. call' \in [Thread -> Call] /\ Tokens'
    BY <2>1, <2>a, <2>b, OneCall
  <2> QED BY <1>2, <1>t, <2>3 DEF Start, ercot, cache, Base, TypeOK
<1>3. ASSUME NEW t \in Thread, Attempt(t) PROVE Base'
  <2>t. /\ call[t] \in Call /\ call[t].refused \subseteq 1 .. issued
        /\ At(t, "receiving") \/ At(t, "ready") => call[t].tok \in 1 .. issued
        /\ At(t, "fetching") \/ At(t, "receiving") <=> holder = t
    BY <1>t DEF Base, Tokens, LockIsFetch
  \* The end of a call, in whatever stage it was, frees nothing but its own lock.
  <2>e. ASSUME End(t), UNCHANGED <<now, ercot>>, cached' \in 0 .. issued, expiresAt' \in Int,
               holder' = NoThread, holder \in {t, NoThread}
        PROVE  Base'
    <3>a. /\ call' = [call EXCEPT ![t] = NoCall] /\ issued' = issued /\ holder' # t
          /\ issued' \in 0 .. MaxTokens /\ issued <= issued'
          /\ \A u \in Thread \ {t} : holder' = u <=> holder = u
      BY <1>a, <1>t, <2>e DEF End, ercot
    <3>b. /\ NoCall.stage = "idle" /\ NoCall.refused = {}
      BY DEF NoCall
    <3>1. call' \in [Thread -> Call] /\ Tokens'
      BY <1>n, <3>a, <3>b, OneCall
    <3> QED BY <1>a, <1>t, <2>e, <3>1 DEF Base, TypeOK, ercot
  \* A call that goes on without the lock.
  <2>g. ASSUME NEW c \in Call, call' = [call EXCEPT ![t] = c], UNCHANGED <<now, ercot, holder>>,
               cached' \in 0 .. issued, expiresAt' \in Int, holder # t,
               c.stage \notin {"fetching", "receiving"},
               c.stage = "ready" => c.tok \in 1 .. issued, c.refused \subseteq 1 .. issued
        PROVE  Base'
    <3>a. /\ issued' = issued /\ holder' = holder /\ issued' \in 0 .. MaxTokens /\ issued <= issued'
      BY <1>a, <1>t, <2>g DEF ercot
    <3>b. /\ c.stage \in {"receiving", "ready"} => c.tok \in 1 .. issued'
          /\ c.refused \subseteq 1 .. issued'
          /\ c.stage \in {"fetching", "receiving"} <=> holder' = t
      BY <2>g, <3>a
    <3>1. call' \in [Thread -> Call] /\ Tokens'
      BY <2>g, <3>a, <3>b, OneCall
    <3> QED BY <1>t, <2>g, <3>1 DEF Base, TypeOK, ercot
  \* So it is with the end of a call that does not hold the lock.
  <2>f. ASSUME End(t), UNCHANGED <<now, ercot, holder>>, cached' \in 0 .. issued,
               expiresAt' \in Int, holder # t
        PROVE  Base'
    BY <1>n, <2>f, <2>g DEF End, NoCall
  <2>n. ASSUME NextAttempt(t), UNCHANGED <<now, ercot, holder>>, cached' \in 0 .. issued,
               expiresAt' \in Int, holder # t
        PROVE  Base'
    <3>1. CASE call[t].attempt + 1 < MaxRetries
      <4> DEFINE c == [call[t] EXCEPT !.stage = "pacing", !.attempt = @ + 1]
      <4>0. call[t].attempt + 1 \in 0 .. MaxRetries - 1
        BY <1>a, <2>t, <3>1 DEF Call
      <4>1. c \in Call /\ c.stage = "pacing" /\ c.refused = call[t].refused
        BY <2>t, <4>0 DEF Call, Stage
      <4>2. call' = [call EXCEPT ![t] = c]
        BY <1>t, <2>n, <3>1 DEF NextAttempt
      <4> QED BY <2>t, <2>n, <2>g, <4>1, <4>2
    <3>2. CASE ~(call[t].attempt + 1 < MaxRetries)
      BY <2>n, <2>f, <3>2 DEF NextAttempt
    <3> QED BY <3>1, <3>2
  <2>1. CASE Paced(t)
    <3> DEFINE c == [call[t] EXCEPT !.stage = "keying"]
    <3>1. c \in Call /\ c.stage = "keying" /\ c.refused = call[t].refused
      BY <2>t DEF Call, Stage
    <3>2. call' = [call EXCEPT ![t] = c] /\ holder # t
      BY <1>t, <2>t, <2>1 DEF Paced, Goto, At
    <3> QED BY <1>t, <2>t, <2>1, <2>g, <3>1, <3>2 DEF Paced, cache
  <2>2. CASE TakeCached(t)
    <3> DEFINE c == [call[t] EXCEPT !.stage = "ready", !.tok = cached, !.since = now]
    <3>1. cached \in 1 .. issued /\ cached \in Token
      BY <1>a, <1>t, <2>2 DEF TakeCached, Stale, NoToken, Token
    <3>2. c \in Call /\ c.stage = "ready" /\ c.tok = cached /\ c.refused = call[t].refused
      BY <1>t, <2>t, <3>1 DEF Call, Stage
    <3>3. call' = [call EXCEPT ![t] = c] /\ holder # t
      BY <1>t, <2>t, <2>2 DEF TakeCached, At
    <3> QED BY <1>t, <2>t, <2>2, <2>g, <3>1, <3>2, <3>3 DEF TakeCached, cache
  <2>3. CASE FetchToken(t)
    <3> DEFINE c == [call[t] EXCEPT !.stage = "fetching"]
    <3>1. c \in Call /\ c.stage = "fetching" /\ c.refused = call[t].refused
      BY <2>t DEF Call, Stage
    <3>2. call' = [call EXCEPT ![t] = c]
      BY <1>t, <2>3 DEF FetchToken, Goto
    <3>3. holder = NoThread /\ holder' = t /\ UNCHANGED <<now, issuedAt, issued, cached, expiresAt>>
      BY <2>3 DEF FetchToken, ercot
    <3>a. /\ issued' \in 0 .. MaxTokens /\ issued <= issued' /\ c.refused \subseteq 1 .. issued'
          /\ c.stage \in {"receiving", "ready"} => c.tok \in 1 .. issued'
          /\ c.stage \in {"fetching", "receiving"} <=> holder' = t
          /\ \A u \in Thread \ {t} : holder' = u <=> holder = u
      BY <1>a, <1>t, <2>t, <3>1, <3>3
    <3> HIDE DEF c
    <3>4. call' \in [Thread -> Call] /\ Tokens'
      BY <3>1, <3>2, <3>a, OneCall
    <3> QED BY <1>t, <3>3, <3>4 DEF Base, TypeOK
  <2>4. CASE IssueToken(t)
    <3> DEFINE c == [call[t] EXCEPT !.stage = "receiving", !.tok = issued + 1]
    <3>0. /\ issued + 1 \in 1 .. MaxTokens /\ issued + 1 \in Token /\ issued <= issued + 1
          /\ 1 .. issued \subseteq 1 .. issued + 1
      BY <1>a, <1>t, <2>4 DEF IssueToken, Token
    <3>1. c \in Call /\ c.stage = "receiving" /\ c.tok = issued + 1 /\ c.refused = call[t].refused
      BY <2>t, <3>0 DEF Call, Stage
    <3>2. call' = [call EXCEPT ![t] = c]
      BY <1>t, <2>4 DEF IssueToken
    <3>3. /\ holder = t /\ UNCHANGED <<now, cached, expiresAt, holder>> /\ issued' = issued + 1
          /\ issuedAt' = [issuedAt EXCEPT ![issued + 1] = now]
      BY <2>t, <2>4 DEF IssueToken, cache
    <3>a. /\ issued' \in 0 .. MaxTokens /\ issued <= issued' /\ c.refused \subseteq 1 .. issued'
          /\ c.stage \in {"receiving", "ready"} => c.tok \in 1 .. issued'
          /\ c.stage \in {"fetching", "receiving"} <=> holder' = t
          /\ \A u \in Thread \ {t} : holder' = u <=> holder = u
      BY <1>a, <1>t, <2>t, <3>0, <3>1, <3>3
    <3> HIDE DEF c
    <3>4. call' \in [Thread -> Call] /\ Tokens'
      BY <3>1, <3>2, <3>a, OneCall
    <3>5. issuedAt' \in [Token -> 0 .. MaxTime] /\ cached' \in 0 .. issued'
      BY <1>t, <3>0, <3>3
    <3> QED BY <1>t, <3>0, <3>3, <3>4, <3>5 DEF Base, TypeOK
  <2>5. CASE Received(t)
    <3> DEFINE c == [call[t] EXCEPT !.stage = "ready", !.since = now]
    <3>1. c \in Call /\ c.stage = "ready" /\ c.tok = call[t].tok /\ c.refused = call[t].refused
      BY <1>t, <2>t DEF Call, Stage
    <3>2. call' = [call EXCEPT ![t] = c]
      BY <1>t, <2>5 DEF Received
    <3>3. /\ holder = t /\ holder' = NoThread /\ UNCHANGED <<now, issuedAt, issued>>
          /\ cached' = call[t].tok /\ call[t].tok \in 1 .. issued /\ expiresAt' = now + TTL - Margin
      BY <2>t, <2>5 DEF Received, ercot
    <3>a. /\ issued' \in 0 .. MaxTokens /\ issued <= issued' /\ c.refused \subseteq 1 .. issued'
          /\ c.stage \in {"receiving", "ready"} => c.tok \in 1 .. issued'
          /\ c.stage \in {"fetching", "receiving"} <=> holder' = t
          /\ \A u \in Thread \ {t} : holder' = u <=> holder = u
      BY <1>a, <1>t, <2>t, <3>1, <3>3
    <3> HIDE DEF c
    <3>4. call' \in [Thread -> Call] /\ Tokens'
      BY <3>1, <3>2, <3>a, OneCall
    <3>5. cached' \in 0 .. issued' /\ expiresAt' \in Int
      BY <1>a, <1>t, <3>3
    <3> QED BY <1>t, <3>3, <3>4, <3>5 DEF Base, TypeOK
  <2>6. CASE FetchFails(t)
    BY <1>t, <2>t, <2>6, <2>e DEF FetchFails
  <2>7. CASE Accepted(t) \/ Failed(t)
    BY <1>t, <2>t, <2>7, <2>f DEF Accepted, Failed, cache, At
  <2>8. ASSUME NEW stage \in {"rejected", "backoff"}, NEW k \in SUBSET {call[t].tok},
               At(t, "ready"), Done(t, stage, k), UNCHANGED <<now, ercot, cache>>
        PROVE  Base'
    <3> DEFINE c == [call[t] EXCEPT !.stage = stage, !.tok = NoToken, !.since = 0,
                                    !.refused = @ \cup k]
    <3>1. call[t].tok \in 1 .. issued /\ call[t].tok \in Token /\ k \subseteq 1 .. issued
          /\ k \subseteq Token
      BY <1>a, <1>t, <2>t, <2>8 DEF Token
    <3>5. call[t].refused \subseteq Token
      BY <2>t DEF Call
    <3>6. 0 \in 0 .. MaxTime
      BY <1>a
    <3>0. 0 \in 0 .. MaxTime /\ call[t].refused \cup k \subseteq Token
      BY <3>1, <3>5, <3>6, Zenon
    <3>2. c \in Call /\ c.stage = stage /\ c.refused = call[t].refused \cup k
      BY <2>t, <3>0 DEF Call, Stage, NoToken
    <3>3. call' = [call EXCEPT ![t] = c]
      BY <2>8 DEF Done
    <3>4. holder # t
      BY <2>t, <2>8 DEF At
    <3> QED BY <1>t, <2>t, <2>8, <2>g, <3>1, <3>2, <3>3, <3>4 DEF cache
  <2>9. CASE Refused(t) \/ Throttled(t)
    BY <2>9, <2>8 DEF Refused, Throttled
  <2>10. CASE BackedOff(t)
    BY <1>t, <2>t, <2>10, <2>n DEF BackedOff, cache, At
  <2>11. CASE Refresh(t)
    BY <1>t, <2>t, <2>11, <2>n DEF Refresh, Invalidate, NoToken, At
  <2>12. CASE Fatal(t)
    BY <1>t, <2>t, <2>12, <2>f DEF Fatal, Invalidate, NoToken, At
  <2> QED BY <1>3, <2>1, <2>2, <2>3, <2>4, <2>5, <2>6, <2>7, <2>9, <2>10, <2>11, <2>12
          DEF Attempt
<1>4. CASE UNCHANGED vars
  BY <1>4 DEF vars, Base, TypeOK, Tokens, LockIsFetch, At, ercot, cache
<1> QED BY <1>1, <1>2, <1>3, <1>4 DEF Next

-----------------------------------------------------------------------------
\* What is believed of the cached token's expiry, and when a thread got ready.
Timing ==
    /\ cached # NoToken => expiresAt <= issuedAt[cached] + Latency + TTL - Margin
    /\ \A t \in Thread :
          /\ At(t, "receiving") => now <= issuedAt[call[t].tok] + Latency
          /\ At(t, "ready") =>
                /\ now <= call[t].since + Delay
                /\ call[t].since < issuedAt[call[t].tok] + Latency + TTL - Margin

LEMMA TimingStep ==
    ASSUME Margin < TTL, Base, Timing, [Next]_vars PROVE Timing'
<1> USE ClientAssumption
<1>t. /\ call \in [Thread -> Call] /\ now \in Nat /\ issued \in 0 .. MaxTokens
      /\ issuedAt \in [Token -> 0 .. MaxTime] /\ cached \in 0 .. issued /\ expiresAt \in Int
      /\ \A k \in Token : issuedAt[k] \in Nat
      /\ \A t \in Thread :
            /\ (At(t, "receiving") \/ At(t, "ready")) => call[t].tok \in 1 .. issued
            /\ call[t].since \in Nat
      /\ MaxTokens \in Nat /\ Latency \in Nat /\ Delay \in Nat /\ TTL \in Nat /\ Margin \in Nat
  BY DEF Base, TypeOK, Tokens, Call
<1>1. CASE Tick
  <2>1. now' = now + 1 /\ UNCHANGED <<issuedAt, issued, cached, expiresAt, holder, call>>
    BY <1>1 DEF Tick, ercot, cache
  <2>2. \A t \in Thread :
          /\ At(t, "ready") => now < call[t].since + Delay
          /\ At(t, "receiving") => now < issuedAt[call[t].tok] + Latency
    BY <1>1 DEF Tick
  <2>3. \A t \in Thread : At(t, "receiving") => issuedAt[call[t].tok] \in Nat
    BY <1>t DEF Token
  <2> QED BY <1>t, <2>1, <2>2, <2>3 DEF Timing, At
<1>2. ASSUME NEW t \in Thread, NEW kind \in {"get", "download"}, Start(t, kind) PROVE Timing'
  BY <1>2, <1>t DEF Start, Timing, At, ercot, cache, NoCall
<1>3. ASSUME NEW t \in Thread, Attempt(t) PROVE Timing'
  <2>1. CASE Paced(t)
    BY <2>1, <1>t DEF Paced, Goto, Timing, At, ercot, cache, Call
  <2>2. CASE TakeCached(t)
    <3>1. /\ cached # NoToken /\ now < expiresAt
          /\ call' = [call EXCEPT ![t].stage = "ready", ![t].tok = cached, ![t].since = now]
          /\ UNCHANGED <<now, issuedAt, issued, cached, expiresAt>>
      BY <2>2, <1>t DEF TakeCached, Stale, ercot, cache
    <3>2. issuedAt[cached] \in Nat
      BY <1>t, <3>1 DEF Token, NoToken
    <3>3. now < issuedAt[cached] + Latency + TTL - Margin
      BY <1>t, <3>1, <3>2 DEF Timing
    <3>4. /\ call'[t].stage = "ready" /\ call'[t].tok = cached /\ call'[t].since = now
          /\ \A u \in Thread \ {t} : call'[u] = call[u]
      BY <1>t, <3>1 DEF Call
    <3>5. now <= now + Delay
      BY <1>t
    <3> QED BY <3>1, <3>3, <3>4, <3>5 DEF Timing, At
  <2>3. CASE FetchToken(t)
    BY <2>3, <1>t DEF FetchToken, Goto, Timing, At, ercot, Call
  <2>4. CASE IssueToken(t)
    <3>1. /\ issued' = issued + 1 /\ issued + 1 \in Token
          /\ issuedAt' = [issuedAt EXCEPT ![issued + 1] = now]
          /\ call' = [call EXCEPT ![t].stage = "receiving", ![t].tok = issued + 1]
          /\ UNCHANGED <<now, cached, expiresAt>>
      BY <2>4, <1>t DEF IssueToken, cache, Token
    <3>2. \A k \in 1 .. issued : issuedAt'[k] = issuedAt[k]
      BY <1>t, <3>1 DEF Token
    <3>3. issuedAt'[issued + 1] = now /\ now <= now + Latency
      BY <1>t, <3>1
    <3>4. /\ call'[t].stage = "receiving" /\ call'[t].tok = issued + 1
          /\ \A u \in Thread \ {t} : call'[u] = call[u]
      BY <1>t, <3>1 DEF Call
    <3>5. cached # NoToken => cached \in 1 .. issued
      BY <1>t DEF NoToken
    <3> QED BY <1>t, <3>1, <3>2, <3>3, <3>4, <3>5 DEF Timing, At
  <2>5. CASE Received(t)
    <3>1. /\ cached' = call[t].tok /\ expiresAt' = now + TTL - Margin
          /\ call' = [call EXCEPT ![t].stage = "ready", ![t].since = now]
          /\ UNCHANGED <<now, issuedAt, issued>> /\ At(t, "receiving")
      BY <2>5 DEF Received, ercot
    <3>2. call[t].tok \in 1 .. issued /\ issuedAt[call[t].tok] \in Nat
      BY <1>t, <3>1, SMTT(30) DEF Token
    <3>3. now <= issuedAt[call[t].tok] + Latency
      BY <3>1 DEF Timing
    <3>4. /\ call'[t].stage = "ready" /\ call'[t].tok = call[t].tok /\ call'[t].since = now
          /\ \A u \in Thread \ {t} : call'[u] = call[u]
      BY <1>t, <3>1 DEF Call
    <3>5. /\ now <= now + Delay
          /\ now < issuedAt[call[t].tok] + Latency + TTL - Margin
          /\ now + TTL - Margin <= issuedAt[call[t].tok] + Latency + TTL - Margin
      BY <1>t, <3>2, <3>3
    <3> QED BY <3>1, <3>4, <3>5 DEF Timing, At
  <2>6. CASE FetchFails(t)
    BY <2>6, <1>t DEF FetchFails, End, NoCall, Timing, At, ercot, Call
  <2>7. CASE Accepted(t) \/ Failed(t)
    BY <2>7, <1>t DEF Accepted, Failed, End, NoCall, Timing, At, ercot, cache, Call
  <2>8. CASE Refused(t) \/ Throttled(t)
    BY <2>8, <1>t DEF Refused, Throttled, Done, Timing, At, ercot, cache, Call
  <2>9. CASE BackedOff(t)
    BY <2>9, <1>t DEF BackedOff, NextAttempt, End, NoCall, Timing, At, ercot, cache, Call
  <2>10. CASE Refresh(t)
    BY <2>10, <1>t DEF Refresh, Invalidate, NextAttempt, End, NoCall, Timing, At, ercot, Call
  <2>11. CASE Fatal(t)
    BY <2>11, <1>t DEF Fatal, Invalidate, End, NoCall, Timing, At, ercot, Call
  <2> QED BY <1>3, <2>1, <2>2, <2>3, <2>4, <2>5, <2>6, <2>7, <2>8, <2>9, <2>10, <2>11 DEF Attempt
<1>4. CASE UNCHANGED vars
  BY <1>4 DEF vars, Timing, At, ercot, cache
<1> QED BY <1>1, <1>2, <1>3, <1>4 DEF Next

\* If the margin covers the time a token takes to arrive and a request takes to
\* get to ERCOT, no request is sent with a token that has run out.
THEOREM MarginSuffices ==
    ASSUME Latency + Delay <= Margin, Margin < TTL
    PROVE  Spec => []SentBeforeExpiry
<1>1. Init => Base /\ Timing
  BY BaseInit DEF Init, Timing, At, NoCall
<1>2. Base /\ Timing /\ [Next]_vars => Base' /\ Timing'
  BY BaseStep, TimingStep
<1>3. Base /\ Timing => SentBeforeExpiry
  <2> SUFFICES ASSUME Base, Timing, NEW t \in Thread, At(t, "ready")
               PROVE  ~Expired(call[t].tok)
    BY DEF SentBeforeExpiry
  <2>1. call[t].tok \in 1 .. issued /\ issued \in 0 .. MaxTokens /\ MaxTokens \in Nat
    BY ClientAssumption DEF Base, TypeOK, Tokens
  <2>2. call[t] \in Call /\ now \in Nat /\ issuedAt[call[t].tok] \in Nat
    BY <2>1, ClientAssumption DEF Base, TypeOK, Token
  <2>3. /\ call[t].since \in Nat /\ TTL \in Nat /\ Margin \in Nat
        /\ Latency \in Nat /\ Delay \in Nat
    BY <2>2, ClientAssumption DEF Call
  <2>4. now <= call[t].since + Delay /\ call[t].since < issuedAt[call[t].tok] + Latency + TTL - Margin
    BY DEF Timing
  <2> QED BY <2>2, <2>3, <2>4 DEF Expired
<1> QED BY <1>1, <1>2, <1>3, PTL DEF Spec

-----------------------------------------------------------------------------
\* A token on its way is the newest; one that was refused is cached no more once
\* its refusal has been dealt with.
Fresh ==
    /\ \A t \in Thread : At(t, "receiving") =>
          /\ call[t].tok = issued
          /\ cached # issued
          /\ \A u \in Thread :
                /\ issued \notin call[u].refused
                /\ At(u, "ready") => call[u].tok # issued
    /\ \A t \in Thread :
          /\ ~At(t, "rejected") => cached \notin call[t].refused
          /\ At(t, "ready") => call[t].tok \notin call[t].refused

LEMMA FreshStep == Base /\ Fresh /\ [Next]_vars => Fresh'
<1> SUFFICES ASSUME Base, Fresh, [Next]_vars PROVE Fresh'
  OBVIOUS
<1>t. /\ call \in [Thread -> Call] /\ issued \in 0 .. MaxTokens /\ MaxTokens \in Nat
      /\ cached \in 0 .. issued /\ NoThread \notin Thread
      /\ \A t \in Thread :
            /\ (At(t, "receiving") \/ At(t, "ready")) => call[t].tok \in 1 .. issued
            /\ call[t].refused \subseteq 1 .. issued
            /\ (At(t, "fetching") \/ At(t, "receiving")) <=> holder = t
  BY ClientAssumption DEF Base, TypeOK, Tokens, LockIsFetch
<1>1. CASE Tick \/ UNCHANGED vars
  BY <1>1 DEF Tick, vars, ercot, cache, Fresh, At
<1>2. ASSUME NEW t \in Thread, NEW kind \in {"get", "download"}, Start(t, kind) PROVE Fresh'
  BY <1>2, <1>t DEF Start, Fresh, At, ercot, cache, NoCall
<1>3. ASSUME NEW t \in Thread, Attempt(t) PROVE Fresh'
  <2>1. CASE Paced(t)
    BY <2>1, <1>t DEF Paced, Goto, Fresh, At, ercot, cache, Call
  <2>2. CASE TakeCached(t)
    BY <2>2, <1>t DEF TakeCached, Fresh, At, ercot, cache, Call
  <2>3. CASE FetchToken(t)
    BY <2>3, <1>t DEF FetchToken, Goto, Fresh, At, ercot, Call
  <2>4. CASE IssueToken(t)
    <3>1. /\ issued' = issued + 1 /\ holder = t /\ cached' = cached
          /\ call'[t].stage = "receiving" /\ call'[t].tok = issued + 1
          /\ call'[t].refused = call[t].refused
          /\ \A u \in Thread \ {t} : call'[u] = call[u]
      BY <2>4, <1>t DEF IssueToken, cache, At, Call
    <3>2. issued + 1 \notin 1 .. issued /\ issued + 1 # cached
      BY <1>t
    <3>3. \A u \in Thread \ {t} : ~At(u, "receiving")
      BY <1>t, <3>1
    <3>4. At(t, "fetching")
      BY <2>4 DEF IssueToken
    <3> QED BY <1>t, <3>1, <3>2, <3>3, <3>4 DEF Fresh, At
  <2>5. CASE Received(t)
    <3>1. /\ At(t, "receiving") /\ holder = t /\ cached' = issued /\ issued' = issued
          /\ call'[t].stage = "ready" /\ call'[t].tok = issued
          /\ call'[t].refused = call[t].refused
          /\ \A u \in Thread \ {t} : call'[u] = call[u]
      BY <2>5, <1>t DEF Received, ercot, At, Call, Fresh
    <3>2. \A u \in Thread \ {t} : ~At(u, "receiving")
      BY <1>t, <3>1
    <3>3. \A u \in Thread : ~At(u, "receiving")'
      BY <3>1, <3>2 DEF At
    <3>6. \A u \in Thread : issued \notin call[u].refused
      BY <3>1 DEF Fresh
    <3>7. \A u \in Thread : call'[u].refused = call[u].refused
      BY <3>1
    <3>4. \A u \in Thread : issued \notin call[u].refused /\ call'[u].refused = call[u].refused
      BY <3>6, <3>7
    <3>5. \A u \in Thread : At(u, "ready")' => call'[u].tok \notin call'[u].refused
      BY <3>1, <3>4 DEF Fresh, At
    <3> QED BY <3>1, <3>3, <3>4, <3>5 DEF Fresh
  <2>6. CASE FetchFails(t)
    BY <2>6, <1>t DEF FetchFails, End, NoCall, Fresh, At, ercot, Call
  <2>7. CASE Accepted(t) \/ Failed(t)
    BY <2>7, <1>t DEF Accepted, Failed, End, NoCall, Fresh, At, ercot, cache, Call
  <2>8. CASE Refused(t) \/ Throttled(t)
    BY <2>8, <1>t DEF Refused, Throttled, Done, Fresh, At, ercot, cache, Call
  <2>9. CASE BackedOff(t)
    BY <2>9, <1>t DEF BackedOff, NextAttempt, End, NoCall, Fresh, At, ercot, cache, Call
  <2>10. CASE Refresh(t)
    <3>1. /\ cached' = 0 /\ issued' = issued /\ holder = NoThread
          /\ \A u \in Thread \ {t} : call'[u] = call[u]
          /\ call'[t].stage \in {"pacing", "idle"} /\ call'[t].refused \subseteq 1 .. issued
      BY <2>10, <1>t DEF Refresh, Invalidate, NextAttempt, End, NoCall, NoToken, ercot, Call
    <3>2. \A u \in Thread : ~At(u, "receiving")
      BY <1>t, <3>1
    <3> QED BY <1>t, <3>1, <3>2 DEF Fresh, At
  <2>11. CASE Fatal(t)
    <3>1. /\ cached' \in {0, cached} /\ issued' = issued
          /\ \A u \in Thread \ {t} : call'[u] = call[u]
          /\ call'[t].stage = "idle" /\ call'[t].refused = {}
      BY <2>11, <1>t DEF Fatal, Invalidate, End, NoCall, NoToken, ercot
    <3>2. \A u \in Thread : At(u, "receiving") => issued # 0
      BY <1>t
    <3>3. \A u \in Thread : 0 \notin call[u].refused
      BY <1>t
    <3>4. \A u \in Thread : call'[u] = call[u] \/ (call'[u].stage = "idle" /\ call'[u].refused = {})
      BY <3>1
    <3>5. \A u \in Thread : ~At(u, "rejected")' => cached' \notin call'[u].refused
      BY <3>1, <3>3, <3>4 DEF Fresh, At
    <3>6. \A u \in Thread : At(u, "ready")' => call'[u].tok \notin call'[u].refused
      BY <3>4 DEF Fresh, At
    <3>7. ASSUME NEW u \in Thread, At(u, "receiving")'
          PROVE  /\ call'[u].tok = issued' /\ cached' # issued'
                 /\ \A v \in Thread :
                       /\ issued' \notin call'[v].refused
                       /\ At(v, "ready")' => call'[v].tok # issued'
      <4>1. At(u, "receiving") /\ call'[u] = call[u]
        BY <3>1, <3>4, <3>7 DEF At
      <4> QED BY <3>1, <3>2, <3>4, <4>1 DEF Fresh, At
    <3> QED BY <3>5, <3>6, <3>7 DEF Fresh, At
  <2> QED BY <1>3, <2>1, <2>2, <2>3, <2>4, <2>5, <2>6, <2>7, <2>8, <2>9, <2>10, <2>11 DEF Attempt
<1> QED BY <1>1, <1>2, <1>3 DEF Next

\* However refusals, fetches and invalidations of several threads interleave, no
\* call sends a token it has been refused with.
THEOREM RetriesAreFresh == Spec => []RetryIsFresh
<1>1. Init => Base /\ Fresh
  BY BaseInit DEF Init, Fresh, At, NoCall
<1>2. Base /\ Fresh /\ [Next]_vars => Base' /\ Fresh'
  BY BaseStep, FreshStep
<1>3. Base /\ Fresh => RetryIsFresh
  BY DEF Fresh, RetryIsFresh
<1> QED BY <1>1, <1>2, <1>3, PTL DEF Spec

-----------------------------------------------------------------------------
\* The client keeps its types: in particular the cached token is one ERCOT issued.
THEOREM ClientTypes == Spec => []TypeOK
<1>1. Base => TypeOK
  BY DEF Base
<1> QED BY BaseInit, BaseStep, <1>1, PTL DEF Spec

\* _token_lock is held across the token request by the one thread that makes it,
\* and by nobody else, whichever requests fail (client.py: token).
THEOREM LockIsTheFetch == Spec => []LockIsFetch
<1>1. Base => LockIsFetch
  BY DEF Base, Tokens
<1> QED BY BaseInit, BaseStep, <1>1, PTL DEF Spec

\* A process never takes a token to end before ERCOT would, less the margin.
Believed ==
    /\ cached # NoToken => issuedAt[cached] + TTL - Margin <= expiresAt
    /\ \A t \in Thread : At(t, "receiving") => issuedAt[call[t].tok] <= now

LEMMA BelievedStep == Base /\ Believed /\ [Next]_vars => Believed'
<1> SUFFICES ASSUME Base, Believed, [Next]_vars PROVE Believed'
  OBVIOUS
<1> USE ClientAssumption
<1>t. /\ call \in [Thread -> Call] /\ now \in Nat /\ issued \in 0 .. MaxTokens
      /\ issuedAt \in [Token -> 0 .. MaxTime] /\ cached \in 0 .. issued /\ expiresAt \in Int
      /\ \A k \in Token : issuedAt[k] \in Nat
      /\ \A t \in Thread : At(t, "receiving") => call[t].tok \in 1 .. issued
  BY DEF Base, TypeOK, Tokens
<1>1. CASE Tick
  <2>1. now' = now + 1 /\ UNCHANGED <<issuedAt, issued, cached, expiresAt, holder, call>>
    BY <1>1 DEF Tick, ercot, cache
  <2>2. \A t \in Thread : At(t, "receiving") => issuedAt[call[t].tok] \in Nat
    BY <1>t DEF Token
  <2> QED BY <1>t, <2>1, <2>2 DEF Believed, At
<1>2. ASSUME NEW t \in Thread, NEW kind \in {"get", "download"}, Start(t, kind)
      PROVE  Believed'
  BY <1>2, <1>t DEF Start, Believed, At, ercot, cache, NoCall
<1>3. ASSUME NEW t \in Thread, Attempt(t) PROVE Believed'
  <2>1. CASE Paced(t)
    BY <2>1, <1>t DEF Paced, Goto, Believed, At, ercot, cache, Call
  <2>2. CASE TakeCached(t)
    BY <2>2, <1>t DEF TakeCached, Believed, At, ercot, cache, Call
  <2>3. CASE FetchToken(t)
    BY <2>3, <1>t DEF FetchToken, Goto, Believed, At, ercot, Call
  <2>4. CASE IssueToken(t)
    <3>1. /\ issued' = issued + 1 /\ issued + 1 \in Token
          /\ issuedAt' = [issuedAt EXCEPT ![issued + 1] = now]
          /\ call' = [call EXCEPT ![t].stage = "receiving", ![t].tok = issued + 1]
          /\ UNCHANGED <<now, cached, expiresAt>>
      BY <2>4, <1>t DEF IssueToken, cache, Token
    <3>2. \A k \in 1 .. issued : issuedAt'[k] = issuedAt[k]
      BY <1>t, <3>1 DEF Token
    <3>3. issuedAt'[issued + 1] = now
      BY <1>t, <3>1
    <3>4. /\ call'[t].stage = "receiving" /\ call'[t].tok = issued + 1
          /\ \A u \in Thread \ {t} : call'[u] = call[u]
      BY <1>t, <3>1 DEF Call
    <3>5. cached # NoToken => cached \in 1 .. issued
      BY <1>t DEF NoToken
    <3> QED BY <1>t, <3>1, <3>2, <3>3, <3>4, <3>5 DEF Believed, At
  <2>5. CASE Received(t)
    <3>1. /\ cached' = call[t].tok /\ expiresAt' = now + TTL - Margin
          /\ call' = [call EXCEPT ![t].stage = "ready", ![t].since = now]
          /\ UNCHANGED <<now, issuedAt, issued>> /\ At(t, "receiving")
      BY <2>5 DEF Received, ercot
    <3>2. issuedAt[call[t].tok] \in Nat /\ issuedAt[call[t].tok] <= now
      BY <1>t, <3>1 DEF Token, Believed
    <3>3. issuedAt[call[t].tok] + TTL - Margin <= now + TTL - Margin
      BY <1>t, <3>2
    <3>4. /\ call'[t].stage = "ready"
          /\ \A u \in Thread \ {t} : call'[u] = call[u]
      BY <1>t, <3>1 DEF Call
    <3> QED BY <3>1, <3>3, <3>4 DEF Believed, At
  <2>6. CASE FetchFails(t)
    BY <2>6, <1>t DEF FetchFails, End, NoCall, Believed, At, ercot, Call
  <2>7. CASE Accepted(t) \/ Failed(t)
    BY <2>7, <1>t DEF Accepted, Failed, End, NoCall, Believed, At, ercot, cache, Call
  <2>8. CASE Refused(t) \/ Throttled(t)
    BY <2>8, <1>t DEF Refused, Throttled, Done, Believed, At, ercot, cache, Call
  <2>9. CASE BackedOff(t)
    BY <2>9, <1>t DEF BackedOff, NextAttempt, End, NoCall, Believed, At, ercot, cache, Call
  <2>10. CASE Refresh(t)
    BY <2>10, <1>t DEF Refresh, Invalidate, NextAttempt, End, NoCall, Believed, At, ercot, Call
  <2>11. CASE Fatal(t)
    BY <2>11, <1>t DEF Fatal, Invalidate, End, NoCall, Believed, At, ercot, Call
  <2> QED
    BY <1>3, <2>1, <2>2, <2>3, <2>4, <2>5, <2>6, <2>7, <2>8, <2>9, <2>10, <2>11 DEF Attempt
<1>4. CASE UNCHANGED vars
  BY <1>4 DEF vars, Believed, At, ercot, cache
<1> QED BY <1>1, <1>2, <1>3, <1>4 DEF Next

\* A step that takes a thread from keying to fetching found the token stale.
LEMMA OnlyFetchToken ==
    ASSUME Base, [Next]_vars, NEW t \in Thread, At(t, "keying"), At(t, "fetching")'
    PROVE  Stale
<1>t. call \in [Thread -> Call]
  BY DEF Base, TypeOK
<1>k. call[t].stage = "keying" /\ call'[t].stage = "fetching"
  BY DEF At
<1>1. call' # call
  BY <1>k
<1>2. ~Tick /\ ~(UNCHANGED vars)
  BY <1>1 DEF Tick, vars
<1>3. ASSUME NEW u \in Thread, u # t, call'[t] # call[t]
      PROVE  ~Attempt(u) /\ \A kind \in {"get", "download"} : ~Start(u, kind)
  BY <1>t, <1>3 DEF Attempt, Start, Paced, TakeCached, FetchToken, IssueToken, Received,
     FetchFails, Accepted, Failed, Refused, Throttled, BackedOff, Refresh, Fatal, Goto, Done,
     End, NextAttempt
<1>4. call'[t] # call[t]
  BY <1>k
<1>5. \A kind \in {"get", "download"} : ~Start(t, kind)
  BY <1>k DEF Start, At
<1>6. Attempt(t)
  BY <1>2, <1>3, <1>4, <1>5 DEF Next
<1>7. FetchToken(t) \/ TakeCached(t)
  BY <1>6, <1>k DEF Attempt, At, Paced, IssueToken, Received, FetchFails, Accepted, Failed,
     Refused, Throttled, BackedOff, Refresh, Fatal
<1>8. ~TakeCached(t)
  <2> SUFFICES ASSUME TakeCached(t) PROVE FALSE
    OBVIOUS
  <2>1. call' = [call EXCEPT ![t].stage = "ready", ![t].tok = cached, ![t].since = now]
    BY DEF TakeCached
  <2>2. call'[t].stage = "ready"
    BY <2>1, <1>t DEF Call
  <2> QED BY <2>2, <1>k
<1> QED BY <1>7, <1>8 DEF FetchToken

\* Threads that find the token stale at the same time fetch one between them, and
\* nobody fetches while the cached one is good (client.py: token).
THEOREM NoFetchIsNeedless == Spec => NoNeedlessFetch
<1> DEFINE Needed(t) == cached = NoToken \/ now >= issuedAt[cached] + TTL - Margin
           Step == \A t \in Thread : At(t, "keying") /\ At(t, "fetching")' => Needed(t)
<1>1. Init => Base /\ Believed
  BY BaseInit DEF Init, Believed, At, NoCall
<1>2. Base /\ Believed /\ [Next]_vars => Base' /\ Believed'
  BY BaseStep, BelievedStep
<1>3. Base /\ Believed /\ [Next]_vars => [Step]_vars
  <2> SUFFICES ASSUME Base, Believed, [Next]_vars,
                      NEW t \in Thread, At(t, "keying"), At(t, "fetching")'
               PROVE  Needed(t)
    OBVIOUS
  <2>1. cached = NoToken \/ now >= expiresAt
    BY OnlyFetchToken DEF Stale
  <2>2. cached \in 0 .. issued /\ issued \in 0 .. MaxTokens /\ now \in Nat /\ expiresAt \in Int
    BY DEF Base, TypeOK
  <2>3. cached # NoToken => issuedAt[cached] \in Nat
    BY <2>2, ClientAssumption DEF Base, TypeOK, Token, NoToken
  <2> QED BY <2>1, <2>2, <2>3, ClientAssumption DEF Believed
<1> QED BY <1>1, <1>2, <1>3, PTL DEF Spec, NoNeedlessFetch

-----------------------------------------------------------------------------
(* The limiter every request passes through (RateLimiter).                 *)

\* The log of grants runs forward in time, and what has been popped had expired.
LogOK ==
    /\ \A i, j \in 1 .. Len(grants) : i <= j => grants[i] <= grants[j]
    /\ \A i \in 1 .. Len(grants) : grants[i] <= clock
    /\ \A i \in 1 .. head : OutOfWindow(i)

LimiterInv == LimiterTypes /\ LogOK /\ Budget

LEMMA LimiterInvInit == LimiterInit => LimiterInv
  BY LimiterAssumption DEF LimiterInit, LimiterInv, LimiterTypes, LogOK, Budget, Sparse, OutOfWindow

\* After a grant the entry Limit places back has been popped, hence expired.
LEMMA GrantKeepsLimiterInv ==
    ASSUME LimiterInv, NEW t \in Caller, NEW h \in head .. Len(grants), Pruned(h),
           Len(grants) - h < Limit, grants' = Append(grants, clock), head' = h,
           pc' = [pc EXCEPT ![t] = "granted"], UNCHANGED <<clock, wake, slept, sent>>
    PROVE  LimiterInv'
<1>1. /\ grants \in Seq(0 .. LastTick) /\ clock \in 0 .. LastTick
      /\ head \in 0 .. Len(grants) /\ Len(grants) \in Nat /\ h \in Nat
      /\ LastTick \in Nat /\ Limit \in Nat /\ Limit > 0 /\ Window \in Nat
  BY LimiterAssumption DEF LimiterInv, LimiterTypes
<1>2. /\ grants' \in Seq(0 .. LastTick) /\ Len(grants') = Len(grants) + 1
      /\ \A i \in 1 .. Len(grants) : grants'[i] = grants[i]
      /\ grants'[Len(grants) + 1] = clock
  BY <1>1
<1>3. LimiterTypes'
  BY <1>1, <1>2 DEF LimiterInv, LimiterTypes
<1>4. \A i \in 1 .. h : clock - grants[i] > Window
  BY <1>1 DEF LimiterInv, LogOK, Pruned, OutOfWindow
<1>5. \A i \in 1 .. Len(grants) : grants[i] \in Nat
  BY <1>1
<1>6. LogOK'
  <2>1. \A i, j \in 1 .. Len(grants') : i <= j => grants'[i] <= grants'[j]
    BY <1>1, <1>2, <1>5, SMTT(30) DEF LimiterInv, LogOK
  <2>2. \A i \in 1 .. Len(grants') : grants'[i] <= clock
    <3> SUFFICES ASSUME NEW i \in 1 .. Len(grants) + 1 PROVE grants'[i] <= clock
      BY <1>1, <1>2
    <3>1. CASE i \in 1 .. Len(grants)
      BY <1>2, <3>1 DEF LimiterInv, LogOK
    <3>2. CASE i = Len(grants) + 1
      BY <1>1, <1>2, <3>2
    <3> QED BY <1>1, <3>1, <3>2
  <2>3. \A i \in 1 .. h : clock - grants'[i] > Window
    BY <1>1, <1>2, <1>4
  <2> QED BY <2>1, <2>2, <2>3 DEF LogOK, OutOfWindow
<1>7. Budget'
  <2> SUFFICES ASSUME NEW i \in 1 .. Len(grants'), i + Limit <= Len(grants')
               PROVE  grants'[i + Limit] - grants'[i] > Window
    BY <1>1 DEF Budget, Sparse
  <2>t. i \in Nat /\ i >= 1 /\ i <= Len(grants) + 1 /\ i + Limit <= Len(grants) + 1
    BY <1>1, <1>2
  <2>1. CASE i + Limit <= Len(grants)
    <3>1. i \in 1 .. Len(grants) /\ i + Limit \in 1 .. Len(grants)
      BY <1>1, <2>1, <2>t
    <3>2. grants[i + Limit] - grants[i] > Window
      BY <2>1, <3>1 DEF LimiterInv, Budget, Sparse
    <3>3. grants'[i] = grants[i] /\ grants'[i + Limit] = grants[i + Limit]
      BY <1>2, <3>1
    <3> QED BY <3>2, <3>3
  <2>2. CASE i + Limit = Len(grants) + 1
    <3>1. i \in 1 .. h /\ i \in 1 .. Len(grants)
      BY <1>1, <2>2, <2>t
    <3>2. clock - grants[i] > Window
      BY <1>4, <3>1
    <3>3. grants'[i] = grants[i] /\ grants'[i + Limit] = clock
      BY <1>2, <2>2, <3>1
    <3> QED BY <3>2, <3>3
  <2>3. i + Limit <= Len(grants) \/ i + Limit = Len(grants) + 1
    <3>1. \A a, b \in Int : a <= b + 1 => a <= b \/ a = b + 1
      OBVIOUS
    <3>2. i + Limit \in Int /\ Len(grants) \in Int
      BY <1>1, <2>t
    <3> QED BY <2>t, <3>1, <3>2
  <2> QED BY <2>1, <2>2, <2>3
<1> QED BY <1>3, <1>6, <1>7 DEF LimiterInv

LEMMA LimiterInvStep == LimiterInv /\ [LimiterNext]_limiterVars => LimiterInv'
<1> SUFFICES ASSUME LimiterInv, [LimiterNext]_limiterVars PROVE LimiterInv'
  OBVIOUS
<1>t. /\ grants \in Seq(0 .. LastTick) /\ clock \in 0 .. LastTick /\ Len(grants) \in Nat
      /\ head \in 0 .. Len(grants) /\ \A i \in 1 .. Len(grants) : grants[i] \in Nat
      /\ wake \in [Caller -> Nat] /\ slept \in [Caller -> Nat] /\ sent \in Seq(0 .. LastTick)
      /\ pc \in [Caller -> {"idle", "asking", "sleeping", "granted"}]
      /\ LastTick \in Nat /\ Limit \in Nat /\ Window \in Nat
  BY LimiterAssumption DEF LimiterInv, LimiterTypes
<1>1. CASE ClockTicks
  <2>1. clock' \in 0 .. LastTick /\ clock' = clock + 1 /\ UNCHANGED <<grants, head>>
    BY <1>t, <1>1 DEF ClockTicks
  <2>2. LogOK'
    <3>1. \A i \in 1 .. Len(grants) : grants[i] <= clock /\ grants[i] <= clock'
      BY <1>t, <2>1 DEF LimiterInv, LogOK
    <3>2. \A i \in 1 .. head : clock - grants[i] > Window
      BY DEF LimiterInv, LogOK, OutOfWindow
    <3>3. \A i \in 1 .. head : i \in 1 .. Len(grants)
      BY <1>t
    <3>4. \A i \in 1 .. head : clock' - grants[i] > Window
      BY <1>t, <2>1, <3>2, <3>3, SMTT(30)
    <3> QED BY <2>1, <3>1, <3>4 DEF LimiterInv, LogOK, OutOfWindow
  <2>3. LimiterTypes'
    BY <1>t, <1>1, <2>1 DEF LimiterInv, LimiterTypes, ClockTicks
  <2> QED BY <2>1, <2>2, <2>3 DEF LimiterInv, Budget, Sparse
<1>l. ASSUME UNCHANGED <<clock, grants, head>>, LimiterTypes' PROVE LimiterInv'
  BY <1>l DEF LimiterInv, LogOK, OutOfWindow, Budget, Sparse
<1>2. ASSUME NEW t \in Caller, Ask(t) PROVE LimiterInv'
  BY <1>2, <1>t, <1>l DEF Ask, LimiterTypes
<1>3. ASSUME NEW t \in Caller, Acquire(t) PROVE LimiterInv'
  <2> PICK h \in head .. Len(grants) :
        /\ Pruned(h) /\ head' = h
        /\ IF Len(grants) - h < Limit
           THEN /\ grants' = Append(grants, clock) /\ pc' = [pc EXCEPT ![t] = "granted"]
                /\ UNCHANGED <<wake, slept>>
           ELSE /\ pc' = [pc EXCEPT ![t] = "sleeping"]
                /\ wake' = [wake EXCEPT ![t] = WakeAt(h)]
                /\ slept' = [slept EXCEPT ![t] = Len(grants)]
                /\ UNCHANGED grants
    BY <1>3 DEF Acquire
  <2>1. CASE Len(grants) - h < Limit
    BY <1>3, <2>1, GrantKeepsLimiterInv DEF Acquire
  <2>2. CASE ~(Len(grants) - h < Limit)
    <3>1. h \in Nat /\ h + 1 \in 1 .. Len(grants)
      BY <1>t, <2>2, LimiterAssumption
    <3>2. WakeAt(h) \in Nat
      <4>1. grants[h + 1] \in Nat
        BY <1>t, <3>1
      <4>2. Window \in Nat
        BY <1>t
      <4> QED BY <4>1, <4>2 DEF WakeAt
    <3>3. LimiterTypes'
      <4>1. UNCHANGED <<clock, grants, sent>> /\ head' = h
        BY <1>3, <2>2 DEF Acquire
      <4>2. pc' \in [Caller -> {"idle", "asking", "sleeping", "granted"}]
        BY <1>t, <2>2
      <4>3. wake' \in [Caller -> Nat]
        BY <1>t, <2>2, <3>2
      <4>4. slept' \in [Caller -> Nat]
        BY <1>t, <2>2
      <4> QED BY <1>t, <4>1, <4>2, <4>3, <4>4 DEF LimiterTypes
    <3>4. \A i \in 1 .. h : OutOfWindow(i)
      BY <1>t, <3>1 DEF LimiterInv, LogOK, Pruned
    <3>5. LogOK'
      BY <1>3, <2>2, <3>4 DEF LimiterInv, LogOK, OutOfWindow, Acquire
    <3> QED BY <2>2, <3>3, <3>5 DEF LimiterInv, Budget, Sparse
  <2> QED BY <2>1, <2>2
<1>4. ASSUME NEW t \in Caller, Wake(t) PROVE LimiterInv'
  BY <1>4, <1>t, <1>l DEF Wake, LimiterTypes
<1>5. ASSUME NEW t \in Caller, Send(t) PROVE LimiterInv'
  <2>1. sent' \in Seq(0 .. LastTick)
    BY <1>t, <1>5 DEF Send
  <2> QED BY <1>5, <1>t, <1>l, <2>1 DEF Send, LimiterTypes
<1>6. CASE UNCHANGED limiterVars
  BY <1>6, <1>t, <1>l DEF limiterVars, LimiterTypes
<1> QED BY <1>1, <1>2, <1>3, <1>4, <1>5, <1>6 DEF LimiterNext

\* However many threads share the limiter, no window of its length ever holds
\* more grants than its limit: ERCOT's quota is never exceeded by acquire().
THEOREM WindowNeverExceeded == LimiterSpec => []Budget
<1>1. LimiterInv => Budget
  BY DEF LimiterInv
<1> QED BY LimiterInvInit, LimiterInvStep, <1>1, PTL DEF LimiterSpec

-----------------------------------------------------------------------------
(* The requests.                                                           *)

Holders == {t \in Caller : pc[t] = "granted"}

\* A request goes out on a grant of its own: the n-th request to go out is not older
\* than the n-th grant, and not younger than the grant made after everyone who held
\* one then had used it.
SendsOK ==
    /\ Len(grants) = Len(sent) + Cardinality(Holders)
    /\ \A i \in 1 .. Len(sent) :
            /\ grants[i] <= sent[i] /\ sent[i] <= clock
            /\ i + Cardinality(Caller) <= Len(grants) => sent[i] <= grants[i + Cardinality(Caller)]

LEMMA LimiterTyped ==
    ASSUME LimiterInv
    PROVE  /\ grants \in Seq(0 .. LastTick) /\ sent \in Seq(0 .. LastTick) /\ clock \in Nat
           /\ Len(grants) \in Nat /\ Len(sent) \in Nat /\ head \in 0 .. Len(grants)
           /\ \A i \in 1 .. Len(grants) : grants[i] \in Nat /\ grants[i] <= clock
           /\ \A i \in 1 .. Len(sent) : sent[i] \in Nat
           /\ pc \in [Caller -> {"idle", "asking", "sleeping", "granted"}]
           /\ wake \in [Caller -> Nat] /\ slept \in [Caller -> Nat]
           /\ Limit \in Nat /\ Limit > 0 /\ Window \in Nat
BY LimiterAssumption DEF LimiterInv, LimiterTypes, LogOK

LEMMA HoldersCount ==
    /\ Cardinality(Caller) \in Nat
    /\ IsFiniteSet(Holders) /\ Cardinality(Holders) \in Nat
    /\ Cardinality(Holders) <= Cardinality(Caller)
BY LimiterAssumption, FS_Subset, FS_CardinalityType DEF Holders

\* Where nobody gets or uses a grant, the clock only goes on.
LEMMA SendsStay ==
    ASSUME LimiterInv, SendsOK, UNCHANGED <<grants, sent>>, Holders' = Holders, clock' >= clock, clock' \in Nat
    PROVE  SendsOK'
<1>1. \A i \in 1 .. Len(sent) : sent[i] \in Nat
  BY LimiterTyped
<1>2. clock \in Nat
  BY LimiterTyped
<1>3. \A i \in 1 .. Len(sent) : sent[i] <= clock'
  BY <1>1, <1>2 DEF SendsOK
<1> QED BY <1>3 DEF SendsOK

LEMMA SendsStep == LimiterInv /\ SendsOK /\ [LimiterNext]_limiterVars => SendsOK'
<1> SUFFICES ASSUME LimiterInv, SendsOK, [LimiterNext]_limiterVars PROVE SendsOK'
  OBVIOUS
<1> DEFINE n == Cardinality(Caller)
<1>t. /\ grants \in Seq(0 .. LastTick) /\ sent \in Seq(0 .. LastTick) /\ clock \in Nat
      /\ Len(grants) \in Nat /\ Len(sent) \in Nat /\ n \in Nat
      /\ \A i \in 1 .. Len(grants) : grants[i] \in Nat /\ grants[i] <= clock
      /\ \A i \in 1 .. Len(sent) : sent[i] \in Nat
      /\ pc \in [Caller -> {"idle", "asking", "sleeping", "granted"}]
  BY HoldersCount, LimiterTyped
<1>1. CASE ClockTicks
  BY <1>1, <1>t, SendsStay DEF ClockTicks, Holders
<1>2. ASSUME NEW t \in Caller, Ask(t) \/ Wake(t) PROVE SendsOK'
  <2>1. UNCHANGED <<grants, sent, clock>> /\ Holders' = Holders
    BY <1>2, <1>t DEF Ask, Wake, Holders
  <2> QED BY <2>1, <1>t, SendsStay
<1>3. ASSUME NEW t \in Caller, Acquire(t) PROVE SendsOK'
  <2>1. UNCHANGED <<clock, sent>> /\ pc[t] = "asking"
    BY <1>3 DEF Acquire
  <2>2. CASE UNCHANGED grants /\ pc' = [pc EXCEPT ![t] = "sleeping"]
    <3>1. Holders' = Holders
      BY <1>t, <2>1, <2>2 DEF Holders
    <3> QED BY <1>t, <2>1, <2>2, <3>1, SendsStay
  <2>3. CASE grants' = Append(grants, clock) /\ pc' = [pc EXCEPT ![t] = "granted"]
    <3>1. Holders' = Holders \cup {t} /\ t \notin Holders
      BY <1>t, <2>1, <2>3 DEF Holders
    <3>2. Cardinality(Holders') = Cardinality(Holders) + 1
      BY <3>1, HoldersCount, FS_AddElement
    <3>3. Len(grants') = Len(grants) + 1 /\ \A i \in 1 .. Len(grants) : grants'[i] = grants[i]
      BY <1>t, <2>3
    <3>4. grants'[Len(grants) + 1] = clock
      BY <1>t, <2>3
    <3>5. Len(grants) = Len(sent) + Cardinality(Holders) /\ Cardinality(Holders) \in Nat
      BY HoldersCount DEF SendsOK
    <3>6. ASSUME NEW i \in 1 .. Len(sent)
          PROVE  /\ grants'[i] <= sent[i] /\ sent[i] <= clock
                 /\ i + n <= Len(grants') => sent[i] <= grants'[i + n]
      <4>1. i \in 1 .. Len(grants) /\ grants'[i] = grants[i]
        BY <1>t, <3>3, <3>5
      <4>2. grants[i] <= sent[i] /\ sent[i] <= clock
        BY DEF SendsOK
      <4>3. CASE i + n <= Len(grants)
        <5>1. i + n \in 1 .. Len(grants) /\ sent[i] <= grants[i + n]
          BY <1>t, <4>3 DEF SendsOK
        <5> QED BY <3>3, <4>1, <4>2, <5>1
      <4>4. CASE i + n = Len(grants) + 1
        BY <3>4, <4>1, <4>2, <4>4
      <4>5. CASE i + n > Len(grants) + 1
        BY <1>t, <3>3, <4>1, <4>2, <4>5
      <4>6. \A a, b \in Int : a <= b \/ a = b + 1 \/ a > b + 1
        OBVIOUS
      <4>7. i + n \in Int /\ Len(grants) \in Int
        BY <1>t
      <4> QED BY <4>3, <4>4, <4>5, <4>6, <4>7
    <3> QED BY <1>t, <2>1, <3>2, <3>3, <3>5, <3>6 DEF SendsOK
  <2> QED BY <1>3, <2>2, <2>3 DEF Acquire
<1>4. ASSUME NEW t \in Caller, Send(t) PROVE SendsOK'
  <2>1. /\ UNCHANGED <<clock, grants>> /\ sent' = Append(sent, clock)
        /\ pc[t] = "granted" /\ pc' = [pc EXCEPT ![t] = "idle"]
    BY <1>4 DEF Send
  <2>2. Holders' = Holders \ {t} /\ t \in Holders
    BY <1>t, <2>1 DEF Holders
  <2>3. Cardinality(Holders') = Cardinality(Holders) - 1
    BY <2>2, HoldersCount, FS_RemoveElement
  <2>4. /\ Len(sent') = Len(sent) + 1 /\ sent'[Len(sent) + 1] = clock
        /\ \A i \in 1 .. Len(sent) : sent'[i] = sent[i]
    BY <1>t, <2>1
  <2>5. Cardinality(Holders) >= 1
    BY <2>2, HoldersCount, FS_EmptySet
  <2>6. Len(grants) = Len(sent) + Cardinality(Holders)
    BY DEF SendsOK
  <2>7. /\ Len(sent) + 1 \in 1 .. Len(grants)
        /\ ~(Len(sent) + 1 + n <= Len(grants))
    BY <1>t, <2>5, <2>6, HoldersCount
  <2>8. ASSUME NEW i \in 1 .. Len(sent')
        PROVE  /\ grants[i] <= sent'[i] /\ sent'[i] <= clock
               /\ i + n <= Len(grants) => sent'[i] <= grants[i + n]
    <3>1. CASE i \in 1 .. Len(sent)
      BY <2>4, <3>1 DEF SendsOK
    <3>2. CASE i = Len(sent) + 1
      BY <1>t, <2>4, <2>7, <3>2
    <3> QED BY <1>t, <2>4, <3>1, <3>2
  <2>9. Len(grants) = Len(sent') + Cardinality(Holders')
    BY <1>t, <2>3, <2>4, <2>6, HoldersCount
  <2> QED BY <2>1, <2>8, <2>9 DEF SendsOK
<1>5. CASE UNCHANGED limiterVars
  <2>1. UNCHANGED <<grants, sent, clock>> /\ Holders' = Holders
    BY <1>5 DEF limiterVars, Holders
  <2> QED BY <2>1, <1>t, SendsStay
<1> QED BY <1>1, <1>2, <1>3, <1>4, <1>5 DEF LimiterNext

\* The requests of any window exceed the limit by at most one for each thread that uses
\* the limiter: one granted earlier and sent late (client.py: get, _acquire then the
\* token then the request).
THEOREM RequestsNearBudget == LimiterSpec => []SentBudget
<1>1. LimiterInit => LimiterInv /\ SendsOK
  <2> SUFFICES ASSUME LimiterInit PROVE SendsOK
    BY LimiterInvInit
  <2>1. Holders = {}
    BY DEF LimiterInit, Holders
  <2> QED BY <2>1, FS_EmptySet DEF LimiterInit, SendsOK
<1>2. LimiterInv /\ SendsOK /\ [LimiterNext]_limiterVars => LimiterInv' /\ SendsOK'
  BY LimiterInvStep, SendsStep
<1>3. LimiterInv /\ SendsOK => SentBudget
  <2> DEFINE n == Cardinality(Caller)
  <2> SUFFICES ASSUME LimiterInv, SendsOK, NEW i \in 1 .. Len(sent), i + (Limit + n) <= Len(sent)
               PROVE  sent[i + (Limit + n)] - sent[i] > Window
    BY DEF SentBudget, Sparse
  <2>1. /\ n \in Nat /\ Limit \in Nat /\ Window \in Nat /\ Len(sent) \in Nat /\ Len(grants) \in Nat
        /\ Len(sent) <= Len(grants)
    <3>1. Len(grants) = Len(sent) + Cardinality(Holders)
      BY DEF SendsOK
    <3> QED BY <3>1, HoldersCount, LimiterTyped
  <2>2. i + n \in 1 .. Len(grants) /\ i + n + Limit \in 1 .. Len(grants) /\ i + n + Limit \in 1 .. Len(sent)
    BY <2>1
  <2>3. sent[i] <= grants[i + n] /\ grants[i + n + Limit] <= sent[i + n + Limit]
    BY <2>2 DEF SendsOK
  <2>4. grants[i + n + Limit] - grants[i + n] > Window
    BY <2>2 DEF LimiterInv, Budget, Sparse
  <2>5. /\ sent[i] \in Int /\ grants[i + n] \in Int /\ grants[i + n + Limit] \in Int
        /\ sent[i + n + Limit] \in Int
    BY <2>2, LimiterTyped
  <2>6. i + (Limit + n) = i + n + Limit
    BY <2>1
  <2> HIDE DEF n
  <2>7. sent[i + n + Limit] - sent[i] > Window
    BY <2>1, <2>3, <2>4, <2>5, SMTT(30)
  <2> QED BY <2>6, <2>7
<1> QED BY <1>1, <1>2, <1>3, PTL DEF LimiterSpec

-----------------------------------------------------------------------------
(* The sleepers.                                                           *)

\* A thread slept for the entry Limit places from the end, as long as no grant came after.
SleepOK ==
    \A t \in Caller :
        /\ slept[t] <= Len(grants)
        /\ pc[t] \in {"sleeping", "asking"} /\ slept[t] > 0 /\ slept[t] = Len(grants) =>
            /\ Limit <= Len(grants)
            /\ pc[t] = "sleeping" => wake[t] > grants[Len(grants) - Limit + 1] + Window
            /\ pc[t] = "asking" => clock > grants[Len(grants) - Limit + 1] + Window

\* A full window that has been pruned holds Limit entries: the one slept for is its first.
LEMMA FullWindow ==
    ASSUME LimiterInv, NEW h \in head .. Len(grants), Pruned(h), ~(Len(grants) - h < Limit)
    PROVE  h = Len(grants) - Limit
<1>1. /\ head \in 0 .. Len(grants) /\ Len(grants) \in Nat /\ h \in Nat /\ clock \in Nat
      /\ Limit \in Nat /\ Limit > 0 /\ Window \in Nat
      /\ \A i \in 1 .. Len(grants) : grants[i] \in Nat /\ grants[i] <= clock
  BY LimiterTyped
<1>2. h < Len(grants) /\ h + 1 \in 1 .. Len(grants)
  BY <1>1
<1>3. clock - grants[h + 1] <= Window
  BY <1>1, <1>2 DEF Pruned, OutOfWindow
<1>4. ASSUME Len(grants) - h > Limit PROVE FALSE
  <2>1. h + 1 + Limit \in 1 .. Len(grants) /\ h + 1 + Limit <= Len(grants)
    BY <1>1, <1>4
  <2>2. grants[h + 1 + Limit] - grants[h + 1] > Window
    BY <1>2, <2>1 DEF LimiterInv, Budget, Sparse
  <2>3. grants[h + 1 + Limit] <= clock /\ grants[h + 1 + Limit] \in Nat /\ grants[h + 1] \in Nat
    BY <1>1, <1>2, <2>1
  <2> QED BY <1>1, <1>3, <2>2, <2>3
<1> QED BY <1>1, <1>4

LEMMA SleepStep == LimiterInv /\ SleepOK /\ [LimiterNext]_limiterVars => SleepOK'
<1> SUFFICES ASSUME LimiterInv, SleepOK, [LimiterNext]_limiterVars PROVE SleepOK'
  OBVIOUS
<1>t. /\ grants \in Seq(0 .. LastTick) /\ clock \in Nat /\ Len(grants) \in Nat
      /\ head \in 0 .. Len(grants) /\ Limit \in Nat /\ Limit > 0 /\ Window \in Nat
      /\ \A i \in 1 .. Len(grants) : grants[i] \in Nat
      /\ wake \in [Caller -> Nat] /\ slept \in [Caller -> Nat]
      /\ pc \in [Caller -> {"idle", "asking", "sleeping", "granted"}]
  BY LimiterTyped
<1>o. \A s \in Caller : slept[s] \in Nat /\ wake[s] \in Nat
  BY <1>t
<1>1. CASE ClockTicks
  <2>1. clock' = clock + 1 /\ UNCHANGED <<grants, pc, wake, slept>>
    BY <1>1 DEF ClockTicks
  <2>2. Limit <= Len(grants) => grants[Len(grants) - Limit + 1] \in Nat
    BY <1>t
  <2>3. ASSUME NEW s \in Caller, Limit <= Len(grants), clock > grants[Len(grants) - Limit + 1] + Window
        PROVE  clock' > grants[Len(grants) - Limit + 1] + Window
    BY <1>t, <2>1, <2>2, <2>3
  <2> QED BY <2>1, <2>3 DEF SleepOK
<1>2. ASSUME NEW t \in Caller, Ask(t) PROVE SleepOK'
  <2>1. /\ pc' = [pc EXCEPT ![t] = "asking"] /\ slept' = [slept EXCEPT ![t] = 0]
        /\ UNCHANGED <<clock, grants, wake>>
    BY <1>2 DEF Ask
  <2> QED BY <1>t, <1>o, <2>1 DEF SleepOK
<1>3. ASSUME NEW t \in Caller, Acquire(t) PROVE SleepOK'
  <2>1. PICK h \in head .. Len(grants) :
        /\ Pruned(h)
        /\ IF Len(grants) - h < Limit
           THEN /\ grants' = Append(grants, clock) /\ pc' = [pc EXCEPT ![t] = "granted"]
                /\ UNCHANGED <<wake, slept>>
           ELSE /\ pc' = [pc EXCEPT ![t] = "sleeping"]
                /\ wake' = [wake EXCEPT ![t] = WakeAt(h)]
                /\ slept' = [slept EXCEPT ![t] = Len(grants)]
                /\ UNCHANGED grants
    BY <1>3 DEF Acquire
  <2>2. UNCHANGED clock
    BY <1>3 DEF Acquire
  <2>3. CASE Len(grants) - h < Limit
    <3>1. Len(grants') = Len(grants) + 1 /\ UNCHANGED slept
      BY <1>t, <2>1, <2>3
    <3>2. \A s \in Caller : slept[s] <= Len(grants)
      BY DEF SleepOK
    <3>3. \A s \in Caller : slept'[s] <= Len(grants') /\ slept'[s] # Len(grants')
      BY <1>t, <1>o, <3>1, <3>2
    <3> QED BY <3>3 DEF SleepOK
  <2>4. CASE ~(Len(grants) - h < Limit)
    <3>1. h = Len(grants) - Limit
      BY <2>1, <2>4, FullWindow
    <3>2. h + 1 \in 1 .. Len(grants) /\ Limit <= Len(grants)
      BY <1>t, <2>4, <3>1
    <3>3. WakeAt(h) > grants[Len(grants) - Limit + 1] + Window
      <4>1. grants[h + 1] \in Nat /\ Len(grants) - Limit + 1 = h + 1
        BY <1>t, <3>1, <3>2
      <4> QED BY <1>t, <4>1 DEF WakeAt
    <3>4. ASSUME NEW s \in Caller, s # t
          PROVE  slept'[s] = slept[s] /\ pc'[s] = pc[s] /\ wake'[s] = wake[s]
      BY <1>t, <2>1, <2>4, <3>4
    <3>5. slept'[t] = Len(grants) /\ pc'[t] = "sleeping" /\ wake'[t] = WakeAt(h)
      BY <1>t, <2>1, <2>4
    <3>6. UNCHANGED grants
      BY <2>1, <2>4
    <3>7. ASSUME NEW s \in Caller
          PROVE  /\ slept'[s] <= Len(grants')
                 /\ pc'[s] \in {"sleeping", "asking"} /\ slept'[s] > 0 /\ slept'[s] = Len(grants') =>
                     /\ Limit <= Len(grants')
                     /\ pc'[s] = "sleeping" => wake'[s] > grants'[Len(grants') - Limit + 1] + Window
                     /\ pc'[s] = "asking" => clock' > grants'[Len(grants') - Limit + 1] + Window
      <4>1. CASE s = t
        BY <1>t, <3>2, <3>3, <3>5, <3>6, <4>1
      <4>2. CASE s # t
        BY <2>2, <3>4, <3>6, <4>2 DEF SleepOK
      <4> QED BY <4>1, <4>2
    <3> QED BY <3>7 DEF SleepOK
  <2> QED BY <2>3, <2>4
<1>4. ASSUME NEW t \in Caller, Wake(t) PROVE SleepOK'
  <2>1. /\ pc[t] = "sleeping" /\ clock >= wake[t] /\ pc' = [pc EXCEPT ![t] = "asking"]
        /\ UNCHANGED <<clock, grants, wake, slept>>
    BY <1>4 DEF Wake
  <2>2. Limit <= Len(grants) => grants[Len(grants) - Limit + 1] \in Nat
    BY <1>t
  <2>3. ASSUME NEW s \in Caller, s # t PROVE pc'[s] = pc[s]
    BY <1>t, <2>1, <2>3
  <2>4. pc'[t] = "asking"
    BY <1>t, <2>1
  <2> QED BY <1>t, <1>o, <2>1, <2>2, <2>3, <2>4 DEF SleepOK
<1>5. ASSUME NEW t \in Caller, Send(t) PROVE SleepOK'
  BY <1>t, <1>5 DEF Send, SleepOK
<1>6. CASE UNCHANGED limiterVars
  BY <1>6 DEF limiterVars, SleepOK
<1> QED BY <1>1, <1>2, <1>3, <1>4, <1>5, <1>6 DEF LimiterNext

\* A thread that has slept for a slot finds one, unless another thread was granted it
\* meanwhile: waiting is never followed by waiting for nothing (client.py:46: wait).
THEOREM SleepersFindASlot == LimiterSpec => []NoBusyWait
<1>1. LimiterInit => LimiterInv /\ SleepOK
  BY LimiterInvInit DEF LimiterInit, SleepOK
<1>2. LimiterInv /\ SleepOK /\ [LimiterNext]_limiterVars => LimiterInv' /\ SleepOK'
  BY LimiterInvStep, SleepStep
<1>3. LimiterInv /\ SleepOK => NoBusyWait
  <2> DEFINE recent == {i \in 1 .. Len(grants) : clock - grants[i] <= Window}
  <2> SUFFICES ASSUME LimiterInv, SleepOK, NEW t \in Caller,
                      pc[t] = "asking", slept[t] > 0, slept[t] = Len(grants)
               PROVE  Cardinality(recent) < Limit
    BY DEF NoBusyWait
  <2>1. /\ Len(grants) \in Nat /\ clock \in Nat /\ Limit \in Nat /\ Limit > 0 /\ Window \in Nat
        /\ \A i \in 1 .. Len(grants) : grants[i] \in Nat
    BY LimiterTyped
  <2>2. PICK k \in 1 .. Len(grants) : k = Len(grants) - Limit + 1 /\ clock > grants[k] + Window
    <3>1. Limit <= Len(grants) /\ clock > grants[Len(grants) - Limit + 1] + Window
      BY DEF SleepOK
    <3>2. Len(grants) - Limit + 1 \in 1 .. Len(grants)
      BY <2>1, <3>1
    <3> QED BY <3>1, <3>2
  <2>3. \A i \in 1 .. k : i \in 1 .. Len(grants) /\ grants[i] <= grants[k]
    BY <2>1, <2>2 DEF LimiterInv, LogOK
  <2>4. recent \subseteq k + 1 .. Len(grants)
    <3> SUFFICES ASSUME NEW i \in 1 .. Len(grants), clock - grants[i] <= Window
                 PROVE  i > k
      BY <2>1, <2>2
    <3>1. ASSUME i <= k PROVE FALSE
      <4>1. grants[i] <= grants[k] /\ grants[i] \in Nat /\ grants[k] \in Nat
        BY <2>1, <2>2, <2>3, <3>1
      <4> QED BY <2>1, <2>2, <4>1
    <3> QED BY <2>1, <2>2, <3>1
  <2>5. IsFiniteSet(k + 1 .. Len(grants)) /\ Cardinality(k + 1 .. Len(grants)) = Limit - 1
    <3>1. k + 1 \in Int /\ Len(grants) \in Int
      BY <2>1
    <3>2. /\ IsFiniteSet(k + 1 .. Len(grants))
          /\ Cardinality(k + 1 .. Len(grants))
                = IF k + 1 > Len(grants) THEN 0 ELSE Len(grants) - (k + 1) + 1
      BY <3>1, FS_Interval
    <3> QED BY <2>1, <2>2, <3>2
  <2>6. Cardinality(recent) <= Limit - 1 /\ Cardinality(recent) \in Nat
    <3> HIDE DEF recent
    <3> QED BY <2>4, <2>5, FS_Subset, FS_CardinalityType
  <2> QED BY <2>1, <2>6
<1> QED BY <1>1, <1>2, <1>3, PTL DEF LimiterSpec
=============================================================================
