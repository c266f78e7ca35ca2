------------------------------ MODULE RateLimit ------------------------------
(***************************************************************************)
(* The gateway's rate limiter: requests of a policy are counted per client *)
(* in windows of fixed length, kept in the memory of the process.  The     *)
(* middleware runs to its end without an await, so a request is one step.  *)
(***************************************************************************)
EXTENDS Naturals, FiniteSets

CONSTANTS
    Keys,         \* `${policy.id}:${clientKey(req)}`
    Limit,        \* limits[policy.bucket] of each key
    WindowMs,     \* windowMs
    Second,       \* milliseconds of a second: the unit of Retry-After
    MaxTime,      \* bound: how far the clock runs
    MaxRequests   \* bound: the requests counted in one window

ASSUME LimitType == Limit \in [Keys -> Nat \ {0}]
ASSUME WindowType == WindowMs \in Nat \ {0}
ASSUME SecondType == Second \in Nat \ {0}
ASSUME BoundsType == MaxTime \in Nat /\ MaxRequests \in Nat

VARIABLES
    now,      \* Date.now(), which does not go back
    windows,  \* count and resetAt of each client that was seen
    passed    \* history: what was passed on, and when, since the last restart

vars == <<now, windows, passed>>

Seen == DOMAIN windows
Entry == [count : 1 .. MaxRequests, resetAt : WindowMs .. (now + WindowMs)]
Pass == [key : Keys, at : Nat, resetAt : Nat, nth : Nat \ {0}]

TypeOK ==
    /\ now \in 0 .. MaxTime
    /\ Seen \subseteq Keys
    /\ windows \in [Seen -> Entry]
    /\ passed \subseteq Pass

Init == now = 0 /\ windows = <<>> /\ passed = {}

\* Mutation: the window of a client is made longer by each request.
entryOfExtending(k) ==
    IF k \in Seen /\ windows[k].resetAt > now
    THEN [windows[k] EXCEPT !.resetAt = @ + WindowMs]
    ELSE [count |-> 0, resetAt |-> now + WindowMs]

\* Mutation: the window of a client is moved on by each request.
entryOfSliding(k) ==
    IF k \in Seen /\ windows[k].resetAt > now
    THEN [windows[k] EXCEPT !.resetAt = now + WindowMs]
    ELSE [count |-> 0, resetAt |-> now + WindowMs]

\* The client's window, or a new one when it has none or it is over.
entryOf(k) ==
    IF k \in Seen /\ windows[k].resetAt > now
    THEN windows[k]
    ELSE [count |-> 0, resetAt |-> now + WindowMs]

\* Mutation: the counted request is compared as if it were the next one.
overLimitLate(k, entry) == entry.count > Limit[k] + 1

overLimit(k, entry) == entry.count > Limit[k]

\* Mutation: seconds rounded down.
retryAfterSecondsFloor(entry) == (entry.resetAt - now) \div Second

\* Math.max(Math.ceil((entry.resetAt - currentTime) / 1000), 1)
retryAfterSeconds(entry) ==
    LET seconds == (entry.resetAt - now + Second - 1) \div Second
    IN  IF seconds >= 1 THEN seconds ELSE 1

\* The middleware on a request of a limited route.
Request(k) ==
    LET old == entryOf(k)
        entry == [old EXCEPT !.count = @ + 1]
    IN  /\ old.count < MaxRequests
        /\ windows' = [j \in Seen \cup {k} |-> IF j = k THEN entry ELSE windows[j]]
        /\ passed' = passed \cup
              {p \in {[key |-> k, at |-> now, resetAt |-> entry.resetAt, nth |-> entry.count]} :
                  ~overLimit(k, entry)}
        /\ UNCHANGED now

Tick == now < MaxTime /\ now' = now + 1 /\ UNCHANGED <<windows, passed>>

\* The gateway restarts and forgets its windows.
Restart == windows' = <<>> /\ passed' = {} /\ UNCHANGED now

Next == (\E k \in Keys : Request(k)) \/ Tick \/ Restart

Spec == Init /\ [][Next]_vars

-----------------------------------------------------------------------------

\* The requests of client k passed on in the WindowMs that start at time t.
PassedFrom(k, t) == {p \in passed : p.key = k /\ t <= p.at /\ p.at < t + WindowMs}

\* Wherever a span of WindowMs is laid, and however the client times its
\* requests around the reset, no more than twice the limit of it gets through.
BurstBounded ==
    \A k \in Keys : \A t \in 0 .. MaxTime :
        Cardinality(PassedFrom(k, t)) <= 2 * Limit[k]

\* In its current window a client has had exactly the requests it made, up to
\* the limit: none is refused early and none passes that was over.
WindowAccount ==
    \A k \in Seen :
        Cardinality({p \in passed : p.key = k /\ p.resetAt = windows[k].resetAt}) =
            (IF windows[k].count > Limit[k] THEN Limit[k] ELSE windows[k].count)

\* A client that waits for the seconds it was told finds its window over, and it
\* was not told a second too much.
RetryAfterEnough ==
    \A k \in Seen : windows[k].resetAt > now =>
        LET wait == retryAfterSeconds(windows[k]) * Second
        IN  now + wait >= windows[k].resetAt /\ now + wait < windows[k].resetAt + Second
=============================================================================
