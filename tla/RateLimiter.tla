----------------------------- MODULE RateLimiter -----------------------------
(***************************************************************************)
(* The limiter in front of setup, registration, login and password changes *)
(* (internal/httpapi/ratelimit.go): one fixed window per key, where a key  *)
(* is an operation and an address.                                         *)
(*                                                                         *)
(* allow runs under the limiter's mutex and is one step. The clock is      *)
(* Go's monotonic clock: it does not go back.                              *)
(***************************************************************************)
EXTENDS Integers, FiniteSets

CONSTANTS
    Keys,      \* operation:address
    Limit,     \* calls per window
    Window,    \* one minute in the code
    Capacity,  \* the size above which expired entries are purged, 4096
    MaxTime    \* bound: the last instant of the clock

ASSUME RateLimiterAssumption ==
    /\ Limit \in Nat \ {0}
    /\ Window \in Nat \ {0}
    /\ Capacity \in Nat
    /\ MaxTime \in Nat

VARIABLES
    now,      \* the clock
    entries,  \* the map, an entry or NoEntry per key
    total,    \* history: calls let through per key, in this process
    before    \* history: per key and instant, the total when it began

vars == <<now, entries, total, before>>

-----------------------------------------------------------------------------

Time == 0..MaxTime

NoEntry == [present |-> FALSE]
Entry == {NoEntry} \cup [present : {TRUE}, count : 1..Limit, reset : Nat]

Init ==
    /\ now = 0
    /\ entries = [k \in Keys |-> NoEntry]
    /\ total = [k \in Keys |-> 0]
    /\ before = [k \in Keys |-> [t \in Time |-> 0]]

Expired(k) == entries[k].present /\ entries[k].reset <= now

LetsThrough(k) == total' = [total EXCEPT ![k] = @ + 1]

(* No entry, or one whose window is over: a new window.                    *)
Opens(k) ==
    /\ ~entries[k].present \/ Expired(k)
    /\ entries' = [entries EXCEPT ![k] = [present |-> TRUE, count |-> 1,
                                          reset |-> now + Window]]
    /\ LetsThrough(k)
    /\ UNCHANGED <<now, before>>

Size(map) == Cardinality({k \in Keys : map[k].present})

(* What the purge leaves of the map once the call has been counted.        *)
(* Mutant: the purge empties the map.                                      *)
PurgedAll(counted) ==
    IF Size(counted) > Capacity
    THEN [k \in Keys |-> NoEntry]
    ELSE counted
Purged(counted) ==
    IF Size(counted) > Capacity
    THEN [k \in Keys |-> IF Expired(k) THEN NoEntry ELSE counted[k]]
    ELSE counted

(* Mutant: the limit itself is still below the limit.                      *)
UpToLimit(k) == entries[k].count <= Limit
BelowLimit(k) == entries[k].count < Limit

(* Below the limit of a running window: the call is counted.               *)
Counts(k) ==
    /\ entries[k].present /\ ~Expired(k)
    /\ BelowLimit(k)
    /\ entries' = Purged([entries EXCEPT ![k].count = @ + 1])
    /\ LetsThrough(k)
    /\ UNCHANGED <<now, before>>

(* At the limit: refused, and nothing is written.                          *)
Refuses(k) ==
    /\ entries[k].present /\ ~Expired(k)
    /\ ~BelowLimit(k)
    /\ UNCHANGED vars

Tick ==
    /\ now < MaxTime
    /\ now' = now + 1
    /\ before' = [k \in Keys |-> [before[k] EXCEPT ![now + 1] = total[k]]]
    /\ UNCHANGED <<entries, total>>

Allow(k) == Opens(k) \/ Counts(k) \/ Refuses(k)

Next == (\E k \in Keys : Allow(k)) \/ Tick

Spec == Init /\ [][Next]_vars

-----------------------------------------------------------------------------
(* Properties *)

(* The clock, the map and the counts keep their shapes.                    *)
TypeOK ==
    /\ now \in Time
    /\ entries \in [Keys -> Entry]
    /\ total \in [Keys -> Nat]
    /\ before \in [Keys -> [Time -> Nat]]

(* The calls of a key that were let through since the instant t began.     *)
Since(k, t) == total[k] - before[k][t]

(* However windows and purges fall, no stretch of time shorter than a      *)
(* window holds more than two windows' worth of calls for a key.           *)
AtMostTwoWindows ==
    \A k \in Keys, t \in Time :
        t <= now /\ now < t + Window => Since(k, t) <= 2 * Limit

(* While a window runs, at most Limit calls have been let through since    *)
(* the instant it was opened, whatever a purge has removed.                *)
LimitPerWindow ==
    \A k \in Keys :
        entries[k].present /\ ~Expired(k)
          => Since(k, entries[k].reset - Window) <= Limit

(* RateLimiter implements Allowance: an expired entry is as good as none,  *)
(* and a purge, at whatever call and of whatever keys, is not seen.        *)
OpenWindow(k) ==
    IF entries[k].present /\ ~Expired(k)
    THEN [used |-> entries[k].count, closes |-> entries[k].reset]
    ELSE [used |-> 0, closes |-> 0]
Allowance == INSTANCE Allowance WITH
    window <- [k \in Keys |-> OpenWindow(k)], admitted <- total
AllowanceSpec == Allowance!Spec

=============================================================================
