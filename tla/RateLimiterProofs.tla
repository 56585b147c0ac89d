-------------------------- MODULE RateLimiterProofs --------------------------
(***************************************************************************)
(* Proofs about RateLimiter, for every set of keys, every limit, window    *)
(* and capacity, and however long the process runs.                        *)
(***************************************************************************)
EXTENDS RateLimiter, FiniteSetTheorems, TLAPS

(* What holds of one key: e is its entry, s its total, b the totals at the *)
(* beginning of each instant, n the clock.                                 *)

Shape(e, s, b) == e \in Entry /\ s \in Nat /\ b \in [Time -> Nat]

(* Without an entry: nothing in this instant, and at most one window's     *)
(* worth within the length of a window.                                    *)
FreeOK(s, b, n) ==
    /\ s - b[n] = 0
    /\ \A t \in Time : t <= n /\ n < t + Window => s - b[t] <= Limit

(* With an entry: since its window was opened no more than it counts,      *)
(* since a window's length before that at most Limit more, and nothing     *)
(* since it has ended.                                                     *)
HeldOK(e, s, b, n) ==
    /\ e.reset - Window <= n
    /\ e.reset - Window \in Time
    /\ \A t \in Time :
         t <= n =>
           /\ e.reset - Window <= t => s - b[t] <= e.count
           /\ e.reset < t + 2 * Window => s - b[t] <= Limit + e.count
           /\ e.reset <= t => s - b[t] = 0

KeyOK(e, s, b, n) ==
    /\ Shape(e, s, b)
    /\ ~e.present => FreeOK(s, b, n)
    /\ e.present => HeldOK(e, s, b, n)

LimiterInv ==
    /\ now \in Time
    /\ DOMAIN entries = Keys /\ DOMAIN total = Keys /\ DOMAIN before = Keys
    /\ entries = [k \in Keys |-> entries[k]]
    /\ total = [k \in Keys |-> total[k]]
    /\ before = [k \in Keys |-> before[k]]
    /\ \A k \in Keys : KeyOK(entries[k], total[k], before[k], now)

-----------------------------------------------------------------------------
(* One key *)

LEMMA EntryValue ==
    ASSUME NEW e \in Entry
    PROVE  /\ e.present => /\ e.count \in 1..Limit /\ e.reset \in Nat
                           /\ e = [present |-> TRUE, count |-> e.count,
                                   reset |-> e.reset]
           /\ ~e.present => e = NoEntry
  <1>1. CASE e = NoEntry
    BY <1>1 DEF NoEntry
  <1>2. CASE e # NoEntry
    BY <1>2 DEF Entry
  <1> QED BY <1>1, <1>2

(* A window that is over leaves what a key without an entry has.           *)
LEMMA OverIsFree ==
    ASSUME NEW e, NEW s, NEW b, NEW n \in Time, KeyOK(e, s, b, n),
           e.present, e.reset <= n
    PROVE  FreeOK(s, b, n) /\ KeyOK(NoEntry, s, b, n)
  <1>1. e.count \in 1..Limit /\ e.reset \in Nat /\ s \in Nat
        /\ b \in [Time -> Nat] /\ HeldOK(e, s, b, n)
    BY EntryValue DEF KeyOK, Shape
  <1>2. s - b[n] = 0
    BY <1>1 DEF HeldOK, Time
  <1>3. ASSUME NEW t \in Time, t <= n, n < t + Window
        PROVE  s - b[t] <= Limit
    <2>1. e.reset - Window <= t
      BY <1>1, <1>3, RateLimiterAssumption DEF Time
    <2>2. s - b[t] <= e.count /\ s - b[t] \in Int
      BY <1>1, <1>3, <2>1 DEF HeldOK
    <2> QED BY <1>1, <2>2, RateLimiterAssumption
  <1>4. FreeOK(s, b, n)
    BY <1>2, <1>3 DEF FreeOK
  <1> QED BY <1>1, <1>4 DEF KeyOK, Shape, NoEntry, Entry

LEMMA OpensOK ==
    ASSUME NEW e, NEW s, NEW b, NEW n \in Time, KeyOK(e, s, b, n),
           ~e.present \/ e.reset <= n
    PROVE  KeyOK([present |-> TRUE, count |-> 1, reset |-> n + Window],
                 s + 1, b, n)
  <1> DEFINE f == [present |-> TRUE, count |-> 1, reset |-> n + Window]
  <1>1. FreeOK(s, b, n) /\ s \in Nat /\ b \in [Time -> Nat]
    <2>1. CASE e.present
      BY <2>1, OverIsFree DEF KeyOK, Shape
    <2>2. CASE ~e.present
      BY <2>2 DEF KeyOK, Shape
    <2> QED BY <2>1, <2>2
  <1>2. n \in Nat /\ Window \in Nat \ {0} /\ Limit \in Nat \ {0}
    BY RateLimiterAssumption DEF Time
  <1>3. f \in Entry
    BY <1>2 DEF Entry
  <1>4. f.present /\ f.count = 1 /\ f.reset = n + Window
    OBVIOUS
  <1>5. f.reset - Window = n
    BY <1>2, <1>4
  <1> HIDE DEF f
  <1>6. ASSUME NEW t \in Time, t <= n
        PROVE  /\ n <= t => (s + 1) - b[t] <= 1
               /\ n + Window < t + 2 * Window
                    => (s + 1) - b[t] <= Limit + 1
               /\ ~(n + Window <= t)
    <2>1. t \in Nat /\ b[t] \in Nat /\ b[n] \in Nat
      BY <1>1 DEF Time
    <2>2. n <= t => t = n /\ s - b[t] = 0
      BY <1>1, <1>2, <1>6, <2>1 DEF FreeOK
    <2>3. n + Window < t + 2 * Window => s - b[t] <= Limit
      BY <1>1, <1>2, <1>6, <2>1 DEF FreeOK
    <2> QED BY <1>1, <1>2, <1>6, <2>1, <2>2, <2>3
  <1>7. HeldOK(f, s + 1, b, n)
    BY <1>2, <1>4, <1>5, <1>6 DEF HeldOK
  <1>8. KeyOK(f, s + 1, b, n)
    BY <1>1, <1>3, <1>4, <1>7 DEF KeyOK, Shape
  <1> QED BY <1>8 DEF f

LEMMA CountsOK ==
    ASSUME NEW e, NEW s, NEW b, NEW n \in Time, KeyOK(e, s, b, n),
           e.present, ~(e.reset <= n), e.count < Limit
    PROVE  KeyOK([e EXCEPT !.count = @ + 1], s + 1, b, n)
  <1> DEFINE f == [e EXCEPT !.count = @ + 1]
  <1>1. /\ e.count \in 1..Limit /\ e.reset \in Nat
        /\ e = [present |-> TRUE, count |-> e.count, reset |-> e.reset]
        /\ s \in Nat /\ b \in [Time -> Nat] /\ HeldOK(e, s, b, n)
    BY EntryValue DEF KeyOK, Shape
  <1>2. e \in [present : {TRUE}, count : 1..Limit, reset : Nat]
    BY <1>1
  <1>3. f \in [present : {TRUE}, count : 1..Limit, reset : Nat]
        /\ f.present /\ f.count = e.count + 1 /\ f.reset = e.reset
    <2>1. e.count + 1 \in 1..Limit
      BY <1>1, RateLimiterAssumption
    <2>2. f.present /\ f.count = e.count + 1 /\ f.reset = e.reset
      BY <1>2
    <2> QED BY <1>2, <2>1, <2>2
  <1> HIDE DEF f
  <1>4. ASSUME NEW t \in Time, t <= n
        PROVE  /\ e.reset - Window <= t => (s + 1) - b[t] <= e.count + 1
               /\ e.reset < t + 2 * Window
                    => (s + 1) - b[t] <= Limit + (e.count + 1)
               /\ ~(e.reset <= t)
    <2>1. b[t] \in Nat /\ t \in Nat /\ n \in Nat
      BY <1>1 DEF Time
    <2> QED BY <1>1, <1>4, <2>1, RateLimiterAssumption DEF HeldOK
  <1>5. HeldOK(f, s + 1, b, n)
    BY <1>1, <1>3, <1>4 DEF HeldOK
  <1>6. f \in Entry /\ s + 1 \in Nat
    <2>1. f \in Entry
      BY <1>3, Zenon DEF Entry
    <2>2. s + 1 \in Nat
      BY <1>1
    <2> QED BY <2>1, <2>2
  <1>7. KeyOK(f, s + 1, b, n)
    BY <1>1, <1>3, <1>5, <1>6 DEF KeyOK, Shape
  <1> QED BY <1>7 DEF f

LEMMA TickOK ==
    ASSUME NEW e, NEW s, NEW b, NEW n \in Time, KeyOK(e, s, b, n), n < MaxTime
    PROVE  KeyOK(e, s, [b EXCEPT ![n + 1] = s], n + 1)
  <1> DEFINE c == [b EXCEPT ![n + 1] = s]
  <1>1. s \in Nat /\ b \in [Time -> Nat] /\ e \in Entry
    BY DEF KeyOK, Shape
  <1>2. n \in Nat /\ n + 1 \in Time /\ Window \in Nat \ {0}
        /\ Limit \in Nat \ {0}
    BY RateLimiterAssumption DEF Time
  <1>3. /\ c \in [Time -> Nat] /\ c[n + 1] = s
        /\ \A t \in Time : t <= n => c[t] = b[t]
    BY <1>1, <1>2 DEF Time
  <1> HIDE DEF c
  <1>4. \A t \in Time : t <= n + 1 => t = n + 1 \/ t <= n
    BY <1>2 DEF Time
  <1>5. ASSUME ~e.present PROVE FreeOK(s, c, n + 1)
    <2>1. FreeOK(s, b, n)
      BY <1>5 DEF KeyOK
    <2>2. ASSUME NEW t \in Time, t <= n + 1, n + 1 < t + Window
          PROVE  s - c[t] <= Limit
      <3>1. CASE t = n + 1
        BY <1>1, <1>2, <1>3, <3>1
      <3>2. CASE t <= n
        <4>1. n < t + Window
          BY <1>2, <2>2, <3>2 DEF Time
        <4> QED BY <1>3, <2>1, <3>2, <4>1 DEF FreeOK
      <3> QED BY <1>4, <2>2, <3>1, <3>2
    <2>3. s - c[n + 1] = 0
      BY <1>1, <1>3
    <2> QED BY <2>2, <2>3 DEF FreeOK
  <1>6. ASSUME e.present PROVE HeldOK(e, s, c, n + 1)
    <2>1. HeldOK(e, s, b, n) /\ e.count \in 1..Limit /\ e.reset \in Nat
      BY <1>1, <1>6, EntryValue DEF KeyOK
    <2>2. ASSUME NEW t \in Time, t <= n + 1
          PROVE  /\ e.reset - Window <= t => s - c[t] <= e.count
                 /\ e.reset < t + 2 * Window => s - c[t] <= Limit + e.count
                 /\ e.reset <= t => s - c[t] = 0
      <3>1. CASE t = n + 1
        BY <1>1, <1>2, <1>3, <2>1, <3>1
      <3>2. CASE t <= n
        BY <1>3, <2>1, <3>2 DEF HeldOK
      <3> QED BY <1>4, <2>2, <3>1, <3>2
    <2>3. e.reset - Window <= n + 1 /\ e.reset - Window \in Time
      BY <1>2, <2>1 DEF HeldOK
    <2> QED BY <2>2, <2>3 DEF HeldOK
  <1>7. KeyOK(e, s, c, n + 1)
    BY <1>1, <1>3, <1>5, <1>6 DEF KeyOK, Shape
  <1> QED BY <1>7 DEF c

-----------------------------------------------------------------------------
(* All keys *)

LEMMA LimiterInit == Init => LimiterInv
  <1> SUFFICES ASSUME Init PROVE LimiterInv
    OBVIOUS
  <1>1. 0 \in Time /\ Limit \in Nat
    BY RateLimiterAssumption DEF Time
  <1>2. \A t \in Time : 0 - [u \in Time |-> 0][t] = 0
    OBVIOUS
  <1>3. FreeOK(0, [t \in Time |-> 0], 0)
    BY <1>1, <1>2 DEF FreeOK
  <1>4. KeyOK(NoEntry, 0, [t \in Time |-> 0], 0)
    BY <1>3 DEF KeyOK, Shape, Entry, NoEntry
  <1> QED BY <1>1, <1>4 DEF Init, LimiterInv

LEMMA OpensKeeps ==
    ASSUME LimiterInv, NEW k \in Keys, Opens(k)
    PROVE  LimiterInv'
  <1> DEFINE f == [present |-> TRUE, count |-> 1, reset |-> now + Window]
  <1>1. KeyOK(f, total[k] + 1, before[k], now)
    <2>1. KeyOK(entries[k], total[k], before[k], now) /\ now \in Time
      BY DEF LimiterInv
    <2>2. ~entries[k].present \/ entries[k].reset <= now
      BY DEF Opens, Expired
    <2> QED BY <2>1, <2>2, OpensOK
  <1>2. /\ entries' = [entries EXCEPT ![k] = f]
        /\ total' = [total EXCEPT ![k] = @ + 1]
        /\ now' = now /\ before' = before
    BY DEF Opens, LetsThrough
  <1> HIDE DEF f
  <1>3. ASSUME NEW j \in Keys
        PROVE  KeyOK(entries'[j], total'[j], before'[j], now')
    <2>1. CASE j = k
      BY <1>1, <1>2, <2>1 DEF LimiterInv
    <2>2. CASE j # k
      BY <1>2, <2>2 DEF LimiterInv
    <2> QED BY <2>1, <2>2
  <1> QED BY <1>2, <1>3 DEF LimiterInv

LEMMA CountsKeeps ==
    ASSUME LimiterInv, NEW k \in Keys, Counts(k)
    PROVE  LimiterInv'
  <1> DEFINE counted == [entries EXCEPT ![k].count = @ + 1]
  <1>1. KeyOK(counted[k], total[k] + 1, before[k], now)
        /\ ~Expired(k)
    <2>1. KeyOK(entries[k], total[k], before[k], now) /\ now \in Time
      BY DEF LimiterInv
    <2>2. entries[k].present /\ ~(entries[k].reset <= now)
          /\ entries[k].count < Limit
      BY DEF Counts, Expired, BelowLimit
    <2>3. counted[k] = [entries[k] EXCEPT !.count = @ + 1]
      BY DEF LimiterInv
    <2>4. ~Expired(k)
      BY DEF Counts
    <2> QED BY <2>1, <2>2, <2>3, <2>4, CountsOK
  <1>2. \A j \in Keys \ {k} : counted[j] = entries[j]
    BY DEF LimiterInv
  <1>3. DOMAIN counted = Keys /\ counted = [j \in Keys |-> counted[j]]
    BY DEF LimiterInv
  <1>4. /\ entries' = Purged(counted)
        /\ total' = [total EXCEPT ![k] = @ + 1]
        /\ now' = now /\ before' = before
    BY DEF Counts, LetsThrough
  <1> HIDE DEF counted
  <1>5. /\ entries' = [j \in Keys |-> entries'[j]] /\ DOMAIN entries' = Keys
        /\ \A j \in Keys : \/ entries'[j] = counted[j]
                           \/ entries'[j] = NoEntry /\ Expired(j)
    BY <1>3, <1>4 DEF Purged
  <1>6. ASSUME NEW j \in Keys
        PROVE  KeyOK(entries'[j], total'[j], before'[j], now')
    <2>1. CASE j = k
      BY <1>1, <1>4, <1>5, <2>1 DEF LimiterInv
    <2>2. CASE j # k
      <3>1. total'[j] = total[j] /\ before'[j] = before[j]
            /\ KeyOK(entries[j], total[j], before[j], now) /\ now \in Time
        BY <1>4, <2>2 DEF LimiterInv
      <3>2. CASE Expired(j)
        <4>1. KeyOK(NoEntry, total[j], before[j], now)
          BY <3>1, <3>2, OverIsFree DEF Expired
        <4> QED BY <1>2, <1>4, <1>5, <2>2, <3>1, <4>1
      <3>3. CASE ~Expired(j)
        BY <1>2, <1>4, <1>5, <2>2, <3>1, <3>3
      <3> QED BY <3>2, <3>3
    <2> QED BY <2>1, <2>2
  <1>7. total' = [j \in Keys |-> total'[j]] /\ DOMAIN total' = Keys
    BY <1>4 DEF LimiterInv
  <1> QED BY <1>4, <1>5, <1>6, <1>7 DEF LimiterInv

LEMMA TickKeeps == LimiterInv /\ Tick => LimiterInv'
  <1> SUFFICES ASSUME LimiterInv, Tick PROVE LimiterInv'
    OBVIOUS
  <1>1. /\ now' = now + 1 /\ now \in Time /\ now < MaxTime
        /\ entries' = entries /\ total' = total
        /\ before' = [k \in Keys |-> [before[k] EXCEPT ![now + 1] = total[k]]]
    BY DEF Tick, LimiterInv
  <1>2. now' \in Time
    BY <1>1, RateLimiterAssumption DEF Time
  <1>3. ASSUME NEW k \in Keys
        PROVE  KeyOK(entries'[k], total'[k], before'[k], now')
    <2>1. KeyOK(entries[k], total[k], before[k], now)
      BY DEF LimiterInv
    <2>2. KeyOK(entries[k], total[k],
                [before[k] EXCEPT ![now + 1] = total[k]], now + 1)
      BY <1>1, <2>1, TickOK
    <2> QED BY <1>1, <2>2
  <1> QED BY <1>1, <1>2, <1>3 DEF LimiterInv

LEMMA LimiterStep == LimiterInv /\ [Next]_vars => LimiterInv'
  <1> SUFFICES ASSUME LimiterInv, [Next]_vars PROVE LimiterInv'
    OBVIOUS
  <1>1. ASSUME NEW k \in Keys, Opens(k) PROVE LimiterInv'
    BY <1>1, OpensKeeps
  <1>2. ASSUME NEW k \in Keys, Counts(k) PROVE LimiterInv'
    BY <1>2, CountsKeeps
  <1>3. ASSUME NEW k \in Keys, Refuses(k) PROVE LimiterInv'
    BY <1>3 DEF Refuses, vars, LimiterInv
  <1>4. CASE Tick
    BY <1>4, TickKeeps
  <1>5. CASE UNCHANGED vars
    BY <1>5 DEF vars, LimiterInv
  <1> QED BY <1>1, <1>2, <1>3, <1>4, <1>5 DEF Next, Allow

LEMMA LimiterAlways == Spec => []LimiterInv
  BY LimiterInit, LimiterStep, PTL DEF Spec

-----------------------------------------------------------------------------

(* Clock, map and counts keep their shapes.                                *)
THEOREM TypeCorrect == Spec => []TypeOK
  <1>1. LimiterInv => TypeOK
    BY DEF LimiterInv, KeyOK, Shape, TypeOK
  <1> QED BY <1>1, LimiterAlways, PTL

(* Any stretch shorter than a window holds at most two windows' worth of   *)
(* calls of one key.                                                       *)
THEOREM TwoWindowsAtMost == Spec => []AtMostTwoWindows
  <1>1. ASSUME LimiterInv, NEW k \in Keys, NEW t \in Time, t <= now,
               now < t + Window
        PROVE  Since(k, t) <= 2 * Limit
    <2> DEFINE e == entries[k]
    <2>0. KeyOK(e, total[k], before[k], now) /\ now \in Nat /\ t \in Nat
      BY <1>1 DEF LimiterInv, Time
    <2>1. /\ KeyOK(e, total[k], before[k], now) /\ now \in Nat /\ t \in Nat
          /\ total[k] \in Nat /\ before[k][t] \in Nat
      BY <1>1, <2>0 DEF KeyOK, Shape
    <2>2. CASE ~e.present
      BY <1>1, <2>1, <2>2, RateLimiterAssumption DEF KeyOK, FreeOK, Since
    <2>3. CASE e.present
      <3>1. e.count \in 1..Limit /\ e.reset \in Nat
            /\ HeldOK(e, total[k], before[k], now)
        BY <2>1, <2>3, EntryValue DEF KeyOK, Shape
      <3>2. e.reset < t + 2 * Window
        BY <1>1, <2>1, <3>1, RateLimiterAssumption DEF HeldOK
      <3>3. total[k] - before[k][t] <= Limit + e.count
        BY <1>1, <3>1, <3>2 DEF HeldOK
      <3> QED BY <2>1, <3>1, <3>3, RateLimiterAssumption DEF Since
    <2> QED BY <2>2, <2>3
  <1>2. LimiterInv => AtMostTwoWindows
    BY <1>1 DEF AtMostTwoWindows
  <1> QED BY <1>2, LimiterAlways, PTL

(* A running window has let through no more than the limit.                *)
THEOREM WindowsKeepLimit == Spec => []LimitPerWindow
  <1>1. ASSUME LimiterInv, NEW k \in Keys, entries[k].present
        PROVE  Since(k, entries[k].reset - Window) <= Limit
    <2> DEFINE e == entries[k]
               t == e.reset - Window
    <2>1. /\ KeyOK(e, total[k], before[k], now)
          /\ total[k] \in Nat /\ before[k] \in [Time -> Nat]
      BY <1>1 DEF LimiterInv, KeyOK, Shape
    <2>2. e.count \in 1..Limit /\ e.reset \in Nat
          /\ HeldOK(e, total[k], before[k], now)
      BY <1>1, <2>1, EntryValue DEF KeyOK, Shape
    <2>3. t \in Time /\ t <= now
      BY <2>2 DEF HeldOK
    <2>4. total[k] - before[k][t] <= e.count
      <3>1. e.reset - Window <= t
        BY <2>2, RateLimiterAssumption
      <3> QED BY <2>2, <2>3, <3>1 DEF HeldOK
    <2>5. before[k][t] \in Nat
      BY <2>1, <2>3
    <2> HIDE DEF t
    <2>6. Since(k, t) <= Limit
      BY <2>1, <2>2, <2>4, <2>5, RateLimiterAssumption DEF Since
    <2> QED BY <2>6 DEF t
  <1>2. LimiterInv => LimitPerWindow
    BY <1>1 DEF LimitPerWindow
  <1> QED BY <1>2, LimiterAlways, PTL

-----------------------------------------------------------------------------
(* RateLimiter implements Allowance. What an entry e comes to at time n.   *)

OpenAt(e, n) ==
    IF e.present /\ ~(e.reset <= n)
    THEN Allowance!Open(e.count, e.reset) ELSE Allowance!Closed
windows == [k \in Keys |-> OpenWindow(k)]

LEMMA WindowsAre ==
    /\ windows = [k \in Keys |-> OpenAt(entries[k], now)]
    /\ windows' = [k \in Keys |-> OpenAt(entries'[k], now')]
  <1>1. \A k \in Keys : OpenWindow(k) = OpenAt(entries[k], now)
    BY DEF OpenWindow, OpenAt, Expired, Allowance!Open, Allowance!Closed
  <1>2. \A k \in Keys : OpenWindow(k)' = OpenAt(entries'[k], now')
    BY DEF OpenWindow, OpenAt, Expired, Allowance!Open, Allowance!Closed
  <1> QED BY <1>1, <1>2 DEF windows

(* A step of one key's entry is a step of its window.                      *)
LEMMA WindowMoves ==
    ASSUME NEW k \in Keys, NEW w, OpenAt(entries'[k], now') = w,
           \A j \in Keys \ {k} :
             OpenAt(entries'[j], now') = OpenAt(entries[j], now)
    PROVE  windows' = [windows EXCEPT ![k] = w]
  <1>1. [windows EXCEPT ![k] = w]
          = [j \in Keys |-> IF j = k THEN w ELSE OpenAt(entries[j], now)]
    BY WindowsAre
  <1> HIDE DEF windows
  <1> QED BY <1>1, WindowsAre

LEMMA OpensIsAdmit ==
    ASSUME LimiterInv, NEW k \in Keys, Opens(k)
    PROVE  Allowance!Admit(k)
  <1> DEFINE f == [present |-> TRUE, count |-> 1, reset |-> now + Window]
  <1>1. /\ ~entries[k].present \/ entries[k].reset <= now
        /\ entries' = [entries EXCEPT ![k] = f] /\ now' = now
        /\ total' = [total EXCEPT ![k] = @ + 1]
    BY DEF Opens, Expired, LetsThrough
  <1>2. windows[k] = Allowance!Closed
    BY <1>1, WindowsAre DEF OpenAt
  <1>3. OpenAt(f, now) = Allowance!Open(1, now + Window)
    <2>1. now \in Nat
      BY DEF LimiterInv, Time
    <2> QED BY <2>1, RateLimiterAssumption DEF OpenAt
  <1> HIDE DEF f
  <1>4. entries'[k] = f /\ \A j \in Keys \ {k} : entries'[j] = entries[j]
    BY <1>1 DEF LimiterInv
  <1>5. windows' = [windows EXCEPT ![k] = Allowance!Open(1, now + Window)]
    BY <1>1, <1>3, <1>4, WindowMoves
  <1> QED BY <1>1, <1>2, <1>5 DEF Allowance!Admit, windows

LEMMA CountedEntry ==
    ASSUME NEW e \in Entry, e.present
    PROVE  LET f == [e EXCEPT !.count = @ + 1]
           IN f.present /\ f.count = e.count + 1 /\ f.reset = e.reset
  <1>1. e \in [present : {TRUE}, count : 1..Limit, reset : Nat]
    <2>1. e.count \in 1..Limit /\ e.reset \in Nat
          /\ e = [present |-> TRUE, count |-> e.count, reset |-> e.reset]
      BY EntryValue
    <2> QED BY <2>1
  <1> QED BY <1>1

LEMMA CountsIsAdmit ==
    ASSUME LimiterInv, NEW k \in Keys, Counts(k)
    PROVE  Allowance!Admit(k)
  <1> DEFINE e == entries[k]
             counted == [entries EXCEPT ![k].count = @ + 1]
  <1>1. /\ e.present /\ ~(e.reset <= now) /\ ~Expired(k)
        /\ e.count < Limit
        /\ entries' = Purged(counted) /\ now' = now
        /\ total' = [total EXCEPT ![k] = @ + 1]
    BY DEF Counts, Expired, BelowLimit, LetsThrough
  <1>2. /\ e.count \in 1..Limit /\ e.reset \in Nat
        /\ e = [present |-> TRUE, count |-> e.count, reset |-> e.reset]
    BY <1>1, EntryValue DEF LimiterInv, KeyOK, Shape
  <1>3. /\ counted[k].present /\ counted[k].count = e.count + 1
        /\ counted[k].reset = e.reset
        /\ \A j \in Keys \ {k} : counted[j] = entries[j]
        /\ DOMAIN counted = Keys
    <2>1. counted[k] = [e EXCEPT !.count = @ + 1]
      BY DEF LimiterInv
    <2>2. LET f == [e EXCEPT !.count = @ + 1]
          IN f.present /\ f.count = e.count + 1 /\ f.reset = e.reset
      BY <1>1, CountedEntry DEF LimiterInv, KeyOK, Shape
    <2> QED BY <2>1, <2>2 DEF LimiterInv
  <1> HIDE DEF counted
  <1>4. \A j \in Keys : \/ entries'[j] = counted[j]
                        \/ entries'[j] = NoEntry /\ Expired(j)
    BY <1>1, <1>3 DEF Purged
  <1>5. OpenAt(entries'[k], now')
          = Allowance!Open(windows[k].used + 1, windows[k].closes)
    <2>1. entries'[k] = counted[k]
      BY <1>1, <1>4
    <2>2. windows[k] = Allowance!Open(e.count, e.reset)
      BY <1>1, WindowsAre DEF OpenAt
    <2>3. OpenAt(counted[k], now) = Allowance!Open(e.count + 1, e.reset)
      BY <1>1, <1>3 DEF OpenAt
    <2> QED BY <1>1, <2>1, <2>2, <2>3 DEF Allowance!Open
  <1>6. ASSUME NEW j \in Keys \ {k}
        PROVE  OpenAt(entries'[j], now') = OpenAt(entries[j], now)
    <2>1. CASE entries'[j] = NoEntry /\ Expired(j)
      BY <1>1, <2>1 DEF OpenAt, NoEntry, Expired
    <2>2. CASE entries'[j] = counted[j]
      BY <1>1, <1>3, <2>2
    <2> QED BY <1>4, <2>1, <2>2
  <1>7. windows' = [windows EXCEPT ![k] =
                      Allowance!Open(windows[k].used + 1, windows[k].closes)]
    BY <1>5, <1>6, WindowMoves
  <1>8. windows[k].used \in 1..(Limit - 1)
    <2>1. windows[k].used = e.count
      BY <1>1, WindowsAre DEF OpenAt, Allowance!Open
    <2> QED BY <1>1, <1>2, <2>1, RateLimiterAssumption
  <1> QED BY <1>1, <1>7, <1>8 DEF Allowance!Admit, windows

LEMMA TickIsTick ==
    ASSUME LimiterInv, Tick
    PROVE  Allowance!Tick
  <1>1. /\ now' = now + 1 /\ now \in Nat /\ entries' = entries
        /\ total' = total
    BY DEF Tick, LimiterInv, Time
  <1>2. ASSUME NEW k \in Keys
        PROVE  OpenAt(entries[k], now + 1)
                 = IF windows[k].closes = now + 1 THEN Allowance!Closed
                                                  ELSE windows[k]
    <2>1. windows[k] = OpenAt(entries[k], now)
      BY WindowsAre
    <2>2. CASE ~entries[k].present
      BY <2>1, <2>2 DEF OpenAt
    <2>3. CASE entries[k].present
      <3>1. entries[k].reset \in Nat
        BY <2>3, EntryValue DEF LimiterInv, KeyOK, Shape
      <3>2. CASE entries[k].reset <= now
        BY <1>1, <2>1, <3>1, <3>2 DEF OpenAt
      <3>3. CASE ~(entries[k].reset <= now)
        BY <1>1, <2>1, <2>3, <3>1, <3>3 DEF OpenAt, Allowance!Open
      <3> QED BY <3>2, <3>3
    <2> QED BY <2>2, <2>3
  <1>3. windows' = [k \in Keys |->
                      IF windows[k].closes = now' THEN Allowance!Closed
                                                  ELSE windows[k]]
    BY <1>1, <1>2, WindowsAre
  <1> QED BY <1>1, <1>3 DEF Allowance!Tick, windows

(* RateLimiter implements Allowance: entries that have expired, and purges *)
(* of them at the calls of other keys, are not seen (AllowanceSpec).       *)
THEOREM LimiterImplementsAllowance == Spec => AllowanceSpec
  <1>1. Init => Allowance!Init
    BY DEF Init, Allowance!Init, OpenWindow, NoEntry, Allowance!Closed,
           Allowance!Open
  <1>2. LimiterInv /\ [Next]_vars => [Allowance!Next]_(Allowance!avars)
    <2> SUFFICES ASSUME LimiterInv, [Next]_vars
                 PROVE  Allowance!Next \/ UNCHANGED Allowance!avars
      OBVIOUS
    <2>1. ASSUME NEW k \in Keys, Opens(k) PROVE Allowance!Next
      BY <2>1, OpensIsAdmit DEF Allowance!Next
    <2>2. ASSUME NEW k \in Keys, Counts(k) PROVE Allowance!Next
      BY <2>2, CountsIsAdmit DEF Allowance!Next
    <2>3. ASSUME UNCHANGED vars PROVE UNCHANGED Allowance!avars
      BY <2>3 DEF vars, Allowance!avars, OpenWindow, Expired
    <2>4. CASE Tick
      BY <2>4, TickIsTick DEF Allowance!Next
    <2> QED BY <2>1, <2>2, <2>3, <2>4 DEF Next, Allow, Refuses
  <1> QED BY <1>1, <1>2, LimiterAlways, PTL
          DEF Spec, AllowanceSpec, Allowance!Spec

=============================================================================
