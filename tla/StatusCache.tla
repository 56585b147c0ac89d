----------------------------- MODULE StatusCache -----------------------------
(***************************************************************************)
(* The server summary: the two caches of internal/serverstatus and the     *)
(* calls of Summary that take info, metrics and the roster from them.      *)
(*                                                                         *)
(* A cache holds its mutex during the whole of Get, the request to the     *)
(* game server included, and reads the clock before that request. A        *)
(* summary takes one part after the other, so the caches serve different   *)
(* callers at the same time. The roster is modelled in Roster; here it     *)
(* answers one of the ways it can.                                         *)
(*                                                                         *)
(* A value is the state of the game server at one instant, asOf, between   *)
(* the sending of the request and the arrival of the answer.               *)
(***************************************************************************)
EXTENDS Naturals

CONSTANTS
    Callers,   \* HTTP requests for the summary
    TTL,       \* cache.info_ttl and cache.metrics_ttl, per part
    Timeout,   \* palworld.timeout, the limit of one request to the game server
    MaxTime    \* bound: the last instant of the clock

Parts == {"info", "metrics"}

ASSUME StatusAssumption ==
    /\ TTL \in [Parts -> Nat \ {0}]
    /\ Timeout \in Nat
    /\ MaxTime \in Nat \ {0}

VARIABLES
    now,     \* the clock
    cache,   \* per part: Cache.value, updated and has
    caller   \* per caller: its stage and what it has been given

vars == <<now, cache, caller>>

-----------------------------------------------------------------------------
(* Values *)

Time == 0..MaxTime

NoEntry == [has |-> FALSE]
Entry == {NoEntry} \cup [has : {TRUE}, updated : Time, asOf : Time]

(* CacheMeta and the error, with the value's asOf and the instant at which *)
(* the part was taken (history).                                           *)
Meta == [has : BOOLEAN, cached : BOOLEAN, stale : BOOLEAN, failed : BOOLEAN,
         updated : Time, asOf : Time, at : Time]
NoMeta == [has |-> FALSE, cached |-> FALSE, stale |-> FALSE, failed |-> TRUE,
           updated |-> 0, asOf |-> 0, at |-> 0]

(* What the roster's answer contributes: a snapshot of now, one of the     *)
(* cache, or only the tables and an error.                                 *)
Presences == {"live", "cached", "unknown"}

(* "promised" is history: both caches had a value when the call came in.   *)
Idle == [pc |-> "idle", part |-> "info", asked |-> 0, promised |-> FALSE,
         meta |-> [p \in Parts |-> NoMeta], presence |-> "unknown"]
Caller == [pc : {"idle", "waiting", "loading", "presence", "answering"},
           part : Parts, asked : Time, promised : BOOLEAN,
           meta : [Parts -> Meta], presence : Presences]

Init ==
    /\ now = 1
    /\ cache = [p \in Parts |-> NoEntry]
    /\ caller = [c \in Callers |-> Idle]

-----------------------------------------------------------------------------
(* One part of a summary *)

Part(c) == caller[c].part

(* Mutant: the mutex is asked for again by a caller that has it.           *)
HoldsFromLock(c, p) == caller[c].pc \in {"waiting", "loading"} /\ Part(c) = p
Holds(c, p) == caller[c].pc = "loading" /\ Part(c) = p

(* Mutant: the mutex is not held during the load.                          *)
MutexFreeInLoad(p) == p \in Parts
MutexFree(p) == \A c \in Callers : ~Holds(c, p)

Fresh(p) == cache[p].has /\ now - cache[p].updated < TTL[p]

(* Get returns and the summary goes on to the next part.                   *)
Takes(c, meta) ==
    caller' = [caller EXCEPT
                 ![c].pc = IF Part(c) = "info" THEN "waiting" ELSE "presence",
                 ![c].part = "metrics",
                 ![c].meta[Part(c)] = meta]

Call(c) ==
    /\ caller[c].pc = "idle"
    /\ caller' = [caller EXCEPT
                    ![c] = [Idle EXCEPT !.pc = "waiting",
                              !.promised = \A p \in Parts : cache[p].has]]
    /\ UNCHANGED <<now, cache>>

Hit(c) ==
    /\ caller[c].pc = "waiting" /\ MutexFree(Part(c))
    /\ Fresh(Part(c))
    /\ Takes(c, [has |-> TRUE, cached |-> TRUE, stale |-> FALSE,
                 failed |-> FALSE, updated |-> cache[Part(c)].updated,
                 asOf |-> cache[Part(c)].asOf, at |-> now])
    /\ UNCHANGED <<now, cache>>

(* The clock is read and the game server is asked.                         *)
Load(c) ==
    /\ caller[c].pc = "waiting" /\ MutexFree(Part(c))
    /\ ~Fresh(Part(c))
    /\ caller' = [caller EXCEPT ![c].pc = "loading", ![c].asked = now]
    /\ UNCHANGED <<now, cache>>

(* Mutant: the stamp is taken when the answer arrives.                     *)
StampOfArrival(c) == now
Stamp(c) == caller[c].asked

Loaded(c, asOf) ==
    /\ caller[c].pc = "loading"
    /\ cache' = [cache EXCEPT ![Part(c)] = [has |-> TRUE, updated |-> Stamp(c),
                                            asOf |-> asOf]]
    /\ Takes(c, [has |-> TRUE, cached |-> FALSE, stale |-> FALSE,
                 failed |-> FALSE, updated |-> Stamp(c), asOf |-> asOf,
                 at |-> now])
    /\ UNCHANGED now

(* Mutant: a failure returns no value.                                     *)
FallbackNone(p) == NoMeta
(* What a failed load leaves its caller with: the old value, or nothing.   *)
Fallback(p) ==
    IF cache[p].has
    THEN [has |-> TRUE, cached |-> TRUE, stale |-> TRUE, failed |-> TRUE,
          updated |-> cache[p].updated, asOf |-> cache[p].asOf, at |-> now]
    ELSE NoMeta

(* The request fails, is too late or its client is gone.                   *)
(* Mutant: the old value is stamped again.                                 *)
LoadFailsAndStamps(c) ==
    /\ caller[c].pc = "loading"
    /\ Takes(c, Fallback(Part(c)))
    /\ cache' = IF cache[Part(c)].has
                THEN [cache EXCEPT ![Part(c)].updated = caller[c].asked]
                ELSE cache
    /\ UNCHANGED now
LoadFails(c) ==
    /\ caller[c].pc = "loading"
    /\ Takes(c, Fallback(Part(c)))
    /\ UNCHANGED <<now, cache>>

-----------------------------------------------------------------------------
(* The answer *)

(* The roster answers, and the response is put together.                   *)
Present(c, presence) ==
    /\ caller[c].pc = "presence"
    /\ caller' = [caller EXCEPT ![c].pc = "answering",
                                ![c].presence = presence]
    /\ UNCHANGED <<now, cache>>

Available(c) == \A p \in Parts : caller[c].meta[p].has
Stale(c) == \/ \E p \in Parts : caller[c].meta[p].stale
            \/ caller[c].presence = "unknown"
Error(c) == \/ \E p \in Parts : caller[c].meta[p].failed
            \/ caller[c].presence = "unknown"

(* oldestTime, 0 for none. Mutant: the newest.                             *)
Stamps(c) == {caller[c].meta[p].updated : p \in {q \in Parts :
                                                   caller[c].meta[q].has}}
Newest(c) == IF Stamps(c) = {} THEN 0
             ELSE CHOOSE s \in Stamps(c) : \A t \in Stamps(c) : s >= t
UpdatedAt(c) == IF Stamps(c) = {} THEN 0
                ELSE CHOOSE s \in Stamps(c) : \A t \in Stamps(c) : s <= t

Answer(c) ==
    /\ caller[c].pc = "answering"
    /\ caller' = [caller EXCEPT ![c] = Idle]
    /\ UNCHANGED <<now, cache>>

-----------------------------------------------------------------------------
(* The world around *)

(* Time passes; no request to the game server outlasts its timeout.        *)
Tick ==
    /\ now < MaxTime
    /\ \A c \in Callers : caller[c].pc = "loading"
                            => now < caller[c].asked + Timeout
    /\ now' = now + 1
    /\ UNCHANGED <<cache, caller>>

(* The server dies and starts again with empty caches.                     *)
Restart ==
    /\ cache' = [p \in Parts |-> NoEntry]
    /\ caller' = [c \in Callers |-> Idle]
    /\ UNCHANGED now

-----------------------------------------------------------------------------

Enter(c) == Hit(c) \/ Load(c)

Step(c) ==
    \/ \E asOf \in caller[c].asked..now : Loaded(c, asOf)
    \/ LoadFails(c)
    \/ \E presence \in Presences : Present(c, presence)
    \/ Answer(c)

Next ==
    \/ \E c \in Callers : Call(c) \/ Enter(c) \/ Step(c)
    \/ Tick
    \/ Restart

Spec == Init /\ [][Next]_vars

(* A request to the game server has a timeout and the roster answers       *)
(* (CallersAreServed of Roster); Go's mutex hands itself to a waiter that  *)
(* has waited long enough.                                                 *)
FairSpec == /\ Spec
            /\ \A c \in Callers : WF_vars(Step(c)) /\ SF_vars(Enter(c))

-----------------------------------------------------------------------------
(* Properties *)

(* Every variable keeps the shape of its fields, and at most one caller    *)
(* holds the mutex of a cache.                                             *)
TypeOK ==
    /\ now \in Time
    /\ cache \in [Parts -> Entry]
    /\ caller \in [Callers -> Caller]
    /\ \A c, d \in Callers, p \in Parts : Holds(c, p) /\ Holds(d, p) => c = d

(* The stamp of a summary is never later than the state of the game server *)
(* that any part of it shows, however slow the loads were, whichever       *)
(* failed, and whoever filled the caches; and there is a stamp as soon as  *)
(* there is a part.                                                        *)
StampIsHonest ==
    \A c \in Callers : caller[c].pc = "answering" =>
        \A p \in Parts : caller[c].meta[p].has =>
            /\ UpdatedAt(c) # 0
            /\ UpdatedAt(c) <= caller[c].meta[p].asOf

(* A summary that is not stale and has no error shows both parts, and each *)
(* described the game server less than a TTL ago, or within one request,   *)
(* when it was taken. Failures in between must not make a value look new.  *)
LiveIsRecent ==
    \A c \in Callers :
        caller[c].pc = "answering" /\ ~Stale(c) /\ ~Error(c) =>
          /\ Available(c)
          /\ \A p \in Parts :
               \/ caller[c].meta[p].at - caller[c].meta[p].asOf < TTL[p]
               \/ caller[c].meta[p].at - caller[c].meta[p].asOf <= Timeout

(* Whoever asks when both caches have a value gets a summary with a server *)
(* in it, whatever fails before it is answered.                            *)
OnceAvailable ==
    \A c \in Callers :
        caller[c].pc = "answering" /\ caller[c].promised => Available(c)

(* Values only go forward: no load puts back a state of the game server    *)
(* older than the one the cache holds, also when callers pile up.          *)
ValuesGoForward ==
    [][\A p \in Parts : cache[p].has /\ cache'[p].has
         => cache'[p].asOf >= cache[p].asOf]_vars

(* Whoever asks for the summary is through in the end, whatever the game   *)
(* server does to the callers in front at either mutex.                    *)
CallersAreServed ==
    \A c \in Callers : caller[c].pc = "waiting" ~> caller[c].pc = "idle"

-----------------------------------------------------------------------------
(* The abstract specification *)

(* The gauge of a part is its cache.                                       *)
ReadingOf(e) ==
    IF e.has THEN [stamp |-> e.updated, asOf |-> e.asOf]
             ELSE [stamp |-> 0, asOf |-> 0]
Readings == [p \in Parts |-> ReadingOf(cache[p])]

(* A value taken is one seen; whoever has yet to take a part is looking,   *)
(* also while it waits for a mutex or for the game server.                 *)
SeenAs(m) ==
    IF m.has
    THEN [kind |-> IF m.stale THEN "stale" ELSE "live",
          reading |-> [stamp |-> m.updated, asOf |-> m.asOf]]
    ELSE [kind |-> "none", reading |-> [stamp |-> 0, asOf |-> 0]]
Left(r) == {p \in Parts : /\ r.pc \in {"waiting", "loading"}
                          /\ r.part = "info" \/ p = "metrics"}
ViewerFor(r) ==
    [stage |-> IF r.pc = "idle" THEN "away" ELSE "viewing", left |-> Left(r),
     seen |-> [p \in Parts |-> SeenAs(r.meta[p])]]
Viewers == [c \in Callers |-> ViewerFor(caller[c])]

Gauges == INSTANCE Gauges WITH gauge <- Readings, viewer <- Viewers

(* The mutexes, the requests they are held over and the entries kept past  *)
(* their time come to this: every part of a summary is read from its gauge *)
(* in one step or recalled, it is called stale exactly when it is too old, *)
(* nothing is missing once it has been read, and readings go forward.      *)
GaugesSpec == Gauges!Spec

=============================================================================
