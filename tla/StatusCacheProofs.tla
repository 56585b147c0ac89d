-------------------------- MODULE StatusCacheProofs --------------------------
(***************************************************************************)
(* Proofs about StatusCache, for any number of callers, any lives of the   *)
(* two caches and any timeout.                                             *)
(***************************************************************************)
EXTENDS StatusCache, TLAPS

(* One cache entry e at time n: the stamp is not later than the value.     *)
EntryOK(e, n) ==
    /\ e \in Entry
    /\ e.has => e.updated >= 1 /\ e.updated <= e.asOf /\ e.asOf <= n

(* One part taken at time n or before.                                     *)
MetaOK(p, m, n) ==
    /\ m \in Meta
    /\ m.failed = FALSE => m.has = TRUE
    /\ m.has = TRUE => /\ m.updated >= 1 /\ m.updated <= m.asOf
                       /\ m.asOf <= m.at /\ m.at <= n
                       /\ m.stale = FALSE => \/ m.at - m.asOf < TTL[p]
                                             \/ m.at - m.asOf <= Timeout

(* One caller's record r over the caches k: who loads asked after all that *)
(* the cache holds, and because it was too old, which it still is; and     *)
(* what was promised has been given so far.                                *)
LoadOK(r, k, n) ==
    r.pc = "loading" =>
        /\ r.asked >= 1 /\ r.asked <= n /\ n <= r.asked + Timeout
        /\ k[r.part].has => /\ k[r.part].asOf <= r.asked
                            /\ n - k[r.part].updated >= TTL[r.part]
PromiseOK(r, k) ==
    r.promised = TRUE =>
        /\ \A p \in Parts : k[p].has
        /\ r.part = "metrics" => r.meta["info"].has = TRUE
        /\ r.pc \in {"presence", "answering"} => r.meta["metrics"].has = TRUE
CallerOK(r, k, n) ==
    /\ r \in Caller
    /\ \A p \in Parts : MetaOK(p, r.meta[p], n)
    /\ LoadOK(r, k, n)
    /\ PromiseOK(r, k)
    /\ r.pc \in {"presence", "answering"} => r.part = "metrics"

StatusInv ==
    /\ now \in Time /\ now >= 1
    /\ cache \in [Parts -> Entry] /\ \A p \in Parts : EntryOK(cache[p], now)
    /\ caller \in [Callers -> Caller]
    /\ \A c \in Callers : CallerOK(caller[c], cache, now)
    /\ \A c, d \in Callers, p \in Parts : Holds(c, p) /\ Holds(d, p) => c = d

-----------------------------------------------------------------------------
(* Records *)

LEMMA EntryFields ==
    ASSUME NEW e \in Entry, e.has
    PROVE  /\ e \in [has : {TRUE}, updated : Time, asOf : Time]
           /\ e.updated \in Time /\ e.asOf \in Time
           /\ e.updated \in Nat /\ e.asOf \in Nat
  <1>1. e # NoEntry
    BY DEF NoEntry
  <1>2. e \in [has : {TRUE}, updated : Time, asOf : Time]
    BY <1>1 DEF Entry
  <1>3. e.updated \in Time /\ e.asOf \in Time
    BY <1>2
  <1>4. e.updated \in Nat /\ e.asOf \in Nat
    BY <1>3 DEF Time
  <1> QED BY <1>2, <1>3, <1>4

LEMMA NoMetaOK ==
    ASSUME NEW p \in Parts, NEW n PROVE MetaOK(p, NoMeta, n)
  <1>1. 0 \in Time
    BY StatusAssumption DEF Time
  <1> QED BY <1>1 DEF MetaOK, NoMeta, Meta

LEMMA IdleOK ==
    ASSUME NEW k, NEW n PROVE CallerOK(Idle, k, n)
  <1>1. 0 \in Time /\ NoMeta \in Meta
    BY StatusAssumption DEF Time, NoMeta, Meta
  <1>2. Idle \in Caller
    BY <1>1 DEF Idle, Caller, Parts, Presences
  <1>3. \A p \in Parts : MetaOK(p, Idle.meta[p], n)
    BY NoMetaOK DEF Idle
  <1> QED BY <1>2, <1>3 DEF CallerOK, LoadOK, PromiseOK, Idle

(* The part taken moves the caller on.                                     *)
TakenBy(r, m) ==
    [r EXCEPT !.pc = IF r.part = "info" THEN "waiting" ELSE "presence",
              !.part = "metrics", !.meta[r.part] = m]

LEMMA TakenOK ==
    ASSUME NEW r, NEW k, NEW k2, NEW n, NEW m, CallerOK(r, k, n),
           r.pc \in {"waiting", "loading"}, MetaOK(r.part, m, n),
           k[r.part].has => m.has = TRUE,
           \A p \in Parts : k[p].has => k2[p].has
    PROVE  CallerOK(TakenBy(r, m), k2, n)
  <1> DEFINE s == TakenBy(r, m)
  <1>1. r \in Caller /\ r.part \in Parts /\ m \in Meta
        /\ r.meta \in [Parts -> Meta]
    BY DEF CallerOK, Caller, MetaOK
  <1>2. /\ s.pc = IF r.part = "info" THEN "waiting" ELSE "presence"
        /\ s.part = "metrics" /\ s.meta = [r.meta EXCEPT ![r.part] = m]
        /\ s.promised = r.promised
    BY <1>1 DEF Caller, TakenBy
  <1>3. s \in Caller
    BY <1>1 DEF Caller, TakenBy, Parts
  <1> HIDE DEF s
  <1>4. s.meta[r.part] = m /\ \A p \in Parts \ {r.part} : s.meta[p] = r.meta[p]
    BY <1>1, <1>2
  <1>5. \A p \in Parts : MetaOK(p, s.meta[p], n)
    <2>1. ASSUME NEW p \in Parts PROVE MetaOK(p, s.meta[p], n)
      <3>1. CASE p = r.part
        BY <1>4, <3>1
      <3>2. CASE p # r.part
        BY <1>4, <3>2 DEF CallerOK
      <3> QED BY <3>1, <3>2
    <2> QED BY <2>1
  <1>6. PromiseOK(s, k2)
    <2>1. ASSUME r.promised = TRUE
          PROVE  /\ \A p \in Parts : k2[p].has
                 /\ s.meta["info"].has = TRUE
                 /\ s.pc = "presence" => s.meta["metrics"].has = TRUE
      <3>1. /\ \A p \in Parts : k[p].has
            /\ r.part = "metrics" => r.meta["info"].has = TRUE
        BY <2>1 DEF CallerOK, PromiseOK
      <3>2. m.has = TRUE
        BY <1>1, <3>1
      <3>3. CASE r.part = "info"
        BY <1>2, <1>4, <3>1, <3>2, <3>3
      <3>4. CASE r.part = "metrics"
        BY <1>2, <1>4, <3>1, <3>2, <3>4 DEF Parts
      <3> QED BY <1>1, <3>3, <3>4 DEF Parts
    <2> QED BY <1>2, <2>1 DEF PromiseOK
  <1>7. CallerOK(s, k2, n)
    BY <1>2, <1>3, <1>5, <1>6 DEF CallerOK, LoadOK
  <1> QED BY <1>7 DEF s

LEMMA TicksOK ==
    ASSUME NEW r, NEW k \in [Parts -> Entry], NEW n \in Nat, CallerOK(r, k, n),
           r.pc = "loading" => n < r.asked + Timeout
    PROVE  CallerOK(r, k, n + 1)
  <1>1. /\ r \in Caller /\ r.asked \in Nat /\ Timeout \in Nat
        /\ r.part \in Parts /\ TTL[r.part] \in Nat
    BY StatusAssumption DEF CallerOK, Caller, Time
  <1>2. LoadOK(r, k, n + 1)
    <2>1. k[r.part].has => k[r.part].updated \in Nat
      BY <1>1, EntryFields
    <2> QED BY <1>1, <2>1 DEF CallerOK, LoadOK
  <1>3. ASSUME NEW p \in Parts PROVE MetaOK(p, r.meta[p], n + 1)
    <2>1. MetaOK(p, r.meta[p], n)
      BY DEF CallerOK
    <2>2. r.meta[p].at \in Nat
      BY <2>1 DEF MetaOK, Meta, Time
    <2> QED BY <2>1, <2>2 DEF MetaOK
  <1> QED BY <1>2, <1>3 DEF CallerOK

-----------------------------------------------------------------------------
(* Steps *)

LEMMA StatusInit == Init => StatusInv
  <1> SUFFICES ASSUME Init PROVE StatusInv
    OBVIOUS
  <1>1. now \in Time /\ now >= 1 /\ 0 \in Time
    BY StatusAssumption DEF Init, Time
  <1>2. cache \in [Parts -> Entry] /\ \A p \in Parts : EntryOK(cache[p], now)
    BY DEF Init, Entry, NoEntry, EntryOK
  <1>3. \A c \in Callers : CallerOK(caller[c], cache, now)
    BY IdleOK DEF Init
  <1>4. caller \in [Callers -> Caller]
    BY <1>3 DEF Init, CallerOK
  <1>5. \A c \in Callers, p \in Parts : ~Holds(c, p)
    BY DEF Init, Idle, Holds
  <1> QED BY <1>1, <1>2, <1>3, <1>4, <1>5 DEF StatusInv

(* A step of c that writes no cache.                                       *)
LEMMA QuietStep ==
    ASSUME StatusInv, NEW c \in Callers, NEW r, CallerOK(r, cache, now),
           caller' = [caller EXCEPT ![c] = r], now' = now, cache' = cache,
           r.pc = "loading" => MutexFree(r.part)
    PROVE  StatusInv'
  <1>1. /\ caller' \in [Callers -> Caller]
        /\ caller'[c] = r
        /\ \A d \in Callers \ {c} : caller'[d] = caller[d]
    BY DEF StatusInv, CallerOK
  <1>2. \A d \in Callers : CallerOK(caller'[d], cache', now')
    BY <1>1 DEF StatusInv
  <1>3. ASSUME NEW d \in Callers, NEW e \in Callers, NEW p \in Parts,
               Holds(d, p)', Holds(e, p)'
        PROVE  d = e
    <2>1. CASE d # c /\ e # c
      BY <1>1, <1>3, <2>1 DEF StatusInv, Holds, Part
    <2>2. CASE d = c /\ e # c
      BY <1>1, <1>3, <2>2 DEF MutexFree, Holds, Part
    <2>3. CASE d # c /\ e = c
      BY <1>1, <1>3, <2>3 DEF MutexFree, Holds, Part
    <2> QED BY <2>1, <2>2, <2>3
  <1> QED BY <1>1, <1>2, <1>3 DEF StatusInv

LEMMA CallKeeps ==
    ASSUME StatusInv, NEW c \in Callers, Call(c) PROVE StatusInv'
  <1> DEFINE r == [Idle EXCEPT !.pc = "waiting",
                               !.promised = \A p \in Parts : cache[p].has]
  <1>1. CallerOK(Idle, cache, now)
    BY IdleOK
  <1>2. /\ r.pc = "waiting" /\ r.part = "info" /\ r.meta = Idle.meta
        /\ r.promised = (\A p \in Parts : cache[p].has)
    BY DEF Idle
  <1>3. r \in Caller
    BY <1>1 DEF CallerOK, Caller
  <1>4. caller' = [caller EXCEPT ![c] = r] /\ now' = now /\ cache' = cache
    BY DEF Call
  <1> HIDE DEF r
  <1>5. CallerOK(r, cache, now)
    BY <1>1, <1>2, <1>3 DEF CallerOK, LoadOK, PromiseOK
  <1> QED BY <1>2, <1>4, <1>5, QuietStep

LEMMA TakesRecord ==
    ASSUME StatusInv, NEW c \in Callers, NEW m, Takes(c, m)
    PROVE  caller' = [caller EXCEPT ![c] = TakenBy(caller[c], m)]
  BY DEF StatusInv, Takes, TakenBy, Part

LEMMA TakenIsNotLoading ==
    ASSUME NEW r \in Caller, NEW m PROVE TakenBy(r, m).pc # "loading"
  BY DEF Caller, TakenBy

LEMMA HitKeeps ==
    ASSUME StatusInv, NEW c \in Callers, Hit(c) PROVE StatusInv'
  <1> DEFINE p == Part(c)
             e == cache[p]
             m == [has |-> TRUE, cached |-> TRUE, stale |-> FALSE,
                   failed |-> FALSE, updated |-> e.updated,
                   asOf |-> e.asOf, at |-> now]
  <1>1. /\ CallerOK(caller[c], cache, now) /\ caller[c] \in Caller
        /\ p \in Parts /\ p = caller[c].part
        /\ caller[c].pc = "waiting"
    BY DEF StatusInv, CallerOK, Caller, Part, Hit
  <1>2. /\ now \in Time /\ e.has /\ now - e.updated < TTL[p]
        /\ e.updated \in Time /\ e.asOf \in Time
        /\ EntryOK(e, now) /\ TTL[p] \in Nat
    BY <1>1, EntryFields, StatusAssumption DEF StatusInv, Hit, Fresh
  <1>3. MetaOK(p, m, now)
    <2>1. m \in Meta
      BY <1>2 DEF Meta
    <2>2. e.updated \in Nat /\ e.asOf \in Nat /\ now \in Nat
      BY <1>2 DEF Time
    <2>3. now - e.asOf < TTL[p]
      BY <1>2, <2>2 DEF EntryOK
    <2> QED BY <1>2, <2>1, <2>2, <2>3 DEF MetaOK, EntryOK
  <1>4. Takes(c, m) /\ now' = now /\ cache' = cache
    BY DEF Hit
  <1>5. m.has = TRUE
    OBVIOUS
  <1> HIDE DEF m
  <1>6. CallerOK(TakenBy(caller[c], m), cache, now)
    BY <1>1, <1>3, <1>5, TakenOK
  <1> QED BY <1>1, <1>4, <1>6, QuietStep, TakesRecord, TakenIsNotLoading

LEMMA LoadKeeps ==
    ASSUME StatusInv, NEW c \in Callers, Load(c) PROVE StatusInv'
  <1> DEFINE r == [caller[c] EXCEPT !.pc = "loading", !.asked = now]
  <1>1. /\ CallerOK(caller[c], cache, now) /\ caller[c] \in Caller
        /\ caller[c].part \in Parts /\ caller[c].pc = "waiting"
        /\ now \in Time /\ now >= 1
    BY DEF StatusInv, CallerOK, Caller, Load
  <1>2. /\ r \in Caller /\ r.pc = "loading" /\ r.asked = now
        /\ r.part = caller[c].part /\ r.meta = caller[c].meta
        /\ r.promised = caller[c].promised
    BY <1>1 DEF Caller
  <1>3. caller' = [caller EXCEPT ![c] = r] /\ now' = now /\ cache' = cache
    BY DEF Load, StatusInv
  <1>4. MutexFree(caller[c].part)
    BY DEF Load, Part
  <1> HIDE DEF r
  <1>5. LoadOK(r, cache, now)
    <2>1. EntryOK(cache[r.part], now)
      BY <1>1, <1>2 DEF StatusInv
    <2>2. now <= now + Timeout /\ now <= now
      BY <1>1, StatusAssumption DEF Time
    <2>3. cache[r.part].has => now - cache[r.part].updated >= TTL[r.part]
      <3>1. ASSUME cache[r.part].has PROVE cache[r.part].updated \in Nat
        BY <2>1, <3>1, EntryFields DEF EntryOK
      <3>2. now \in Nat /\ TTL[r.part] \in Nat
        BY <1>1, <1>2, StatusAssumption DEF Time
      <3> QED BY <1>2, <3>1, <3>2 DEF Load, Fresh, Part
    <2> QED BY <1>1, <1>2, <2>1, <2>2, <2>3 DEF LoadOK, EntryOK
  <1>6. CallerOK(r, cache, now)
    BY <1>1, <1>2, <1>5 DEF CallerOK, PromiseOK
  <1> QED BY <1>2, <1>3, <1>4, <1>6, QuietStep

LEMMA LoadedKeeps ==
    ASSUME StatusInv, NEW c \in Callers, NEW asOf \in caller[c].asked..now,
           Loaded(c, asOf)
    PROVE  /\ StatusInv'
           /\ \A p \in Parts : cache[p].has => cache'[p].asOf >= cache[p].asOf
  <1> DEFINE p == Part(c)
             asked == caller[c].asked
             f == [has |-> TRUE, updated |-> asked, asOf |-> asOf]
             m == [has |-> TRUE, cached |-> FALSE, stale |-> FALSE,
                   failed |-> FALSE, updated |-> asked, asOf |-> asOf,
                   at |-> now]
  <1>1. /\ CallerOK(caller[c], cache, now) /\ caller[c] \in Caller
        /\ p \in Parts /\ p = caller[c].part
        /\ caller[c].pc = "loading" /\ now \in Time
    BY DEF StatusInv, CallerOK, Caller, Part, Loaded
  <1>2. /\ asked \in Nat /\ now \in Nat /\ asOf \in Nat /\ asOf \in Time
        /\ asked >= 1 /\ asked <= asOf /\ asOf <= now
        /\ now <= asked + Timeout /\ asked \in Time
        /\ cache[p].has => cache[p].asOf <= asked
    BY <1>1, StatusAssumption DEF CallerOK, LoadOK, Caller, Time
  <1>3. MetaOK(p, m, now)
    <2>1. m \in Meta
      BY <1>1, <1>2 DEF Meta
    <2>2. now - asOf <= Timeout
      BY <1>2, StatusAssumption
    <2> QED BY <1>2, <2>1, <2>2 DEF MetaOK
  <1>4. /\ cache' = [cache EXCEPT ![p] = f] /\ Takes(c, m) /\ now' = now
    BY DEF Loaded, Stamp
  <1>5. m.has = TRUE /\ f.has /\ f.asOf = asOf /\ EntryOK(f, now) /\ f \in Entry
    BY <1>2 DEF EntryOK, Entry
  <1> HIDE DEF m, f
  <1>6. /\ cache' \in [Parts -> Entry] /\ cache'[p] = f
        /\ \A q \in Parts \ {p} : cache'[q] = cache[q]
    BY <1>1, <1>4, <1>5 DEF StatusInv
  <1>7. \A q \in Parts : cache[q].has => cache'[q].has
    BY <1>5, <1>6
  <1>8. CallerOK(TakenBy(caller[c], m), cache', now)
    BY <1>1, <1>3, <1>5, <1>7, TakenOK
  <1>9. caller' = [caller EXCEPT ![c] = TakenBy(caller[c], m)]
    BY <1>4, TakesRecord
  <1>10. \A d \in Callers \ {c} : caller'[d] = caller[d]
    BY <1>9 DEF StatusInv
  <1>11. ASSUME NEW d \in Callers PROVE CallerOK(caller'[d], cache', now')
    <2>1. CASE d = c
      BY <1>4, <1>8, <1>9, <2>1 DEF StatusInv
    <2>2. CASE d # c
      <3>1. CallerOK(caller[d], cache, now) /\ caller'[d] = caller[d]
        BY <1>10, <2>2 DEF StatusInv
      <3>2. caller[d].pc = "loading" => caller[d].part # p
        BY <1>1, <2>2 DEF StatusInv, Holds, Part
      <3>3. LoadOK(caller[d], cache', now)
        BY <1>6, <3>1, <3>2 DEF CallerOK, LoadOK, Caller
      <3>4. PromiseOK(caller[d], cache')
        BY <1>7, <3>1 DEF CallerOK, PromiseOK
      <3> QED BY <1>4, <3>1, <3>3, <3>4 DEF CallerOK
    <2> QED BY <2>1, <2>2
  <1>12. caller' \in [Callers -> Caller]
    BY <1>9, <1>8 DEF StatusInv, CallerOK
  <1>13. \A q \in Parts : EntryOK(cache'[q], now')
    BY <1>4, <1>5, <1>6 DEF StatusInv
  <1>14. ASSUME NEW d \in Callers, NEW e \in Callers, NEW q \in Parts,
                Holds(d, q)', Holds(e, q)'
         PROVE  d = e
    <2>1. caller'[c].pc # "loading"
      BY <1>1, <1>9, TakenIsNotLoading DEF StatusInv
    <2>2. d # c /\ e # c
      BY <1>14, <2>1 DEF Holds
    <2> QED BY <1>10, <1>14, <2>2 DEF StatusInv, Holds, Part
  <1>15. StatusInv'
    BY <1>4, <1>6, <1>11, <1>12, <1>13, <1>14 DEF StatusInv
  <1>16. \A q \in Parts : cache[q].has => cache'[q].asOf >= cache[q].asOf
    <2>1. ASSUME NEW q \in Parts, cache[q].has
          PROVE  cache'[q].asOf >= cache[q].asOf
      <3>1. cache[q].asOf \in Nat
        BY <2>1, EntryFields DEF StatusInv
      <3>2. CASE q = p
        BY <1>2, <1>5, <1>6, <2>1, <3>1, <3>2
      <3>3. CASE q # p
        BY <1>6, <3>1, <3>3
      <3> QED BY <3>2, <3>3
    <2> QED BY <2>1
  <1> QED BY <1>15, <1>16

LEMMA LoadFailsKeeps ==
    ASSUME StatusInv, NEW c \in Callers, LoadFails(c) PROVE StatusInv'
  <1> DEFINE p == Part(c)
             m == Fallback(p)
  <1>1. /\ CallerOK(caller[c], cache, now) /\ caller[c] \in Caller
        /\ p \in Parts /\ p = caller[c].part
        /\ caller[c].pc = "loading" /\ now \in Time
        /\ EntryOK(cache[p], now)
    BY DEF StatusInv, CallerOK, Caller, Part, LoadFails
  <1>2. MetaOK(p, m, now) /\ (cache[p].has => m.has = TRUE)
    <2>1. CASE cache[p].has
      <3> DEFINE e == cache[p]
      <3>1. e.updated \in Time /\ e.asOf \in Time
        BY <1>1, <2>1, EntryFields DEF EntryOK
      <3>2. /\ m = [has |-> TRUE, cached |-> TRUE, stale |-> TRUE,
                    failed |-> TRUE, updated |-> e.updated,
                    asOf |-> e.asOf, at |-> now]
        BY <2>1 DEF Fallback
      <3>3. m \in Meta
        BY <1>1, <3>1, <3>2 DEF Meta
      <3>4. now <= now
        BY <1>1 DEF Time
      <3> QED BY <1>1, <2>1, <3>2, <3>3, <3>4 DEF MetaOK, EntryOK
    <2>2. CASE ~cache[p].has
      BY <1>1, <2>2, NoMetaOK DEF Fallback
    <2> QED BY <2>1, <2>2
  <1>3. Takes(c, m) /\ now' = now /\ cache' = cache
    BY DEF LoadFails
  <1> HIDE DEF m
  <1>4. CallerOK(TakenBy(caller[c], m), cache, now)
    BY <1>1, <1>2, TakenOK
  <1> QED BY <1>1, <1>3, <1>4, QuietStep, TakesRecord, TakenIsNotLoading

LEMMA PresentKeeps ==
    ASSUME StatusInv, NEW c \in Callers, NEW presence \in Presences,
           Present(c, presence)
    PROVE  StatusInv'
  <1> DEFINE r == [caller[c] EXCEPT !.pc = "answering", !.presence = presence]
  <1>1. /\ CallerOK(caller[c], cache, now) /\ caller[c] \in Caller
        /\ caller[c].pc = "presence"
    BY DEF StatusInv, CallerOK, Present
  <1>2. /\ r \in Caller /\ r.pc = "answering" /\ r.part = caller[c].part
        /\ r.meta = caller[c].meta /\ r.promised = caller[c].promised
    BY <1>1 DEF Caller
  <1>3. caller' = [caller EXCEPT ![c] = r] /\ now' = now /\ cache' = cache
    BY DEF Present, StatusInv
  <1> HIDE DEF r
  <1>4. CallerOK(r, cache, now)
    BY <1>1, <1>2 DEF CallerOK, LoadOK, PromiseOK
  <1> QED BY <1>2, <1>3, <1>4, QuietStep

LEMMA AnswerKeeps ==
    ASSUME StatusInv, NEW c \in Callers, Answer(c) PROVE StatusInv'
  <1>1. CallerOK(Idle, cache, now) /\ Idle.pc = "idle"
    BY IdleOK DEF Idle
  <1> QED BY <1>1, QuietStep DEF Answer

LEMMA TickKeeps == StatusInv /\ Tick => StatusInv'
  <1> SUFFICES ASSUME StatusInv, Tick PROVE StatusInv'
    OBVIOUS
  <1>1. /\ now' = now + 1 /\ cache' = cache /\ caller' = caller
        /\ now \in Nat /\ now >= 1 /\ now < MaxTime
    BY DEF Tick, StatusInv, Time
  <1>2. now' \in Time /\ now' >= 1
    BY <1>1, StatusAssumption DEF Time
  <1>3. ASSUME NEW c \in Callers PROVE CallerOK(caller'[c], cache', now')
    <2>1. /\ CallerOK(caller[c], cache, now)
          /\ caller[c].pc = "loading" => now < caller[c].asked + Timeout
          /\ cache \in [Parts -> Entry]
      BY DEF StatusInv, Tick
    <2> QED BY <1>1, <2>1, TicksOK
  <1>4. ASSUME NEW p \in Parts PROVE EntryOK(cache'[p], now')
    <2>1. EntryOK(cache[p], now)
      BY DEF StatusInv
    <2>2. cache[p].has => cache[p].asOf \in Nat
      BY <2>1, EntryFields DEF EntryOK
    <2> QED BY <1>1, <2>1, <2>2 DEF EntryOK
  <1>5. \A c, d \in Callers, p \in Parts :
          Holds(c, p)' /\ Holds(d, p)' => c = d
    BY <1>1 DEF StatusInv, Holds, Part
  <1> QED BY <1>1, <1>2, <1>3, <1>4, <1>5 DEF StatusInv

LEMMA RestartKeeps == StatusInv /\ Restart => StatusInv'
  <1> SUFFICES ASSUME StatusInv, Restart PROVE StatusInv'
    OBVIOUS
  <1>1. \A c \in Callers : CallerOK(caller'[c], cache', now')
    BY IdleOK DEF Restart
  <1>2. caller' \in [Callers -> Caller]
    BY <1>1 DEF Restart, CallerOK
  <1>3. cache' \in [Parts -> Entry] /\ \A p \in Parts : EntryOK(cache'[p], now')
    BY DEF Restart, Entry, NoEntry, EntryOK
  <1>4. \A c \in Callers, p \in Parts : ~Holds(c, p)'
    BY DEF Restart, Idle, Holds
  <1> QED BY <1>1, <1>2, <1>3, <1>4 DEF StatusInv, Restart

LEMMA StatusStep == StatusInv /\ [Next]_vars => StatusInv'
  <1> SUFFICES ASSUME StatusInv, [Next]_vars PROVE StatusInv'
    OBVIOUS
  <1>1. ASSUME NEW c \in Callers, Call(c) PROVE StatusInv'
    BY <1>1, CallKeeps
  <1>2. ASSUME NEW c \in Callers, Enter(c) PROVE StatusInv'
    BY <1>2, HitKeeps, LoadKeeps DEF Enter
  <1>3. ASSUME NEW c \in Callers, Step(c) PROVE StatusInv'
    BY <1>3, LoadedKeeps, LoadFailsKeeps, PresentKeeps, AnswerKeeps DEF Step
  <1>4. CASE Tick
    BY <1>4, TickKeeps
  <1>5. CASE Restart
    BY <1>5, RestartKeeps
  <1>6. CASE UNCHANGED vars
    BY <1>6 DEF vars, StatusInv, Holds, Part
  <1> QED BY <1>1, <1>2, <1>3, <1>4, <1>5, <1>6 DEF Next

LEMMA StatusAlways == Spec => []StatusInv
  BY StatusInit, StatusStep, PTL DEF Spec

-----------------------------------------------------------------------------

(* Caches and callers keep their shapes, and at most one caller holds the  *)
(* mutex of a cache.                                                       *)
THEOREM TypeCorrect == Spec => []TypeOK
  <1>1. StatusInv => TypeOK
    BY DEF StatusInv, TypeOK
  <1> QED BY <1>1, StatusAlways, PTL

(* The oldest stamp is one of the stamps and not later than any other.     *)
LEMMA UpdatedAtIsLeast ==
    ASSUME NEW c \in Callers, Stamps(c) \subseteq Nat,
           NEW p \in Parts, caller[c].meta[p].has
    PROVE  /\ UpdatedAt(c) \in Stamps(c)
           /\ UpdatedAt(c) <= caller[c].meta[p].updated
  <1> DEFINE S == Stamps(c)
             a == caller[c].meta["info"].updated
             b == caller[c].meta["metrics"].updated
  <1>1. caller[c].meta[p].updated \in S /\ S \subseteq {a, b}
    BY DEF Stamps, Parts
  <1>2. \E s \in S : \A t \in S : s <= t
    <2>1. \A s, t \in S : s \in Nat /\ t \in Nat
      OBVIOUS
    <2>2. CASE a \in S /\ b \in S
      <3>1. a \in Nat /\ b \in Nat
        BY <2>1, <2>2
      <3>2. CASE a <= b
        BY <1>1, <2>2, <3>1, <3>2
      <3>3. CASE b <= a
        BY <1>1, <2>2, <3>1, <3>3
      <3> QED BY <3>1, <3>2, <3>3
    <2>3. CASE ~(a \in S /\ b \in S)
      <3>1. PICK s \in S : s \in {a, b}
        BY <1>1
      <3>2. \A t \in S : t = s
        BY <1>1, <2>3
      <3>3. s <= s
        BY <2>1
      <3> QED BY <3>2, <3>3
    <2> QED BY <2>2, <2>3
  <1>3. S # {}
    BY <1>1
  <1> HIDE DEF S
  <1>4. UpdatedAt(c) = CHOOSE s \in S : \A t \in S : s <= t
    BY <1>3 DEF UpdatedAt, S
  <1>5. UpdatedAt(c) \in S /\ \A t \in S : UpdatedAt(c) <= t
    BY <1>2, <1>4
  <1> QED BY <1>1, <1>5 DEF S

(* A summary is never stamped later than what it shows.                    *)
THEOREM StampsAreHonest == Spec => []StampIsHonest
  <1>1. ASSUME StatusInv, NEW c \in Callers, NEW p \in Parts,
               caller[c].meta[p].has
        PROVE  /\ UpdatedAt(c) # 0
               /\ UpdatedAt(c) <= caller[c].meta[p].asOf
    <2>1. \A q \in Parts : MetaOK(q, caller[c].meta[q], now)
      BY <1>1 DEF StatusInv, CallerOK
    <2>2. \A s \in Stamps(c) : s \in Nat /\ s >= 1
      BY <2>1 DEF Stamps, MetaOK, Meta, Time
    <2>3. /\ UpdatedAt(c) \in Stamps(c)
          /\ UpdatedAt(c) <= caller[c].meta[p].updated
      BY <1>1, <2>2, UpdatedAtIsLeast
    <2>4. /\ caller[c].meta[p].updated <= caller[c].meta[p].asOf
          /\ caller[c].meta[p].updated \in Nat
          /\ caller[c].meta[p].asOf \in Nat
      BY <1>1, <2>1 DEF MetaOK, Meta, Time
    <2> QED BY <2>2, <2>3, <2>4
  <1>2. StatusInv => StampIsHonest
    BY <1>1 DEF StampIsHonest
  <1> QED BY <1>2, StatusAlways, PTL

(* What is shown as neither stale nor failed is recent and complete.       *)
THEOREM LiveAnswersAreRecent == Spec => []LiveIsRecent
  <1>1. ASSUME StatusInv, NEW c \in Callers, ~Stale(c), ~Error(c),
               NEW p \in Parts
        PROVE  /\ caller[c].meta[p].has
               /\ \/ caller[c].meta[p].at - caller[c].meta[p].asOf < TTL[p]
                  \/ caller[c].meta[p].at - caller[c].meta[p].asOf <= Timeout
    <2> DEFINE m == caller[c].meta[p]
    <2>1. MetaOK(p, m, now)
      BY <1>1 DEF StatusInv, CallerOK
    <2>2. m.stale = FALSE /\ m.failed = FALSE
      BY <1>1, <2>1 DEF Stale, Error, MetaOK, Meta
    <2> HIDE DEF m
    <2>3. m.has = TRUE /\ (m.at - m.asOf < TTL[p] \/ m.at - m.asOf <= Timeout)
      BY <2>1, <2>2 DEF MetaOK
    <2> QED BY <2>3 DEF m
  <1>2. StatusInv => LiveIsRecent
    BY <1>1 DEF LiveIsRecent, Available
  <1> QED BY <1>2, StatusAlways, PTL

(* A summary asked for while both caches have a value shows a server.      *)
THEOREM PromisesAreKept == Spec => []OnceAvailable
  <1>1. ASSUME StatusInv, NEW c \in Callers, caller[c].pc = "answering",
               caller[c].promised
        PROVE  Available(c)
    <2>1. /\ CallerOK(caller[c], cache, now) /\ caller[c].part = "metrics"
          /\ caller[c].promised = TRUE
      BY <1>1 DEF StatusInv, CallerOK, Caller
    <2>2. /\ caller[c].meta["info"].has = TRUE
          /\ caller[c].meta["metrics"].has = TRUE
      BY <1>1, <2>1 DEF CallerOK, PromiseOK
    <2> QED BY <2>2 DEF Available, Parts
  <1>2. StatusInv => OnceAvailable
    BY <1>1 DEF OnceAvailable
  <1> QED BY <1>2, StatusAlways, PTL

(* No load puts back an older state of the game server.                    *)
THEOREM ValuesOnlyGoForward == Spec => ValuesGoForward
  <1> DEFINE Forward == \A p \in Parts : cache[p].has /\ cache'[p].has
                          => cache'[p].asOf >= cache[p].asOf
  <1>1. StatusInv /\ [Next]_vars => [Forward]_vars
    <2> SUFFICES ASSUME StatusInv, [Next]_vars PROVE Forward
      OBVIOUS
    <2>1. ASSUME NEW c \in Callers, NEW asOf \in caller[c].asked..now,
                 Loaded(c, asOf)
          PROVE  Forward
      BY <2>1, LoadedKeeps
    <2>2. CASE cache' = cache
      <3>1. \A p \in Parts : cache[p].has => cache[p].asOf \in Nat
        BY EntryFields DEF StatusInv
      <3> QED BY <2>2, <3>1
    <2>3. CASE Restart
      BY <2>3 DEF Restart, NoEntry
    <2> QED BY <2>1, <2>2, <2>3
         DEF Next, Call, Enter, Hit, Load, Step, LoadFails, Present, Answer,
             Tick, vars
  <1>2. Spec => [][Forward]_vars
    BY <1>1, StatusAlways, PTL DEF Spec
  <1>3. [][Forward]_vars <=> ValuesGoForward
    BY DEF ValuesGoForward
  <1> QED BY <1>2, <1>3

-----------------------------------------------------------------------------
(* The gauges                                                              *)

LEMMA ViewerMoves ==
    ASSUME StatusInv, NEW c \in Callers, NEW r,
           caller' = [caller EXCEPT ![c] = r]
    PROVE  Viewers' = [Viewers EXCEPT ![c] = ViewerFor(r)]
  <1>1. \A d \in Callers : caller'[d] = IF d = c THEN r ELSE caller[d]
    BY DEF StatusInv
  <1>2. Viewers' = [d \in Callers |-> ViewerFor(caller'[d])]
    BY DEF Viewers, ViewerFor, SeenAs, Left
  <1>3. [Viewers EXCEPT ![c] = ViewerFor(r)]
          = [d \in Callers |-> IF d = c THEN ViewerFor(r)
                                        ELSE ViewerFor(caller[d])]
    BY DEF Viewers
  <1> QED BY <1>1, <1>2, <1>3

(* A change of a caller that no viewer shows.                              *)
LEMMA ViewerStays ==
    ASSUME StatusInv, NEW c \in Callers, NEW r,
           caller' = [caller EXCEPT ![c] = r],
           ViewerFor(r) = ViewerFor(caller[c])
    PROVE  Viewers' = Viewers
  <1>1. Viewers' = [Viewers EXCEPT ![c] = Viewers[c]]
    BY ViewerMoves DEF Viewers
  <1> QED BY <1>1 DEF Viewers

LEMMA ViewerValue ==
    ASSUME NEW c \in Callers
    PROVE  /\ Viewers[c].stage = IF caller[c].pc = "idle" THEN "away"
                                                         ELSE "viewing"
           /\ Viewers[c].left = Left(caller[c])
           /\ Viewers[c].seen = [p \in Parts |-> SeenAs(caller[c].meta[p])]
  BY DEF Viewers, ViewerFor

LEMMA ReadingsStay == ASSUME cache' = cache PROVE Readings' = Readings
  BY DEF Readings, ReadingOf

LEMMA IdleIsAway == ViewerFor(Idle) = Gauges!Away
  <1>1. \A p \in Parts : SeenAs(Idle.meta[p]) = Gauges!Unseen
    BY DEF Idle, NoMeta, SeenAs, Gauges!Unseen, Gauges!Seen, Gauges!Never,
           Gauges!Reading
  <1>2. Idle.pc = "idle" /\ Left(Idle) = {}
    BY DEF Idle, Left
  <1> QED BY <1>1, <1>2 DEF ViewerFor, Gauges!Away, Gauges!Viewer, Gauges!Parts,
                            Parts

(* Taking a part shows it and leaves the others to be seen.                *)
LEMMA TakenIsSeen ==
    ASSUME NEW r \in Caller, r.pc \in {"waiting", "loading"}, NEW m \in Meta
    PROVE  /\ r.part \in Left(r)
           /\ ViewerFor(TakenBy(r, m))
                = Gauges!Viewer("viewing", Left(r) \ {r.part},
                    [[p \in Parts |-> SeenAs(r.meta[p])]
                       EXCEPT ![r.part] = SeenAs(m)])
  <1> DEFINE s == TakenBy(r, m)
  <1>1. r.part \in Parts /\ r.meta \in [Parts -> Meta]
    BY DEF Caller
  <1>2. /\ s.pc = IF r.part = "info" THEN "waiting" ELSE "presence"
        /\ s.part = "metrics" /\ s.meta = [r.meta EXCEPT ![r.part] = m]
    BY <1>1 DEF Caller, TakenBy
  <1> HIDE DEF s
  <1>3. r.part \in Left(r) /\ Left(s) = Left(r) \ {r.part}
    BY <1>1, <1>2 DEF Left, Parts
  <1>4. [p \in Parts |-> SeenAs(s.meta[p])]
          = [[p \in Parts |-> SeenAs(r.meta[p])] EXCEPT ![r.part] = SeenAs(m)]
    BY <1>1, <1>2
  <1>5. s.pc # "idle"
    BY <1>2
  <1>6. ViewerFor(s) = Gauges!Viewer("viewing", Left(r) \ {r.part},
                         [p \in Parts |-> SeenAs(s.meta[p])])
    BY <1>3, <1>5 DEF ViewerFor, Gauges!Viewer
  <1> QED BY <1>3, <1>4, <1>6 DEF s

LEMMA TakesIsSees ==
    ASSUME StatusInv, NEW c \in Callers, NEW m \in Meta, Takes(c, m),
           caller[c].pc \in {"waiting", "loading"}
    PROVE  Part(c) \in Parts /\ Gauges!Sees(c, Part(c), SeenAs(m))
  <1>1. caller[c] \in Caller /\ caller[c].part \in Parts
    BY DEF StatusInv, Caller
  <1>2. Viewers' = [Viewers EXCEPT ![c] = ViewerFor(TakenBy(caller[c], m))]
    BY TakesRecord, ViewerMoves
  <1>3. /\ Part(c) \in Viewers[c].left
        /\ ViewerFor(TakenBy(caller[c], m))
             = Gauges!Viewer("viewing", Viewers[c].left \ {Part(c)},
                             [Viewers[c].seen EXCEPT ![Part(c)] = SeenAs(m)])
    BY <1>1, TakenIsSeen, ViewerValue DEF Part
  <1> QED BY <1>1, <1>2, <1>3 DEF Part, Gauges!Sees, Gauges!Becomes

LEMMA OldMeta ==
    ASSUME NEW e \in Entry, e.has, NEW n \in Time, NEW old \in BOOLEAN
    PROVE  [has |-> TRUE, cached |-> TRUE, stale |-> old, failed |-> old,
            updated |-> e.updated, asOf |-> e.asOf, at |-> n] \in Meta
  <1>1. e.updated \in Time /\ e.asOf \in Time
    BY EntryFields
  <1> QED BY <1>1 DEF Meta

(* A value of the cache, taken as a hit or after a failure.                *)
LEMMA OldIsRecall ==
    ASSUME StatusInv, NEW c \in Callers, NEW m \in Meta, Takes(c, m),
           caller[c].pc \in {"waiting", "loading"}, cache[Part(c)].has,
           m.has = TRUE, m.updated = cache[Part(c)].updated,
           m.asOf = cache[Part(c)].asOf, m.stale <=> ~Fresh(Part(c)),
           now' = now, cache' = cache
    PROVE  Part(c) \in Parts /\ Gauges!Recall(c, Part(c))
  <1> DEFINE p == Part(c)
  <1>1. p \in Parts /\ Gauges!Sees(c, p, SeenAs(m))
    BY TakesIsSees
  <1>2. EntryOK(cache[p], now)
    BY <1>1 DEF StatusInv
  <1>3. Readings[p] = Gauges!Reading(cache[p].updated, cache[p].asOf)
    BY <1>1 DEF Readings, ReadingOf, Gauges!Reading
  <1>4. Readings[p].stamp = cache[p].updated
    BY <1>3 DEF Gauges!Reading
  <1>5. Readings[p] # Gauges!Never
    BY <1>2, <1>4 DEF EntryOK, Gauges!Never, Gauges!Reading
  <1>6. m.stale <=> ~(now - cache[p].updated < TTL[p])
    BY DEF Fresh
  <1>7. SeenAs(m) = Gauges!Seen(IF m.stale THEN "stale" ELSE "live", Readings[p])
    BY <1>3 DEF SeenAs, Gauges!Seen, Gauges!Reading
  <1>8. SeenAs(m) = Gauges!Seen(IF now - Readings[p].stamp < TTL[p]
                                THEN "live" ELSE "stale", Readings[p])
    BY <1>4, <1>6, <1>7
  <1> QED BY <1>1, <1>5, <1>8, ReadingsStay DEF Gauges!Recall

LEMMA HitIsRecall ==
    ASSUME StatusInv, NEW c \in Callers, Hit(c)
    PROVE  Part(c) \in Parts /\ Gauges!Recall(c, Part(c))
  <1> DEFINE e == cache[Part(c)]
             m == [has |-> TRUE, cached |-> TRUE, stale |-> FALSE,
                   failed |-> FALSE, updated |-> e.updated,
                   asOf |-> e.asOf, at |-> now]
  <1>1. /\ caller[c].pc = "waiting" /\ Takes(c, m) /\ Fresh(Part(c)) /\ e.has
        /\ now' = now /\ cache' = cache
    BY DEF Hit, Fresh
  <1>2. Part(c) \in Parts /\ e \in Entry /\ now \in Time
    BY DEF StatusInv, Caller, Part
  <1>3. m \in Meta
    <2> HIDE DEF e
    <2> QED BY <1>1, <1>2, OldMeta
  <1>4. /\ m.has = TRUE /\ m.updated = e.updated /\ m.asOf = e.asOf
        /\ m.stale <=> ~Fresh(Part(c))
    BY <1>1
  <1> HIDE DEF m
  <1> QED BY <1>1, <1>3, <1>4, OldIsRecall

(* A failed load is still one of an entry too old, or of none.             *)
LEMMA LoadFailsIsRecallOrMiss ==
    ASSUME StatusInv, NEW c \in Callers, LoadFails(c)
    PROVE  Part(c) \in Parts
           /\ (Gauges!Recall(c, Part(c)) \/ Gauges!Miss(c, Part(c)))
  <1> DEFINE e == cache[Part(c)]
             m == Fallback(Part(c))
  <1>1. /\ caller[c].pc = "loading" /\ Takes(c, m)
        /\ now' = now /\ cache' = cache
    BY DEF LoadFails
  <1>2. /\ Part(c) \in Parts /\ e \in Entry /\ now \in Time
        /\ CallerOK(caller[c], cache, now) /\ Part(c) = caller[c].part
    BY DEF StatusInv, CallerOK, Caller, Part
  <1>3. CASE e.has
    <2>1. m = [has |-> TRUE, cached |-> TRUE, stale |-> TRUE, failed |-> TRUE,
               updated |-> e.updated, asOf |-> e.asOf, at |-> now]
      BY <1>3 DEF Fallback
    <2>2. m \in Meta
      <3> HIDE DEF e, m
      <3> QED BY <1>2, <1>3, <2>1, OldMeta
    <2>3. ~Fresh(Part(c))
      <3>1. now - e.updated >= TTL[Part(c)]
        BY <1>1, <1>2, <1>3 DEF CallerOK, LoadOK
      <3>2. now \in Nat /\ TTL[Part(c)] \in Nat
        BY <1>2, StatusAssumption DEF Time
      <3>3. e.updated \in Nat
        <4> HIDE DEF e
        <4> QED BY <1>2, <1>3, EntryFields
      <3> QED BY <3>1, <3>2, <3>3 DEF Fresh
    <2>4. /\ m.has = TRUE /\ m.updated = e.updated /\ m.asOf = e.asOf
          /\ m.stale <=> ~Fresh(Part(c))
      BY <2>1, <2>3
    <2> HIDE DEF m
    <2> QED BY <1>1, <1>3, <2>2, <2>4, OldIsRecall
  <1>4. CASE ~e.has
    <2>1. m = NoMeta /\ Readings[Part(c)] = Gauges!Never
      BY <1>2, <1>4 DEF Fallback, Readings, ReadingOf, Gauges!Never,
                        Gauges!Reading
    <2>2. m \in Meta
      BY <1>2, <2>1, NoMetaOK DEF MetaOK
    <2>3. SeenAs(m) = Gauges!Unseen
      BY <2>1 DEF SeenAs, NoMeta, Gauges!Unseen, Gauges!Seen, Gauges!Never,
                  Gauges!Reading
    <2> HIDE DEF m
    <2>4. Gauges!Sees(c, Part(c), SeenAs(m))
      BY <1>1, <2>2, TakesIsSees
    <2> QED BY <1>1, <1>2, <2>1, <2>3, <2>4, ReadingsStay DEF Gauges!Miss
  <1> QED BY <1>3, <1>4

LEMMA LoadedIsMeasure ==
    ASSUME StatusInv, NEW c \in Callers, NEW asOf \in caller[c].asked..now,
           Loaded(c, asOf)
    PROVE  Part(c) \in Parts /\ Gauges!Looks(c, Part(c))
  <1> DEFINE p == Part(c)
             asked == caller[c].asked
             f == [has |-> TRUE, updated |-> asked, asOf |-> asOf]
             m == [has |-> TRUE, cached |-> FALSE, stale |-> FALSE,
                   failed |-> FALSE, updated |-> asked, asOf |-> asOf,
                   at |-> now]
  <1>1. /\ caller[c].pc = "loading" /\ Takes(c, m) /\ now' = now
        /\ cache' = [cache EXCEPT ![p] = f]
    BY DEF Loaded, Stamp
  <1>2. /\ p \in Parts /\ now \in Time /\ p = caller[c].part
        /\ CallerOK(caller[c], cache, now) /\ EntryOK(cache[p], now)
        /\ asked \in Time
    BY DEF StatusInv, CallerOK, Caller, Part
  <1>3. /\ asked \in Nat /\ now \in Nat /\ asOf \in Nat /\ asOf \in Time
        /\ asked >= 1 /\ asked <= asOf /\ asOf <= now
        /\ now <= asked + Timeout
        /\ cache[p].has => cache[p].asOf <= asked
    BY <1>1, <1>2, StatusAssumption DEF CallerOK, LoadOK, Time
  <1>4. m \in Meta
    BY <1>2, <1>3 DEF Meta
  <1>5. SeenAs(m) = Gauges!Seen("live", Gauges!Reading(asked, asOf))
    BY DEF SeenAs, Gauges!Seen, Gauges!Reading
  <1>6. ReadingOf(f) = Gauges!Reading(asked, asOf)
    BY DEF ReadingOf, Gauges!Reading
  <1> HIDE DEF f, m
  <1>7. Gauges!Sees(c, p, SeenAs(m))
    BY <1>1, <1>4, TakesIsSees
  <1>8. Readings' = [Readings EXCEPT ![p] = Gauges!Reading(asked, asOf)]
    <2>1. Readings' = [q \in Parts |-> ReadingOf(cache'[q])]
      BY DEF Readings, ReadingOf
    <2>2. \A q \in Parts : cache'[q] = IF q = p THEN f ELSE cache[q]
      BY <1>1 DEF StatusInv
    <2> QED BY <1>6, <2>1, <2>2 DEF Readings
  <1>9. Readings[p].asOf <= asOf
    <2>1. Readings[p] = ReadingOf(cache[p])
      BY <1>2 DEF Readings
    <2>2. CASE cache[p].has
      <3>1. cache[p].asOf \in Nat
        BY <1>2, <2>2, EntryFields DEF EntryOK
      <3> QED BY <1>3, <2>1, <2>2, <3>1 DEF ReadingOf
    <2>3. CASE ~cache[p].has
      BY <1>3, <2>1, <2>3 DEF ReadingOf
    <2> QED BY <2>2, <2>3
  <1>10. Gauges!Measure(c, p, asked, asOf)
    BY <1>1, <1>3, <1>5, <1>7, <1>8, <1>9 DEF Gauges!Measure
  <1> QED BY <1>2, <1>3, <1>10 DEF Gauges!Looks

LEMMA CallIsEnter ==
    ASSUME StatusInv, NEW c \in Callers, Call(c) PROVE Gauges!Enter(c)
  <1> DEFINE promised == \A p \in Parts : cache[p].has
             r == [Idle EXCEPT !.pc = "waiting", !.promised = promised]
  <1>1. caller[c].pc = "idle" /\ caller' = [caller EXCEPT ![c] = r]
        /\ now' = now /\ cache' = cache
    BY DEF Call
  <1>2. r.pc = "waiting" /\ r.part = "info" /\ r.meta = Idle.meta
    BY DEF Idle
  <1> HIDE DEF r
  <1>3. ViewerFor(r) = Gauges!Come
    <2>1. \A p \in Parts : SeenAs(r.meta[p]) = Gauges!Unseen
      BY <1>2 DEF Idle, NoMeta, SeenAs, Gauges!Unseen, Gauges!Seen,
                  Gauges!Never, Gauges!Reading
    <2>2. Left(r) = Parts
      BY <1>2 DEF Left
    <2> QED BY <1>2, <2>1, <2>2 DEF ViewerFor, Gauges!Come, Gauges!Viewer,
                                    Gauges!Parts, Parts
  <1>4. Viewers' = [Viewers EXCEPT ![c] = Gauges!Come]
    BY <1>1, <1>3, ViewerMoves
  <1>5. Viewers[c].stage = "away"
    BY <1>1, ViewerValue
  <1> QED BY <1>1, <1>4, <1>5, ReadingsStay DEF Gauges!Enter, Gauges!Becomes

LEMMA AnswerIsLeave ==
    ASSUME StatusInv, NEW c \in Callers, Answer(c) PROVE Gauges!Leave(c)
  <1>1. caller[c].pc = "answering" /\ caller' = [caller EXCEPT ![c] = Idle]
        /\ now' = now /\ cache' = cache
    BY DEF Answer
  <1>2. Viewers' = [Viewers EXCEPT ![c] = Gauges!Away]
    BY <1>1, ViewerMoves, IdleIsAway
  <1>3. Viewers[c].stage = "viewing" /\ Viewers[c].left = {}
    BY <1>1, ViewerValue DEF Left
  <1> QED BY <1>1, <1>2, <1>3, ReadingsStay DEF Gauges!Leave, Gauges!Becomes

(* Going to the game server is not seen, nor is what the roster adds.      *)
LEMMA LoadIsNotSeen ==
    ASSUME StatusInv, NEW c \in Callers, Load(c)
    PROVE  UNCHANGED Gauges!gvars
  <1> DEFINE r == [caller[c] EXCEPT !.pc = "loading", !.asked = now]
  <1>1. caller[c].pc = "waiting" /\ now' = now /\ cache' = cache
        /\ caller' = [caller EXCEPT ![c] = r]
    BY DEF Load, StatusInv
  <1>2. /\ r.pc = "loading" /\ r.part = caller[c].part
        /\ r.meta = caller[c].meta
    BY DEF StatusInv, Caller
  <1> HIDE DEF r
  <1>3. ViewerFor(r) = ViewerFor(caller[c])
    BY <1>1, <1>2 DEF ViewerFor, Left
  <1> QED BY <1>1, <1>3, ViewerStays, ReadingsStay DEF Gauges!gvars

LEMMA PresentIsNotSeen ==
    ASSUME StatusInv, NEW c \in Callers, NEW presence \in Presences,
           Present(c, presence)
    PROVE  UNCHANGED Gauges!gvars
  <1> DEFINE r == [caller[c] EXCEPT !.pc = "answering", !.presence = presence]
  <1>1. caller[c].pc = "presence" /\ now' = now /\ cache' = cache
        /\ caller' = [caller EXCEPT ![c] = r]
    BY DEF Present, StatusInv
  <1>2. r.pc = "answering" /\ r.meta = caller[c].meta
    BY DEF StatusInv, Caller
  <1> HIDE DEF r
  <1>3. ViewerFor(r) = ViewerFor(caller[c])
    BY <1>1, <1>2 DEF ViewerFor, Left
  <1> QED BY <1>1, <1>3, ViewerStays, ReadingsStay DEF Gauges!gvars

LEMMA GaugesInit == Init => Gauges!Init
  <1> SUFFICES ASSUME Init PROVE Gauges!Init
    OBVIOUS
  <1>1. Readings = [p \in Gauges!Parts |-> Gauges!Never]
    BY DEF Init, Readings, ReadingOf, NoEntry, Gauges!Parts, Parts,
           Gauges!Never, Gauges!Reading
  <1>2. Viewers = [c \in Callers |-> Gauges!Away]
    BY IdleIsAway DEF Init, Viewers
  <1> QED BY <1>1, <1>2 DEF Init, Gauges!Init

LEMMA GaugesStep ==
    StatusInv /\ [Next]_vars => [Gauges!Next]_(Gauges!gvars)
  <1> SUFFICES ASSUME StatusInv, [Next]_vars
               PROVE  Gauges!Next \/ UNCHANGED Gauges!gvars
    OBVIOUS
  <1>1. ASSUME NEW c \in Callers, Call(c) PROVE Gauges!Next
    BY <1>1, CallIsEnter DEF Gauges!Next
  <1>2. ASSUME NEW c \in Callers, Hit(c) PROVE Gauges!Next
    BY <1>2, HitIsRecall DEF Gauges!Next, Gauges!Looks, Gauges!Parts, Parts
  <1>3. ASSUME NEW c \in Callers, Load(c) PROVE UNCHANGED Gauges!gvars
    BY <1>3, LoadIsNotSeen
  <1>4. ASSUME NEW c \in Callers, NEW asOf \in caller[c].asked..now,
               Loaded(c, asOf)
        PROVE  Gauges!Next
    BY <1>4, LoadedIsMeasure DEF Gauges!Next, Gauges!Parts, Parts
  <1>5. ASSUME NEW c \in Callers, LoadFails(c) PROVE Gauges!Next
    BY <1>5, LoadFailsIsRecallOrMiss
       DEF Gauges!Next, Gauges!Looks, Gauges!Parts, Parts
  <1>6. ASSUME NEW c \in Callers, NEW presence \in Presences,
               Present(c, presence)
        PROVE  UNCHANGED Gauges!gvars
    BY <1>6, PresentIsNotSeen
  <1>7. ASSUME NEW c \in Callers, Answer(c) PROVE Gauges!Next
    BY <1>7, AnswerIsLeave DEF Gauges!Next
  <1>8. CASE Tick
    <2>1. Readings' = Readings /\ Viewers' = Viewers /\ now' = now + 1
      BY <1>8, ReadingsStay DEF Tick, Viewers, ViewerFor, SeenAs, Left
    <2> QED BY <2>1 DEF Gauges!Next, Gauges!Tick
  <1>9. CASE Restart
    <2>1. Readings' = [p \in Gauges!Parts |-> Gauges!Never]
      BY <1>9 DEF Restart, Readings, ReadingOf, NoEntry, Gauges!Parts, Parts,
                  Gauges!Never, Gauges!Reading
    <2>2. Viewers' = [c \in Callers |-> Gauges!Away]
      BY <1>9, IdleIsAway DEF Restart, Viewers
    <2> QED BY <1>9, <2>1, <2>2 DEF Restart, Gauges!Next, Gauges!Restart
  <1>10. CASE UNCHANGED vars
    BY <1>10, ReadingsStay
       DEF vars, Gauges!gvars, Viewers, ViewerFor, SeenAs, Left
  <1> QED BY <1>1, <1>2, <1>3, <1>4, <1>5, <1>6, <1>7, <1>8, <1>9, <1>10
          DEF Next, Enter, Step

(* StatusCache implements Gauges: behind two mutexes, slow and failing     *)
(* loads, what each caller is shown is a reading made or recalled in one   *)
(* step, and stale only if it is too old by then (GaugesSpec).             *)
THEOREM CachesImplementGauges == Spec => GaugesSpec
  <1>1. Init => Gauges!Init
    BY GaugesInit
  <1>2. StatusInv /\ [Next]_vars => [Gauges!Next]_(Gauges!gvars)
    BY GaugesStep
  <1> QED BY <1>1, <1>2, StatusAlways, PTL DEF Spec, GaugesSpec, Gauges!Spec

=============================================================================
