-------------------------- MODULE MigrationsProofs --------------------------
(***************************************************************************)
(* Proofs about Migrations, for any number of processes, versions and      *)
(* binaries.                                                               *)
(***************************************************************************)
EXTENDS Migrations, TLAPS

(* A process r on tables t: what it has skipped or applied is there, and   *)
(* nothing newer than its binary.                                          *)
ProcOK(r, t) ==
    /\ r \in Process
    /\ r.pc = "reading" => r.next = 1
    /\ r.pc \in {"checking", "applying", "committing", "verifying"}
         => r.next - 1 <= t /\ t <= r.code /\ r.next <= r.code + 1
    /\ r.pc \in {"applying", "committing", "verifying"} => r.next <= r.code
    /\ r.pc = "committing" => t = r.next - 1
    /\ r.pc = "verifying" => r.next <= t
    /\ r.pc = "serving" => t = r.code
    /\ r.pc \notin {"applying", "committing"} => r.keys = TRUE

Active(r) == r.pc \notin {"down", "refused"}

HistoryOK ==
    /\ applied \in [Versions -> Nat]
    /\ \A v \in Versions : applied[v] <= 1 /\ (v > tables => applied[v] = 0)

MigInv ==
    /\ tables \in 0..Latest /\ recorded = 1..tables /\ dangling \in BOOLEAN
    /\ HistoryOK
    /\ proc \in [Processes -> Process]
    /\ \A p \in Processes : ProcOK(proc[p], tables)
    /\ \A p, q \in Processes :
         Active(proc[p]) /\ Active(proc[q]) => proc[p].code = proc[q].code
    /\ \A p, q \in Processes :
         proc[p].pc = "committing" /\ proc[q].pc = "committing" => p = q

LEMMA DownOK == \A t : ProcOK(Down, t)
  <1>1. Down \in Process
    BY MigrationsAssumption DEF Down, Process, Versions
  <1> QED BY <1>1 DEF ProcOK, Down

LEMMA MigInit == Init => MigInv
  <1> SUFFICES ASSUME Init PROVE MigInv
    OBVIOUS
  <1>1. \A p \in Processes : ProcOK(proc[p], tables) /\ proc[p].pc = "down"
    BY DownOK DEF Init, Down
  <1>2. proc \in [Processes -> Process]
    BY <1>1 DEF Init, ProcOK
  <1>3. HistoryOK
    BY DEF Init, HistoryOK
  <1> QED BY <1>1, <1>2, <1>3 DEF Init, MigInv, Active

(* A step that leaves the file alone: p becomes r, running no other binary *)
(* than the others.                                                        *)
LEMMA QuietStep ==
    ASSUME MigInv, NEW p \in Processes, NEW r, ProcOK(r, tables),
           proc' = [proc EXCEPT ![p] = r],
           UNCHANGED <<recorded, tables, dangling, applied>>,
           Active(r) => \A q \in Processes \ {p} :
                          Active(proc[q]) => proc[q].code = r.code,
           r.pc = "committing" => \A q \in Processes \ {p} :
                                    proc[q].pc # "committing"
    PROVE  MigInv'
  <1>1. /\ proc' \in [Processes -> Process] /\ proc'[p] = r
        /\ \A q \in Processes \ {p} : proc'[q] = proc[q]
    BY DEF MigInv, ProcOK
  <1>2. \A q \in Processes : ProcOK(proc'[q], tables')
    BY <1>1 DEF MigInv
  <1>3. \A q, s \in Processes :
          Active(proc'[q]) /\ Active(proc'[s]) => proc'[q].code = proc'[s].code
    BY <1>1 DEF MigInv
  <1>4. \A q, s \in Processes :
          proc'[q].pc = "committing" /\ proc'[s].pc = "committing" => q = s
    BY <1>1 DEF MigInv
  <1> QED BY <1>1, <1>2, <1>3, <1>4 DEF MigInv, HistoryOK

(* A running process that goes on with the same binary.                    *)
LEMMA OwnStep ==
    ASSUME MigInv, NEW p \in Processes, NEW r, ProcOK(r, tables),
           proc' = [proc EXCEPT ![p] = r],
           UNCHANGED <<recorded, tables, dangling, applied>>,
           Running(p), r.code = proc[p].code,
           r.pc = "committing" => WriteLockFree
    PROVE  MigInv'
  <1>1. \A q \in Processes : Active(proc[q]) => proc[q].code = r.code
    BY DEF MigInv, Running, Active
  <1>2. r.pc = "committing"
          => \A q \in Processes \ {p} : proc[q].pc # "committing"
    BY DEF WriteLockFree, InTransaction
  <1> QED BY <1>1, <1>2, QuietStep

LEMMA StartKeeps ==
    ASSUME MigInv, NEW p \in Processes, NEW code \in Binaries, Start(p, code)
    PROVE  MigInv'
  <1> DEFINE r == [Down EXCEPT !.pc = "reading", !.code = code]
  <1>0. code \in Versions /\ Down \in Process
    BY DownOK, MigrationsAssumption DEF ProcOK, Versions
  <1>1. /\ r \in Process /\ r.pc = "reading" /\ r.code = code /\ r.keys = TRUE
        /\ r.next = 1
    <2>1. Down.next = 1 /\ Down.keys = TRUE
      BY DEF Down
    <2>2. /\ r \in Process /\ r.pc = "reading" /\ r.code = code
          /\ r.next = Down.next /\ r.keys = Down.keys
      BY <1>0 DEF Process
    <2> QED BY <2>1, <2>2
  <1>2. proc' = [proc EXCEPT ![p] = r]
        /\ UNCHANGED <<recorded, tables, dangling, applied>>
    BY DEF Start
  <1>3. \A q \in Processes \ {p} : Active(proc[q]) => proc[q].code = code
    BY DEF Start, Running, Active
  <1> HIDE DEF r
  <1>4. ProcOK(r, tables)
    BY <1>1 DEF ProcOK
  <1> QED BY <1>1, <1>2, <1>3, <1>4, QuietStep

LEMMA CurrentProc ==
    ASSUME MigInv, NEW p \in Processes
    PROVE  /\ proc[p] \in Process /\ ProcOK(proc[p], tables)
           /\ proc[p].code \in Nat /\ proc[p].next \in Nat
           /\ proc[p].next >= 1 /\ tables \in Nat /\ Latest \in Nat
           /\ proc[p].code <= Latest
  BY MigrationsAssumption DEF MigInv, ProcOK, Process, Versions

(* The stage, the migration and the keys of a process change.              *)
LEMMA Becomes ==
    ASSUME NEW r0 \in Process,
           NEW pc \in {"down", "reading", "checking", "applying", "committing",
                       "verifying", "serving", "refused"},
           NEW n \in 1..(Latest + 1), NEW k \in BOOLEAN
    PROVE  LET r == [r0 EXCEPT !.pc = pc, !.next = n, !.keys = k]
           IN  /\ r \in Process /\ r.pc = pc /\ r.next = n /\ r.keys = k
               /\ r.code = r0.code
  BY DEF Process

LEMMA LoopKeeps ==
    ASSUME MigInv, NEW p \in Processes,
           ReadHighest(p) \/ Skip(p) \/ Prepare(p) \/ Serve(p)
    PROVE  MigInv'
  <1> DEFINE r0 == proc[p]
  <1>1. /\ r0 \in Process /\ ProcOK(r0, tables)
        /\ r0.code \in Nat /\ r0.next \in Nat /\ r0.next >= 1
        /\ tables \in Nat /\ Latest \in Nat /\ r0.code <= Latest
        /\ recorded = 1..tables
    BY CurrentProc DEF MigInv
  <1>2. CASE ReadHighest(p)
    <2> DEFINE r == [r0 EXCEPT !.pc = "checking"]
    <2>1. /\ r \in Process /\ r.pc = "checking" /\ r.next = r0.next
          /\ r.keys = r0.keys /\ r.code = r0.code
      BY <1>1 DEF Process
    <2>2. proc' = [proc EXCEPT ![p] = r] /\ Running(p) /\ r0.keys = TRUE
          /\ UNCHANGED <<recorded, tables, dangling, applied>>
      BY <1>1, <1>2 DEF ReadHighest, Goes, MigInv, Running, ProcOK
    <2>3. tables <= r0.code
      BY <1>1, <1>2 DEF ReadHighest, Supports
    <2>4. r0.next = 1
      BY <1>1, <1>2 DEF ReadHighest, ProcOK
    <2> HIDE DEF r
    <2>5. ProcOK(r, tables)
      BY <1>1, <2>1, <2>2, <2>3, <2>4 DEF ProcOK
    <2> QED BY <2>1, <2>2, <2>5, OwnStep
  <1>3. CASE Skip(p)
    <2> DEFINE r == [r0 EXCEPT !.next = @ + 1]
    <2>1. r0.pc = "checking" /\ r0.next <= tables /\ r0.next <= r0.code
      BY <1>1, <1>3 DEF Skip
    <2>2. r0.next + 1 \in 1..(Latest + 1)
      BY <1>1, <2>1
    <2>3. /\ r \in Process /\ r.pc = "checking" /\ r.next = r0.next + 1
          /\ r.keys = r0.keys /\ r.code = r0.code
      BY <1>1, <2>1, <2>2 DEF Process
    <2>4. proc' = [proc EXCEPT ![p] = r] /\ Running(p)
          /\ UNCHANGED <<recorded, tables, dangling, applied>>
      BY <1>3 DEF Skip, MigInv, Running
    <2> HIDE DEF r
    <2>5. ProcOK(r, tables)
      BY <1>1, <2>1, <2>3 DEF ProcOK
    <2> QED BY <2>3, <2>4, <2>5, OwnStep
  <1>4. CASE Prepare(p)
    <2> DEFINE r == [r0 EXCEPT !.pc = "applying",
                               !.keys = ~RebuildsUsers(r0.next)]
    <2>1. /\ r \in Process /\ r.pc = "applying" /\ r.next = r0.next
          /\ r.code = r0.code
      BY <1>1 DEF Process, RebuildsUsers
    <2>2. proc' = [proc EXCEPT ![p] = r] /\ Running(p)
          /\ UNCHANGED <<recorded, tables, dangling, applied>>
      BY <1>4 DEF Prepare, MigInv, Running
    <2>3. r0.pc = "checking" /\ r0.next <= r0.code
      BY <1>4 DEF Prepare
    <2> HIDE DEF r
    <2>4. ProcOK(r, tables)
      BY <1>1, <2>1, <2>3 DEF ProcOK
    <2> QED BY <2>1, <2>2, <2>4, OwnStep
  <1>5. CASE Serve(p)
    <2> DEFINE r == [r0 EXCEPT !.pc = "serving"]
    <2>1. /\ r \in Process /\ r.pc = "serving" /\ r.next = r0.next
          /\ r.keys = r0.keys /\ r.code = r0.code
      BY <1>1 DEF Process
    <2>2. proc' = [proc EXCEPT ![p] = r] /\ Running(p)
          /\ UNCHANGED <<recorded, tables, dangling, applied>>
      BY <1>5 DEF Serve, Goes, MigInv, Running
    <2>3. r0.pc = "checking" /\ r0.next > r0.code
      BY <1>5 DEF Serve
    <2>4. tables = r0.code
      BY <1>1, <2>3 DEF ProcOK
    <2> HIDE DEF r
    <2>5. ProcOK(r, tables)
      BY <1>1, <2>1, <2>3, <2>4 DEF ProcOK
    <2> QED BY <2>1, <2>2, <2>5, OwnStep
  <1> QED BY <1>2, <1>3, <1>4, <1>5

LEMMA ApplyKeeps ==
    ASSUME MigInv, NEW p \in Processes, Apply(p)
    PROVE  MigInv'
  <1> DEFINE r0 == proc[p]
             r == [r0 EXCEPT !.pc = "committing"]
  <1>1. /\ r0 \in Process /\ ProcOK(r0, tables)
        /\ r0.code \in Nat /\ r0.next \in Nat /\ tables \in Nat
    BY CurrentProc
  <1>2. /\ r \in Process /\ r.pc = "committing" /\ r.next = r0.next
        /\ r.code = r0.code
    BY <1>1 DEF Process
  <1>3. /\ proc' = [proc EXCEPT ![p] = r] /\ Running(p) /\ WriteLockFree
        /\ UNCHANGED <<recorded, tables, dangling, applied>>
        /\ r0.pc = "applying" /\ tables = r0.next - 1
    BY DEF Apply, Goes, Applies, MigInv, Running
  <1> HIDE DEF r
  <1>4. ProcOK(r, tables)
    BY <1>1, <1>2, <1>3 DEF ProcOK
  <1> QED BY <1>2, <1>3, <1>4, OwnStep

(* A refusal, by whichever way.                                            *)
LEMMA RefusalKeeps ==
    ASSUME MigInv, NEW p \in Processes,
           RefuseNewer(p) \/ ApplyFails(p) \/ Busy(p) \/ Fail(p)
             \/ (Verify(p) /\ dangling)
    PROVE  MigInv'
  <1> DEFINE r0 == proc[p]
             r == [r0 EXCEPT !.pc = "refused", !.keys = TRUE]
             s == [r0 EXCEPT !.pc = "refused"]
  <1>1. r0 \in Process /\ ProcOK(r0, tables)
    BY CurrentProc
  <1>2. r \in Process /\ r.pc = "refused" /\ r.keys = TRUE /\ r.code = r0.code
        /\ s \in Process /\ s.pc = "refused" /\ s.keys = r0.keys
        /\ s.code = r0.code
    BY <1>1 DEF Process
  <1>3. /\ UNCHANGED <<recorded, tables, dangling, applied>>
        /\ Running(p)
        /\ \/ proc' = [proc EXCEPT ![p] = r]
           \/ proc' = [proc EXCEPT ![p] = s] /\ r0.keys = TRUE
    BY <1>1 DEF RefuseNewer, ApplyFails, Busy, Fail, Verify, Goes, Running,
                MigInv, ProcOK
  <1> HIDE DEF r, s
  <1>4. ProcOK(r, tables) /\ (r0.keys = TRUE => ProcOK(s, tables))
    BY <1>2 DEF ProcOK
  <1> QED BY <1>2, <1>3, <1>4, OwnStep

LEMMA VerifyKeeps ==
    ASSUME MigInv, NEW p \in Processes, Verify(p)
    PROVE  MigInv'
  <1> DEFINE r0 == proc[p]
             r == [r0 EXCEPT !.pc = "checking", !.next = @ + 1]
  <1>1. CASE dangling
    BY <1>1, RefusalKeeps
  <1>2. CASE ~dangling
    <2>1. /\ r0 \in Process /\ ProcOK(r0, tables)
          /\ r0.code \in Nat /\ r0.next \in Nat /\ r0.next >= 1
          /\ tables \in Nat /\ Latest \in Nat /\ r0.code <= Latest
          /\ r0.pc = "verifying"
      BY CurrentProc DEF Verify
    <2>2. r0.next <= tables /\ r0.next <= r0.code
          /\ r0.next + 1 \in 1..(Latest + 1)
      BY <2>1 DEF ProcOK
    <2>3. /\ r \in Process /\ r.pc = "checking" /\ r.next = r0.next + 1
          /\ r.keys = r0.keys /\ r.code = r0.code
      BY <2>1, <2>2 DEF Process
    <2>4. proc' = [proc EXCEPT ![p] = r] /\ Running(p)
          /\ UNCHANGED <<recorded, tables, dangling, applied>>
      BY <1>2 DEF Verify, MigInv, Running
    <2> HIDE DEF r
    <2>5. ProcOK(r, tables)
      BY <2>1, <2>2, <2>3 DEF ProcOK
    <2> QED BY <2>3, <2>4, <2>5, OwnStep
  <1> QED BY <1>1, <1>2

LEMMA CommitKeeps ==
    ASSUME MigInv, NEW p \in Processes, Commit(p)
    PROVE  MigInv'
  <1> DEFINE r0 == proc[p]
             stage == IF RebuildsUsers(r0.next) THEN "verifying"
                                                ELSE "checking"
             n == IF RebuildsUsers(r0.next) THEN r0.next ELSE r0.next + 1
             r == [r0 EXCEPT !.pc = stage, !.next = n, !.keys = TRUE]
  <1>1. /\ r0 \in Process /\ ProcOK(r0, tables)
        /\ r0.code \in Nat /\ r0.next \in Nat /\ r0.next >= 1
        /\ tables \in Nat /\ Latest \in Nat /\ r0.code <= Latest
        /\ r0.pc = "committing"
    BY CurrentProc DEF Commit
  <1>2. tables = r0.next - 1 /\ r0.next <= r0.code
    BY <1>1 DEF ProcOK
  <1>3. n \in 1..(Latest + 1)
    BY <1>1, <1>2
  <1>4. /\ r \in Process /\ r.pc = stage /\ r.next = n
        /\ r.keys = TRUE /\ r.code = r0.code
    BY <1>1, <1>3 DEF Process
  <1>5. /\ tables' = tables + 1 /\ tables' = r0.next /\ dangling' = dangling
        /\ recorded' = recorded \cup {r0.next}
        /\ applied' = [applied EXCEPT ![r0.next] = @ + 1]
    BY <1>1, <1>2 DEF Commit
  <1>6. proc' = [proc EXCEPT ![p] = r]
    BY DEF Commit, KeysRestored, MigInv
  <1>7. \/ stage = "verifying" /\ n = r0.next
        \/ stage = "checking" /\ n = r0.next + 1
    OBVIOUS
  <1> HIDE DEF r, n, stage
  <1>8. ProcOK(r, tables')
    BY <1>1, <1>2, <1>4, <1>5, <1>7 DEF ProcOK
  <1>9. /\ proc' \in [Processes -> Process] /\ proc'[p] = r
        /\ \A q \in Processes \ {p} : proc'[q] = proc[q]
    BY <1>4, <1>6 DEF MigInv
  <1>10. ASSUME NEW q \in Processes \ {p} PROVE ProcOK(proc'[q], tables')
    <2>1. /\ ProcOK(proc[q], tables) /\ proc[q].pc # "committing"
          /\ proc[q].code \in Nat /\ proc[q].next \in Nat
          /\ Active(proc[q]) => proc[q].code = r0.code
      BY <1>1, CurrentProc DEF MigInv, Active
    <2>2. proc[q].pc # "serving"
      BY <1>1, <1>2, <2>1 DEF ProcOK, Active
    <2>3. ProcOK(proc[q], tables')
      BY <1>1, <1>2, <1>5, <2>1, <2>2 DEF ProcOK, Active
    <2> QED BY <1>9, <2>3
  <1>11. tables' \in 0..Latest /\ recorded' = 1..tables'
    BY <1>1, <1>2, <1>5 DEF MigInv
  <1>12. HistoryOK'
    <2>1. r0.next \in Versions /\ applied[r0.next] = 0
          /\ applied \in [Versions -> Nat]
      BY <1>1, <1>2 DEF MigInv, HistoryOK, Versions
    <2>2. applied' \in [Versions -> Nat] /\ applied'[r0.next] = 1
          /\ \A v \in Versions \ {r0.next} : applied'[v] = applied[v]
      BY <1>5, <2>1
    <2>3. \A v \in Versions : v > tables' => v > tables /\ v # r0.next
      BY <1>1, <1>5 DEF Versions
    <2> QED BY <2>1, <2>2, <2>3 DEF MigInv, HistoryOK
  <1>13. \A q, s \in Processes :
           Active(proc'[q]) /\ Active(proc'[s])
             => proc'[q].code = proc'[s].code
    BY <1>1, <1>4, <1>9 DEF MigInv, Active
  <1>14. \A q, s \in Processes :
           proc'[q].pc = "committing" /\ proc'[s].pc = "committing" => q = s
    BY <1>9, <1>4, <1>7 DEF MigInv
  <1> QED BY <1>5, <1>8, <1>9, <1>10, <1>11, <1>12, <1>13, <1>14 DEF MigInv

LEMMA ExitKeeps ==
    ASSUME MigInv, NEW p \in Processes, Exit(p) PROVE MigInv'
  <1>1. ~Active(Down) /\ Down.pc # "committing" /\ ProcOK(Down, tables)
    BY DownOK DEF Active, Down
  <1> QED BY <1>1, QuietStep DEF Exit

LEMMA MigStep == MigInv /\ [Next]_vars => MigInv'
  <1> SUFFICES ASSUME MigInv, [Next]_vars PROVE MigInv'
    OBVIOUS
  <1>1. ASSUME NEW p \in Processes, NEW code \in Binaries, Start(p, code)
        PROVE  MigInv'
    BY <1>1, StartKeeps
  <1>2. ASSUME NEW p \in Processes, Step(p) PROVE MigInv'
    BY <1>2, LoopKeeps, ApplyKeeps, RefusalKeeps, CommitKeeps, VerifyKeeps
       DEF Step
  <1>3. ASSUME NEW p \in Processes, Fail(p) PROVE MigInv'
    BY <1>3, RefusalKeeps
  <1>4. ASSUME NEW p \in Processes, Exit(p) PROVE MigInv'
    BY <1>4, ExitKeeps
  <1>5. CASE UNCHANGED vars
    BY <1>5 DEF vars, MigInv, HistoryOK
  <1> QED BY <1>1, <1>2, <1>3, <1>4, <1>5 DEF Next

LEMMA MigAlways == Spec => []MigInv
  BY MigInit, MigStep, PTL DEF Spec

-----------------------------------------------------------------------------

(* File and processes keep their shapes, and transactions are alone.       *)
THEOREM TypeCorrect == Spec => []TypeOK
  <1>1. MigInv => TypeOK
    BY MigrationsAssumption
       DEF MigInv, HistoryOK, TypeOK, Versions, InTransaction
  <1> QED BY <1>1, MigAlways, PTL

(* The versions on record are always those of the tables.                  *)
THEOREM RecordAlwaysTellsTables == Spec => []RecordTellsTables
  <1>1. MigInv => RecordTellsTables
    BY DEF MigInv, RecordTellsTables
  <1> QED BY <1>1, MigAlways, PTL

(* No migration takes effect twice.                                        *)
THEOREM NeverAppliedTwice == Spec => []AppliedOnce
  <1>1. MigInv => AppliedOnce
    BY DEF MigInv, HistoryOK, AppliedOnce
  <1> QED BY <1>1, MigAlways, PTL

(* Who serves, serves the schema of its binary with foreign keys on.       *)
THEOREM ServersServeTheirSchema == Spec => []ServesItsSchema
  <1>1. MigInv => ServesItsSchema
    BY DEF MigInv, ProcOK, ServesItsSchema
  <1> QED BY <1>1, MigAlways, PTL

-----------------------------------------------------------------------------
(* Migrations implements Schema *)

served == [p \in Processes |-> Served(p)]

(* A step of p that does not end in serving stops p, or is not seen.       *)
LEMMA NotServing ==
    ASSUME MigInv, NEW p \in Processes,
           \A q \in Processes \ {p} : proc'[q] = proc[q],
           proc'[p].pc # "serving", UNCHANGED <<recorded, tables, applied>>
    PROVE  Schema!Stop(p) \/ UNCHANGED Schema!svars
  <1>1. Served(p)' = 0 /\ \A q \in Processes \ {p} : Served(q)' = Served(q)
    BY DEF Served
  <1>2. served' = [served EXCEPT ![p] = 0]
    BY <1>1 DEF served
  <1>3. CASE Served(p) = 0
    BY <1>1, <1>3 DEF Schema!svars
  <1>4. CASE Served(p) # 0
    BY <1>2, <1>4 DEF Schema!Stop, served
  <1> QED BY <1>3, <1>4

(* The last look at the loop finds the tables of the binary.               *)
LEMMA ServeIsServe ==
    ASSUME MigInv, NEW p \in Processes, Serve(p)
    PROVE  Schema!Serve(p)
  <1>1. /\ proc[p] \in Process /\ ProcOK(proc[p], tables)
        /\ proc[p].code \in Nat /\ proc[p].next \in Nat /\ tables \in Nat
        /\ proc[p].code >= 1
    BY CurrentProc DEF Process, Versions
  <1>2. proc[p].pc = "checking" /\ proc[p].next > proc[p].code
    BY DEF Serve
  <1>3. tables = proc[p].code /\ tables # 0
    BY <1>1, <1>2 DEF ProcOK
  <1>4. /\ proc'[p].pc = "serving" /\ proc'[p].code = proc[p].code
        /\ \A q \in Processes \ {p} : proc'[q] = proc[q]
        /\ UNCHANGED <<recorded, tables, applied>>
    BY DEF Serve, Goes, MigInv, Process
  <1>5. /\ Served(p) = 0 /\ Served(p)' = tables
        /\ \A q \in Processes \ {p} : Served(q)' = Served(q)
    BY <1>2, <1>3, <1>4 DEF Served
  <1>6. served' = [served EXCEPT ![p] = tables]
    BY <1>5 DEF served
  <1> QED BY <1>3, <1>4, <1>5, <1>6 DEF Schema!Serve, served

(* A commit finds nobody serving: a server's tables are all there already, *)
(* and whoever migrates runs the same binary.                              *)
LEMMA CommitIsMigrate ==
    ASSUME MigInv, NEW p \in Processes, Commit(p)
    PROVE  Schema!Migrate
  <1>1. /\ ProcOK(proc[p], tables) /\ proc[p].pc = "committing"
        /\ proc[p].code \in Nat /\ proc[p].next \in Nat
        /\ tables \in Nat /\ Latest \in Nat /\ proc[p].code <= Latest
    BY CurrentProc DEF Commit
  <1>2. /\ proc[p].next = tables + 1 /\ tables < proc[p].code
        /\ tables + 1 \in Versions /\ tables < Latest
    BY <1>1 DEF ProcOK, Versions
  <1>3. ASSUME NEW q \in Processes PROVE proc[q].pc # "serving"
    <2>1. /\ ProcOK(proc[q], tables)
          /\ proc[q].pc = "serving" => proc[q].code = proc[p].code
      BY <1>1 DEF MigInv, Active
    <2> QED BY <1>1, <1>2, <2>1 DEF ProcOK
  <1>4. /\ tables' = tables + 1 /\ recorded' = recorded \cup {tables + 1}
        /\ applied' = [applied EXCEPT ![tables + 1] = @ + 1]
    BY <1>2 DEF Commit
  <1>5. applied[tables + 1] = 0 /\ applied \in [Versions -> Nat]
    BY <1>1, <1>2 DEF MigInv, HistoryOK
  <1>6. applied' = [applied EXCEPT ![tables + 1] = 1]
    BY <1>2, <1>4, <1>5
  <1>7. /\ proc'[p].pc \in {"verifying", "checking"}
        /\ \A q \in Processes \ {p} : proc'[q] = proc[q]
    <2>1. proc[p] \in Process /\ proc \in [Processes -> Process]
      BY DEF MigInv
    <2> QED BY <2>1 DEF Commit, Process
  <1>8. \A q \in Processes : Served(q)' = 0 /\ Served(q) = 0
    BY <1>3, <1>7 DEF Served
  <1>9. \A q \in Processes : served[q] = 0
    BY <1>8 DEF served
  <1>10. served' = served
    BY <1>8 DEF served
  <1> QED BY <1>2, <1>4, <1>5, <1>6, <1>9, <1>10 DEF Schema!Migrate, served

LEMMA SchemaStep ==
    ASSUME MigInv, [Next]_vars
    PROVE  [Schema!Next]_(Schema!svars)
  <1> USE DEF Schema!Next
  <1>1. ASSUME NEW p \in Processes, NEW code \in Binaries, Start(p, code)
        PROVE  Schema!Next \/ UNCHANGED Schema!svars
    <2>1. /\ \A q \in Processes \ {p} : proc'[q] = proc[q]
          /\ proc'[p].pc = "reading"
      <3>1. Down.pc = "down" /\ proc \in [Processes -> Process]
        BY DEF Down, MigInv
      <3> QED BY <1>1, <3>1 DEF Start, Down
    <2> QED BY <1>1, <2>1, NotServing DEF Start
  <1>2. ASSUME NEW p \in Processes,
               \/ ReadHighest(p) \/ RefuseNewer(p) \/ Skip(p) \/ Prepare(p)
               \/ Apply(p) \/ ApplyFails(p) \/ Busy(p) \/ Verify(p)
               \/ Fail(p) \/ Exit(p)
        PROVE  Schema!Next \/ UNCHANGED Schema!svars
    <2>1. proc[p] \in Process /\ proc \in [Processes -> Process]
      BY DEF MigInv
    <2>2. /\ \A q \in Processes \ {p} : proc'[q] = proc[q]
          /\ proc'[p].pc # "serving"
      BY <1>2, <2>1
         DEF ReadHighest, RefuseNewer, Skip, Prepare, Apply, ApplyFails, Busy,
             Verify, Fail, Exit, Goes, Down, Process
    <2>3. UNCHANGED <<recorded, tables, applied>>
      BY <1>2 DEF ReadHighest, RefuseNewer, Skip, Prepare, Apply, ApplyFails,
                  Busy, Verify, Fail, Exit
    <2> QED BY <2>2, <2>3, NotServing
  <1>3. ASSUME NEW p \in Processes, Serve(p) PROVE Schema!Next
    BY <1>3, ServeIsServe
  <1>4. ASSUME NEW p \in Processes, Commit(p) PROVE Schema!Next
    BY <1>4, CommitIsMigrate
  <1>5. CASE UNCHANGED vars
    BY <1>5 DEF vars, Schema!svars, Served
  <1> QED BY <1>1, <1>2, <1>3, <1>4, <1>5 DEF Next, Step

LEMMA SchemaInit == Init => Schema!Init
  <1> SUFFICES ASSUME Init PROVE Schema!Init
    OBVIOUS
  <1>1. \A p \in Processes : Served(p) = 0
    BY DEF Init, Down, Served
  <1> QED BY <1>1 DEF Init, Schema!Init, Versions

(* Whatever starts, crashes, rolls back or races, the file goes through    *)
(* the versions of Schema, and no server sees it change (SchemaSpec).      *)
THEOREM MigrationsImplementSchema == Spec => SchemaSpec
  BY MigAlways, MigInit, MigStep, SchemaInit, SchemaStep, PTL
     DEF Spec, SchemaSpec, Schema!Spec

-----------------------------------------------------------------------------
(* Starts are finite. That a start also goes on until it ends (StartsEnd)  *)
(* needs fairness and is left to TLC.                                      *)

Starting(r) ==
    r.pc \in {"reading", "checking", "applying", "committing", "verifying"}

(* An upper bound on the steps a start has before it, four per migration.  *)
StageLeft(pc) ==
    CASE pc = "reading" -> 4
      [] pc = "checking" -> 3
      [] pc = "applying" -> 2
      [] pc = "committing" -> 1
      [] OTHER -> 0
StepsLeft(r) ==
    IF Starting(r) THEN 4 * (r.code + 1 - r.next) + StageLeft(r.pc) ELSE 0

(* Whatever happens to a process that is starting, brings it closer to the *)
(* end of the start: it never waits for another process and never goes     *)
(* back to a migration, whoever commits in between.                        *)
StartsShorten ==
    [][\A p \in Processes :
         Starting(proc[p]) /\ proc'[p] # proc[p]
           => StepsLeft(proc'[p]) < StepsLeft(proc[p])]_vars

LEMMA StepsLeftInStart ==
    ASSUME MigInv, NEW p \in Processes, Starting(proc[p])
    PROVE  /\ StepsLeft(proc[p]) = 4 * (proc[p].code + 1 - proc[p].next)
                                     + StageLeft(proc[p].pc)
           /\ StepsLeft(proc[p]) \in 1..(4 * proc[p].code + 4)
           /\ StageLeft(proc[p].pc) \in 0..4
  <1> DEFINE r == proc[p]
  <1>1. /\ ProcOK(r, tables) /\ r.code \in Nat /\ r.next \in Nat
        /\ r.next >= 1
    BY CurrentProc
  <1>2. /\ r.pc = "reading" => r.next = 1
        /\ r.pc = "checking" => r.next <= r.code + 1
        /\ r.pc \in {"applying", "committing", "verifying"} => r.next <= r.code
    BY <1>1 DEF ProcOK
  <1>3. StageLeft(r.pc) \in 0..4
    BY DEF StageLeft
  <1>4. r.pc \in {"reading", "checking"} => StageLeft(r.pc) >= 3
    BY DEF StageLeft
  <1>5. StepsLeft(r) = 4 * (r.code + 1 - r.next) + StageLeft(r.pc)
    BY DEF StepsLeft
  <1>6. r.pc # "reading" => StageLeft(r.pc) <= 3
    BY DEF StageLeft
  <1> HIDE DEF r
  <1>7. StepsLeft(r) \in 1..(4 * r.code + 4)
    <2>1. CASE r.pc = "reading"
      BY <1>1, <1>2, <1>3, <1>4, <1>5, <2>1
    <2>2. CASE r.pc = "checking"
      BY <1>1, <1>2, <1>3, <1>4, <1>5, <1>6, <2>2
    <2>3. CASE r.pc \in {"applying", "committing", "verifying"}
      BY <1>1, <1>2, <1>3, <1>5, <1>6, <2>3
    <2> QED BY <2>1, <2>2, <2>3 DEF Starting, r
  <1> QED BY <1>3, <1>5, <1>7 DEF r

(* A stage further with the same migration, or a migration further.        *)
LEMMA CloserBy ==
    ASSUME MigInv, NEW p \in Processes, Starting(proc[p]), NEW s,
           s.code = proc[p].code,
           \/ s.next = proc[p].next /\ StageLeft(s.pc) < StageLeft(proc[p].pc)
           \/ s.next = proc[p].next + 1 /\ s.pc = "checking"
    PROVE  StepsLeft(s) < StepsLeft(proc[p])
  <1> DEFINE r == proc[p]
  <1>1. r.code \in Nat /\ r.next \in Nat
    BY CurrentProc
  <1>2. /\ StepsLeft(r) = 4 * (r.code + 1 - r.next) + StageLeft(r.pc)
        /\ StepsLeft(r) \in 1..(4 * r.code + 4) /\ StageLeft(r.pc) \in 0..4
    BY StepsLeftInStart
  <1>3. StageLeft(s.pc) \in 0..4 /\ (s.pc = "checking" => StageLeft(s.pc) = 3)
    BY DEF StageLeft
  <1>4. StepsLeft(s) = 0
          \/ StepsLeft(s) = 4 * (s.code + 1 - s.next) + StageLeft(s.pc)
    BY DEF StepsLeft
  <1> QED BY <1>1, <1>2, <1>3, <1>4

LEMMA StepShortens ==
    ASSUME MigInv, NEW p \in Processes, Step(p), Starting(proc[p])
    PROVE  StepsLeft(proc'[p]) < StepsLeft(proc[p])
  <1> DEFINE r == proc[p]
             s == proc'[p]
  <1>1. proc \in [Processes -> Process] /\ r \in Process /\ r.next \in Nat
    BY CurrentProc DEF MigInv
  <1>2. StepsLeft(r) > 0
    BY StepsLeftInStart, CurrentProc
  <1>3. ASSUME s.pc \in {"refused", "serving"}
        PROVE  StepsLeft(s) < StepsLeft(r)
    BY <1>2, <1>3 DEF StepsLeft, Starting
  <1>4. CASE ReadHighest(p)
    <2>1. /\ r.pc = "reading" /\ s.pc = "checking" /\ s.next = r.next
          /\ s.code = r.code
      BY <1>1, <1>4 DEF ReadHighest, Goes, Process
    <2> QED BY <2>1, CloserBy DEF StageLeft
  <1>5. CASE Skip(p)
    <2>1. s.pc = "checking" /\ s.next = r.next + 1 /\ s.code = r.code
      BY <1>1, <1>5 DEF Skip, Process
    <2> QED BY <2>1, CloserBy
  <1>6. CASE Prepare(p)
    <2>1. /\ r.pc = "checking" /\ s.pc = "applying" /\ s.next = r.next
          /\ s.code = r.code
      BY <1>1, <1>6 DEF Prepare, Process
    <2> QED BY <2>1, CloserBy DEF StageLeft
  <1>7. CASE Apply(p)
    <2>1. /\ r.pc = "applying" /\ s.pc = "committing" /\ s.next = r.next
          /\ s.code = r.code
      BY <1>1, <1>7 DEF Apply, Goes, Process
    <2> QED BY <2>1, CloserBy DEF StageLeft
  <1>8. CASE Commit(p)
    <2>1. /\ r.pc = "committing" /\ s.code = r.code
          /\ \/ s.pc = "verifying" /\ s.next = r.next
             \/ s.pc = "checking" /\ s.next = r.next + 1
      BY <1>1, <1>8 DEF Commit, Process
    <2> QED BY <2>1, CloserBy DEF StageLeft
  <1>9. CASE Verify(p)
    <2>1. \/ s.pc = "refused"
          \/ s.pc = "checking" /\ s.next = r.next + 1 /\ s.code = r.code
      BY <1>1, <1>9 DEF Verify, Goes, Process
    <2> QED BY <1>3, <2>1, CloserBy
  <1>10. CASE RefuseNewer(p) \/ Serve(p) \/ ApplyFails(p) \/ Busy(p)
    <2>1. s.pc \in {"refused", "serving"}
      BY <1>1, <1>10 DEF RefuseNewer, Serve, ApplyFails, Busy, Goes, Process
    <2> QED BY <1>3, <2>1
  <1> QED BY <1>4, <1>5, <1>6, <1>7, <1>8, <1>9, <1>10 DEF Step

LEMMA OthersStay ==
    ASSUME MigInv, NEW p \in Processes,
           (\E code \in Binaries : Start(p, code)) \/ Step(p) \/ Fail(p)
             \/ Exit(p)
    PROVE  \A q \in Processes \ {p} : proc'[q] = proc[q]
  BY DEF MigInv, Start, Step, Fail, Exit, ReadHighest, RefuseNewer, Skip,
         Prepare, Serve, Apply, ApplyFails, Busy, Commit, Verify, Goes

LEMMA EndShortens ==
    ASSUME MigInv, NEW p \in Processes, Fail(p) \/ Exit(p), Starting(proc[p])
    PROVE  StepsLeft(proc'[p]) < StepsLeft(proc[p])
  <1>1. proc'[p].pc \in {"refused", "down"}
    BY DEF MigInv, Fail, Exit, Process, Down
  <1>2. StepsLeft(proc[p]) > 0
    BY StepsLeftInStart, CurrentProc
  <1> QED BY <1>1, <1>2 DEF StepsLeft, Starting

(* A start is over after four steps per migration and four more, because   *)
(* every step it makes shortens it and no step of another lengthens it.    *)
THEOREM StartsAreFinite ==
    Spec => /\ StartsShorten
            /\ [](\A p \in Processes :
                    Starting(proc[p])
                      => StepsLeft(proc[p]) \in 1..(4 * proc[p].code + 4))
  <1> DEFINE Shorten == \A p \in Processes :
                          Starting(proc[p]) /\ proc'[p] # proc[p]
                            => StepsLeft(proc'[p]) < StepsLeft(proc[p])
             Bounded == \A p \in Processes :
                          Starting(proc[p])
                            => StepsLeft(proc[p]) \in 1..(4 * proc[p].code + 4)
  <1>1. MigInv /\ [Next]_vars => [Shorten]_vars
    <2> SUFFICES ASSUME MigInv, [Next]_vars, NEW p \in Processes,
                        Starting(proc[p]), proc'[p] # proc[p]
                 PROVE  StepsLeft(proc'[p]) < StepsLeft(proc[p])
      OBVIOUS
    <2>1. PICK q \in Processes :
            (\E code \in Binaries : Start(q, code)) \/ Step(q) \/ Fail(q)
              \/ Exit(q)
      BY DEF Next, vars
    <2>2. q = p
      BY <2>1, OthersStay
    <2>3. \A code \in Binaries : ~Start(p, code)
      BY DEF Start, Running, Starting
    <2> QED BY <2>1, <2>2, <2>3, StepShortens, EndShortens
  <1>2. MigInv => Bounded
    BY StepsLeftInStart
  <1>3. Spec => [][Shorten]_vars
    BY <1>1, MigAlways, PTL DEF Spec
  <1>4. [][Shorten]_vars <=> StartsShorten
    BY DEF StartsShorten
  <1>5. Spec => []Bounded
    BY <1>2, MigAlways, PTL
  <1> QED BY <1>3, <1>4, <1>5

=============================================================================
