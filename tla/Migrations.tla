------------------------------ MODULE Migrations ------------------------------
(***************************************************************************)
(* Opening the database: storage.Open and its migrations                   *)
(* (internal/storage/storage.go), as the server and the user commands of   *)
(* cmd/companion do it, each a process of its own on the same file.        *)
(*                                                                         *)
(* A migration is one transaction that changes the tables and records its  *)
(* version; until it commits nobody else sees it, and when the process     *)
(* dies it is gone. Migration 4 replaces the users table with the foreign  *)
(* keys of its connection switched off and checks them after the commit.   *)
(*                                                                         *)
(* A binary is named by the schema version it was built for. The manual    *)
(* has the old one stopped before the new one is started (README.md:150).  *)
(***************************************************************************)
EXTENDS Naturals

CONSTANTS
    Processes,  \* the server and the user commands
    Latest,     \* the newest schema version
    Binaries,   \* the schema versions that binaries were built for
    Dangling    \* whether the file may hold rows that refer to no user

ASSUME MigrationsAssumption ==
    /\ Latest \in Nat \ {0}
    /\ Binaries \subseteq 1..Latest
    /\ Dangling \in BOOLEAN

VARIABLES
    recorded,  \* schema_migrations, as committed
    tables,    \* the migration that left the tables as they are, 0 for none
    dangling,  \* some row refers to a user that does not exist
    applied,   \* history: how often each migration was committed
    proc       \* per process: its stage, its binary and its connection

vars == <<recorded, tables, dangling, applied, proc>>

-----------------------------------------------------------------------------

Versions == 1..Latest

(* Migration 4 replaces the users table.                                   *)
RebuildsUsers(v) == v = 4

(* "next" is the migration at hand, "keys" the connection's foreign_keys.  *)
Down == [pc |-> "down", code |-> 1, next |-> 1, keys |-> TRUE]
Process == [pc : {"down", "reading", "checking", "applying", "committing",
                  "verifying", "serving", "refused"},
            code : Versions, next : 1..(Latest + 1), keys : BOOLEAN]

(* A file that some binary left behind, or none. Rows without a user may   *)
(* have come in through another tool; they need the tables of migration 2. *)
Init ==
    /\ tables \in 0..Latest
    /\ recorded = 1..tables
    /\ dangling \in BOOLEAN
    /\ dangling => Dangling /\ tables \in {2, 3}
    /\ applied = [v \in Versions |-> 0]
    /\ proc = [p \in Processes |-> Down]

Running(p) == proc[p].pc \notin {"down", "refused"}
Goes(p, stage) == proc' = [proc EXCEPT ![p].pc = stage]
InTransaction(p) == proc[p].pc = "committing"

(* SQLite has one writer. Mutant: any number.                              *)
WriteLockFreeAlways == proc \in [Processes -> Process]
WriteLockFree == \A p \in Processes : ~InTransaction(p)

(* initialize begins: foreign_keys, WAL, busy_timeout, and the table of    *)
(* versions if there is none.                                              *)
Start(p, code) ==
    /\ ~Running(p)
    /\ \A q \in Processes : Running(q) => proc[q].code = code
    /\ proc' = [proc EXCEPT ![p] = [Down EXCEPT !.pc = "reading",
                                                !.code = code]]
    /\ UNCHANGED <<recorded, tables, dangling, applied>>

(* Mutant: any version will do.                                            *)
SupportsAny(p) == proc[p].code \in Versions
Supports(p) == \A v \in recorded : v <= proc[p].code

ReadHighest(p) ==
    /\ proc[p].pc = "reading"
    /\ Supports(p)
    /\ Goes(p, "checking")
    /\ UNCHANGED <<recorded, tables, dangling, applied>>

RefuseNewer(p) ==
    /\ proc[p].pc = "reading"
    /\ ~Supports(p)
    /\ Goes(p, "refused")
    /\ UNCHANGED <<recorded, tables, dangling, applied>>

(* The loop over the binary's migrations: one that is recorded is skipped, *)
(* for one that is not, a transaction begins, and after the last the       *)
(* process serves.                                                         *)
Skip(p) ==
    /\ proc[p].pc = "checking" /\ proc[p].next \in recorded
    /\ proc[p].next <= proc[p].code
    /\ proc' = [proc EXCEPT ![p].next = @ + 1]
    /\ UNCHANGED <<recorded, tables, dangling, applied>>

Prepare(p) ==
    /\ proc[p].pc = "checking" /\ proc[p].next \notin recorded
    /\ proc[p].next <= proc[p].code
    /\ proc' = [proc EXCEPT ![p].pc = "applying",
                            ![p].keys = ~RebuildsUsers(proc[p].next)]
    /\ UNCHANGED <<recorded, tables, dangling, applied>>

Serve(p) ==
    /\ proc[p].pc = "checking" /\ proc[p].next > proc[p].code
    /\ Goes(p, "serving")
    /\ UNCHANGED <<recorded, tables, dangling, applied>>

(* The SQL of a migration runs on the tables of the one before, and on no  *)
(* others: every script creates a table or a column that must not exist.   *)
(* The version is a primary key.                                           *)
(* Mutant: scripts and record tolerate what exists (IF NOT EXISTS).        *)
AppliesAgain(v) == tables >= v - 1
Applies(v) == tables = v - 1 /\ v \notin recorded

(* The script and the record are written, behind the write lock.           *)
Apply(p) ==
    /\ proc[p].pc = "applying"
    /\ WriteLockFree
    /\ Applies(proc[p].next)
    /\ Goes(p, "committing")
    /\ UNCHANGED <<recorded, tables, dangling, applied>>

ApplyFails(p) ==
    /\ proc[p].pc = "applying"
    /\ WriteLockFree
    /\ ~Applies(proc[p].next)
    /\ proc' = [proc EXCEPT ![p].pc = "refused", ![p].keys = TRUE]
    /\ UNCHANGED <<recorded, tables, dangling, applied>>

(* Another process has the lock for longer than the busy timeout.          *)
(* Mutant: whoever meets a lock tries again.                               *)
BusyAgain(p) ==
    /\ proc[p].pc = "applying"
    /\ ~WriteLockFree
    /\ UNCHANGED vars
Busy(p) ==
    /\ proc[p].pc = "applying"
    /\ ~WriteLockFree
    /\ proc' = [proc EXCEPT ![p].pc = "refused", ![p].keys = TRUE]
    /\ UNCHANGED <<recorded, tables, dangling, applied>>

(* The connection's foreign_keys after the commit; the pragma does nothing *)
(* inside a transaction. Mutant: it is issued before the commit.           *)
KeysRestoredInside(p) == proc[p].keys
KeysRestored(p) == TRUE

(* Mutant: the version is recorded after the commit, by the next check.    *)
CommitUnrecorded(p) ==
    /\ proc[p].pc = "committing"
    /\ tables' = proc[p].next
    /\ applied' = [applied EXCEPT ![proc[p].next] = @ + 1]
    /\ proc' = [proc EXCEPT ![p].pc = "verifying",
                            ![p].keys = KeysRestored(p)]
    /\ UNCHANGED <<recorded, dangling>>
Commit(p) ==
    /\ proc[p].pc = "committing"
    /\ tables' = proc[p].next
    /\ recorded' = recorded \cup {proc[p].next}
    /\ applied' = [applied EXCEPT ![proc[p].next] = @ + 1]
    /\ proc' = [proc EXCEPT
                  ![p].pc = IF RebuildsUsers(proc[p].next) THEN "verifying"
                                                           ELSE "checking",
                  ![p].next = IF RebuildsUsers(@) THEN @ ELSE @ + 1,
                  ![p].keys = KeysRestored(p)]
    /\ UNCHANGED dangling

(* foreign_key_check, after the commit. A read of its rows that breaks off *)
(* counts as none found in the code, and is left out here.                 *)
Verify(p) ==
    /\ proc[p].pc = "verifying"
    /\ IF dangling
       THEN Goes(p, "refused")
       ELSE proc' = [proc EXCEPT ![p].pc = "checking", ![p].next = @ + 1]
    /\ UNCHANGED <<recorded, tables, dangling, applied>>

(* A statement fails: a transaction is rolled back and Open returns the    *)
(* error. So does a chmod of the file that fails at the end.               *)
Fail(p) ==
    /\ Running(p) /\ proc[p].pc # "serving"
    /\ proc' = [proc EXCEPT ![p].pc = "refused", ![p].keys = TRUE]
    /\ UNCHANGED <<recorded, tables, dangling, applied>>

(* The process is stopped or dies, at any stage.                           *)
Exit(p) ==
    /\ proc[p].pc # "down"
    /\ proc' = [proc EXCEPT ![p] = Down]
    /\ UNCHANGED <<recorded, tables, dangling, applied>>

-----------------------------------------------------------------------------

(* What a process does of its own accord.                                  *)
Step(p) ==
    \/ ReadHighest(p) \/ RefuseNewer(p)
    \/ Skip(p) \/ Prepare(p) \/ Serve(p)
    \/ Apply(p) \/ ApplyFails(p) \/ Busy(p) \/ Commit(p) \/ Verify(p)

Next ==
    \E p \in Processes :
        \/ \E code \in Binaries : Start(p, code)
        \/ Step(p)
        \/ Fail(p)
        \/ Exit(p)

Spec == Init /\ [][Next]_vars

(* A process that is starting goes on; a lock is not waited for without    *)
(* end (busy_timeout).                                                     *)
FairSpec == Spec /\ \A p \in Processes : WF_vars(Step(p))

-----------------------------------------------------------------------------
(* Properties *)

(* The file and the processes keep their shapes, and a transaction is      *)
(* alone and stands on the tables before it.                               *)
TypeOK ==
    /\ recorded \subseteq Versions
    /\ tables \in 0..Latest
    /\ dangling \in BOOLEAN
    /\ applied \in [Versions -> Nat]
    /\ proc \in [Processes -> Process]
    /\ \A p, q \in Processes : InTransaction(p) /\ InTransaction(q) => p = q

(* The versions on record are those of the tables, whenever a process died *)
(* and whoever else was migrating: a later start neither repeats nor skips *)
(* a migration.                                                            *)
RecordTellsTables == recorded = 1..tables

(* No migration takes effect twice, also when two processes found it       *)
(* missing: a second rebuild of users would lose names and passwords.      *)
AppliedOnce == \A v \in Versions : applied[v] <= 1

(* A process serves only on exactly the tables its binary was built for,   *)
(* with the foreign keys of its connection switched on, whichever binaries *)
(* were upgraded to, rolled back from or interrupted before.               *)
ServesItsSchema ==
    \A p \in Processes :
        proc[p].pc = "serving" => /\ tables = proc[p].code
                                  /\ recorded = 1..proc[p].code
                                  /\ proc[p].keys

(* "A failed migration is rolled back and the start refused" (README.md:   *)
(* 150): a database whose rows fail the check of migration 4 is not        *)
(* served, by this start or a later one, by a binary that has migration 4. *)
FailedMigrationIsRefused ==
    \A p \in Processes :
        proc[p].pc = "serving" /\ proc[p].code >= 4 => ~dangling

(* Migrations implements Schema: the commit of a transaction is the one    *)
(* step that moves the tables, to the next version, for the first time and *)
(* while nobody serves, whoever else is starting, crashing or migrating.   *)
Served(p) == IF proc[p].pc = "serving" THEN proc[p].code ELSE 0
Schema == INSTANCE Schema WITH
    version <- tables, serves <- [p \in Processes |-> Served(p)]
SchemaSpec == Schema!Spec

(* A start comes to an end, whatever the other process does.               *)
StartsEnd ==
    \A p \in Processes :
        proc[p].pc = "reading"
          ~> proc[p].pc \in {"serving", "refused", "down"}

=============================================================================
