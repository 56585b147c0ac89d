------------------------------- MODULE Presence -------------------------------
(***************************************************************************)
(* What the roster promises about who is online, without clock, cache,     *)
(* mutex, requests to the game server or transactions.                     *)
(*                                                                         *)
(* There is one latest snapshot. It changes only as a whole, when somebody *)
(* who asked learns a new one, and the accounts of its players take their  *)
(* names in the same step. Whoever is told a snapshot is told the latest,  *)
(* and nobody learns another one meanwhile. A server that has started      *)
(* vouches for no snapshot until one is learned again. A player joins only *)
(* on a snapshot that the joining caller has learned itself.               *)
(***************************************************************************)
CONSTANTS Users, Names, Callers

VARIABLES
    latest,   \* the latest snapshot: the players online, with their names
    vouched,  \* whether callers may be told the latest without asking
    account,  \* per user: the name of its account, in a set, {} without one
    asker     \* per caller: what it wants, how far it is and what it was told

pvars == <<latest, vouched, account, asker>>

Snapshots == UNION {[online -> Names] : online \in SUBSET Users}

(* "view" is the snapshot a caller goes by, in a set; {} if it has none.   *)
Asker(stage, wants, view) == [stage |-> stage, wants |-> wants, view |-> view]
Quiet == Asker("idle", "players", {})

Becomes(c, stage, view) ==
    asker' = [asker EXCEPT ![c] = Asker(stage, asker[c].wants, view)]
Leaves(c) == asker' = [asker EXCEPT ![c] = Quiet]

Init ==
    /\ latest \in Snapshots
    /\ vouched = FALSE
    /\ account = [u \in Users |-> IF u \in DOMAIN latest THEN {latest[u]}
                                                         ELSE {}]
    /\ asker = [c \in Callers |-> Quiet]

(* Nobody is between learning a snapshot and having told it.               *)
Undisturbed == \A c \in Callers : asker[c].stage \notin {"learned", "told"}

Ask(c, wants) ==
    /\ asker[c].stage = "idle"
    /\ asker' = [asker EXCEPT ![c] = Asker("asking", wants, {})]
    /\ UNCHANGED <<latest, vouched, account>>

Learn(c) ==
    /\ asker[c].stage = "asking" /\ Undisturbed
    /\ latest' \in Snapshots
    /\ account' = [u \in Users |->
                     IF u \in DOMAIN latest' /\ account[u] # {}
                     THEN {latest'[u]} ELSE account[u]]
    /\ Becomes(c, "learned", {latest'})
    /\ UNCHANGED vouched

PassOn(c) ==
    /\ asker[c].stage = "learned"
    /\ vouched' = TRUE
    /\ Becomes(c, IF asker[c].wants = "players" THEN "told" ELSE "joining",
               asker[c].view)
    /\ UNCHANGED <<latest, account>>

(* Without asking, or after asking in vain; a joining caller is sent away. *)
TellLatest(c) ==
    /\ asker[c].stage = "asking" /\ asker[c].wants = "players" /\ Undisturbed
    /\ vouched
    /\ Becomes(c, "told", {latest})
    /\ UNCHANGED <<latest, vouched, account>>

TellUnknown(c) ==
    /\ asker[c].stage = "asking" /\ asker[c].wants = "players" /\ Undisturbed
    /\ Becomes(c, "told", {})
    /\ UNCHANGED <<latest, vouched, account>>

SendAway(c) ==
    /\ asker[c].stage = "asking" /\ asker[c].wants = "fresh" /\ Undisturbed
    /\ Leaves(c)
    /\ UNCHANGED <<latest, vouched, account>>

Join(c, u) ==
    /\ asker[c].stage = "joining"
    /\ account[u] = {}
    /\ \E snapshot \in asker[c].view :
         /\ u \in DOMAIN snapshot
         /\ account' = [account EXCEPT ![u] = {snapshot[u]}]
    /\ Leaves(c)
    /\ UNCHANGED <<latest, vouched>>

(* A caller that asked for the players is told that they are unknown after *)
(* all.                                                                    *)
Retract(c) ==
    /\ asker[c].stage = "told"
    /\ asker' = [asker EXCEPT ![c] = Asker("told", "players", {})]
    /\ UNCHANGED <<latest, vouched, account>>

Leave(c) ==
    /\ asker[c].stage \in {"told", "joining"}
    /\ Leaves(c)
    /\ UNCHANGED <<latest, vouched, account>>

Restart ==
    /\ vouched' = FALSE
    /\ asker' = [c \in Callers |-> Quiet]
    /\ UNCHANGED <<latest, account>>

Next ==
    \/ \E c \in Callers :
         \/ \E wants \in {"players", "fresh"} : Ask(c, wants)
         \/ Learn(c)
         \/ PassOn(c)
         \/ TellLatest(c) \/ TellUnknown(c) \/ SendAway(c)
         \/ \E u \in Users : Join(c, u)
         \/ Retract(c) \/ Leave(c)
    \/ Restart

Spec == Init /\ [][Next]_pvars

=============================================================================
