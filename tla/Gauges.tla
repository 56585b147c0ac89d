-------------------------------- MODULE Gauges --------------------------------
(***************************************************************************)
(* What the caches of the server status promise, without mutexes, loads    *)
(* or entries that outlive their time.                                     *)
(*                                                                         *)
(* There is one gauge per part of the summary. A viewer either reads it    *)
(* anew, in one step, or recalls its last reading. A reading taken less    *)
(* than a lifetime ago is live and any other is stale, so that the age of  *)
(* a reading alone decides what it is called; and no reading is followed   *)
(* by one of an earlier state of the game server.                          *)
(***************************************************************************)
EXTENDS Naturals

CONSTANTS Callers, TTL, Timeout

VARIABLES
    now,    \* the clock, 0 for never
    gauge,  \* per part: its last reading, or Never
    viewer  \* per caller: what it has still to see and what it has seen

gvars == <<now, gauge, viewer>>

Parts == {"info", "metrics"}

(* When the game server was asked, and the instant the answer is about.    *)
Reading(stamp, asOf) == [stamp |-> stamp, asOf |-> asOf]
Never == Reading(0, 0)

Seen(kind, reading) == [kind |-> kind, reading |-> reading]
Unseen == Seen("none", Never)
Viewer(stage, left, seen) == [stage |-> stage, left |-> left, seen |-> seen]
Away == Viewer("away", {}, [p \in Parts |-> Unseen])
Come == Viewer("viewing", Parts, [p \in Parts |-> Unseen])

Init ==
    /\ now = 1
    /\ gauge = [p \in Parts |-> Never]
    /\ viewer = [c \in Callers |-> Away]

Becomes(c, v) == viewer' = [viewer EXCEPT ![c] = v]

Enter(c) ==
    /\ UNCHANGED <<now, gauge>>
    /\ viewer[c].stage = "away"
    /\ Becomes(c, Come)

Leave(c) ==
    /\ UNCHANGED <<now, gauge>>
    /\ viewer[c].stage = "viewing" /\ viewer[c].left = {}
    /\ Becomes(c, Away)

Sees(c, p, seen) ==
    /\ p \in viewer[c].left
    /\ Becomes(c, Viewer("viewing", viewer[c].left \ {p},
                         [viewer[c].seen EXCEPT ![p] = seen]))

(* A new reading: asked for at most a timeout ago, true of an instant      *)
(* since then, and of none before that of the last reading.                *)
Measure(c, p, stamp, asOf) ==
    /\ UNCHANGED now
    /\ now <= stamp + Timeout
    /\ gauge[p].asOf <= asOf
    /\ gauge' = [gauge EXCEPT ![p] = Reading(stamp, asOf)]
    /\ Sees(c, p, Seen("live", Reading(stamp, asOf)))

Recall(c, p) ==
    /\ UNCHANGED <<now, gauge>>
    /\ gauge[p] # Never
    /\ Sees(c, p, Seen(IF now - gauge[p].stamp < TTL[p] THEN "live" ELSE "stale",
                       gauge[p]))

(* Only what was never read cannot be shown.                               *)
Miss(c, p) ==
    /\ UNCHANGED <<now, gauge>>
    /\ gauge[p] = Never
    /\ Sees(c, p, Unseen)

Tick ==
    /\ now' = now + 1
    /\ UNCHANGED <<gauge, viewer>>

Restart ==
    /\ UNCHANGED now
    /\ gauge' = [p \in Parts |-> Never]
    /\ viewer' = [c \in Callers |-> Away]

Looks(c, p) ==
    \/ Recall(c, p)
    \/ Miss(c, p)
    \/ \E stamp \in 1..now : \E asOf \in stamp..now : Measure(c, p, stamp, asOf)

Next ==
    \/ Tick
    \/ Restart
    \/ \E c \in Callers :
         Enter(c) \/ Leave(c) \/ \E p \in Parts : Looks(c, p)

Spec == Init /\ [][Next]_gvars

=============================================================================
