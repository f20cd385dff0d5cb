---------------------------- MODULE Publication -----------------------------
(***************************************************************************)
(* What publishing promises: a path comes into a build once its narinfo is *)
(* known; only paths of builds become available, and stay so; and a ref    *)
(* shows a build only after all the paths that the build had when somebody *)
(* set about publishing it are available here or elsewhere.                *)
(***************************************************************************)
CONSTANTS Builds, Refs, RefOf, Paths,
          NoBuild,
          Elsewhere  \* paths whose objects an upstream serves

VARIABLES
  state,      \* of each build
  content,    \* the paths of each build
  known,      \* paths whose narinfo was registered
  available,  \* paths with an object of their own
  attempts,   \* publications under way: a build with the paths it had then
  shown       \* the build that each ref shows

vars == <<state, content, known, available, attempts, shown>>

Complete(attempt) == attempt.paths \subseteq available \cup Elsewhere

Init ==
  /\ state = [b \in Builds |-> "absent"]
  /\ content = [b \in Builds |-> {}]
  /\ known = {}
  /\ available = {}
  /\ attempts = {}
  /\ shown = [r \in Refs |-> NoBuild]

Begin(b) ==
  /\ state[b] = "absent"
  /\ state' = [state EXCEPT ![b] = "pending"]
  /\ UNCHANGED <<content, known, available, attempts, shown>>

Know(p) ==
  /\ known' = known \cup {p}
  /\ UNCHANGED <<state, content, available, attempts, shown>>

Add(b, p) ==
  /\ state[b] # "absent"
  /\ p \in known
  /\ content' = [content EXCEPT ![b] = @ \cup {p}]
  /\ UNCHANGED <<state, known, available, attempts, shown>>

Provide(p) ==
  /\ \E b \in Builds : p \in content[b]
  /\ available' = available \cup {p}
  /\ UNCHANGED <<state, content, known, attempts, shown>>

Attempt(b) ==
  /\ state[b] # "absent"
  /\ content[b] # {}
  /\ attempts' = attempts \cup {[build |-> b, paths |-> content[b]]}
  /\ UNCHANGED <<state, content, known, available, shown>>

Abandon(attempt) ==
  /\ attempts' = attempts \ {attempt}
  /\ UNCHANGED <<state, content, known, available, shown>>

\* Another attempt of the same may still be under way.
Publish(attempt) ==
  /\ Complete(attempt)
  /\ state' = [state EXCEPT ![attempt.build] = "finalized"]
  /\ shown' = [shown EXCEPT ![RefOf[attempt.build]] = attempt.build]
  /\ attempts' \in {attempts, attempts \ {attempt}}
  /\ UNCHANGED <<content, known, available>>

Next ==
  \/ \E b \in Builds : Begin(b) \/ Attempt(b) \/ \E p \in Paths : Add(b, p)
  \/ \E p \in Paths : Know(p) \/ Provide(p)
  \/ \E attempt \in attempts : Abandon(attempt) \/ Publish(attempt)

Spec == Init /\ [][Next]_vars
=============================================================================
