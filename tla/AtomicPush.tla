---------------------------- MODULE AtomicPush -----------------------------
(***************************************************************************)
(* What a push promises: objects come into the storage backend whole, and  *)
(* the build is published only when all of them are there, from when on    *)
(* nothing that the push left behind takes one away.                       *)
(***************************************************************************)
CONSTANT Objects  \* the objects that the push has to upload

VARIABLES
  stored,   \* objects that the backend holds, and holds whole
  outcome   \* of the push

TypeOK ==
  /\ stored \subseteq Objects
  /\ outcome \in {"open", "published", "failed"}

Init == stored = {} /\ outcome = "open"

Store(o) ==
  /\ stored' = stored \cup {o}
  /\ UNCHANGED outcome

\* The cleanup of an upload that could not be recorded.
Discard(o) ==
  /\ outcome # "published"
  /\ stored' = stored \ {o}
  /\ UNCHANGED outcome

Publish ==
  /\ outcome = "open"
  /\ stored = Objects
  /\ outcome' = "published"
  /\ UNCHANGED stored

Fail ==
  /\ outcome = "open"
  /\ outcome' = "failed"
  /\ UNCHANGED stored

Next ==
  \/ \E o \in Objects : Store(o) \/ Discard(o)
  \/ Publish
  \/ Fail

Spec == Init /\ [][Next]_<<stored, outcome>>
=============================================================================
