------------------------------ MODULE MCReading ------------------------------
(***************************************************************************)
(* Constants for TLC: three storages, of which two are configured, and two *)
(* upstream caches.                                                        *)
(***************************************************************************)
EXTENDS Reading

MCStorages == {1, 2, 3}
MCUpstreams == {1, 2}

\* A new private project whose second upstream has the path; a new public one, that
\* does not use the upstream that has it; and one of which an earlier build was
\* stored on two backends, of which one is no longer configured, before it moved to
\* a third.
MCSettings ==
  {[configured |-> {2, 3}, stored |-> {}, placement |-> 3, public |-> FALSE,
    projectUpstreams |-> {1, 2}, holds |-> {2}],
   [configured |-> {2, 3}, stored |-> {}, placement |-> 2, public |-> TRUE,
    projectUpstreams |-> {2}, holds |-> {1}],
   [configured |-> {2, 3}, stored |-> {1, 2}, placement |-> 3, public |-> TRUE,
    projectUpstreams |-> {}, holds |-> {}]}
=============================================================================
