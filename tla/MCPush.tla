------------------------------- MODULE MCPush -------------------------------
(* Small instances of Push: the values of its constants. *)
EXTENDS Push, TLC

CONSTANTS u1, u2, u3, o1, o2

TwoShared == u1 :> o1 @@ u2 :> o1 @@ u3 :> o2

\* A push of the given kind, of objects with the given sizes.
Job(direct, size, limit, withPin) ==
  [direct |-> direct, size |-> size, limit |-> limit, withPin |-> withPin]

TwoParts == o1 :> 3 @@ o2 :> 1
FourParts == o1 :> 1 @@ o2 :> 7

\* To S3 with and without an object that is too long for MaxParts = 3, and into
\* a file system; with two permits, and with a limit of none.
AllJobs ==
  {Job(TRUE, TwoParts, 2, FALSE), Job(TRUE, FourParts, 0, FALSE),
   Job(FALSE, TwoParts, 2, TRUE), Job(FALSE, TwoParts, 0, TRUE)}
=============================================================================
