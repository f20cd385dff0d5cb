-------------------------- MODULE ApiExpectations --------------------------
(***************************************************************************)
(* What a test of the repository says of the write API, for every way to   *)
(* write the date that the test writes in UTC.                             *)
(***************************************************************************)
EXTENDS MCWriteApi

\* expired_project_access_token_is_rejected (depot-write/src/lib.rs): no access token
\* is accepted after it expired.
ExpiredTokenIsRejected ==
  [][\A h \in Handlers :
       At(h, "token") /\ Credential(h).kind = "token" /\ Expired(tokens[Credential(h).token])
         => request'[h].identity # "token"]_vars
=============================================================================
