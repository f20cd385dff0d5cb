----------------------------- MODULE Timestamps -----------------------------
(***************************************************************************)
(* Points in time as publish_build_to_ref and the access tokens store      *)
(* them: text in RFC 3339 format, which SQL then compares as text.  An     *)
(* instant is a number of ticks, Base ^ Places of them a second (ten and   *)
(* nine in the time crate, which formats nanoseconds).                     *)
(***************************************************************************)
EXTENDS Integers

CONSTANTS
  Base,   \* the digits 0 .. Base - 1
  Places  \* places after the point

ASSUME TimestampConstants == Base \in Nat \ {0, 1} /\ Places \in Nat

(***************************************************************************)
(* The text of instant t: its second, of fixed width and so comparable as  *)
(* a number, and its fraction.  The formatter leaves out trailing zeros,   *)
(* with them the point, and ends with a Z.  A Z sorts after the digits and *)
(* the point, so it reads as a digit Base in place of the trailing zeros.  *)
(***************************************************************************)
Text(t) ==
  [i \in 0 .. Places |->
     IF i = 0 THEN t \div Base ^ Places
     ELSE IF t % Base ^ (Places - i + 1) = 0 THEN Base
     ELSE (t \div Base ^ (Places - i)) % Base]

\* The text of s sorts after the text of t.
SortsAfter(s, t) ==
  \E i \in 0 .. Places : /\ Text(s)[i] > Text(t)[i]
                         /\ \A j \in 0 .. (i - 1) : Text(s)[j] = Text(t)[j]
=============================================================================
