---------------------------- MODULE MCWebSession ----------------------------
(***************************************************************************)
(* Two users, two tabs, and two requests of one of the tabs.               *)
(***************************************************************************)
EXTENDS WebSession, TLC

CONSTANTS u1, u2, t1, t2, c1, c2

TwoCallsOneTab == c1 :> t1 @@ c2 :> t1

=============================================================================
