---------------------------- MODULE MCEmployeeReads ----------------------------
(***************************************************************************)
(* EmployeeReads on small instances.                                       *)
(***************************************************************************)
EXTENDS EmployeeReads, TLC

CONSTANTS a, b, c1, c2

\* The company without documents when the application opens, then the company or one of its
\* two societies with them
Requests == {<<All, TRUE>>, <<All, FALSE>>, <<a, FALSE>>}

\* One employee in each
OneEach == <<a, b>>

\* One call that asks once, one that asks again
OnceAndTwice == (c1 :> 1) @@ (c2 :> 2)

\* A reading that has become obsolete is only dropped, whatever it holds and wherever it is:
\* states that differ in nothing else are one.
Useful(c) ==
  IF IsCurrent(c) \/ read[c].pc = "none" THEN read[c] ELSE [NoRead EXCEPT !.pc = "asked"]
StationView ==
  <<server, station, token, call, [c \in Calls |-> Useful(c)], page, bounds, history>>
================================================================================
