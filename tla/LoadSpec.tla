------------------------------ MODULE LoadSpec ------------------------------
(***************************************************************************)
(* What a call of Load promises (spec.md sections 2, 5 and 7), as one      *)
(* step: the call returns, and returns either an error or exactly the      *)
(* configuration the spec resolves the files to -- every job defaulted by  *)
(* the cascade and given its effective decoration config -- and the       *)
(* latter only for files the spec accepts.  The caller may call Load again *)
(* on the same files, up to MaxLoads times; every call returns.            *)
(*                                                                         *)
(* Which error is returned is not part of the promise here.               *)
(***************************************************************************)
EXTENDS JobRules

CONSTANTS MaxLoads, Pending, Error

VARIABLES input, outcome, calls

absVars == <<input, outcome, calls>>

\* The result of one call of Load on the files.
Result(in) == IF SpecAcceptable(in) THEN SpecResolve(in) ELSE Error

\* The promise is made for whatever files are on disk.
Init == outcome = Pending /\ calls = 1

Return == /\ outcome = Pending
          /\ outcome' = Result(input)
          /\ UNCHANGED <<input, calls>>

Call == /\ outcome # Pending
        /\ calls < MaxLoads
        /\ calls' = calls + 1
        /\ outcome' = Pending
        /\ UNCHANGED input

Next == Return \/ Call

\* The steps a call may take, without the promise that it returns.
SafetySpec == Init /\ [][Next]_absVars

Spec == SafetySpec /\ WF_absVars(Next)

====
