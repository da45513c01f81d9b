------------------------------ MODULE MCElements ------------------------------
(***************************************************************************)
(* Three machines that share no state, for one run of TLC: the conversions *)
(* of Casting, the reductions of Reductions and the errors of ErrorFlow.   *)
(* A behaviour is one of any of them, the others at rest.                  *)
(***************************************************************************)
EXTENDS MCCasting, Reductions, ErrorFlow

VARIABLE job

MCInit ==
  /\ ErrorInit
  /\ ReductionInit
  /\ \/ job = "cast" /\ Init
     \/ /\ job \in {"errors", "reduce"}
        /\ dtypes = [i \in 1..Operands |-> "Bool"]
        /\ folded = Operands
        /\ acc = "Bool"
        /\ start = None
        /\ item = None
        /\ safe = TRUE

MCNext ==
  \/ job = "cast" /\ Next /\ UNCHANGED <<job, errorVars, reductionVars>>
  \/ job = "errors" /\ ErrorNext /\ UNCHANGED <<job, vars, reductionVars>>
  \/ job = "reduce" /\ ReductionNext /\ UNCHANGED <<job, vars, errorVars>>

MCSpec == MCInit /\ [][MCNext]_<<vars, job, errorVars, reductionVars>>

---------------------------------------------------------------------------
\* The types of the machines: no conversion leaves the range of its type, and
\* an error is passed on only while a function returns.
TypesOK == TypeOK /\ ErrorTypeOK
===============================================================================
