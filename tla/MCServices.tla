----------------------------- MODULE MCServices -----------------------------
(***************************************************************************)
(* The covenant registry, the budget of model calls and the database's     *)
(* circuit breaker for TLC.  They share no variable and call one another   *)
(* nowhere, so that interleaving them adds no behaviour to any: each is    *)
(* explored while the others rest.                                         *)
(***************************************************************************)
EXTENDS Registry, CallBudget, CircuitBreaker, TLC

VARIABLE subject   \* the service that is explored

serviceVars == <<vars, budgetVars, breakerVars, subject>>

InitServices ==
    /\ Init /\ BudgetInit /\ BreakerInit
    /\ subject \in {"registry", "budget", "breaker"}
    /\ subject # "breaker" => up

RegistryStep == subject = "registry" /\ Next /\ UNCHANGED <<budgetVars, breakerVars>>
BudgetStep   == subject = "budget" /\ BudgetNext /\ UNCHANGED <<vars, breakerVars>>
BreakerStep  == subject = "breaker" /\ BreakerNext /\ UNCHANGED <<vars, budgetVars>>

NextServices == (RegistryStep \/ BudgetStep \/ BreakerStep) /\ UNCHANGED subject

ServicesSpec == InitServices /\ [][NextServices]_serviceVars

\* Workers, users and callers are interchangeable; the properties name none of them.
Interchangeable ==
    Permutations(Workers) \union Permutations(Users) \union Permutations(Callers)

\* The variables of each service keep their types.
TypesOK == TypeOK /\ BudgetTypeOK /\ BreakerTypeOK
=============================================================================
