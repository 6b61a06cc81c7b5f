---------------------------- MODULE MCOversight ----------------------------
(***************************************************************************)
(* The Andon Cord with requests one at a time, pipeline jobs and the rate  *)
(* limiter, which do not meet, for TLC: a behaviour is one of the service  *)
(* that part names, and the others stay as they began.                     *)
(*   halts      one goroutine for every request, a cyclic hierarchy        *)
(*   pipelines  two jobs, two calls that cancel, a fault                   *)
(*   limiter    one address, over two refills of its bucket                *)
(***************************************************************************)
EXTENDS Interject, Pipelines, RateLimiter, TLC

CONSTANTS a, b, i1, i2, i3, p1, j1, j2, c1, c2, x1

VARIABLE part

Cycle == (a :> <<b>>) @@ (b :> <<a>>) @@ (Global :> <<>>)

Symmetry == Permutations(Ids) \cup Permutations(Jobs) \cup Permutations(Cancellers)

OversightInit ==
    /\ part \in {"halts", "pipelines", "limiter"}
    /\ Init /\ PipelinesInit /\ RateLimiterInit

HaltsStep == part = "halts" /\ Next /\ UNCHANGED <<part, pipelineVars, limitVars>>

PipelinesStep ==
    part = "pipelines" /\ PipelinesNext /\ UNCHANGED <<part, vars, limitVars>>

LimiterStep ==
    part = "limiter" /\ RateLimiterNext /\ UNCHANGED <<part, vars, pipelineVars>>

OversightSpec ==
    /\ OversightInit
    /\ [][HaltsStep \/ PipelinesStep \/ LimiterStep]_<<part, vars, pipelineVars, limitVars>>
=============================================================================
