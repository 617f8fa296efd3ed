----------------------------- MODULE Parameters -----------------------------
(***************************************************************************)
(* The PostgreSQL parameters of a policy, parameters.go: static text, or a  *)
(* template over .memory and .cpu.  What executing a template gives is a    *)
(* parameter of this module (Templates has it).                             *)
(***************************************************************************)

CONSTANTS
    Failed,                 \* an error in place of a result
    ExecuteTemplate(_, _)   \* what a template makes of the data, or Failed

Static(text) == [op |-> "static", text |-> text]

EvaluateParameter(template, memory, cores) ==
    IF template.op = "static"
    THEN template.text
    ELSE ExecuteTemplate(template, [memory |-> memory, cpu |-> cores])

\* Slips for mutation runs: a parameter that fails is left out, or taken over
\* with its error.
CalculateWhatWorks(params, memory, cores) ==
    [name \in {p \in DOMAIN params :
                 EvaluateParameter(params[p], memory, cores) # Failed} |->
        EvaluateParameter(params[name], memory, cores)]

CalculateUnchecked(params, memory, cores) ==
    [name \in DOMAIN params |-> EvaluateParameter(params[name], memory, cores)]

\* All of the parameters, or Failed when one of them fails.
CalculatePostgresParameters(params, memory, cores) ==
    LET result == [name \in DOMAIN params |->
                     EvaluateParameter(params[name], memory, cores)]
    IN  IF \E name \in DOMAIN params : result[name] = Failed
        THEN Failed ELSE result
=============================================================================
