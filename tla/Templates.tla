----------------------------- MODULE Templates -----------------------------
(***************************************************************************)
(* What executing a template of parameters.go gives.  A template is a tree  *)
(* of function calls over .memory and .cpu.  Parsing and formatting are     *)
(* left out; int64 does not overflow on the memory of a machine and is not  *)
(* modelled as wrapping.                                                    *)
(***************************************************************************)
EXTENDS Integers, Parameters

\* Templates
Number(n)         == [op |-> "number", number |-> n]
Variable(name)    == [op |-> "variable", name |-> name]
Call(fn, a, b)    == [op |-> fn, a |-> a, b |-> b]

Abs(n) == IF n < 0 THEN -n ELSE n

\* Go's division truncates towards zero.
Quotient(a, b) ==
    LET q == Abs(a) \div Abs(b) IN IF (a < 0) # (b < 0) THEN -q ELSE q

\* templateFuncs
Apply(fn, a, b) ==
    CASE fn = "div" -> IF b = 0 THEN Failed ELSE Quotient(a, b)
      [] fn = "mul" -> a * b
      [] fn = "add" -> a + b
      [] fn = "max" -> IF a > b THEN a ELSE b

\* An unknown variable is an error (missingkey=error), and so is a call of
\* which an argument is one.
RECURSIVE Eval(_, _)
Eval(template, data) ==
    CASE template.op = "number"   -> template.number
      [] template.op = "variable" -> IF template.name \in DOMAIN data
                                     THEN data[template.name] ELSE Failed
      [] OTHER ->
           LET a == Eval(template.a, data)
               b == Eval(template.b, data)
           IN  IF Failed \in {a, b} THEN Failed ELSE Apply(template.op, a, b)
=============================================================================
