-------------------------- MODULE MCPolicyBundles --------------------------
(* Values for the constants of PolicyBundles.                              *)
EXTENDS PolicyBundles

Unset  == [kind |-> "unset", n |-> 0]
Empty  == [kind |-> "empty", n |-> 0]
Num(k) == [kind |-> "num", n |-> k]
NoVars == [v \in Dimensions |-> Unset]
B(t, d, l, s) == [tokens |-> t, dollars |-> d, loops |-> l, seconds |-> s]

Shell  == [name |-> "shell", matches |-> {"shell"}]
Glob   == [name |-> "se*", matches |-> {"search"}]
Blank  == [name |-> "", matches |-> {}]
EnvOf(process, dotenv) == [process |-> process, dotenv |-> dotenv, port |-> Unset,
                           safe |-> "", allow |-> <<Blank>>]

\* Nothing set; an empty variable hiding one of .env; a loop limit one past the
\* largest int32, a time limit at it, and an allowlist with a typo in the switch;
\* a negative budget; a bad port.
SomeEnvironments == {
    EnvOf(NoVars, NoVars),
    EnvOf([NoVars EXCEPT !["dollars"] = Empty], [NoVars EXCEPT !["dollars"] = Num(2)]),
    [EnvOf([NoVars EXCEPT !["loops"] = Num(8), !["seconds"] = Num(7)], NoVars) EXCEPT !.safe = "ture", !.allow = <<Shell, Glob>>],
    EnvOf([NoVars EXCEPT !["tokens"] = Num(-1)], NoVars),
    [EnvOf(NoVars, NoVars) EXCEPT !.port = Num(0)] }

Dev(budget) == [name |-> "dev", budget |-> budget, allow |-> {Shell}, tools |-> {"search"}, effects |-> {}]
Ops == [name |-> "ops", budget |-> B(3, 2, 2, 0), allow |-> {Glob}, tools |-> {}, effects |-> {"tool"}]

SomeFiles == { [schema |-> 1, policies |-> <<Dev(B(0, 2, 0, 1)), Ops>>],
               [schema |-> 1, policies |-> <<Dev(B(2, 0, 1, 0))>>],
               [schema |-> 1, policies |-> <<Ops, Ops>>] }

SomeBodies == { [Dev(Absent) EXCEPT !.allow = {}], [Dev(Absent) EXCEPT !.name = ""] }

SomeRunBodies == { [ref |-> Absent, budget |-> Absent], [ref |-> "dev", budget |-> Absent],
                   [ref |-> "dev", budget |-> B(0, 0, 2, 0)], [ref |-> Absent, budget |-> B(0, 0, 0, 0)],
                   [ref |-> "ops", budget |-> B(0, 0, -1, 0)] }

SomeCosts == { [tokens |-> 1, dollars |-> 1], [tokens |-> 2, dollars |-> 0] }
Defaults  == B(0, 5, 3, 1)
=============================================================================
