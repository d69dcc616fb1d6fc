--------------------------------- MODULE MCILP ---------------------------------
(* Programs and settings for ILP. *)
EXTENDS ILP

Op(id, type, args) == [id |-> id, op |-> "op", type |-> type, args |-> args]
Ld(id, p) == [id |-> id, op |-> "load", type |-> "mem", args |-> <<p>>]
St(id, v, p) == [id |-> id, op |-> "store", type |-> "mem", args |-> <<v, p>>]
Phi(id, from) == [id |-> id, op |-> "phi", type |-> "phi", from |-> from]
Br(id, args) == [id |-> id, op |-> "br", type |-> "ctrl", args |-> args]
Ret(id, args) == [id |-> id, op |-> "ret", type |-> "ctrl", args |-> args]
CallTo(id, callee, args, params) ==
    [id |-> id, op |-> "call", type |-> "ctrl", args |-> args, callee |-> callee, params |-> params]

\* A loop over memory with two paths; the value carried round the loop comes
\* from an addition or from a phi, and h is the value it had before.
Loop ==
    [code |-> [entry |-> <<Op("p", "int", <<>>), Ld("a", "p"), Br("b0", <<>>)>>,
               head  |-> <<Phi("h", [entry |-> "k", left |-> "i", right |-> "h"]),
                           Phi("i", [entry |-> "a", left |-> "j", right |-> "i"]),
                           Op("c", "int", <<"i", "k">>), Br("b1", <<"c">>)>>,
               left  |-> <<Op("j", "fp", <<"i", "a">>), St("s", "j", "p"), Br("b2", <<>>)>>,
               right |-> <<Ld("x", "p"), Op("y", "other", <<"x", "h">>), Br("b3", <<>>)>>],
     next |-> [entry |-> {"head"}, head |-> {"left", "right"}, left |-> {"head"}, right |-> {"head"}]]

\* Calls: a function with a body, one without, and a pointer that is not
\* resolved; the value returned goes through a phi.
Calls ==
    [code |-> [entry |-> <<Op("p", "int", <<>>), Br("b0", <<>>)>>,
               head  |-> <<Phi("v", [entry |-> "k", head |-> "r"]), CallTo("e", "extern", <<"v">>, <<"z">>),
                           CallTo("r", "f", <<"p", "v">>, <<"q">>), CallTo("u", "unknown", <<"v">>, <<>>),
                           St("s", "e", "p"), Op("w", "int", <<"r">>), Br("b1", <<"w">>)>>,
               f     |-> <<Ld("x", "q"), Op("y", "int", <<"x", "q">>), Ret("t", <<"y">>)>>],
     next |-> [entry |-> {"head"}, head |-> {"head"}, f |-> {}]]

\* Independent chains: instructions issue far out of order.
Chains ==
    [code |-> [entry |-> <<Op("p", "int", <<>>), Ld("a", "p"), Ld("b", "k"), Op("c", "fp", <<"a">>),
                           Op("d", "int", <<"k">>), Op("e", "fp", <<"c">>), Op("f", "int", <<"d">>),
                           St("s", "f", "p"), Op("g", "fp", <<>>), Br("b0", <<"g">>)>>],
     next |-> [entry |-> {"entry"}]]

\* A block with nothing but a branch between a block and a phi.
Bypass ==
    [code |-> [entry |-> <<Op("p", "int", <<>>), Ld("a", "p"), Br("b0", <<>>)>>,
               head  |-> <<Op("c", "int", <<"a">>), Br("b1", <<"c">>)>>,
               left  |-> <<Br("b2", <<>>)>>,
               join  |-> <<Phi("i", [left |-> "a", head |-> "k"]), Op("y", "int", <<"i">>), Br("b3", <<>>)>>],
     next |-> [entry |-> {"head"}, head |-> {"left", "join"}, left |-> {"join"}, join |-> {"head"}]]
BypassSetups == {[ctrl |-> "ignore", window |-> 0, code |-> Bypass.code, next |-> Bypass.next]}

\* A function f(x, y) that calls f(k, x): x is given its new cycle before the
\* argument x is read.
PassedOn ==
    [code |-> [entry |-> <<Op("p", "int", <<>>), Ld("a", "p"), CallTo("c", "f", <<"a", "p">>, <<"x", "y">>)>>,
               f     |-> <<Op("z", "int", <<"y">>), CallTo("r", "f", <<"k", "x">>, <<"x", "y">>)>>],
     next |-> [entry |-> {}, f |-> {}]]
PassedOnSetups == {[ctrl |-> "none", window |-> 0, code |-> PassedOn.code, next |-> PassedOn.next]}

\* A function that calls itself between the assignment and a use of y.
Recursion ==
    [code |-> [entry |-> <<Op("p", "int", <<>>), Ld("a", "p"), CallTo("c", "f", <<"a">>, <<"x">>)>>,
               f     |-> <<Op("y", "int", <<"x">>), Br("b0", <<>>)>>,
               again |-> <<CallTo("r", "f", <<"k">>, <<"x">>), Op("z", "int", <<"y">>), Ret("t0", <<>>)>>,
               leave |-> <<Ret("t1", <<>>)>>],
     next |-> [entry |-> {}, f |-> {"again", "leave"}, again |-> {}, leave |-> {}]]
RecursionSetups == {[ctrl |-> "none", window |-> 0, code |-> Recursion.code, next |-> Recursion.next]}

\* The phi h, the former value of i, stands behind i.
Former ==
    [code |-> [entry |-> <<Op("p", "int", <<>>), Ld("a", "p"), Br("b0", <<>>)>>,
               head  |-> <<Phi("i", [entry |-> "a", head |-> "k"]), Phi("h", [entry |-> "k", head |-> "i"]),
                           Op("y", "int", <<"h">>), Br("b1", <<>>)>>],
     next |-> [entry |-> {"head"}, head |-> {"head"}]]
FormerSetups == {[ctrl |-> "none", window |-> 0, code |-> Former.code, next |-> Former.next]}

MCSetups ==
    {[ctrl |-> c, window |-> w, code |-> p.code, next |-> p.next] :
        c \in {"none", "serialise", "ignore"}, w \in {0, 2, 4}, p \in {Loop, Calls, Chains}}
ASSUME TracedAssumption == \A s \in MCSetups : Traced(s)
================================================================================
