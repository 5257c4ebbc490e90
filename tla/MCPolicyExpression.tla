-------------------------- MODULE MCPolicyExpression --------------------------
(***************************************************************************)
(* PolicyExpression for TLC.                                               *)
(***************************************************************************)
EXTENDS PolicyExpression

MCLexeme ==
  {"or", "and", "not", "<", "in", "(", ")", "[", "]", ",", ".", "principal", "environment", "1"}
MCStr == <<"a">>
\* An object with one attribute, and a dict that has its value for a key.
MCContext ==
  [principal |-> <<"object", [principal |-> Text("a")]>>,
   environment |-> <<"dict", [a |-> Num(1)]>>]
=============================================================================
