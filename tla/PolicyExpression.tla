--------------------------- MODULE PolicyExpression ---------------------------
(***************************************************************************)
(* The condition language of policies (apps.authz.engine.dsl): lexer,      *)
(* recursive-descent parser and evaluator, and the grammar the parser's    *)
(* docstring gives.                                                        *)
(*                                                                         *)
(* A source is a sequence of lexemes: where one ends and the next begins   *)
(* is left out.  A number is itself; true and false are the numbers 1 and  *)
(* 0, which is what Python compares them as.  Strings are taken from a     *)
(* list in which none is part of another, so that "in" on two of them is   *)
(* "=".                                                                    *)
(***************************************************************************)
EXTENDS Integers, Sequences, SequencesExt

CONSTANTS
  Lexeme,   \* what a source is made of
  Str,      \* the strings in their order; as lexemes, the literals
  Context,  \* Context[name]: the value of a top-level variable
  MaxLen    \* bound: lexemes in a source

VARIABLE src  \* a source, as it is typed

Init == src = <<>>
Next == /\ Len(src) < MaxLen
        /\ \E x \in Lexeme : src' = Append(src, x)
Spec == Init /\ [][Next]_src

-----------------------------------------------------------------------------
(* The lexer.                                                                *)

Comparisons == {"==", "!=", "<", "<=", ">", ">="}
Keywords == {"and", "or", "not", "true", "false", "null", "in", "contains"}
Marks == {".", ",", "(", ")", "[", "]"}
Digits == {"0", "1", "2"}

\* _TOKEN_RULES; "skip" for blanks and comments, "none" where no rule matches.
TokenType(x) ==
  CASE x \in Keywords -> x
    [] x \in Comparisons -> "COMP"
    [] x \in Marks -> x
    [] x = "&&" -> "and"
    [] x = "||" -> "or"
    [] x = "!" -> "NOT_OP"
    [] x \in {" ", "#"} -> "skip"
    [] x = "@" -> "none"
    [] x \in Range(Str) -> "STRING"
    [] x \in Digits -> "NUMBER"
    [] OTHER -> "IDENTIFIER"

\* tokenize(): an EOF token comes last.
Tokens(s) ==
  Append(SelectSeq([i \in DOMAIN s |-> [type |-> TokenType(s[i]), value |-> s[i]]],
                   LAMBDA t : t.type # "skip"),
         [type |-> "EOF", value |-> ""])

-----------------------------------------------------------------------------
(* Values and abstract syntax: tagged tuples.                                *)

Num(n) == <<"num", n>>
Text(s) == <<"str", s>>
Null == <<"null">>
List(vs) == <<"list", vs>>
Bool(b) == Num(IF b THEN 1 ELSE 0)
Error == <<"error">>

NumberOf(x) == CASE x = "0" -> 0 [] x = "1" -> 1 [] OTHER -> 2

-----------------------------------------------------------------------------
(* The parser: each rule takes the position of its first token and returns   *)
(* its node and the position after it, at 0 after a DSLSyntaxError.          *)

Failed == [node |-> Null, at |-> 0]
Node(node, at) == [node |-> node, at |-> at]

RECURSIVE OrExpr(_, _), OrRest(_, _), AndExpr(_, _), AndRest(_, _), NotExpr(_, _)
RECURSIVE AccessRest(_, _), Items(_, _, _)

\* _list_literal() after its first item.
Items(ts, items, i) ==
  CASE ts[i].type = "," ->
         LET e == OrExpr(ts, i + 1)
         IN  IF e.at = 0 THEN Failed ELSE Items(ts, Append(items, e.node), e.at)
    [] ts[i].type = "]" -> Node(<<"items", items>>, i + 1)
    [] OTHER -> Failed

ListLiteral(ts, i) ==
  IF ts[i].type = "]" THEN Node(<<"items", <<>>>>, i + 1)
  ELSE LET e == OrExpr(ts, i)
       IN  IF e.at = 0 THEN Failed ELSE Items(ts, <<e.node>>, e.at)

Primary(ts, i) ==
  LET t == ts[i] IN
  CASE t.type = "true" -> Node(<<"literal", Bool(TRUE)>>, i + 1)
    [] t.type = "false" -> Node(<<"literal", Bool(FALSE)>>, i + 1)
    [] t.type = "null" -> Node(<<"literal", Null>>, i + 1)
    [] t.type = "NUMBER" -> Node(<<"literal", Num(NumberOf(t.value))>>, i + 1)
    [] t.type = "STRING" -> Node(<<"literal", Text(t.value)>>, i + 1)
    [] t.type = "IDENTIFIER" -> Node(<<"identifier", t.value>>, i + 1)
    [] t.type = "(" ->
         LET e == OrExpr(ts, i + 1)
         IN  IF e.at # 0 /\ ts[e.at].type = ")" THEN Node(e.node, e.at + 1) ELSE Failed
    [] t.type = "[" -> ListLiteral(ts, i + 1)
    [] OTHER -> Failed

AccessRest(ts, left) ==
  IF left.at = 0 \/ ts[left.at].type # "." THEN left
  ELSE IF ts[left.at + 1].type # "IDENTIFIER" THEN Failed
  ELSE AccessRest(ts, Node(<<"getattr", left.node, ts[left.at + 1].value>>, left.at + 2))

Access(ts, i) == AccessRest(ts, Primary(ts, i))

\* The right-hand side of a comparison; a second operator is not part of it.
Compared(ts, left, op, i) ==
  LET right == Access(ts, i)
  IN  IF right.at = 0 THEN Failed ELSE Node(<<op, left.node, right.node>>, right.at)

\* "not in" is one operator here; the docstring's grammar does not have it.
Comparison(ts, i) ==
  LET left == Access(ts, i)
      t == ts[left.at]
  IN  CASE left.at = 0 -> Failed
        [] left.at # 0 /\ t.type = "COMP" -> Compared(ts, left, t.value, left.at + 1)
        [] left.at # 0 /\ t.type \in {"in", "contains"} ->
             Compared(ts, left, t.type, left.at + 1)
        [] left.at # 0 /\ t.type = "not" /\ ts[left.at + 1].type = "in" ->
             LET e == Compared(ts, left, "in", left.at + 2)
             IN  IF e.at = 0 THEN Failed ELSE Node(<<"not", e.node>>, e.at)
        [] OTHER -> left

\* A plausible defect of NotExpr: "not" applies to the operand alone.
NotExprTight(ts, i) ==
  IF ts[i].type \notin {"not", "NOT_OP"} THEN Comparison(ts, i)
  ELSE LET e == Access(ts, i + 1)
       IN  IF e.at = 0 THEN Failed ELSE Node(<<"not", e.node>>, e.at)

NotExpr(ts, i) ==
  IF ts[i].type \notin {"not", "NOT_OP"} THEN Comparison(ts, i)
  ELSE LET e == NotExpr(ts, i + 1)
       IN  IF e.at = 0 THEN Failed ELSE Node(<<"not", e.node>>, e.at)

AndRest(ts, left) ==
  IF left.at = 0 \/ ts[left.at].type # "and" THEN left
  ELSE LET right == NotExpr(ts, left.at + 1)
       IN  IF right.at = 0 THEN Failed
           ELSE AndRest(ts, Node(<<"and", left.node, right.node>>, right.at))

AndExpr(ts, i) == AndRest(ts, NotExpr(ts, i))

OrRest(ts, left) ==
  IF left.at = 0 \/ ts[left.at].type # "or" THEN left
  ELSE LET right == AndExpr(ts, left.at + 1)
       IN  IF right.at = 0 THEN Failed
           ELSE OrRest(ts, Node(<<"or", left.node, right.node>>, right.at))

OrExpr(ts, i) == OrRest(ts, AndExpr(ts, i))

\* parse(): the whole source; <<>> after a syntax error.
Parse(s) ==
  LET ts == Tokens(s)
      e == OrExpr(ts, 1)
  IN  IF (\E i \in DOMAIN ts : ts[i].type = "none") \/ e.at = 0 THEN <<>>
      ELSE IF ts[e.at].type # "EOF" THEN <<>>
      ELSE e.node

-----------------------------------------------------------------------------
(* The evaluator.                                                            *)

\* Whether Python takes a value for true.
Truthy(v) ==
  CASE v[1] = "num" -> v[2] # 0
    [] v[1] = "null" -> FALSE
    [] v[1] \in {"list", "dict"} -> v[2] # <<>>
    [] OTHER -> TRUE

\* _eval_getattr(): None without the attribute, and of None.
Attribute(v, name) ==
  IF v = Error THEN Error
  ELSE IF v[1] \in {"object", "dict"} THEN IF name \in DOMAIN v[2] THEN v[2][name] ELSE Null
  ELSE Null

Place(s) == CHOOSE i \in DOMAIN Str : Str[i] = s
Compare(op, m, n) ==
  CASE op = "<" -> m < n [] op = "<=" -> m <= n [] op = ">" -> m > n [] op = ">=" -> m >= n

\* Python's order: of numbers, of strings, of lists by the first items that
\* differ; anything else is a TypeError, two Nones and two objects included.
RECURSIVE Order(_, _, _)
Order(op, a, b) ==
  CASE a[1] = "num" /\ b[1] = "num" -> Bool(Compare(op, a[2], b[2]))
    [] a[1] = "str" /\ b[1] = "str" ->
         Bool(Compare(op, Place(a[2]), Place(b[2])))
    [] a[1] = "list" /\ b[1] = "list" ->
         LET differ == {i \in DOMAIN a[2] \cap DOMAIN b[2] : a[2][i] # b[2][i]} IN
         IF differ = {} THEN Bool(Compare(op, Len(a[2]), Len(b[2])))
         ELSE Order(op, a[2][Min(differ)], b[2][Min(differ)])
    [] OTHER -> Error

\* x in c: of None and of what has no __contains__ it is False, and of a string
\* anything but a string is a TypeError.  A dict has its keys, and a list or a dict
\* cannot be one (TypeError).
Within(x, c) ==
  CASE c[1] = "list" -> Bool(\E i \in DOMAIN c[2] : c[2][i] = x)
    [] c[1] = "str" -> IF x[1] = "str" THEN Bool(x = c) ELSE Error
    [] c[1] = "dict" -> IF x[1] \in {"list", "dict"} THEN Error
                        ELSE Bool(x[1] = "str" /\ x[2] \in DOMAIN c[2])
    [] OTHER -> Bool(FALSE)

\* A plausible defect of Apply: values that cannot be ordered compare as False.
ApplyLenient(op, a, b) ==
  CASE a = Error \/ b = Error -> Error
    [] op = "==" -> Bool(a = b)
    [] op = "!=" -> Bool(a # b)
    [] op = "in" -> Within(a, b)
    [] op = "contains" -> Within(b, a)
    [] OTHER -> IF Order(op, a, b) = Error THEN Bool(FALSE) ELSE Order(op, a, b)

\* _BINARY_OPS.
Apply(op, a, b) ==
  CASE a = Error \/ b = Error -> Error
    [] op = "==" -> Bool(a = b)
    [] op = "!=" -> Bool(a # b)
    [] op = "in" -> Within(a, b)
    [] op = "contains" -> Within(b, a)
    [] OTHER -> Order(op, a, b)

Variable(name) == IF name \in DOMAIN Context THEN Context[name] ELSE Error

RECURSIVE Evaluate(_)
Evaluate(n) ==
  CASE n[1] = "literal" -> n[2]
    [] n[1] = "items" ->
         LET vs == [i \in DOMAIN n[2] |-> Evaluate(n[2][i])]
         IN  IF \E i \in DOMAIN vs : vs[i] = Error THEN Error ELSE List(vs)
    [] n[1] = "identifier" -> Variable(n[2])
    [] n[1] = "getattr" -> Attribute(Evaluate(n[2]), n[3])
    [] n[1] = "not" ->
         LET v == Evaluate(n[2]) IN IF v = Error THEN Error ELSE Bool(~Truthy(v))
    [] n[1] \in {"and", "or"} ->
         LET left == Evaluate(n[2])
             right == Evaluate(n[3])
         IN  IF left = Error THEN Error
             ELSE IF Truthy(left) = (n[1] = "or") THEN Bool(n[1] = "or")
             ELSE IF right = Error THEN Error ELSE Bool(Truthy(right))
    [] OTHER -> Apply(n[1], Evaluate(n[2]), Evaluate(n[3]))

-----------------------------------------------------------------------------
(* The grammar: the nodes that a rule derives from ts[i .. j], over all ways *)
(* to cut it.                                                                *)

RECURSIVE Derives(_, _, _, _)

Binary(ts, i, j, left, op, right) ==
  UNION {{<<op, l, r>> : l \in Derives(left, ts, i, k - 1), r \in Derives(right, ts, k + 1, j)}
         : k \in {m \in i + 1 .. j - 1 : ts[m].type = op}}

\* The sequences of nodes that "list_items" derives.
RECURSIVE ListItems(_, _, _)
ListItems(ts, i, j) ==
  {<<e>> : e \in Derives("or", ts, i, j)} \cup
  UNION {{<<e>> \o es : e \in Derives("or", ts, i, k - 1), es \in ListItems(ts, k + 1, j)}
         : k \in {m \in i + 1 .. j - 1 : ts[m].type = ","}}

Derives(rule, ts, i, j) ==
  IF i > j THEN {}
  ELSE CASE
     rule = "or" -> Derives("and", ts, i, j) \cup Binary(ts, i, j, "or", "or", "and")
  [] rule = "and" -> Derives("not", ts, i, j) \cup Binary(ts, i, j, "and", "and", "not")
  [] rule = "not" ->
       Derives("comparison", ts, i, j) \cup
       (IF ts[i].type \in {"not", "NOT_OP"}
        THEN {<<"not", e>> : e \in Derives("not", ts, i + 1, j)} ELSE {})
  [] rule = "comparison" ->
       Derives("access", ts, i, j) \cup
       Binary(ts, i, j, "access", "in", "access") \cup
       Binary(ts, i, j, "access", "contains", "access") \cup
       UNION {{<<ts[k].value, l, r>> : l \in Derives("access", ts, i, k - 1),
                                       r \in Derives("access", ts, k + 1, j)}
              : k \in {m \in i + 1 .. j - 1 : ts[m].type = "COMP"}} \cup
       UNION {{<<"not", <<"in", l, r>>>> : l \in Derives("access", ts, i, k - 1),
                                           r \in Derives("access", ts, k + 2, j)}
              : k \in {m \in i + 1 .. j - 2 : ts[m].type = "not" /\ ts[m + 1].type = "in"}}
  [] rule = "access" ->
       Derives("primary", ts, i, j) \cup
       (IF j > i + 1 /\ ts[j - 1].type = "." /\ ts[j].type = "IDENTIFIER"
        THEN {<<"getattr", e, ts[j].value>> : e \in Derives("access", ts, i, j - 2)} ELSE {})
  [] rule = "primary" ->
       CASE i = j /\ ts[i].type \in {"true", "false"} -> {<<"literal", Bool(ts[i].type = "true")>>}
         [] i = j /\ ts[i].type = "null" -> {<<"literal", Null>>}
         [] i = j /\ ts[i].type = "NUMBER" -> {<<"literal", Num(NumberOf(ts[i].value))>>}
         [] i = j /\ ts[i].type = "STRING" -> {<<"literal", Text(ts[i].value)>>}
         [] i = j /\ ts[i].type = "IDENTIFIER" -> {<<"identifier", ts[i].value>>}
         [] i < j /\ ts[i].type = "(" /\ ts[j].type = ")" -> Derives("or", ts, i + 1, j - 1)
         [] i < j /\ ts[i].type = "[" /\ ts[j].type = "]" ->
              IF j = i + 1 THEN {<<"items", <<>>>>}
              ELSE {<<"items", es>> : es \in ListItems(ts, i + 1, j - 1)}
         [] OTHER -> {}

\* The parser accepts exactly the sources that the grammar derives (with "not in"
\* added), and gives each the one tree that the grammar gives it: precedence,
\* associativity, where a comparison ends.
ParserFollowsGrammar ==
  \A ts \in {Tokens(src)}, tree \in {Parse(src)} :
    (IF tree = <<>> THEN {} ELSE {tree}) = Derives("or", ts, 1, Len(ts) - 1)

\* Rewriting a condition does not change its verdict, whether it fails included:
\* and by or, the operators by their complements, "in" by "contains".
RewritesAgree ==
  \A n \in {Parse(src)} \ {<<>>} :
    LET Same(a, b) == Evaluate(a) = Evaluate(b)
        l == n[2]
        r == n[3]
    IN  n[1] \in Comparisons \cup {"and", "or", "in", "contains"} =>
          /\ Same(<<"not", <<"and", l, r>>>>, <<"or", <<"not", l>>, <<"not", r>>>>)
          /\ Same(<<"not", <<"==", l, r>>>>, <<"!=", l, r>>)
          /\ Same(<<"not", <<"<", l, r>>>>, <<">=", l, r>>)
          /\ Same(<<"in", l, r>>, <<"contains", r, l>>)
=============================================================================
