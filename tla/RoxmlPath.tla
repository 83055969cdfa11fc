------------------------------- MODULE RoxmlPath -------------------------------
(***************************************************************************)
(* The xpath string parser: roxml_parse_xpath, roxml_set_axes and the      *)
(* callbacks of src/src/roxml_xpath.c, on the engine of RoxmlParser.       *)
(*                                                                         *)
(* A text is a sequence of symbols: a mark, a white space, a name, a       *)
(* number, the name of an axis, of a function or of an operator, or "", a  *)
(* terminating zero.  The parser cuts the text in place: it stores offsets *)
(* and writes zeros after the names and arguments they point to.           *)
(*                                                                         *)
(* The context c is roxml_xpath_ctx_t, with                                *)
(*    text, pos      the string and the offset of the callback             *)
(*    paths          first_node: paths with their lists of xpath_node_t;   *)
(*                   new_node is the last step of the last path            *)
(*    where          the path and the step whose last condition is         *)
(*                   new_cond, <<>> when there is none                     *)
(*    bracket, parenthesys, quoted, dquoted, content_quoted,               *)
(*    wait_first_node, shorten_cond, context   as in the code              *)
(*    ret            what the callback returned                            *)
(* (is_first_node is never set without wait_first_node and goes with it).  *)
(* A step has its axes, the offset of its name (-1: NULL), its predicates  *)
(* (cond) and its comparison outside brackets (xp_cond).                   *)
(***************************************************************************)
EXTENDS RoxmlParser

LOCAL Blank == {" ", "\n"}
LOCAL TextAt(s, i) == IF i \in 0..Len(s) - 1 THEN s[i + 1] ELSE ""

Digits == {"0", "1", "2", "3"}

\* The string a pointer points to, up to the first zero.
StringAt(s, i) ==
    LET end == CHOOSE j \in i..Len(s) :
                  TextAt(s, j) = "" /\ \A k \in i..j - 1 : TextAt(s, k) # ""
    IN SubSeq(s, i + 1, end)

Put0(c, i) == IF i \in 0..Len(c.text) - 1 THEN [c EXCEPT !.text[i + 1] = ""] ELSE c

Here(c, n) == TextAt(c.text, c.pos + n)

Unquoted(c) == ~c.quoted /\ ~c.dquoted

Read(c, n) == [c EXCEPT !.ret = n]

-----------------------------------------------------------------------------
(* Steps.                                                                  *)

AxesNames ==
    "parent::" :> "parent" @@ ".." :> "parent" @@ "self::" :> "self" @@ "." :> "self"
    @@ "attribute::" :> "attr" @@ "@" :> "attr" @@ "ancestor::" :> "anc"
    @@ "ancestor-or-self::" :> "anc_o_self" @@ "following-sibling::" :> "next_sibl"
    @@ "preceding-sibling::" :> "prev_sibl" @@ "following::" :> "next"
    @@ "preceding::" :> "prev" @@ "namespace::" :> "ns" @@ "child::" :> "child"

Step(axes, name) == [axes |-> axes, name |-> name, cond |-> <<>>, xp_cond |-> <<>>]

Path(rel) == [rel |-> rel, abs |-> FALSE, steps |-> <<>>]

\* roxml_set_axes: the steps that one step of the string stands for, the /
\* that are cut, and how far the offset moves: over these and the long names
\* of the descendant axes.
RECURSIVE SetAxes(_, _)
SetAxes(s, i) ==
    LET j == IF TextAt(s, i) = "/" THEN i + 1 ELSE i
        axes == TextAt(s, j)
        step == IF axes \in DOMAIN AxesNames THEN Step(AxesNames[axes], j + 1)
                ELSE Step("child", j)
        result(steps, sub, n) ==
            [steps |-> steps \o sub.steps,
             slashes |-> (IF j > i THEN <<i>> ELSE <<>>) \o sub.slashes,
             offset |-> (j - i) + n + sub.offset]
        none == [steps |-> <<>>, slashes |-> <<>>, offset |-> 0]
        rest == SetAxes(s, j + 1)
    IN CASE axes = "/" ->
              result(<<Step("desc_o_self", j + 1), Step("child", -1)>>,
                     IF TextAt(s, j + 1) = "" THEN none ELSE rest, 0)
         [] axes = "descendant-or-self::" -> result(<<Step("desc_o_self", j + 1)>>, rest, 1)
         [] axes = "descendant::" -> result(<<Step("desc", j + 1)>>, rest, 1)
         [] OTHER -> result(<<step>>, none, 0)

\* The step at the offset is the first one of its path, or comes next.  A / that
\* begins a path makes the first path absolute.
NewStep(c) ==
    LET set == SetAxes(c.text, c.pos)
        begins == Here(c, 0) = "/" /\ c.wait_first_node
        d == [c EXCEPT !.paths[Len(c.paths)].steps = @ \o set.steps,
                       !.paths[1].abs = @ \/ begins,
                       !.wait_first_node = FALSE]
    IN FoldLeft(Put0, d, set.slashes)

\* A path after an operator; the character before the operator ends the
\* string that comes before.
NewPath(c, rel) ==
    Put0([c EXCEPT !.paths = Append(@, Path(rel)), !.wait_first_node = TRUE], c.pos - 1)

-----------------------------------------------------------------------------
(* Conditions.                                                             *)

Cond(rel, arg1) ==
    [rel |-> rel, func |-> "none", op |-> "none", arg1 |-> arg1, arg2 |-> -1, xp |-> <<>>]

LOCAL CondsOf(c) == c.paths[c.where[1]].steps[c.where[2]].cond

\* new_cond
NewCond(c) == Last(CondsOf(c))
SetCond(c, cond) ==
    [c EXCEPT !.paths[c.where[1]].steps[c.where[2]].cond[Len(CondsOf(c))] = cond]

\* In a predicate that is not an xpath.
Simple(c) == c.bracket /\ Unquoted(c) /\ NewCond(c).func # "xpath"

\* The second operand of a comparison after offset i: where it starts, and
\* which quotes it has.
Operand(c, i) ==
    LET quote == TextAt(c.text, i)
    IN CASE quote = "\"" -> <<i + 1, "dquote">>
         [] quote = "'" -> <<i + 1, "quote">>
         [] OTHER -> <<i, c.content_quoted>>

\* roxml_is_number: an empty string is one too.
IsNumber(s, i) ==
    LET end == IF TextAt(s, i) \in Digits THEN i + 1 ELSE i
    IN TextAt(s, end) \in Blank \cup {"\"", "'", ""}

\* Mutant: the white space before the operator stays in the name.
CompareUntrimmed(c, cond, op, or_equal) ==
    LET k == c.pos + 1 + (IF Here(c, 1) \in Blank THEN 1 ELSE 0)
        arg2 == Operand(c, k)
    IN [ctx |-> Put0([c EXCEPT !.content_quoted = arg2[2]], c.pos),
        cond |-> [cond EXCEPT !.op = op, !.arg2 = arg2[1],
                     !.func = IF IsNumber(c.text, arg2[1]) THEN "intcomp" ELSE "strcomp"],
        read |-> k - c.pos]

\* What _func_xpath_operators does with a condition: zeros are written over
\* the operator and the white space around it.
Compare(c, cond, op, or_equal) ==
    LET equal == Here(c, 1) = "="
        j == c.pos + (IF equal THEN 1 ELSE 0)
        k == IF TextAt(c.text, j + 1) \in Blank THEN j + 1 ELSE j
        arg2 == Operand(c, k + 1)
        func == IF IsNumber(c.text, arg2[1]) THEN "intcomp" ELSE "strcomp"
        from == IF Here(c, -1) \in Blank THEN c.pos - 1 ELSE c.pos
    IN [ctx |-> FoldLeft(Put0, [c EXCEPT !.content_quoted = arg2[2]],
                         [i \in 1..k - from + 1 |-> from + i - 1]),
        cond |-> [cond EXCEPT !.op = IF equal THEN or_equal ELSE op,
                              !.arg2 = arg2[1],
                              !.func = IF @ = "none" THEN func ELSE @],
        read |-> k + 1 - c.pos]

-----------------------------------------------------------------------------
(* The callbacks.                                                          *)

RECURSIVE ParseXpath(_, _)

Shorten(c, value) == [c EXCEPT !.shorten_cond = value]

XpathNewNode(c) ==
    IF Unquoted(c) /\ ~c.parenthesys /\ ~c.bracket
    THEN Read(NewStep(Shorten(c, FALSE)), SetAxes(c.text, c.pos).offset + 1)
    ELSE Read(Shorten(c, FALSE), 0)

XpathQuote(c) ==
    LET close == c.quoted /\ c.content_quoted = "quote"
        d == IF close THEN Put0([c EXCEPT !.content_quoted = "none"], c.pos) ELSE c
    IN Read(Shorten(IF c.dquoted THEN c ELSE [d EXCEPT !.quoted = ~@], FALSE), 1)

XpathDquote(c) ==
    LET close == c.dquoted /\ c.content_quoted = "dquote"
        d == IF close THEN Put0([c EXCEPT !.content_quoted = "none"], c.pos) ELSE c
    IN Read(Shorten(IF c.quoted THEN c ELSE [d EXCEPT !.dquoted = ~@], FALSE), 1)

XpathParenthesys(c) ==
    Read(Shorten([c EXCEPT !.parenthesys = IF Unquoted(c) THEN ~@ ELSE @], FALSE), 1)

\* A second predicate of a step takes the place of the first.
XpathOpenBrackets(c) ==
    LET p == Len(c.paths)
        s == Len(c.paths[p].steps)
        d == [c EXCEPT !.bracket = ~@, !.shorten_cond = TRUE, !.where = <<p, s>>,
                       !.paths[p].steps[s].cond = <<Cond("none", c.pos + 1)>>]
    IN Read(IF Unquoted(c) THEN Put0(d, c.pos) ELSE Shorten(c, FALSE), 1)

XpathCloseBrackets(c) ==
    LET d == Put0([c EXCEPT !.bracket = ~@], c.pos)
        cond == NewCond(d)
        sub == [cond EXCEPT !.xp = <<ParseXpath(StringAt(d.text, cond.arg1), 1)>>]
    IN CASE Unquoted(c) /\ c.where = <<>> -> Read(d, -1)
         [] Unquoted(c) /\ c.where # <<>> ->
              Read(Shorten(IF cond.func = "xpath" THEN SetCond(d, sub) ELSE d, FALSE), 1)
         [] OTHER -> Read(Shorten(c, FALSE), 1)

\* _func_xpath_condition_or and _func_xpath_condition_and.  Two paths are only
\* combined in a predicate.
XpathCondition(c, rel) ==
    LET p == c.where[1]
        s == c.where[2]
        cond == [c EXCEPT !.paths[p].steps[s].cond =
                            Append(@, Cond(rel, c.pos + 2))]
    IN CASE Here(c, 0) # rel \/ ~({Here(c, -1), Here(c, 1)} \subseteq Blank) -> Read(c, 0)
         [] Here(c, 0) = rel /\ ~c.bracket /\ Unquoted(c) /\ c.context = 1 ->
              Read(Shorten(NewPath(c, rel), FALSE), 1)
         [] Here(c, 0) = rel /\ Simple(c) ->
              Read(Shorten(Put0(cond, c.pos - 1), FALSE), 1)
         [] OTHER -> Read(c, 0)

XpathPathOr(c) ==
    IF ~c.bracket /\ Unquoted(c) THEN Read(Shorten(NewPath(c, "or"), FALSE), 1)
    ELSE Read(Shorten(c, FALSE), 0)

XpathOperators(c, op, or_equal) ==
    LET p == Len(c.paths)
        s == Len(c.paths[p].steps)
        out == Compare(c, Cond("none", -1), op, or_equal)
        in == Compare(c, NewCond(c), op, or_equal)
    IN CASE ~c.bracket /\ Unquoted(c) ->
              Read(Shorten([out.ctx EXCEPT !.paths[p].steps[s].xp_cond = <<out.cond>>],
                           FALSE), out.read)
         [] c.bracket /\ Simple(c) ->
              Read(Shorten(SetCond(in.ctx, in.cond), FALSE), in.read)
         [] OTHER -> Read(Shorten(c, FALSE), 0)

XpathNumber(c) ==
    IF Simple(c) /\ c.shorten_cond
    THEN Read(Shorten(SetCond(c, [NewCond(c) EXCEPT !.func = "pos", !.op = "equ",
                                                    !.arg2 = c.pos]), FALSE), 1)
    ELSE Read(Shorten(c, FALSE), 0)

XpathFuncs(c, func, name) ==
    IF Here(c, 0) = name /\ NewCond(c).func # func
    THEN Read(Shorten(SetCond(c, [NewCond(c) EXCEPT !.func = func]), FALSE), 1)
    ELSE Read(c, 0)

\* _func_xpath_operator_add and _func_xpath_operator_subs
XpathAdd(c, op) ==
    LET white == IF Here(c, 1) \in Blank THEN 1 ELSE 0
        cond == NewCond(c)
        d == SetCond(c, [cond EXCEPT !.op = IF cond.func \in {"last", "first"} THEN op ELSE @,
                                     !.arg2 = c.pos + white + 1])
    IN IF Simple(c)
       THEN Read(Shorten(Put0(Put0(d, c.pos), c.pos + white), FALSE), white)
       ELSE Read(Shorten(c, FALSE), 0)

\* A predicate that begins with anything else is an xpath, up to its bracket.
XpathDefault(c) ==
    LET count(mark, j) == Cardinality({i \in c.pos..j : TextAt(c.text, i) = mark})
        end == CHOOSE j \in c.pos..Len(c.text) :
                  /\ count("]", j) = count("[", j) + 1
                  /\ \A i \in c.pos..j - 1 : count("]", i) <= count("[", i)
        first == c.wait_first_node
        n == CASE first /\ Unquoted(c) /\ ~c.parenthesys /\ ~c.bracket ->
                    SetAxes(c.text, c.pos).offset
               [] ~first /\ Simple(c) /\ c.shorten_cond -> end - c.pos
               [] OTHER -> 0
        d == CASE first /\ Unquoted(c) /\ ~c.parenthesys /\ ~c.bracket -> NewStep(c)
               [] ~first /\ Simple(c) /\ c.shorten_cond ->
                    SetCond(c, [NewCond(c) EXCEPT !.func = "xpath", !.arg1 = c.pos])
               [] OTHER -> c
    IN Read(Shorten(d, FALSE), IF n > 0 THEN n ELSE 1)

XpathCall(func, c, s) ==
    CASE func = "ignore" -> Read(c, 1)
      [] func = "dquote" -> XpathDquote(c)
      [] func = "quote" -> XpathQuote(c)
      [] func = "new_node" -> XpathNewNode(c)
      [] func \in {"open_parenthesys", "close_parenthesys"} -> XpathParenthesys(c)
      [] func = "open_brackets" -> XpathOpenBrackets(c)
      [] func = "close_brackets" -> XpathCloseBrackets(c)
      [] func = "operator_equal" -> XpathOperators(c, "equ", "equ")
      [] func = "operator_sup" -> XpathOperators(c, "sup", "esup")
      [] func = "operator_inf" -> XpathOperators(c, "inf", "einf")
      [] func = "operator_diff" -> XpathOperators(c, "diff", "diff")
      [] func = "number" -> XpathNumber(c)
      [] func = "operator_add" -> XpathAdd(c, "add")
      [] func = "operator_subs" -> XpathAdd(c, "sub")
      [] func = "path_or" -> XpathPathOr(c)
      [] func = "condition_or" -> XpathCondition(c, "or")
      [] func = "condition_and" -> XpathCondition(c, "and")
      [] func = "position" -> XpathFuncs(c, "pos", "position()")
      [] func = "first" -> XpathFuncs(c, "first", "first()")
      [] func = "last" -> XpathFuncs(c, "last", "last()")
      [] func = "nsuri" -> XpathFuncs(c, "nsuri", "namespace-uri()")
      [] func = "lname" -> XpathFuncs(c, "lname", "local-name()")
      [] func = "default" -> XpathDefault(c)

-----------------------------------------------------------------------------
(* roxml_parse_xpath.                                                      *)

\* The first characters that have callbacks, of the symbols that are words.
Initial(symbol) ==
    CASE symbol \in {"or"} -> "o"
      [] symbol \in {"and", "attribute::", "ancestor::", "ancestor-or-self::"} -> "a"
      [] symbol \in {"position()", "parent::", "preceding::", "preceding-sibling::",
                     "processing-instruction()"} -> "p"
      [] symbol \in {"first()", "following::", "following-sibling::"} -> "f"
      [] symbol \in {"last()", "local-name()"} -> "l"
      [] symbol \in {"namespace-uri()", "namespace::", "node()"} -> "n"
      [] OTHER -> symbol

XpathItems == <<
    <<" ", "ignore">>, <<"\n", "ignore">>, <<"\"", "dquote">>, <<"'", "quote">>,
    <<"/", "new_node">>, <<"(", "open_parenthesys">>, <<")", "close_parenthesys">>,
    <<"[", "open_brackets">>, <<"]", "close_brackets">>, <<"=", "operator_equal">>,
    <<">", "operator_sup">>, <<"<", "operator_inf">>, <<"!", "operator_diff">>,
    <<"0", "number">>, <<"1", "number">>, <<"2", "number">>, <<"3", "number">>,
    <<"+", "operator_add">>, <<"-", "operator_subs">>, <<"|", "path_or">>,
    <<"o", "condition_or">>, <<"a", "condition_and">>, <<"p", "position">>,
    <<"f", "first">>, <<"l", "last">>, <<"n", "nsuri">>, <<"l", "lname">>,
    <<"", "default">> >>

XpathKeys == {item[1] : item \in ToSet(XpathItems)}

XpathParser == Parser(XpathKeys, XpathItems)

\* A character that has no callback has the default one.
KeyOf(symbol) == IF Initial(symbol) \in XpathKeys THEN Initial(symbol) ELSE ""

\* context: 0 for an xpath, 1 for one in a predicate.
ParseXpath(text, context) ==
    LET ctx == [text |-> text, pos |-> 0, paths |-> <<Path("or")>>, where |-> <<>>,
                bracket |-> FALSE, parenthesys |-> FALSE, quoted |-> FALSE,
                dquoted |-> FALSE, content_quoted |-> "none", wait_first_node |-> TRUE,
                shorten_cond |-> FALSE, context |-> context,
                ret |-> 1]
        turn(c, i) ==
            IF c.ret < 0 \/ c.pos >= Len(text) THEN c
            ELSE LET d == Turn(XpathParser, KeyOf(Here(c, 0)), XpathCall, c, <<>>)
                 IN [d EXCEPT !.pos = @ + d.ret]
    IN FoldLeft(turn, ctx, [i \in 1..Len(text) |-> i])

=============================================================================
