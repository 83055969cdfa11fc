------------------------------ MODULE RoxmlXpath ------------------------------
(***************************************************************************)
(* The evaluation of an xpath on a document: roxml_check_node and what it  *)
(* calls in src/src/roxml_xpath.c.  RoxmlPool models the request ids and   *)
(* the tokens by which concurrent evaluations keep their answers apart;    *)
(* here an evaluation is alone, and its answer is the set of the nodes     *)
(* that are added to the pool under its id.                                *)
(*                                                                         *)
(* t is the source of the document, c has its nodes, q is a parsed xpath   *)
(* (RoxmlPath), n the context node.                                        *)
(***************************************************************************)
EXTENDS RoxmlNav, RoxmlPath

\* The name of a step; <<"NULL">> when it has none.
StepName(q, step) == IF step.name < 0 THEN <<"NULL">> ELSE StringAt(q.text, step.name)

Prefixed(t, c, n) ==
    (IF c.heap[n].ns = Null \/ NameOf(t, c, c.heap[n].ns) = <<>> THEN <<>>
     ELSE NameOf(t, c, c.heap[n].ns) \o <<":">>) \o NameOf(t, c, n)

\* Where roxml_strtonum stops, the number is 0.
Number(str) ==
    IF str = <<>> \/ Head(str) \notin Digits THEN 0
    ELSE CHOOSE i \in 0..3 : <<"0", "1", "2", "3">>[i + 1] = Head(str)

\* roxml_double_cmp
DoubleCmp(a, b, op) ==
    CASE op = "diff" -> a # b
      [] op = "einf" -> a <= b
      [] op = "inf" -> a < b
      [] op = "esup" -> a >= b
      [] op = "sup" -> a > b
      [] op = "equ" -> a = b
      [] OTHER -> FALSE

\* roxml_string_cmp, but the order of strings.
StringCmp(a, b, op) ==
    CASE op = "diff" -> a # b
      [] op \in {"equ", "esup", "einf"} -> a = b
      [] OTHER -> FALSE

\* roxml_get_node_internal_position
InternalPosition(c, n) ==
    IF c.heap[n].prnt = Null THEN 1 ELSE 1 + Len(SiblingsBefore(c.heap, n))

-----------------------------------------------------------------------------

RECURSIVE ExecXpath(_, _, _, _)

\* The content a comparison looks at: that of the attribute that follows one
\* character (@), or of the node.
Operand1(t, c, q, cond, n) ==
    LET attr == IF StringAt(q.text, cond.arg1)[1] # "@" THEN Null
                ELSE NodesByName(t, c, n, {"att"}, StringAt(q.text, cond.arg1 + 1))
    IN CASE cond.arg1 < 0 -> ContentOf(t, c, n)
         [] cond.arg1 >= 0 /\ attr = Null -> <<>>
         [] OTHER -> ContentOf(t, c, attr)

\* The switch of roxml_validate_predicat.  roxml_double_oper makes 0 of an
\* operator that compares, and no position is 0.
Status(t, c, q, step, cond, n) ==
    LET arg2 == StringAt(q.text, cond.arg2)
        position == IF StepName(q, step) = <<"*">> THEN InternalPosition(c, n)
                    ELSE NodePosition(t, c, n)
        from == IF cond.func = "first" THEN 1
                ELSE NodesNb(c, c.heap[n].prnt, {"elm"})
        ns == c.heap[n].ns
    IN CASE cond.func = "pos" -> DoubleCmp(position, Number(arg2), cond.op)
         [] cond.func \in {"first", "last"} ->
              position = CASE cond.op = "none" -> from
                           [] cond.op = "add" -> from + Number(arg2)
                           [] cond.op = "sub" -> from - Number(arg2)
                           [] OTHER -> 0
         [] cond.func = "intcomp" ->
              DoubleCmp(Number(Operand1(t, c, q, cond, n)), Number(arg2), cond.op)
         [] cond.func = "strcomp" ->
              StringCmp(Operand1(t, c, q, cond, n), arg2, cond.op)
         [] cond.func = "nsuri" ->
              StringCmp(IF ns = Null THEN <<>> ELSE ContentOf(t, c, ns), arg2, cond.op)
         [] cond.func = "lname" -> NameOf(t, c, n) = arg2
         [] cond.func = "xpath" -> ExecXpath(t, c, cond.xp[1], n) # {}
         [] OTHER -> FALSE

\* roxml_validate_predicat
ValidatePredicat(t, c, q, step, conds, n) ==
    conds = <<>> \/
    FoldLeft(LAMBDA valid, cond :
                LET status == Status(t, c, q, step, cond, n)
                IN CASE cond.rel = "or" -> valid \/ status
                     [] cond.rel = "and" -> valid /\ status
                     [] OTHER -> status,
             FALSE, conds)

\* roxml_validate_axe_func: whether the step takes the node for its type, and
\* whether its name is not even compared.
AxeFunc(c, name, abs, n) ==
    LET type == c.src[n].type
    IN CASE name \in {<<"NULL">>, <<"node()">>} -> TRUE
         [] name = <<"*">> -> type = "elm" \/ IsAttr(c.heap, n)
         [] name = <<"comment()">> -> type = "cmt"
         [] name = <<"processing-instruction()">> -> type = "pi"
         [] name = <<"text()">> -> IsText(c, n)
         [] OTHER -> name = <<>> /\ abs

\* roxml_validate_axes, without the answer: a comment or a processing
\* instruction is only taken by function, self and parent take any other node.
ValidateAxes(t, c, q, step, abs, n) ==
    LET name == StepName(q, step)
        taken == AxeFunc(c, name, abs, n)
    IN /\ \/ taken
          \/ step.axes \in {"self", "parent"}
          \/ c.src[n].type \notin {"cmt", "pi"} /\ Prefixed(t, c, n) = name
       /\ ValidatePredicat(t, c, q, step, step.cond, n)
       /\ ValidatePredicat(t, c, q, step, step.xp_cond, n)

Axes == {"itself", "desc", "desc_o_self"} \cup {AxesNames[a] : a \in DOMAIN AxesNames}

\* roxml_check_node: the answers of a path from step i on.  With desc, the
\* step is tried from all the descendants as well.  The following axis looks
\* at the siblings that follow, and at their descendants.
CheckNode(t, c, q, path, n) ==
    LET h == c.heap
        last == Len(path.steps)
        step(i, axes) ==
            IF axes = "itself" THEN path.steps[i] ELSE [path.steps[i] EXCEPT !.axes = axes]
        valid(i, axes, m) ==
            LET abs == path.abs /\ i = 1
                at == IF abs /\ StepName(q, path.steps[i]) = <<>> THEN Root ELSE m
            IN ValidateAxes(t, c, q, step(i, axes), abs, at)
        add(i, m) ==
            IF i < last THEN {}
            ELSE IF path.abs /\ i = 1 /\ StepName(q, path.steps[i]) = <<>> THEN {Root} ELSE {m}
        ancestors[m \in Ptr] == IF m = Null THEN <<>> ELSE <<m>> \o ancestors[h[m].prnt]
        check[i \in 1..last + 1, axes \in Axes, m \in Ptr, desc \in BOOLEAN] ==
            LET next(k) == IF i >= last THEN {}
                           ELSE check[i + 1, path.steps[i + 1].axes, k, FALSE]
                \* A node that is tried, and where the next step goes on.
                take(k) == IF valid(i, axes, k) THEN add(i, k) ELSE {}
                try(k, from) == IF valid(i, axes, k) THEN add(i, k) \cup next(from) ELSE {}
                all(seq) == UNION {try(k, k) : k \in ToSet(seq)}
                deep(seq) ==
                    UNION {IF valid(i, axes, k) THEN try(k, k)
                           ELSE check[i, "child", k, TRUE] : k \in ToSet(seq)}
                kids == Children(h, m)
            IN (IF ~desc THEN {} ELSE UNION {check[i, axes, k, TRUE] : k \in ToSet(kids)})
               \cup
               CASE axes = "child" ->
                      all(kids) \cup
                      (IF StepName(q, path.steps[i]) \notin {<<"NULL">>, <<"node()">>} THEN {}
                       ELSE UNION {take(a) : a \in ToSet(Attributes(h, m))})
                 [] axes = "desc" -> check[i + 1, path.steps[i + 1].axes, m, TRUE]
                 [] axes = "desc_o_self" ->
                      LET to == path.steps[i + 1].axes
                      IN check[i + 1, "itself", m, FALSE] \cup check[i + 1, to, m, TRUE]
                 [] axes = "itself" -> try(m, m)
                 [] axes = "self" -> next(m) \cup take(m)
                 [] axes = "parent" ->
                      IF h[m].prnt = Null THEN {}
                      ELSE next(h[m].prnt) \cup take(h[m].prnt)
                 [] axes = "attr" -> UNION {try(a, m) : a \in ToSet(Attributes(h, m))}
                 [] axes = "anc" -> all(Tail(ancestors[m]))
                 [] axes = "anc_o_self" -> all(ancestors[m])
                 [] axes = "next_sibl" -> all(ListFrom(h, h[m].sibl))
                 [] axes = "prev_sibl" -> all(SiblingsBefore(h, m))
                 [] axes = "next" -> deep(ListFrom(h, h[m].sibl))
                 [] axes = "prev" ->
                      UNION {deep(SiblingsBefore(h, k)) :
                             k \in {k \in ToSet(ancestors[m]) : h[k].prnt # Null}}
                 [] axes = "ns" -> try(h[m].ns, m)
    IN check[1, path.steps[1].axes, n, FALSE]

\* roxml_exec_xpath (RoxmlPool has its pools): first the paths that are and-ed,
\* where one without answer takes all the answers found so far away, then the
\* others.
ExecXpath(t, c, q, n) ==
    LET answers(i) ==
            CheckNode(t, c, q, q.paths[i], IF q.paths[i].abs THEN Root ELSE n)
        first(i) == i < Len(q.paths) /\ q.paths[i + 1].rel = "and"
        plain == {i \in 1..Len(q.paths) : q.paths[i].rel = "or" /\ ~first(i)}
        and(s, i) ==
            CASE i \in plain -> s
              [] q.paths[i].rel = "and" /\ (s.prev = {} \/ answers(i) = {}) ->
                   [set |-> {}, prev |-> {}]
              [] OTHER -> [set |-> s.set \cup answers(i), prev |-> answers(i)]
    IN FoldLeft(and, [set |-> {}, prev |-> {}], [i \in 1..Len(q.paths) |-> i]).set
       \cup UNION {answers(i) : i \in plain}

\* roxml_xpath, from each of some nodes.  A text with an error has no answer.
Xpath(t, c, text, nodes) ==
    LET q == ParseXpath(text, 0)
    IN [n \in nodes |-> IF q.ret < 0 THEN {} ELSE ExecXpath(t, c, q, n)]

=============================================================================
