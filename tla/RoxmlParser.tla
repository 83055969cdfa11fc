----------------------------- MODULE RoxmlParser -----------------------------
(***************************************************************************)
(* The parsing engine (src/src/roxml_parser.c) that reads documents and    *)
(* xpath strings: a table of cells gives for each character the callbacks  *)
(* to try, and cell "" the default one.  When several callbacks are        *)
(* registered for a character, its cell holds roxml_parser_multiple and    *)
(* the head of a list in the collision pool, the cells after the main      *)
(* ones.                                                                   *)
(*                                                                         *)
(* A callback is called with the parsing context and the text from its     *)
(* character on, call(func, context, text); it leaves in the field ret of  *)
(* the context the number of characters it has read, 0 to pass, -1 for an  *)
(* error.  The keys of a parser are the characters, and "" for the default *)
(* cell.                                                                   *)
(***************************************************************************)
EXTENDS Integers, Sequences, SequencesExt

Cell(func, next) == [func |-> func, next |-> next]

\* A parser: its main cells and the used cells of its collision pool.
Allocate(keys) == [main |-> [k \in keys |-> Cell("none", 0)], pool |-> <<>>]

\* The cells of the pool from cell k on.
CellsFrom(p, k) ==
    LET cells[i \in 0..Len(p.pool)] ==
            IF i = 0 THEN <<>> ELSE <<i>> \o cells[p.pool[i].next]
    IN cells[k]

-----------------------------------------------------------------------------
(* Registration.                                                           *)

\* roxml_append_parser_item: the second callback of a character moves the
\* first one to the pool; cells of the pool are taken in order.
AppendItem(p, key, func) ==
    LET cell == p.main[key]
        free == Len(p.pool) + 1
    IN CASE cell.func = "none" -> [p EXCEPT !.main[key].func = func]
         [] cell.func # "none" /\ cell.next = 0 ->
              [p EXCEPT !.main[key] = Cell("multiple", free),
                        !.pool = @ \o <<Cell(cell.func, free + 1), Cell(func, 0)>>]
         [] OTHER ->
              [p EXCEPT !.pool =
                  Append([@ EXCEPT ![Last(CellsFrom(p, cell.next))].next = free],
                         Cell(func, 0))]

\* One character of roxml_parser_prepare: p is copied into new, an unused cell
\* takes the default callback, a list gets consecutive cells of the pool.
CopyCell(p, new, key) ==
    LET cell == p.main[key]
        list == CellsFrom(p, cell.next)
        base == Len(new.pool)
    IN IF cell.func = "none" THEN [new EXCEPT !.main[key] = p.main[""]]
       ELSE [new EXCEPT
               !.main[key] = Cell(cell.func, IF list = <<>> THEN 0 ELSE base + 1),
               !.pool = @ \o [i \in 1..Len(list) |->
                                Cell(p.pool[list[i]].func,
                                     IF i < Len(list) THEN base + i + 1 ELSE 0)]]

Prepare(p) ==
    LET keys == DOMAIN p.main
    IN FoldSet(LAMBDA key, new : CopyCell(p, new, key), Allocate(keys), keys)

\* The parser for a sequence of <<character, callback>>.
Parser(keys, items) ==
    Prepare(FoldLeft(LAMBDA p, item : AppendItem(p, item[1], item[2]),
                     Allocate(keys), items))

-----------------------------------------------------------------------------
(* One turn of the loop of roxml_parse_line.                               *)

\* Mutant: when all the callbacks of a character pass, it is not read.
CallbacksOnly(p, key) ==
    LET cell == p.main[key]
        list == CellsFrom(p, cell.next)
    IN IF cell.func = "multiple"
       THEN [i \in 1..Len(list) |-> p.pool[list[i]].func] ELSE <<cell.func>>

\* The callbacks of a character, then the default one.
Callbacks(p, key) ==
    LET cell == p.main[key]
        list == CellsFrom(p, cell.next)
    IN (IF cell.func = "multiple"
        THEN [i \in 1..Len(list) |-> p.pool[list[i]].func] ELSE <<cell.func>>)
       \o <<p.main[""].func>>

\* They are called in order until one does not pass.
Turn(p, key, call(_, _, _), context, text) ==
    FoldLeft(LAMBDA c, func : IF c.ret # 0 THEN c ELSE call(func, c, text),
             [context EXCEPT !.ret = 0], Callbacks(p, key))

=============================================================================
