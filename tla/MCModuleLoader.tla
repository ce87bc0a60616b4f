-------------------------- MODULE MCModuleLoader --------------------------
(***************************************************************************)
(* Instances of ModuleLoader for TLC: all programs of three modules whose  *)
(* import declarations take a name or the namespace of another module,     *)
(* pass it on, or pass everything on, and which may declare and export     *)
(* that name themselves.  The name is $, which sanitize turns into _.      *)
(***************************************************************************)
EXTENDS ModuleLoader

Names == {"default", "$", "_"}
Sanitize == [n \in Names |-> IF n = "$" THEN "_" ELSE n]

(* import {$ as _} from "s"; the same with export {_ as $};                *)
(* import * as _ from "s"; the same with export {_ as $};                  *)
(* export {$} from "s"; export * from "s".                                 *)
TextOf(declares, exported, links) ==
    LET Of(kinds) == SelectSeq(links, LAMBDA l : l.kind \in kinds) IN
    [imports |-> [i \in DOMAIN links |->
        [source |-> links[i].source,
         specifiers |-> CASE links[i].kind \in {"import", "pass"} ->
                               {[imported |-> "$", local |-> "_"]}
                          [] links[i].kind \in {"space", "forward"} -> {Space("_")}
                          [] OTHER -> {}]],
     declares |-> declares,
     exports |-> {[exported |-> n, local |-> n, source |-> 0] : n \in exported}
        \union (IF Of({"pass", "forward"}) # << >>
                THEN {[exported |-> "$", local |-> "_", source |-> 0]} ELSE {})
        \union {[exported |-> "$", local |-> "$", source |-> l.source] :
                    l \in ToSet(Of({"reexport"}))},
     all |-> [i \in DOMAIN Of({"all"}) |-> Of({"all"})[i].source]]

Links(m, kinds) == [source : Module \ {m}, kind : kinds]

Texts(m, kinds, most) ==
    LET Chosen == {c \in UNION {[1 .. n -> Links(m, kinds)] : n \in 0 .. most} :
                      \A i, j \in DOMAIN c : c[i].source = c[j].source => i = j}
    IN {t \in {TextOf({}, {}, c) : c \in Chosen}
             \union {TextOf({"$"}, e, c) : e \in {{}, {"$"}}, c \in Chosen} :
           WellFormed(t) /\ \A s, u \in ToSet(t.imports) :
              s.specifiers # {} /\ u.specifiers # {} => s = u}

Kinds == {"import", "pass", "space", "forward", "reexport", "all"}

(* The second module imports from both others where no namespace is used.  *)
AllPrograms ==
    {p \in Texts(1, Kinds, 2) \X Texts(2, Kinds, 2) \X Texts(3, Kinds, 1) :
        Len(p[2].imports) = 2 => \A m \in Module : Space("_") \notin Imported(p[m])}

=============================================================================
