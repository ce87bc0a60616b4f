---------------------------- MODULE ModuleLoader ----------------------------
(***************************************************************************)
(* The module loader of the driver (crates/ecmora-driver/src/modules.rs):  *)
(* it flattens the modules reachable from an entry into one program,       *)
(* renaming their top-level names apart and binding every import to the    *)
(* renamed declaration.  Modules may import one another in a cycle; a      *)
(* module that is reached again while it is being loaded answers with a    *)
(* provisional export table.                                               *)
(*                                                                         *)
(* A module is its canonical path, a number; its text is a record of what  *)
(* the frontend reports: the import declarations in order, the names it    *)
(* declares, its export bindings and the sources of its "export *".  The   *)
(* import of a namespace is the specifier that imports "*".  The renamed   *)
(* name __m{id}_{name} is the pair <<id, name>> with ids from 1, and a     *)
(* name that is left as it is the pair <<0, name>>.  frames is the         *)
(* recursion of load_parsed.                                               *)
(***************************************************************************)
EXTENDS SequencesExt, FiniteSetsExt

CONSTANTS
    MaxModules,  \* bound: modules of a program
    Name,        \* identifiers, local and exported; "default" is one of them
    Sanitized,   \* the name with _ for what is neither ASCII letter nor digit
    Programs     \* programs, functions from Module to Text

Module == 1 .. MaxModules
Specifier == [imported : Name \union {"*"}, local : Name]
Import == [source : Module, specifiers : SUBSET Specifier]
Export == [exported : Name, local : Name, source : Module \union {0}]
Text == [imports : Seq(Import), declares : SUBSET Name,
         exports : SUBSET Export, all : Seq(Module)]

(* What JavaScript and the frontend guarantee of a text: local names and   *)
(* exported names are distinct, the names exported exist, and the source   *)
(* of a re-export is imported too.                                         *)
Imported(text) == UNION {text.imports[i].specifiers : i \in DOMAIN text.imports}
Named(import) == {s \in import.specifiers : s.imported # "*"}
Space(n) == [imported |-> "*", local |-> n]
Sources(text) == {text.imports[i].source : i \in DOMAIN text.imports}
WellFormed(text) ==
    /\ \A i, j \in DOMAIN text.imports :
          \A s \in text.imports[i].specifiers, t \in text.imports[j].specifiers :
              s.local = t.local => i = j /\ s = t
    /\ \A s \in Imported(text) : s.local \notin text.declares
    /\ \A e, f \in text.exports : e.exported = f.exported => e = f
    /\ \A e \in text.exports :
          IF e.source = 0
          THEN e.local \in text.declares \union {s.local : s \in Imported(text)}
          ELSE e.source \in Sources(text)
    /\ ToSet(text.all) \subseteq Sources(text)

ASSUME ModulesAssumption == MaxModules \in Nat \ {0}
ASSUME NamesAssumption ==
    "default" \in Name /\ "*" \notin Name /\ Sanitized \in [Name -> Name]
ASSUME ProgramsAssumption ==
    \A program \in Programs : \A m \in Module :
        program[m] \in Text /\ WellFormed(program[m])

VARIABLES
    program,      \* the source files
    ids,          \* ids[m]: the id of m, or 0 before load_parsed reached it
    loaded,       \* the export tables of finished modules
    predeclared,  \* the export tables answered on a back edge
    frames,       \* modules being loaded, the innermost last
    emitted,      \* modules in the order their statements were appended
    bound,        \* bound[m]: the rename table m's statements were emitted with
    namespaces,   \* namespaces[m]: the tables of the namespaces m imports
    phase         \* loading, done or failed

vars == <<program, ids, loaded, predeclared, frames, emitted, bound, namespaces, phase>>

(* Tables map names to targets; a missing entry is Nothing.                *)
Nothing == <<0>>
Target == {<<i, n>> : i \in Module \union {0}, n \in Name}
Empty == [n \in Name |-> Nothing]
Table == [Name -> Target \union {Nothing}]
NoTable == << >>

Frame == [module : Module, next : Nat, dependencies : [Module -> Table \union {NoTable}]]

TypeOK ==
    /\ ids \in [Module -> 0 .. MaxModules]
    /\ loaded \in [Module -> Table \union {NoTable}]
    /\ predeclared \in [Module -> Table \union {NoTable}]
    /\ \A i \in DOMAIN frames : frames[i] \in Frame
    /\ ToSet(emitted) \subseteq Module
    /\ bound \in [Module -> Table]
    /\ namespaces \in [Module -> [Name -> Table \union {NoTable}]]
    /\ phase \in {"loading", "done", "failed"}

-----------------------------------------------------------------------------
OwnNames(m, id) ==
    [n \in Name |-> IF n \in program[m].declares THEN <<id, Sanitized[n]>> ELSE Nothing]

ProvisionalOfDeclared(m, id) == OwnNames(m, id)

(* Exports of own declarations are known before any dependency is read.    *)
Provisional(m, id) ==
    [n \in Name |->
        IF \E e \in program[m].exports :
              e.exported = n /\ e.source = 0 /\ e.local \in program[m].declares
        THEN <<id, Sanitized[(CHOOSE e \in program[m].exports : e.exported = n).local]>>
        ELSE Nothing]

NewFrame(m) == [module |-> m, next |-> 1, dependencies |-> [d \in Module |-> NoTable]]

(* load_parsed up to the first dependency, for a module not seen before.   *)
(* Variants with a plausible defect, which the properties must rule out,   *)
(* stand before the definition they vary.                                  *)
NextIdKept == Max({ids[m] : m \in Module})

NextId == Max({ids[m] : m \in Module}) + 1

Enter(m, stack) ==
    /\ ids' = [ids EXCEPT ![m] = NextId]
    /\ predeclared' = [predeclared EXCEPT ![m] = Provisional(m, NextId)]
    /\ frames' = Append(stack, NewFrame(m))

Init ==
    /\ program \in Programs
    /\ ids = [m \in Module |-> IF m = 1 THEN 1 ELSE 0]
    /\ loaded = [m \in Module |-> NoTable]
    /\ predeclared = [m \in Module |-> IF m = 1 THEN Provisional(1, 1) ELSE NoTable]
    /\ frames = <<NewFrame(1)>>
    /\ emitted = << >>
    /\ bound = [m \in Module |-> Empty]
    /\ namespaces = [m \in Module |-> [n \in Name |-> NoTable]]
    /\ phase = "loading"

Top == Last(frames)
Text1 == program[Top.module]
Loading == phase = "loading" /\ frames # << >>
Source == Text1.imports[Top.next].source

Known(m) == IF loaded[m] # NoTable THEN loaded[m] ELSE predeclared[m]

(* The next import declaration names a module that was read already, for   *)
(* this module or another: its table is taken as it is.                    *)
TakeTable ==
    /\ Loading /\ Top.next <= Len(Text1.imports)
    /\ Known(Source) # NoTable
    /\ frames' = Append(Front(frames),
          [Top EXCEPT !.next = @ + 1,
                      !.dependencies[Source] = IF @ = NoTable THEN Known(Source) ELSE @])
    /\ UNCHANGED <<program, ids, loaded, predeclared, emitted, bound, namespaces, phase>>

Load ==
    /\ Loading /\ Top.next <= Len(Text1.imports)
    /\ Known(Source) = NoTable
    /\ Enter(Source, frames)
    /\ UNCHANGED <<program, loaded, emitted, bound, namespaces, phase>>

(* Every dependency was read: imports are bound, the statements emitted    *)
(* and the exports computed.                                               *)
Found(specifier, source) == Top.dependencies[source][specifier.imported]

Bindings ==
    UNION {{<<s.local, Found(s, i.source)>> : s \in Named(i)} : i \in ToSet(Text1.imports)}

Rename ==
    [n \in Name |->
        IF \E b \in Bindings : b[1] = n THEN (CHOOSE b \in Bindings : b[1] = n)[2]
        ELSE OwnNames(Top.module, ids[Top.module])[n]]

(* A namespace is no entry of rename: rename_expression replaces it, or a  *)
(* member of it, by what the dependency's table says now.                  *)
Declaring(n) == {i \in DOMAIN Text1.imports : Space(n) \in Text1.imports[i].specifiers}

SourceDeclaring(n) == Text1.imports[CHOOSE i \in Declaring(n) : TRUE].source

NamespacesPredeclared ==
    [n \in Name |-> IF Declaring(n) = {} THEN NoTable
                    ELSE Provisional(SourceDeclaring(n), ids[SourceDeclaring(n)])]

Namespaces ==
    [n \in Name |-> IF Declaring(n) = {} THEN NoTable
                    ELSE Top.dependencies[SourceDeclaring(n)]]

(* The name of a namespace that is exported is left as it is.              *)
ExportTarget(e) ==
    IF e.source # 0 THEN Top.dependencies[e.source][e.local]
    ELSE IF Rename[e.local] # Nothing THEN Rename[e.local]
    ELSE <<0, e.local>>

ExportedBySome(n) ==
    {i \in DOMAIN Text1.all : Top.dependencies[Text1.all[i]][n] # Nothing}

Exports ==
    [n \in Name |->
        IF \E e \in Text1.exports : e.exported = n
        THEN ExportTarget(CHOOSE e \in Text1.exports : e.exported = n)
        ELSE IF n # "default" /\ ExportedBySome(n) # {}
        THEN Top.dependencies[Text1.all[Min(ExportedBySome(n))]][n]
        ELSE Nothing]

Unresolved ==
    \/ \E b \in Bindings : b[2] = Nothing
    \/ \E e \in Text1.exports : ExportTarget(e) = Nothing

AllReadLate == Loading /\ Top.next > Len(Text1.imports) + 1

AllRead == Loading /\ Top.next > Len(Text1.imports)

EmitFirst(m) == emitted' = <<m>> \o emitted

Emit(m) == emitted' = Append(emitted, m)

Finish ==
    /\ AllRead /\ ~Unresolved
    /\ bound' = [bound EXCEPT ![Top.module] = Rename]
    /\ namespaces' = [namespaces EXCEPT ![Top.module] = Namespaces]
    /\ Emit(Top.module)
    /\ loaded' = [loaded EXCEPT ![Top.module] = Exports]
    /\ predeclared' = [predeclared EXCEPT ![Top.module] = Exports]
    /\ frames' = Front(frames)
    /\ phase' = IF Len(frames) = 1 THEN "done" ELSE "loading"
    /\ UNCHANGED <<program, ids>>

Fail ==
    /\ AllRead /\ Unresolved
    /\ phase' = "failed"
    /\ UNCHANGED <<program, ids, loaded, predeclared, frames, emitted, bound, namespaces>>

Next == TakeTable \/ Load \/ Finish \/ Fail

Spec == Init /\ [][Next]_vars
FairSpec == Spec /\ WF_vars(Next)

-----------------------------------------------------------------------------
(* Correctness.                                                            *)

Seen == {m \in Module : ids[m] # 0}

(* Modules that m needs, through any number of imports.                    *)
Needs(m) ==
    LET reach[n \in 0 .. MaxModules] ==
            IF n = 0 THEN Sources(program[m])
            ELSE reach[n - 1] \union UNION {Sources(program[d]) : d \in reach[n - 1]}
    IN reach[MaxModules]

(* Every module is emitted once, and before the modules that import it,    *)
(* unless the two import one another.                                      *)
DependenciesFirst ==
    /\ \A i, j \in DOMAIN emitted : emitted[i] = emitted[j] => i = j
    /\ \A i \in DOMAIN emitted : \A d \in Sources(program[emitted[i]]) :
          d \notin {emitted[j] : j \in 1 .. i} => emitted[i] \in Needs(d)
    /\ phase = "done" => ToSet(emitted) = Seen /\ Seen = Needs(1) \union {1}

(* The names of two modules stay apart, and every name that a module's     *)
(* names were replaced by is a declaration of a module that was loaded.    *)
(* Known exception: a namespace that is imported and exported again, for   *)
(* which importers are given its bare name.  Two names of one module stay  *)
(* apart only when sanitize keeps them apart.                              *)
Declared(x) == \E d \in Seen : \E n \in program[d].declares : x = <<ids[d], Sanitized[n]>>

Forwarded(x) ==
    \E d \in Seen : \E e \in program[d].exports :
        e.source = 0 /\ Space(e.local) \in Imported(program[d]) /\ x = <<0, e.local>>

RenamedApart ==
    /\ \A m, n \in Seen : ids[m] = ids[n] => m = n
    /\ \A m \in ToSet(emitted) : \A n \in Name :
          bound[m][n] # Nothing => Declared(bound[m][n]) \/ Forwarded(bound[m][n])

(* A named import is bound to what the module finally exports under the    *)
(* name, also when it was bound from the provisional table of a cycle.     *)
ImportsMeetExports ==
    \A m \in ToSet(emitted) : \A i \in DOMAIN program[m].imports :
        LET import == program[m].imports[i] IN
        loaded[import.source] # NoTable =>
            \A s \in Named(import) :
                bound[m][s.local] = loaded[import.source][s.imported]

(* What a namespace has is what its module finally exports under the name, *)
(* and it has all of that when the module was finished first; a namespace  *)
(* that was read on a cycle may lack names.                                *)
Precedes(d, m) == \E i, j \in DOMAIN emitted : i < j /\ emitted[i] = d /\ emitted[j] = m

NamespacesMeetExports ==
    \A m \in ToSet(emitted) : \A i \in DOMAIN program[m].imports : \A n \in Name :
        LET d == program[m].imports[i].source IN
        Space(n) \in program[m].imports[i].specifiers /\ loaded[d] # NoTable =>
            /\ \A k \in Name : namespaces[m][n][k] \in {Nothing, loaded[d][k]}
            /\ Precedes(d, m) => namespaces[m][n] = loaded[d]

(* Loading ends, cycles and self-imports included.                         *)
LoadingEnds == <>(phase # "loading")

=============================================================================
