------------------------- MODULE ModuleLoaderProofs -------------------------
(***************************************************************************)
(* Proofs about ModuleLoader, for any number of modules and every program. *)
(*                                                                         *)
(* The invariant follows load_parsed's recursion: the frames are modules   *)
(* reached and not finished, each imported by the one below it, so that a  *)
(* module answered from its provisional table needs whoever asks.  A       *)
(* finished table keeps the provisional entries, so a name bound early     *)
(* stays right.                                                            *)
(***************************************************************************)
EXTENDS ModuleLoader, SequenceTheorems, FiniteSetTheorems, TLAPS

-----------------------------------------------------------------------------
(* Numbers and recursion, from the least element of a set.                 *)
LEMMA LeastElement ==
    ASSUME NEW T \in SUBSET Nat, T # {}
    PROVE  \E x \in T : \A y \in T : x <= y
<1>1. PICK R : R = OpToRel(<, Nat)
  OBVIOUS
<1>2. IsWellFoundedOn(R, Nat)
  BY <1>1, NatLessThanWellFounded
<1>3. PICK x \in T : \A y \in T : ~(<<y, x>> \in R)
  BY <1>2, WFMin
<1>4. \A y \in T : y < x => <<y, x>> \in R
  BY <1>1 DEF OpToRel
<1>5. \A y \in T : ~(y < x)
  BY <1>3, <1>4
<1>6. QED BY <1>5

LEMMA Climbs ==
    ASSUME NEW N \in Nat, NEW T, 0 \in T, \A n \in 0 .. (N - 1) : n \in T => n + 1 \in T
    PROVE  N \in T
<1> SUFFICES ASSUME N \notin T
             PROVE  FALSE
  OBVIOUS
<1>1. PICK U : U = {m \in 0 .. N : m \notin T}
  OBVIOUS
<1>2. PICK x \in U : \A y \in U : x <= y
  <2>1. U \in SUBSET Nat /\ U # {}
    BY <1>1
  <2>2. QED BY <2>1, LeastElement
<1>3. x \in 1 .. N /\ x - 1 \in 0 .. (N - 1) /\ x \notin T
  BY <1>1, <1>2
<1>4. x - 1 \notin U
  BY <1>2, <1>3
<1>5. x - 1 \in T
  BY <1>1, <1>3, <1>4
<1>6. QED BY <1>3, <1>5

LEMMA MinOf ==
    ASSUME NEW T \in SUBSET Nat, T # {}
    PROVE  Min(T) \in T
<1>1. \E x \in T : \A y \in T : x <= y
  BY LeastElement
<1>2. QED BY <1>1 DEF Min

LEMMA MaxOf ==
    ASSUME NEW T \in SUBSET Nat, NEW c \in T, \A x \in T : x <= c
    PROVE  Max(T) = c
<1>1. \A x \in T : (\A y \in T : x >= y) => x = c
  OBVIOUS
<1>2. \A y \in T : c >= y
  OBVIOUS
<1>3. QED BY <1>1, <1>2 DEF Max

-----------------------------------------------------------------------------
(* The modules a module needs.                                             *)
Reaches(r, P, m, D) ==
    r = [n \in D |-> IF n = 0 THEN Sources(P[m])
                     ELSE r[n - 1] \union UNION {Sources(P[d]) : d \in r[n - 1]}]

Reach(P, m) == CHOOSE r : Reaches(r, P, m, 0 .. MaxModules)

LEMMA NeedsIsReach ==
    ASSUME NEW m
    PROVE  Needs(m) = Reach(program, m)[MaxModules]
BY DEF Needs, Reach, Reaches

LEMMA Reaching ==
    ASSUME NEW N \in Nat, NEW P, NEW m
    PROVE  \E r : Reaches(r, P, m, 0 .. N)
<1>1. PICK T : T = {n \in 0 .. N : \E r : Reaches(r, P, m, 0 .. n)}
  OBVIOUS
<1>2. 0 \in T
  <2>1. PICK r : r = [n \in 0 .. 0 |-> Sources(P[m])]
    OBVIOUS
  <2>2. \A n \in 0 .. 0 : n = 0
    OBVIOUS
  <2>3. Reaches(r, P, m, 0 .. 0)
    BY <2>1, <2>2 DEF Reaches
  <2>4. QED BY <1>1, <2>3
<1>3. ASSUME NEW n \in 0 .. (N - 1), n \in T
      PROVE  n + 1 \in T
  <2>1. PICK old : Reaches(old, P, m, 0 .. n)
    BY <1>1, <1>3
  <2>2. PICK r : r = [k \in 0 .. (n + 1) |->
                        IF k = n + 1 THEN old[n] \union UNION {Sources(P[d]) : d \in old[n]}
                        ELSE old[k]]
    OBVIOUS
  <2>3. \A k \in 0 .. n : k \in 0 .. (n + 1) /\ k # n + 1 /\ r[k] = old[k]
    BY <2>2
  <2>4. ASSUME NEW k \in 0 .. (n + 1)
        PROVE  r[k] = IF k = 0 THEN Sources(P[m])
                      ELSE r[k - 1] \union UNION {Sources(P[d]) : d \in r[k - 1]}
    <3>1. CASE k = n + 1
      <4>1. k - 1 = n /\ n \in 0 .. n /\ k # 0
        BY <3>1
      <4>2. r[k] = old[n] \union UNION {Sources(P[d]) : d \in old[n]}
        BY <2>2, <3>1
      <4>3. r[k - 1] = old[n]
        BY <2>3, <4>1
      <4>4. QED BY <4>1, <4>2, <4>3
    <3>2. CASE k \in 0 .. n
      <4>1. old[k] = IF k = 0 THEN Sources(P[m])
                     ELSE old[k - 1] \union UNION {Sources(P[d]) : d \in old[k - 1]}
        BY <2>1, <3>2 DEF Reaches
      <4>2. r[k] = old[k]
        BY <2>3, <3>2
      <4>3. CASE k = 0
        BY <4>1, <4>2, <4>3
      <4>4. CASE k # 0
        <5>1. k - 1 \in 0 .. n
          BY <3>2, <4>4
        <5>2. r[k - 1] = old[k - 1]
          BY <2>3, <5>1
        <5>3. QED BY <4>1, <4>2, <4>4, <5>2
      <4>5. QED BY <4>3, <4>4
    <3>3. QED BY <3>1, <3>2
  <2>5. Reaches(r, P, m, 0 .. (n + 1))
    BY <2>2, <2>4 DEF Reaches
  <2>6. QED BY <1>1, <2>5
<1>4. N \in T
  <2>1. \A n \in 0 .. (N - 1) : n \in T => n + 1 \in T
    BY <1>3
  <2>2. QED BY <1>2, <2>1, Climbs
<1>5. QED BY <1>1, <1>4

LEMMA ReachSteps ==
    ASSUME NEW P, NEW m
    PROVE  \E r : /\ r = Reach(P, m) /\ r[0] = Sources(P[m])
                  /\ \A n \in 1 .. MaxModules :
                        r[n] = r[n - 1] \union UNION {Sources(P[d]) : d \in r[n - 1]}
<1>1. PICK r : r = Reach(P, m)
  OBVIOUS
<1>2. MaxModules \in Nat
  BY ModulesAssumption
<1>3. Reaches(r, P, m, 0 .. MaxModules)
  BY <1>1, <1>2, Reaching DEF Reach
<1>4. \A n \in 0 .. MaxModules : r[n] = IF n = 0 THEN Sources(P[m])
                     ELSE r[n - 1] \union UNION {Sources(P[d]) : d \in r[n - 1]}
  BY <1>3 DEF Reaches
<1>5. 0 \in 0 .. MaxModules /\ \A n \in 1 .. MaxModules : n \in 0 .. MaxModules /\ n # 0
  BY <1>2
<1>6. QED BY <1>1, <1>4, <1>5

(* A walk along imports of at most one step more than there are modules    *)
(* leads to a module that is needed.                                       *)
LEMMA Walk ==
    ASSUME NEW P, P = program, NEW w, NEW n \in 0 .. MaxModules,
           \A k \in 0 .. n : w[k + 1] \in Sources(P[w[k]])
    PROVE  w[n + 1] \in Needs(w[0])
<1>1. MaxModules \in Nat
  BY ModulesAssumption
<1>2. PICK r : /\ r = Reach(P, w[0]) /\ r[0] = Sources(P[w[0]])
               /\ \A k \in 1 .. MaxModules :
                     r[k] = r[k - 1] \union UNION {Sources(P[d]) : d \in r[k - 1]}
  BY ReachSteps
<1>3. PICK T : T = {k \in 0 .. MaxModules : w[(IF k < n THEN k ELSE n) + 1] \in r[k]}
  OBVIOUS
<1>4. 0 \in T
  <2>1. 0 \in 0 .. n /\ (IF 0 < n THEN 0 ELSE n) = 0
    BY <1>1
  <2>2. w[0 + 1] \in Sources(P[w[0]])
    BY <2>1
  <2>3. QED BY <1>1, <1>2, <1>3, <2>1, <2>2
<1>5. ASSUME NEW k \in 0 .. (MaxModules - 1), k \in T
      PROVE  k + 1 \in T
  <2>1. k + 1 \in 1 .. MaxModules /\ (k + 1) - 1 = k
    BY <1>1
  <2>2. r[k + 1] = r[k] \union UNION {Sources(P[d]) : d \in r[k]}
    BY <1>2, <2>1
  <2>3. CASE k < n
    <3>1. k + 1 \in 0 .. n /\ w[k + 1] \in r[k]
      BY <1>1, <1>3, <1>5, <2>3
    <3>2. w[(k + 1) + 1] \in Sources(P[w[k + 1]])
      BY <3>1
    <3>3. w[(k + 1) + 1] \in r[k + 1]
      BY <2>2, <3>1, <3>2
    <3>4. (IF k + 1 < n THEN k + 1 ELSE n) = k + 1
      BY <1>1, <3>1
    <3>5. QED BY <1>3, <2>1, <3>3, <3>4
  <2>4. CASE ~(k < n)
    <3>1. (IF k < n THEN k ELSE n) = n /\ (IF k + 1 < n THEN k + 1 ELSE n) = n
      BY <1>1, <2>4
    <3>2. w[n + 1] \in r[k]
      BY <1>3, <1>5, <3>1
    <3>3. QED BY <1>3, <2>1, <2>2, <3>1, <3>2
  <2>5. QED BY <2>3, <2>4
<1>6. MaxModules \in T
  <2>1. \A k \in 0 .. (MaxModules - 1) : k \in T => k + 1 \in T
    BY <1>5
  <2>2. QED BY <1>1, <1>4, <2>1, Climbs
<1>7. w[n + 1] \in r[MaxModules]
  <2>1. (IF MaxModules < n THEN MaxModules ELSE n) = n
    BY <1>1
  <2>2. QED BY <1>3, <1>6, <2>1
<1>8. QED BY <1>2, <1>7, NeedsIsReach

(* What is closed under imports holds everything needed.                   *)
LEMMA Closure ==
    ASSUME NEW S, NEW m \in S, \A d \in S : Sources(program[d]) \subseteq S
    PROVE  Needs(m) \subseteq S
<1>1. MaxModules \in Nat
  BY ModulesAssumption
<1>2. PICK P : P = program
  OBVIOUS
<1>3. PICK r : /\ r = Reach(P, m) /\ r[0] = Sources(P[m])
               /\ \A k \in 1 .. MaxModules :
                     r[k] = r[k - 1] \union UNION {Sources(P[d]) : d \in r[k - 1]}
  BY ReachSteps
<1>4. PICK T : T = {k \in 0 .. MaxModules : r[k] \subseteq S}
  OBVIOUS
<1>5. 0 \in T
  BY <1>1, <1>2, <1>3, <1>4
<1>6. ASSUME NEW k \in 0 .. (MaxModules - 1), k \in T
      PROVE  k + 1 \in T
  <2>1. k + 1 \in 1 .. MaxModules /\ (k + 1) - 1 = k /\ k + 1 \in 0 .. MaxModules
    BY <1>1
  <2>2. r[k + 1] = r[k] \union UNION {Sources(P[d]) : d \in r[k]}
    BY <1>3, <2>1
  <2>3. r[k] \subseteq S
    BY <1>4, <1>6
  <2>4. r[k + 1] \subseteq S
    BY <1>2, <2>2, <2>3
  <2>5. QED BY <1>4, <2>1, <2>4
<1>7. MaxModules \in T
  <2>1. \A k \in 0 .. (MaxModules - 1) : k \in T => k + 1 \in T
    BY <1>6
  <2>2. QED BY <1>1, <1>5, <2>1, Climbs
<1>8. r[MaxModules] \subseteq S
  BY <1>4, <1>7
<1>9. QED BY <1>2, <1>3, <1>8, NeedsIsReach

-----------------------------------------------------------------------------
(* Texts and tables.                                                       *)
LEMMA TextFields ==
    ASSUME program \in Programs, NEW m \in Module
    PROVE  /\ program[m].imports \in Seq(Import) /\ program[m].declares \subseteq Name
           /\ program[m].exports \subseteq Export /\ program[m].all \in Seq(Module)
           /\ WellFormed(program[m])
<1>1. program[m] \in Text /\ WellFormed(program[m])
  BY ProgramsAssumption
<1>2. QED BY <1>1 DEF Text

LEMMA ImportFields ==
    ASSUME program \in Programs, NEW m \in Module, NEW i \in DOMAIN program[m].imports
    PROVE  /\ i \in 1 .. Len(program[m].imports)
           /\ program[m].imports[i].source \in Module
           /\ program[m].imports[i].source \in Sources(program[m])
           /\ program[m].imports[i].specifiers \subseteq Imported(program[m])
           /\ \A s \in program[m].imports[i].specifiers : s.local \in Name
           /\ \A s \in Named(program[m].imports[i]) :
                 /\ s \in program[m].imports[i].specifiers
                 /\ s.imported \in Name /\ s.imported # "*"
<1>1. PICK q : q = program[m].imports
  OBVIOUS
<1>2. q \in Seq(Import)
  BY <1>1, TextFields
<1>3. i \in 1 .. Len(q) /\ i \in DOMAIN q
  BY <1>1, <1>2, LenProperties
<1>4. q[i] \in Import
  BY <1>2, <1>3, ElementOfSeq
<1>5. q[i].source \in Module /\ q[i].specifiers \subseteq Specifier
  BY <1>4 DEF Import
<1>6. \A s \in q[i].specifiers : s.imported \in Name \union {"*"} /\ s.local \in Name
  BY <1>5 DEF Specifier
<1>7. \A s \in Named(q[i]) : s \in q[i].specifiers /\ s.imported \in Name /\ s.imported # "*"
  BY <1>6 DEF Named
<1>8. QED BY <1>1, <1>3, <1>5, <1>6, <1>7 DEF Sources, Imported

LEMMA SourceOf ==
    ASSUME program \in Programs, NEW m \in Module, NEW d \in Sources(program[m])
    PROVE  d \in Module /\ \E i \in 1 .. Len(program[m].imports) : d = program[m].imports[i].source
<1>1. PICK i \in DOMAIN program[m].imports : d = program[m].imports[i].source
  BY DEF Sources
<1>2. QED BY <1>1, ImportFields

LEMMA TableNotNone ==
    ASSUME NEW T \in Table
    PROVE  T # NoTable
<1>1. "default" \in DOMAIN T
  BY NamesAssumption DEF Table
<1>2. DOMAIN NoTable = {}
  BY DEF NoTable
<1>3. QED BY <1>1, <1>2

LEMMA TargetNotNothing ==
    ASSUME NEW i, NEW n
    PROVE  <<i, n>> # Nothing
BY DEF Nothing

(* An entry of the provisional table is the name of an exported own        *)
(* declaration.                                                            *)
OwnExport(e, m, n) ==
    e \in program[m].exports /\ e.exported = n /\ e.source = 0 /\ e.local \in program[m].declares

LEMMA ProvisionalEntries ==
    ASSUME program \in Programs, NEW m \in Module, NEW id, NEW n \in Name
    PROVE  \/ Provisional(m, id)[n] = Nothing /\ \A e : ~OwnExport(e, m, n)
           \/ \E e : OwnExport(e, m, n) /\ Provisional(m, id)[n] = <<id, Sanitized[e.local]>>
<1>1. PICK E : E = program[m].exports
  OBVIOUS
<1>2. CASE \E e : OwnExport(e, m, n)
  <2>1. PICK e : OwnExport(e, m, n)
    BY <1>2
  <2>2. PICK c : c = CHOOSE x \in E : x.exported = n
    OBVIOUS
  <2>3. e \in E /\ e.exported = n
    BY <1>1, <2>1 DEF OwnExport
  <2>4. c \in E /\ c.exported = n
    BY <2>2, <2>3
  <2>5. c = e
    BY <1>1, <2>3, <2>4, TextFields DEF WellFormed
  <2>6. Provisional(m, id)[n] = <<id, Sanitized[c.local]>>
    BY <1>1, <2>1, <2>2 DEF Provisional, OwnExport
  <2>7. QED BY <2>1, <2>5, <2>6
<1>3. CASE \A e : ~OwnExport(e, m, n)
  <2>1. Provisional(m, id)[n] = Nothing
    BY <1>3 DEF Provisional, OwnExport
  <2>2. QED BY <1>3, <2>1
<1>4. QED BY <1>2, <1>3

LEMMA ProvisionalTable ==
    ASSUME program \in Programs, NEW m \in Module, NEW id \in Module
    PROVE  Provisional(m, id) \in Table
<1>1. ASSUME NEW n \in Name
      PROVE  Provisional(m, id)[n] \in Target \union {Nothing}
  <2>1. CASE Provisional(m, id)[n] = Nothing
    BY <2>1
  <2>2. ASSUME NEW e, OwnExport(e, m, n), Provisional(m, id)[n] = <<id, Sanitized[e.local]>>
        PROVE  Provisional(m, id)[n] \in Target
    <3>1. Sanitized[e.local] \in Name
      BY <2>2, TextFields, NamesAssumption DEF OwnExport
    <3>2. QED BY <2>2, <3>1 DEF Target
  <2>3. QED BY <2>1, <2>2, ProvisionalEntries
<1>2. PICK T : T = Provisional(m, id)
  OBVIOUS
<1>3. DOMAIN T = Name /\ T = [n \in Name |-> T[n]]
  BY <1>2 DEF Provisional
<1>4. QED BY <1>1, <1>2, <1>3 DEF Table

-----------------------------------------------------------------------------
(* The invariant.                                                          *)
Count == Cardinality(Seen)

Ids ==
    /\ ids \in [Module -> 0 .. MaxModules]
    /\ \A m, n \in Seen : ids[m] = ids[n] => m = n
    /\ \A m \in Module : ids[m] <= Count
    /\ \E m \in Module : ids[m] = Count
    /\ 1 \in Seen

(* What is provisional of a table stays.                                   *)
Extends(T, m) ==
    \A n \in Name : Provisional(m, ids[m])[n] # Nothing => T[n] = Provisional(m, ids[m])[n]

Tables ==
    /\ loaded \in [Module -> Table \union {NoTable}]
    /\ predeclared \in [Module -> Table \union {NoTable}]
    /\ \A m \in Module : predeclared[m] # NoTable <=> m \in Seen
    /\ \A m \in Seen : loaded[m] = NoTable => predeclared[m] = Provisional(m, ids[m])
    /\ \A m \in Module : loaded[m] # NoTable =>
          m \in Seen /\ predeclared[m] = loaded[m] /\ Extends(loaded[m], m)

(* A target is the declaration of a module that was reached, or the bare   *)
(* name of a namespace that one exports.                                   *)
Exists(x) == Declared(x) \/ Forwarded(x)

AllExist(T) == \A n \in Name : T[n] # Nothing => Exists(T[n])

(* The table that a module took of another one: the final one, or the      *)
(* provisional one.                                                        *)
View(T, d) ==
    /\ d \in Seen /\ T # NoTable
    /\ T = Provisional(d, ids[d]) \/ T = loaded[d]

FrameOK(f) ==
    /\ f \in Frame /\ f.module \in Seen /\ loaded[f.module] = NoTable
    /\ f.next \in 1 .. Len(program[f.module].imports) + 1
    /\ \A d \in Module : f.dependencies[d] # NoTable => View(f.dependencies[d], d)
    /\ \A k \in 1 .. f.next - 1 :
          f.dependencies[program[f.module].imports[k].source] # NoTable

Apart(s) == \A i, j \in 1 .. Len(s) : s[i].module = s[j].module => i = j

Linked(s) ==
    \A i \in 1 .. Len(s) : i + 1 \in 1 .. Len(s) =>
        s[i + 1].module \in Sources(program[s[i].module])

Stack(s) ==
    /\ s \in Seq(Frame)
    /\ \A i \in 1 .. Len(s) : FrameOK(s[i])
    /\ Apart(s) /\ Linked(s)
    /\ s # << >> => s[1].module = 1

(* A name bound to an import: what the module it comes from exports under  *)
(* it, now or in the end.                                                  *)
Met(x, d, n) ==
    /\ d \in Seen /\ x # Nothing
    /\ x = IF loaded[d] # NoTable THEN loaded[d][n] ELSE Provisional(d, ids[d])[n]

AllMet(m) ==
    \A i \in 1 .. Len(program[m].imports) : \A s \in Named(program[m].imports[i]) :
        Met(bound[m][s.local], program[m].imports[i].source, s.imported)

Bound ==
    /\ bound \in [Module -> Table]
    /\ \A m \in Module : loaded[m] # NoTable =>
          AllExist(loaded[m]) /\ AllExist(bound[m]) /\ AllMet(m)

(* A table a frame holds is final, or its module is not finished before    *)
(* the frame is.                                                           *)
Held(s) ==
    \A i \in 1 .. Len(s) : \A d \in Module : s[i].dependencies[d] # NoTable =>
        s[i].dependencies[d] = loaded[d] \/ \E j \in 1 .. i : s[j].module = d

(* The namespace n that module m imports from d.                           *)
SpaceMet(m, n, d) ==
    /\ View(namespaces[m][n], d)
    /\ Precedes(d, m) => namespaces[m][n] = loaded[d]

AllSpaces(m) ==
    \A i \in 1 .. Len(program[m].imports) : \A n \in Name :
        Space(n) \in program[m].imports[i].specifiers =>
            SpaceMet(m, n, program[m].imports[i].source)

Spaces ==
    /\ namespaces \in [Module -> [Name -> Table \union {NoTable}]]
    /\ \A m \in Module : loaded[m] # NoTable => AllSpaces(m)

(* At position i of the emission, d came before or is part of a cycle.     *)
Before(q, i, d) == d \in {q[j] : j \in 1 .. i} \/ q[i] \in Needs(d)

Emission(q) ==
    /\ q \in Seq(Module)
    /\ \A i, j \in 1 .. Len(q) : q[i] = q[j] => i = j
    /\ \A i \in 1 .. Len(q) : \A d \in Sources(program[q[i]]) : d \in Seen /\ Before(q, i, d)

OnStack(m, s) == \E i \in 1 .. Len(s) : s[i].module = m

Progress ==
    /\ phase \in {"loading", "done", "failed"}
    /\ phase = "done" <=> frames = << >>
    /\ \A m \in Module : loaded[m] # NoTable <=> \E i \in 1 .. Len(emitted) : emitted[i] = m
    /\ \A m \in Seen : loaded[m] # NoTable \/ OnStack(m, frames)
    /\ \A m \in Seen : m = 1 \/ m \in Needs(1)

Inv ==
    /\ program \in Programs
    /\ Ids /\ Tables /\ Stack(frames) /\ Held(frames) /\ Bound /\ Spaces
    /\ Emission(emitted) /\ Progress

-----------------------------------------------------------------------------
(* The properties follow.                                                  *)
LEMMA SeenModules == Seen \subseteq Module /\ \A m \in Module : m \in Seen <=> ids[m] # 0
BY DEF Seen

LEMMA EmittedSet ==
    ASSUME NEW q \in Seq(Module)
    PROVE  /\ DOMAIN q = 1 .. Len(q) /\ Len(q) \in Nat
           /\ \A i \in 1 .. Len(q) : q[i] \in Module
           /\ \A m : m \in ToSet(q) <=> \E i \in 1 .. Len(q) : q[i] = m
<1>1. DOMAIN q = 1 .. Len(q) /\ Len(q) \in Nat
  BY LenProperties
<1>2. \A i \in 1 .. Len(q) : q[i] \in Module
  BY ElementOfSeq
<1>3. \A m : m \in ToSet(q) <=> \E i \in 1 .. Len(q) : q[i] = m
  BY <1>1 DEF ToSet
<1>4. QED BY <1>1, <1>2, <1>3

LEMMA InvFirst ==
    ASSUME Inv
    PROVE  DependenciesFirst
<1>1. PICK q : q = emitted
  OBVIOUS
<1>2. Emission(q) /\ q \in Seq(Module)
  BY <1>1 DEF Inv, Emission
<1>3. DOMAIN q = 1 .. Len(q) /\ \A i \in 1 .. Len(q) : q[i] \in Module
  BY <1>2, EmittedSet
<1>4. \A i, j \in DOMAIN q : q[i] = q[j] => i = j
  BY <1>2, <1>3 DEF Emission
<1>5. \A i \in DOMAIN q : \A d \in Sources(program[q[i]]) :
          d \notin {q[j] : j \in 1 .. i} => q[i] \in Needs(d)
  BY <1>2, <1>3 DEF Emission, Before
<1>6. ASSUME phase = "done"
      PROVE  ToSet(q) = Seen /\ Seen = Needs(1) \union {1}
  <2>1. frames = << >>
    BY <1>6 DEF Inv, Progress
  <2>2. \A m \in Seen : ~OnStack(m, frames)
    BY <2>1 DEF OnStack
  <2>3. \A m \in Module : m \in Seen <=> loaded[m] # NoTable
    BY <2>2, SeenModules DEF Inv, Progress, Tables
  <2>4. \A m \in Module : m \in ToSet(q) <=> m \in Seen
    BY <1>1, <1>2, <2>3, EmittedSet DEF Inv, Progress
  <2>5. ToSet(q) \subseteq Module
    BY <1>2, EmittedSet
  <2>6. ToSet(q) = Seen
    BY <2>4, <2>5, SeenModules
  <2>7. \A d \in Seen : Sources(program[d]) \subseteq Seen
    <3> SUFFICES ASSUME NEW d \in Seen
                 PROVE  Sources(program[d]) \subseteq Seen
      OBVIOUS
    <3>1. PICK i \in 1 .. Len(q) : q[i] = d
      BY <1>2, <2>6, EmittedSet
    <3>2. QED BY <1>2, <3>1 DEF Emission
  <2>8. Needs(1) \subseteq Seen
    BY <2>7, Closure DEF Inv, Ids
  <2>9. 1 \in Seen /\ \A m \in Seen : m = 1 \/ m \in Needs(1)
    BY DEF Inv, Ids, Progress
  <2>10. QED BY <2>6, <2>8, <2>9
<1>7. QED BY <1>1, <1>4, <1>5, <1>6 DEF DependenciesFirst

LEMMA InvApart ==
    ASSUME Inv
    PROVE  RenamedApart
<1>1. \A m, n \in Seen : ids[m] = ids[n] => m = n
  BY DEF Inv, Ids
<1>2. ASSUME NEW m \in ToSet(emitted), NEW n \in Name, bound[m][n] # Nothing
      PROVE  Exists(bound[m][n])
  <2>1. m \in Module /\ loaded[m] # NoTable
    BY <1>2, EmittedSet DEF Inv, Emission, Progress
  <2>2. QED BY <1>2, <2>1 DEF Inv, Bound, AllExist
<1>3. QED BY <1>1, <1>2 DEF RenamedApart, Exists

LEMMA InvMeets ==
    ASSUME Inv
    PROVE  ImportsMeetExports
<1> SUFFICES ASSUME NEW m \in ToSet(emitted), NEW i \in DOMAIN program[m].imports,
                    loaded[program[m].imports[i].source] # NoTable,
                    NEW s \in Named(program[m].imports[i])
             PROVE  bound[m][s.local] = loaded[program[m].imports[i].source][s.imported]
  BY DEF ImportsMeetExports
<1>1. m \in Module /\ loaded[m] # NoTable
  BY EmittedSet DEF Inv, Emission, Progress
<1>2. i \in 1 .. Len(program[m].imports)
  BY <1>1, ImportFields DEF Inv
<1>3. Met(bound[m][s.local], program[m].imports[i].source, s.imported)
  BY <1>1, <1>2 DEF Inv, Bound, AllMet
<1>4. QED BY <1>3 DEF Met

LEMMA InvSpaces ==
    ASSUME Inv
    PROVE  NamespacesMeetExports
<1> SUFFICES ASSUME NEW m \in ToSet(emitted), NEW i \in DOMAIN program[m].imports,
                    NEW n \in Name, Space(n) \in program[m].imports[i].specifiers,
                    NEW d, d = program[m].imports[i].source, loaded[d] # NoTable
             PROVE  /\ \A k \in Name : namespaces[m][n][k] \in {Nothing, loaded[d][k]}
                    /\ Precedes(d, m) => namespaces[m][n] = loaded[d]
  BY DEF NamespacesMeetExports
<1>1. m \in Module /\ loaded[m] # NoTable
  BY EmittedSet DEF Inv, Emission, Progress
<1>2. i \in 1 .. Len(program[m].imports) /\ d \in Module
  BY <1>1, ImportFields DEF Inv
<1>3. SpaceMet(m, n, d)
  BY <1>1, <1>2 DEF Inv, Spaces, AllSpaces
<1>4. Extends(loaded[d], d)
  BY <1>2 DEF Inv, Tables
<1>5. PICK T : T = namespaces[m][n]
  OBVIOUS
<1>6. T = Provisional(d, ids[d]) \/ T = loaded[d]
  BY <1>3, <1>5 DEF SpaceMet, View
<1>7. \A k \in Name : T[k] \in {Nothing, loaded[d][k]}
  BY <1>4, <1>6 DEF Extends
<1>8. QED BY <1>3, <1>5, <1>7 DEF SpaceMet

-----------------------------------------------------------------------------
(* What steps keep.                                                        *)
Later ==
    /\ program' = program
    /\ Seen \subseteq Seen' /\ \A m \in Seen : ids'[m] = ids[m]
    /\ \A m \in Module : loaded[m] # NoTable => loaded'[m] = loaded[m]

LEMMA AllNeeds ==
    \A m : Needs(m) = Reach(program, m)[MaxModules]
BY NeedsIsReach

LEMMA AllNeedsNext ==
    (\A m : Needs(m) = Reach(program, m)[MaxModules])'
BY AllNeeds, PTL

LEMMA NeedsStays ==
    ASSUME program' = program
    PROVE  \A m : Needs(m)' = Needs(m)
BY AllNeeds, AllNeedsNext

LEMMA ExistsStays ==
    ASSUME Later, NEW x, Exists(x)
    PROVE  Exists(x)'
<1>1. CASE Declared(x)
  <2>1. Declared(x)'
    BY <1>1 DEF Later, Declared
  <2>2. QED BY <2>1 DEF Exists
<1>2. CASE Forwarded(x)
  <2>1. Forwarded(x)'
    BY <1>2 DEF Later, Forwarded
  <2>2. QED BY <2>1 DEF Exists
<1>3. QED BY <1>1, <1>2 DEF Exists

LEMMA ProvisionalStays ==
    ASSUME Later, NEW d \in Seen
    PROVE  Provisional(d, ids[d])' = Provisional(d, ids[d]) /\ d \in Seen'
BY DEF Later, Provisional

LEMMA ViewStays ==
    ASSUME Later, NEW T, NEW d, View(T, d)
    PROVE  View(T, d)'
<1>1. d \in Seen /\ d \in Module /\ d \in Seen' /\ T # NoTable
  BY SeenModules DEF View, Later
<1>2. Provisional(d, ids[d])' = Provisional(d, ids[d])
  BY <1>1, ProvisionalStays
<1>3. CASE T = loaded[d]
  BY <1>1, <1>3 DEF View, Later
<1>4. CASE T = Provisional(d, ids[d])
  BY <1>1, <1>2, <1>4 DEF View
<1>5. QED BY <1>3, <1>4 DEF View

LEMMA MetStays ==
    ASSUME Later, NEW x, NEW d, NEW n \in Name, Met(x, d, n),
           loaded[d] = NoTable /\ loaded'[d] # NoTable => Extends(loaded[d], d)'
    PROVE  Met(x, d, n)'
<1>1. d \in Seen /\ d \in Module /\ d \in Seen' /\ x # Nothing
  BY SeenModules DEF Met, Later
<1>2. Provisional(d, ids[d])' = Provisional(d, ids[d])
  BY <1>1, ProvisionalStays
<1>3. CASE loaded[d] # NoTable
  BY <1>1, <1>3 DEF Met, Later
<1>4. CASE loaded[d] = NoTable
  <2>1. x = Provisional(d, ids[d])[n]
    BY <1>4 DEF Met
  <2>2. CASE loaded'[d] = NoTable
    BY <1>1, <1>2, <2>1, <2>2 DEF Met
  <2>3. CASE loaded'[d] # NoTable
    <3>1. loaded'[d][n] = x
      BY <1>1, <1>2, <1>4, <2>1, <2>3 DEF Extends
    <3>2. QED BY <1>1, <2>3, <3>1 DEF Met
  <2>4. QED BY <2>2, <2>3
<1>5. QED BY <1>3, <1>4

LEMMA FrameStays ==
    ASSUME Later, NEW f, FrameOK(f), loaded'[f.module] = NoTable
    PROVE  FrameOK(f)'
<1>1. \A d \in Module : f.dependencies[d] # NoTable => View(f.dependencies[d], d)'
  BY ViewStays DEF FrameOK
<1>2. QED BY <1>1 DEF FrameOK, Later

LEMMA StackStays ==
    ASSUME Later, NEW s, Stack(s), \A i \in 1 .. Len(s) : loaded'[s[i].module] = NoTable
    PROVE  Stack(s)'
<1>1. \A i \in 1 .. Len(s) : FrameOK(s[i])'
  BY FrameStays DEF Stack
<1>2. Apart(s)' /\ Linked(s)'
  BY DEF Stack, Apart, Linked, Later
<1>3. QED BY <1>1, <1>2 DEF Stack

LEMMA HeldStays ==
    ASSUME NEW s, Held(s), loaded' = loaded
    PROVE  Held(s)'
BY DEF Held

LEMMA SpacesStay ==
    ASSUME Later, Spaces, namespaces' = namespaces, loaded' = loaded, emitted' = emitted
    PROVE  Spaces'
<1>1. program' = program
  BY DEF Later
<1>2. namespaces' \in [Module -> [Name -> Table \union {NoTable}]]
  BY DEF Spaces
<1>3. ASSUME NEW m, NEW n, NEW d, SpaceMet(m, n, d)
      PROVE  SpaceMet(m, n, d)'
  <2>1. PICK T : T = namespaces[m][n]
    OBVIOUS
  <2>2. View(T, d)'
    BY <1>3, <2>1, ViewStays DEF SpaceMet
  <2>3. Precedes(d, m)' => T = loaded'[d]
    BY <1>3, <2>1 DEF SpaceMet, Precedes
  <2>4. QED BY <2>1, <2>2, <2>3 DEF SpaceMet
<1>4. \A m : AllSpaces(m) => AllSpaces(m)'
  BY <1>1, <1>3 DEF AllSpaces
<1>5. QED BY <1>2, <1>4 DEF Spaces

-----------------------------------------------------------------------------
(* Tables that modules took.                                               *)
LEMMA IdsType ==
    ASSUME Ids, NEW m \in Seen
    PROVE  m \in Module /\ ids[m] \in Module
<1>1. m \in Module /\ ids[m] # 0 /\ ids[m] \in 0 .. MaxModules
  BY SeenModules DEF Ids
<1>2. QED BY <1>1, ModulesAssumption DEF Module

LEMMA ViewTable ==
    ASSUME program \in Programs, Ids, Tables, NEW T, NEW d, View(T, d)
    PROVE  T \in Table /\ d \in Module
<1>1. d \in Module /\ ids[d] \in Module
  BY IdsType DEF View
<1>2. CASE T = loaded[d]
  BY <1>1, <1>2 DEF View, Tables
<1>3. CASE T = Provisional(d, ids[d])
  BY <1>1, <1>3, ProvisionalTable
<1>4. QED BY <1>1, <1>2, <1>3 DEF View

LEMMA ViewExists ==
    ASSUME program \in Programs, Bound, NEW T, NEW d, View(T, d), NEW n \in Name, T[n] # Nothing
    PROVE  Exists(T[n])
<1>1. d \in Seen /\ d \in Module
  BY SeenModules DEF View
<1>2. CASE T = loaded[d]
  BY <1>1, <1>2 DEF View, Bound, AllExist
<1>3. CASE T = Provisional(d, ids[d])
  <2>1. PICK e : OwnExport(e, d, n) /\ T[n] = <<ids[d], Sanitized[e.local]>>
    BY <1>1, <1>3, ProvisionalEntries
  <2>2. Declared(T[n])
    BY <1>1, <2>1 DEF OwnExport, Declared
  <2>3. QED BY <2>2 DEF Exists
<1>4. QED BY <1>2, <1>3 DEF View

LEMMA ViewMeets ==
    ASSUME Tables, NEW T, NEW d, View(T, d), NEW n \in Name, T[n] # Nothing
    PROVE  Met(T[n], d, n)
<1>1. d \in Seen /\ d \in Module
  BY SeenModules DEF View
<1>2. CASE loaded[d] # NoTable
  <2>1. Extends(loaded[d], d)
    BY <1>1, <1>2 DEF Tables
  <2>2. CASE T = loaded[d]
    BY <1>1, <1>2, <2>2 DEF Met
  <2>3. CASE T = Provisional(d, ids[d])
    <3>1. loaded[d][n] = T[n]
      BY <2>1, <2>3 DEF Extends
    <3>2. QED BY <1>1, <1>2, <3>1 DEF Met
  <2>4. QED BY <2>2, <2>3 DEF View
<1>3. CASE loaded[d] = NoTable
  BY <1>1, <1>3 DEF View, Met
<1>4. QED BY <1>2, <1>3

LEMMA KnownView ==
    ASSUME Tables, NEW d \in Module, Known(d) # NoTable
    PROVE  View(Known(d), d)
BY DEF Tables, Known, View

LEMMA FrontLast ==
    ASSUME NEW S, NEW s \in Seq(S), s # << >>
    PROVE  /\ Len(s) \in Nat \ {0} /\ Last(s) = s[Len(s)] /\ Last(s) \in S
           /\ Front(s) \in Seq(S) /\ Len(Front(s)) = Len(s) - 1
           /\ \A i \in 1 .. Len(s) - 1 : Front(s)[i] = s[i]
<1>1. PICK n, b : n = Len(s) /\ b = Front(s)
  OBVIOUS
<1>2. n \in Nat \ {0}
  BY <1>1, EmptySeq, LenProperties
<1>3. \A i \in 1 .. (n - 1) : s[i] \in S
  BY <1>1, <1>2, ElementOfSeq
<1>4. b \in Seq(S) /\ Len(b) = n - 1 /\ \A i \in 1 .. (n - 1) : b[i] = s[i]
  <2>1. b = SubSeq(s, 1, n - 1)
    BY <1>1 DEF Front
  <2>2. 1 \in Int /\ n - 1 \in Int /\ (n - 1) - 1 + 1 = n - 1
    BY <1>2
  <2>3. /\ b \in Seq(S) /\ Len(b) = IF 1 <= n - 1 THEN (n - 1) - 1 + 1 ELSE 0
        /\ \A i \in 1 .. (n - 1) - 1 + 1 : b[i] = s[1 + i - 1]
    BY <1>3, <2>1, <2>2, SubSeqProperties
  <2>4. Len(b) = n - 1
    BY <1>2, <2>3
  <2>5. \A i \in 1 .. (n - 1) : b[i] = s[i]
    BY <1>2, <2>3
  <2>6. QED BY <2>3, <2>4, <2>5
<1>5. s[n] \in S
  BY <1>1, <1>2, ElementOfSeq
<1>6. QED BY <1>1, <1>2, <1>4, <1>5 DEF Last

(* The module on top and its text.                                         *)
LEMMA TopModule ==
    ASSUME Inv, Loading
    PROVE  /\ Len(frames) \in Nat \ {0} /\ Top = frames[Len(frames)]
           /\ Top \in Frame /\ FrameOK(Top) /\ Top.module \in Module /\ Top.module \in Seen
           /\ Top.next \in Nat \ {0} /\ Len(Text1.imports) \in Nat
           /\ DOMAIN Text1.imports = 1 .. Len(Text1.imports)
           /\ Text1 = program[Top.module]
           /\ phase = "loading"
<1>1. PICK s : s = frames
  OBVIOUS
<1>2. s \in Seq(Frame) /\ s # << >> /\ Stack(s)
  BY <1>1 DEF Inv, Stack, Loading
<1>3. Len(s) \in Nat \ {0} /\ Last(s) = s[Len(s)]
  BY <1>2, FrontLast
<1>4. Len(s) \in 1 .. Len(s)
  BY <1>3
<1>5. FrameOK(s[Len(s)])
  BY <1>2, <1>4 DEF Stack
<1>6. FrameOK(Top) /\ Top = s[Len(s)]
  BY <1>1, <1>3, <1>5 DEF Top
<1>7. Top \in Frame /\ Top.module \in Module /\ Top.module \in Seen /\ Top.next \in Nat
  BY <1>6 DEF FrameOK, Frame
<1>8. program[Top.module].imports \in Seq(Import)
  BY <1>7, TextFields DEF Inv
<1>9. /\ Len(program[Top.module].imports) \in Nat
      /\ DOMAIN program[Top.module].imports = 1 .. Len(program[Top.module].imports)
  BY <1>8, LenProperties
<1>10. Top.next \in Nat \ {0}
  <2>1. PICK k, l : k = Top.next /\ l = Len(program[Top.module].imports)
    OBVIOUS
  <2>2. k \in 1 .. l + 1
    BY <1>6, <2>1 DEF FrameOK
  <2>3. QED BY <1>9, <2>1, <2>2
<1>11. QED BY <1>1, <1>3, <1>6, <1>7, <1>9, <1>10 DEF Text1, Loading

LEMMA NextSource ==
    ASSUME Inv, Loading, Top.next <= Len(Text1.imports)
    PROVE  /\ Source \in Module /\ Source \in Sources(Text1)
           /\ Source = program[Top.module].imports[Top.next].source
<1>1. PICK k, m : k = Top.next /\ m = Top.module
  OBVIOUS
<1>2. m \in Module /\ k \in DOMAIN program[m].imports
  BY <1>1, TopModule
<1>3. program[m].imports[k].source \in Module /\ program[m].imports[k].source \in Sources(program[m])
  BY <1>2, ImportFields DEF Inv
<1>4. QED BY <1>1, <1>3 DEF Source, Text1

-----------------------------------------------------------------------------
(* The stack.                                                              *)
LEMMA IntervalSize ==
    ASSUME NEW n \in Nat
    PROVE  IsFiniteSet(1 .. n) /\ Cardinality(1 .. n) = n
<1>1. PICK a : a = 1
  OBVIOUS
<1>2. a \in Int /\ n \in Int
  BY <1>1
<1>3. IsFiniteSet(a .. n)
  BY <1>2, FS_Interval
<1>4. Cardinality(a .. n) = IF a > n THEN 0 ELSE n - a + 1
  BY <1>2, FS_Interval
<1>5. QED BY <1>1, <1>3, <1>4

LEMMA StackLength ==
    ASSUME Ids, NEW s, Stack(s)
    PROVE  Len(s) \in 0 .. MaxModules
<1>1. MaxModules \in Nat /\ Len(s) \in Nat
  BY ModulesAssumption, LenProperties DEF Stack
<1>2. PICK f : f = [i \in 1 .. Len(s) |-> s[i].module]
  OBVIOUS
<1>3. \A i \in 1 .. Len(s) : s[i].module \in Module
  BY SeenModules DEF Stack, FrameOK
<1>4. f \in [1 .. Len(s) -> Module]
  BY <1>2, <1>3
<1>5. \A i, j \in 1 .. Len(s) : f[i] = f[j] => i = j
  BY <1>2 DEF Stack, Apart
<1>6. IsFiniteSet(1 .. Len(s)) /\ Cardinality(1 .. Len(s)) = Len(s)
  BY <1>1, IntervalSize
<1>7. IsFiniteSet(Module) /\ Cardinality(Module) = MaxModules
  BY <1>1, IntervalSize DEF Module
<1>8. ~(Cardinality(Module) < Cardinality(1 .. Len(s)))
  BY <1>4, <1>5, <1>6, <1>7, FS_PigeonHole
<1>9. QED BY <1>1, <1>6, <1>7, <1>8

(* A module below another one on the stack needs it.                       *)
LEMMA LinkedWalk ==
    ASSUME NEW s, Linked(s), Len(s) \in Nat, NEW i \in 1 .. Len(s), NEW j \in 1 .. Len(s),
           i < j, j - i - 1 <= MaxModules
    PROVE  s[j].module \in Needs(s[i].module)
<1>1. MaxModules \in Nat
  BY ModulesAssumption
<1>2. PICK P, n, w : P = program /\ n = j - i - 1 /\ w = [k \in 0 .. (j - i) |-> s[i + k].module]
  OBVIOUS
<1>3. n \in 0 .. MaxModules
  BY <1>1, <1>2
<1>4. ASSUME NEW k \in 0 .. n
      PROVE  w[k + 1] \in Sources(P[w[k]])
  <2>1. /\ k \in 0 .. (j - i) /\ k + 1 \in 0 .. (j - i) /\ i + (k + 1) = (i + k) + 1
        /\ i + k \in 1 .. Len(s) /\ (i + k) + 1 \in 1 .. Len(s)
    BY <1>2
  <2>2. w[k] = s[i + k].module /\ w[k + 1] = s[(i + k) + 1].module
    BY <1>2, <2>1
  <2>3. s[(i + k) + 1].module \in Sources(P[s[i + k].module])
    BY <1>2, <2>1 DEF Linked
  <2>4. QED BY <2>2, <2>3
<1>5. w[n + 1] \in Needs(w[0])
  BY <1>2, <1>3, <1>4, Walk
<1>6. n + 1 \in 0 .. (j - i) /\ 0 \in 0 .. (j - i) /\ i + (n + 1) = j /\ i + 0 = i
  BY <1>2
<1>7. w[n + 1] = s[j].module /\ w[0] = s[i].module
  BY <1>2, <1>6
<1>8. QED BY <1>5, <1>7

(* A frame that may be put on a stack.                                     *)
Fits(b, g) ==
    /\ Stack(b) /\ FrameOK(g)
    /\ \A i \in 1 .. Len(b) : b[i].module # g.module
    /\ b = << >> => g.module = 1
    /\ b # << >> => g.module \in Sources(program[b[Len(b)].module])

LEMMA Push ==
    ASSUME NEW b, NEW g, Fits(b, g)
    PROVE  Stack(Append(b, g))
<1>1. PICK s, n : s = Append(b, g) /\ n = Len(b)
  OBVIOUS
<1>2. b \in Seq(Frame) /\ g \in Frame
  BY DEF Fits, Stack, FrameOK
<1>3. n \in Nat /\ s \in Seq(Frame) /\ Len(s) = n + 1 /\ s[n + 1] = g
      /\ \A i \in 1 .. n : s[i] = b[i]
  BY <1>1, <1>2, AppendProperties, LenProperties
<1>4. \A i \in 1 .. Len(s) : i \in 1 .. n \/ i = n + 1
  BY <1>3
<1>5. \A i \in 1 .. Len(s) : FrameOK(s[i])
  BY <1>1, <1>3, <1>4 DEF Fits, Stack
<1>6. Apart(s)
  <2> SUFFICES ASSUME NEW i \in 1 .. Len(s), NEW j \in 1 .. Len(s), s[i].module = s[j].module
               PROVE  i = j
    BY DEF Apart
  <2>1. CASE i \in 1 .. n /\ j \in 1 .. n
    <3>1. b[i].module = b[j].module
      BY <1>3, <2>1
    <3>2. QED BY <1>1, <2>1, <3>1 DEF Fits, Stack, Apart
  <2>2. CASE i \in 1 .. n /\ j = n + 1
    BY <1>1, <1>3, <2>2 DEF Fits
  <2>3. CASE i = n + 1 /\ j \in 1 .. n
    BY <1>1, <1>3, <2>3 DEF Fits
  <2>4. QED BY <1>4, <2>1, <2>2, <2>3
<1>7. Linked(s)
  <2> SUFFICES ASSUME NEW i \in 1 .. Len(s), i + 1 \in 1 .. Len(s)
               PROVE  s[i + 1].module \in Sources(program[s[i].module])
    BY DEF Linked
  <2>1. CASE i + 1 \in 1 .. n
    <3>1. i \in 1 .. n
      BY <1>3, <2>1
    <3>2. b[i + 1].module \in Sources(program[b[i].module])
      BY <1>1, <2>1, <3>1 DEF Fits, Stack, Linked
    <3>3. QED BY <1>3, <2>1, <3>1, <3>2
  <2>2. CASE i + 1 = n + 1
    <3>1. i = n /\ i \in 1 .. n
      BY <1>3, <2>2
    <3>2. b # << >>
      BY <1>1, <3>1, EmptySeq
    <3>3. g.module \in Sources(program[b[i].module])
      BY <1>1, <3>1, <3>2 DEF Fits
    <3>4. QED BY <1>3, <2>2, <3>1, <3>3
  <2>3. QED BY <1>4, <2>1, <2>2
<1>8. s[1].module = 1
  <2>1. CASE b = << >>
    <3>1. n = 0
      BY <1>1, <2>1, EmptySeq
    <3>2. QED BY <1>3, <2>1, <3>1 DEF Fits
  <2>2. CASE b # << >>
    <3>1. 1 \in 1 .. n
      BY <1>1, <1>2, <2>2, EmptySeq
    <3>2. b[1].module = 1
      BY <2>2 DEF Fits, Stack
    <3>3. QED BY <1>3, <3>1, <3>2
  <2>3. QED BY <2>1, <2>2
<1>9. QED BY <1>1, <1>3, <1>5, <1>6, <1>7, <1>8 DEF Stack

LEMMA AllPush ==
    \A b, g : Fits(b, g) => Stack(Append(b, g))
BY Push

LEMMA AllPushNext ==
    (\A b, g : Fits(b, g) => Stack(Append(b, g)))'
BY AllPush, PTL

(* Taking the top frame off.                                               *)
LEMMA Pop ==
    ASSUME NEW s, Stack(s), s # << >>
    PROVE  /\ Stack(Front(s)) /\ Len(Front(s)) = Len(s) - 1
           /\ \A g : FrameOK(g) /\ g.module = Last(s).module => Fits(Front(s), g)
<1>1. PICK b, n : b = Front(s) /\ n = Len(s)
  OBVIOUS
<1>2. s \in Seq(Frame)
  BY DEF Stack
<1>3. /\ n \in Nat \ {0} /\ Last(s) = s[n] /\ b \in Seq(Frame) /\ Len(b) = n - 1
      /\ \A i \in 1 .. (n - 1) : b[i] = s[i]
  BY <1>1, <1>2, FrontLast
<1>4. \A i \in 1 .. (n - 1) : i \in 1 .. n /\ i # n
  BY <1>3
<1>5. n \in 1 .. n /\ 1 \in 1 .. n
  BY <1>3
<1>6. \A i \in 1 .. Len(b) : FrameOK(b[i])
  BY <1>1, <1>3, <1>4 DEF Stack
<1>7. Apart(b)
  <2> SUFFICES ASSUME NEW i \in 1 .. Len(b), NEW j \in 1 .. Len(b), b[i].module = b[j].module
               PROVE  i = j
    BY DEF Apart
  <2>1. s[i].module = s[j].module
    BY <1>3
  <2>2. QED BY <1>1, <1>3, <1>4, <2>1 DEF Stack, Apart
<1>8. Linked(b)
  <2> SUFFICES ASSUME NEW i \in 1 .. Len(b), i + 1 \in 1 .. Len(b)
               PROVE  b[i + 1].module \in Sources(program[b[i].module])
    BY DEF Linked
  <2>1. b[i + 1] = s[i + 1] /\ b[i] = s[i] /\ i \in 1 .. n /\ i + 1 \in 1 .. n
    BY <1>3, <1>4
  <2>2. QED BY <1>1, <2>1 DEF Stack, Linked
<1>9. b # << >> => b[1].module = 1
  <2>1. b # << >> => 1 \in 1 .. (n - 1)
    BY <1>3, EmptySeq
  <2>2. QED BY <1>3, <2>1 DEF Stack
<1>10. Stack(b)
  BY <1>3, <1>6, <1>7, <1>8, <1>9 DEF Stack
<1>11. ASSUME NEW g, FrameOK(g), g.module = s[n].module
       PROVE  Fits(b, g)
  <2>1. \A i \in 1 .. Len(b) : b[i].module # g.module
    <3> SUFFICES ASSUME NEW i \in 1 .. Len(b), b[i].module = s[n].module
                 PROVE  FALSE
      BY <1>11
    <3>1. i \in 1 .. n /\ i # n /\ s[i].module = s[n].module
      BY <1>3, <1>4
    <3>2. QED BY <1>1, <1>5, <3>1 DEF Stack, Apart
  <2>2. b = << >> => g.module = 1
    <3>1. b = << >> => n = 1
      BY <1>3, EmptySeq
    <3>2. QED BY <1>11, <3>1 DEF Stack
  <2>3. b # << >> => g.module \in Sources(program[b[Len(b)].module])
    <3> SUFFICES ASSUME b # << >>
                 PROVE  s[n].module \in Sources(program[b[n - 1].module])
      BY <1>3, <1>11
    <3>1. n - 1 \in 1 .. n - 1 /\ n - 1 \in 1 .. n /\ (n - 1) + 1 = n
      BY <1>3, EmptySeq
    <3>2. s[(n - 1) + 1].module \in Sources(program[s[n - 1].module])
      BY <1>1, <1>5, <3>1 DEF Stack, Linked
    <3>3. QED BY <1>3, <3>1, <3>2
  <2>4. QED BY <1>10, <1>11, <2>1, <2>2, <2>3 DEF Fits
<1>12. QED BY <1>1, <1>3, <1>10, <1>11

-----------------------------------------------------------------------------
(* Steps.                                                                  *)
SameRest == UNCHANGED <<program, ids, loaded, predeclared, emitted, bound, namespaces>>

LEMMA RestStays ==
    ASSUME Inv, SameRest
    PROVE  /\ Later /\ Seen' = Seen /\ program' \in Programs
           /\ Ids' /\ Tables' /\ Bound' /\ Spaces' /\ Emission(emitted)'
<1>1. Seen' = Seen
  BY DEF SameRest, Seen
<1>2. Later
  BY <1>1 DEF SameRest, Later
<1>3. \A d, n : Provisional(d, n)' = Provisional(d, n)
  BY DEF SameRest, Provisional
<1>4. Ids'
  BY <1>1 DEF SameRest, Inv, Ids, Count
<1>5. Tables'
  <2>1. loaded' = loaded /\ predeclared' = predeclared /\ ids' = ids
    BY DEF SameRest
  <2>2. \A m : Extends(loaded[m], m) => Extends(loaded[m], m)'
    BY <1>3, <2>1 DEF Extends
  <2>3. QED BY <1>1, <1>3, <2>1, <2>2 DEF Inv, Tables
<1>6. Bound'
  <2>1. program' = program /\ loaded' = loaded /\ bound' = bound /\ ids' = ids
    BY DEF SameRest
  <2>2. \A x : Exists(x) => Exists(x)'
    BY <1>2, ExistsStays
  <2>3. \A x, d, n : Met(x, d, n) => Met(x, d, n)'
    BY <1>1, <1>3, <2>1 DEF Met
  <2>4. \A m : AllMet(m) => AllMet(m)'
    BY <2>1, <2>3 DEF AllMet
  <2>5. Bound
    BY DEF Inv
  <2>6. bound' \in [Module -> Table]
    BY <2>1, <2>5 DEF Bound
  <2>7. ASSUME NEW m \in Module, loaded'[m] # NoTable
        PROVE  AllExist(loaded[m])' /\ AllExist(bound[m])' /\ AllMet(m)'
    <3>1. loaded[m] # NoTable
      BY <2>1, <2>7
    <3>2. AllExist(loaded[m]) /\ AllExist(bound[m]) /\ AllMet(m)
      BY <2>5, <3>1 DEF Bound
    <3>3. AllExist(loaded[m])' /\ AllExist(bound[m])'
      BY <2>1, <2>2, <3>2 DEF AllExist
    <3>4. QED BY <2>4, <3>2, <3>3
  <2>8. QED BY <2>6, <2>7 DEF Bound
<1>7. Emission(emitted)'
  <2>1. PICK q : q = emitted
    OBVIOUS
  <2>2. Emission(q)'
    BY <1>1, <2>1, NeedsStays DEF SameRest, Inv, Emission, Before
  <2>3. QED BY <2>1, <2>2 DEF SameRest
<1>8. Spaces'
  BY <1>2, SpacesStay DEF SameRest, Inv
<1>9. QED BY <1>1, <1>2, <1>4, <1>5, <1>6, <1>7, <1>8 DEF SameRest, Inv

(* The top frame after a dependency was answered.                          *)
Answered ==
    [Top EXCEPT !.next = @ + 1,
                !.dependencies[Source] = IF @ = NoTable THEN Known(Source) ELSE @]

LEMMA AnsweredOK ==
    ASSUME Inv, Loading, Top.next <= Len(Text1.imports), Known(Source) # NoTable
    PROVE  /\ FrameOK(Answered) /\ Answered.module = Top.module
           /\ \A x \in Module :
                 \/ Answered.dependencies[x] = Top.dependencies[x]
                 \/ (x = Source /\ Answered.dependencies[x] = Known(Source))
<1>1. PICK f, d, K, m : f = Top /\ d = Source /\ K = Known(Source) /\ m = Top.module
  OBVIOUS
<1>2. f \in Frame /\ FrameOK(f) /\ f.next \in Nat \ {0} /\ m \in Module /\ m = f.module
  BY <1>1, TopModule
<1>3. d \in Module /\ d = program[m].imports[f.next].source
  BY <1>1, NextSource
<1>4. View(K, d) /\ K \in Table
  BY <1>1, <1>3, KnownView, ViewTable DEF Inv
<1>5. PICK g : g = Answered
  OBVIOUS
<1>6. g = [f EXCEPT !.next = @ + 1, !.dependencies[d] = IF @ = NoTable THEN K ELSE @]
  BY <1>1, <1>5 DEF Answered
<1>7. /\ f = [module |-> f.module, next |-> f.next, dependencies |-> f.dependencies]
      /\ f.dependencies \in [Module -> Table \union {NoTable}]
  BY <1>2 DEF Frame
<1>8. /\ g.module = m /\ g.next = f.next + 1
      /\ g.dependencies = [f.dependencies EXCEPT ![d] = IF @ = NoTable THEN K ELSE @]
  BY <1>2, <1>6, <1>7
<1>9. g = [module |-> g.module, next |-> g.next, dependencies |-> g.dependencies]
  BY <1>6, <1>7
<1>10. /\ g.dependencies \in [Module -> Table \union {NoTable}]
       /\ g.dependencies[d] = IF f.dependencies[d] = NoTable THEN K ELSE f.dependencies[d]
       /\ \A x \in Module : x # d => g.dependencies[x] = f.dependencies[x]
  <2>1. PICK h, v : h = f.dependencies /\ v = IF h[d] = NoTable THEN K ELSE h[d]
    OBVIOUS
  <2>2. h \in [Module -> Table \union {NoTable}] /\ v \in Table \union {NoTable}
    BY <1>3, <1>4, <1>7, <2>1
  <2>3. g.dependencies = [h EXCEPT ![d] = v]
    BY <1>8, <2>1
  <2>4. PICK h2 : h2 = [h EXCEPT ![d] = v]
    OBVIOUS
  <2>5. h2 \in [Module -> Table \union {NoTable}]
    BY <2>2, <2>4
  <2>6. h2[d] = v /\ \A x \in Module : x # d => h2[x] = h[x]
    BY <1>3, <2>2, <2>4
  <2>7. g.dependencies = h2
    BY <2>3, <2>4
  <2>8. QED BY <2>1, <2>5, <2>6, <2>7
<1>11. g \in Frame
  <2>1. g.module \in Module /\ g.next \in Nat
    BY <1>2, <1>8
  <2>2. QED BY <1>9, <1>10, <2>1 DEF Frame
<1>12. \A x \in Module : g.dependencies[x] # NoTable => View(g.dependencies[x], x)
  BY <1>2, <1>4, <1>10 DEF FrameOK
<1>13. \A x \in Module : f.dependencies[x] # NoTable \/ x = d => g.dependencies[x] # NoTable
  BY <1>4, <1>10 DEF View
<1>14. Len(program[m].imports) \in Nat /\ f.next <= Len(program[m].imports)
       /\ DOMAIN program[m].imports = 1 .. Len(program[m].imports)
  BY <1>1, TopModule
<1>15. ASSUME NEW k \in 1 .. g.next - 1
       PROVE  g.dependencies[program[m].imports[k].source] # NoTable
  <2>1. k = f.next \/ k \in 1 .. f.next - 1
    BY <1>2, <1>8
  <2>2. k \in DOMAIN program[m].imports
    BY <1>2, <1>8, <1>14
  <2>3. program[m].imports[k].source \in Module
    BY <1>2, <2>2, ImportFields DEF Inv
  <2>4. CASE k = f.next
    BY <1>3, <1>13, <2>3, <2>4
  <2>5. CASE k \in 1 .. f.next - 1
    <3>1. f.dependencies[program[m].imports[k].source] # NoTable
      BY <1>2, <2>5 DEF FrameOK
    <3>2. QED BY <1>13, <2>3, <3>1
  <2>6. QED BY <2>1, <2>4, <2>5
<1>16. g.next \in 1 .. Len(program[g.module].imports) + 1
  BY <1>2, <1>8, <1>14
<1>17. FrameOK(g)
  BY <1>2, <1>8, <1>11, <1>12, <1>15, <1>16 DEF FrameOK
<1>18. \A x \in Module :
          g.dependencies[x] = f.dependencies[x] \/ (x = d /\ g.dependencies[x] = K)
  BY <1>10
<1>19. QED BY <1>1, <1>5, <1>8, <1>17, <1>18

(* A table that is not final yet belongs to a module being loaded.         *)
LEMMA AnsweredHeld ==
    ASSUME Inv, Loading, Top.next <= Len(Text1.imports), Known(Source) # NoTable,
           NEW t, NEW n, n = Len(frames), n \in Nat \ {0}, Len(t) = n, t[n] = Answered,
           \A i \in 1 .. n - 1 : t[i] = frames[i],
           \A i \in 1 .. n : t[i].module = frames[i].module
    PROVE  Held(t)
<1>1. PICK f, d, K, g : f = Top /\ d = Source /\ K = Known(Source) /\ g = Answered
  OBVIOUS
<1>2. Held(frames)
  BY DEF Inv
<1>3. d \in Module /\ f = frames[n]
  BY <1>1, NextSource, TopModule
<1>4. \A x \in Module :
          g.dependencies[x] = f.dependencies[x] \/ (x = d /\ g.dependencies[x] = K)
  BY <1>1, AnsweredOK
<1>5. K = loaded[d] \/ \E j \in 1 .. n : frames[j].module = d
  <2>1. K = loaded[d] \/ (loaded[d] = NoTable /\ d \in Seen)
    BY <1>1, <1>3 DEF Known, Inv, Tables
  <2>2. QED BY <2>1 DEF Inv, Progress, OnStack
<1>6. ASSUME NEW i \in 1 .. n, NEW x \in Module, t[i].dependencies[x] # NoTable
      PROVE  t[i].dependencies[x] = loaded[x] \/ \E j \in 1 .. i : t[j].module = x
  <2>1. CASE t[i].dependencies[x] = frames[i].dependencies[x]
    <3>1. t[i].dependencies[x] = loaded[x] \/ \E j \in 1 .. i : frames[j].module = x
      BY <1>2, <1>6, <2>1 DEF Held
    <3>2. \A j \in 1 .. i : j \in 1 .. n
      OBVIOUS
    <3>3. QED BY <3>1, <3>2
  <2>2. CASE i = n /\ x = d /\ t[i].dependencies[x] = K
    BY <1>5, <2>2
  <2>3. i = n \/ i \in 1 .. n - 1
    OBVIOUS
  <2>4. QED BY <1>1, <1>3, <1>4, <2>1, <2>2, <2>3
<1>7. QED BY <1>6 DEF Held

LEMMA TakeStep ==
    ASSUME Inv, TakeTable
    PROVE  Inv'
<1>1. /\ Loading /\ Top.next <= Len(Text1.imports) /\ Known(Source) # NoTable
      /\ frames' = Append(Front(frames), Answered) /\ SameRest /\ phase' = phase
  BY DEF TakeTable, Answered, SameRest
<1>2. PICK s, b, g, n : s = frames /\ b = Front(frames) /\ g = Answered /\ n = Len(frames)
  OBVIOUS
<1>3. FrameOK(g) /\ g.module = Last(s).module
  BY <1>1, <1>2, AnsweredOK DEF Top
<1>4. Stack(s) /\ s # << >> /\ s \in Seq(Frame)
  BY <1>1, <1>2 DEF Inv, Loading, Stack
<1>5. Fits(b, g) /\ Stack(b) /\ Len(b) = n - 1
  BY <1>2, <1>3, <1>4, Pop
<1>6. PICK t : t = Append(b, g)
  OBVIOUS
<1>7. Stack(t) /\ frames' = t
  BY <1>1, <1>2, <1>5, <1>6, Push
<1>8. b \in Seq(Frame) /\ g \in Frame
  BY <1>3, <1>5 DEF Stack, FrameOK
<1>9. n \in Nat \ {0} /\ Len(t) = n /\ t # << >> /\ \A i \in 1 .. n : t[i].module = s[i].module
  <2>1. n \in Nat \ {0} /\ Last(s) = s[n] /\ \A i \in 1 .. n - 1 : b[i] = s[i]
    BY <1>2, <1>4, FrontLast
  <2>2. t # << >> /\ Len(t) = Len(b) + 1 /\ t[Len(b) + 1] = g
        /\ \A i \in 1 .. Len(b) : t[i] = b[i]
    BY <1>6, <1>8, AppendProperties
  <2>3. Len(t) = n /\ t[n] = g /\ \A i \in 1 .. n - 1 : t[i] = s[i]
    BY <1>5, <2>1, <2>2
  <2>4. \A i \in 1 .. n : i = n \/ i \in 1 .. n - 1
    BY <2>1
  <2>5. QED BY <1>3, <2>1, <2>2, <2>3, <2>4
<1>10. Held(t)
  <2>1. n \in Nat \ {0} /\ \A i \in 1 .. n - 1 : b[i] = s[i]
    BY <1>2, <1>4, FrontLast
  <2>2. Len(t) = Len(b) + 1 /\ t[Len(b) + 1] = g /\ \A i \in 1 .. Len(b) : t[i] = b[i]
    BY <1>6, <1>8, AppendProperties
  <2>3. Len(t) = n /\ t[n] = g /\ \A i \in 1 .. n - 1 : t[i] = s[i]
    BY <1>5, <2>1, <2>2
  <2>4. QED BY <1>1, <1>2, <1>9, <2>1, <2>3, AnsweredHeld
<1>11. Later /\ Seen' = Seen /\ program' \in Programs
       /\ Ids' /\ Tables' /\ Bound' /\ Spaces' /\ Emission(emitted)'
  BY <1>1, RestStays
<1>12. Stack(frames)' /\ Held(frames)'
  <2>1. \A i \in 1 .. Len(t) : loaded'[t[i].module] = NoTable
    BY <1>1, <1>7 DEF Stack, FrameOK, SameRest
  <2>2. Stack(t)'
    BY <1>7, <1>11, <2>1, StackStays
  <2>3. Held(t)'
    BY <1>1, <1>10, HeldStays DEF SameRest
  <2>4. QED BY <1>7, <2>2, <2>3
<1>13. Progress'
  <2>1. \A m : OnStack(m, s) => OnStack(m, t)
    BY <1>2, <1>9 DEF OnStack
  <2>2. \A m : OnStack(m, frames) => OnStack(m, frames)'
    BY <1>2, <1>7, <2>1 DEF OnStack
  <2>3. \A m : Needs(m)' = Needs(m)
    BY <1>1, NeedsStays DEF SameRest
  <2>4. frames' # << >> /\ frames # << >>
    BY <1>2, <1>4, <1>7, <1>9
  <2>5. QED BY <1>1, <1>11, <2>2, <2>3, <2>4 DEF Inv, Progress, SameRest
<1>14. QED BY <1>11, <1>12, <1>13 DEF Inv

(* The numbers of a module that is reached first.                          *)
LEMMA Numbering ==
    ASSUME Ids, NEW d \in Module, d \notin Seen
    PROVE  /\ NextId = Count + 1 /\ Count \in Nat /\ Count + 1 \in Module
           /\ IsFiniteSet(Seen) /\ Cardinality(Seen \union {d}) = Count + 1
<1>1. MaxModules \in Nat \ {0}
  BY ModulesAssumption
<1>2. IsFiniteSet(Module) /\ Cardinality(Module) = MaxModules
  BY <1>1, IntervalSize DEF Module
<1>3. IsFiniteSet(Seen)
  BY <1>2, SeenModules, FS_Subset
<1>4. Count \in Nat /\ Cardinality(Seen \union {d}) = Count + 1
  <2>1. Cardinality(Seen) \in Nat
    BY <1>3, FS_CardinalityType
  <2>2. Cardinality(Seen \union {d}) = Cardinality(Seen) + 1
    BY <1>3, FS_AddElement
  <2>3. QED BY <2>1, <2>2 DEF Count
<1>5. Count + 1 <= MaxModules
  <2>1. Seen \union {d} \in SUBSET Module
    BY SeenModules
  <2>2. Cardinality(Seen \union {d}) <= Cardinality(Module)
    BY <1>2, <2>1, FS_Subset
  <2>3. QED BY <1>2, <1>4, <2>2
<1>6. Max({ids[m] : m \in Module}) = Count
  <2>1. PICK T, c : T = {ids[m] : m \in Module} /\ c = Count
    OBVIOUS
  <2>2. T \in SUBSET Nat /\ c \in T /\ \A x \in T : x <= c
    BY <1>1, <2>1 DEF Ids
  <2>3. Max(T) = c
    BY <2>2, MaxOf
  <2>4. QED BY <2>1, <2>3
<1>7. QED BY <1>1, <1>3, <1>4, <1>5, <1>6 DEF NextId, Module

LEMMA LoadParts ==
    ASSUME Inv, Load
    PROVE  /\ Source \in Module /\ Source \notin Seen /\ loaded[Source] = NoTable
           /\ Seen' = Seen \union {Source} /\ Ids' /\ Later
           /\ ids'[Source] = NextId /\ NextId \in Module
<1>1. Loading /\ Top.next <= Len(Text1.imports) /\ Known(Source) = NoTable
      /\ ids' = [ids EXCEPT ![Source] = NextId]
      /\ UNCHANGED <<program, loaded, emitted, bound, namespaces, phase>>
  BY DEF Load, Enter
<1>2. PICK d, c, k : d = Source /\ c = Count /\ k = NextId
  OBVIOUS
<1>3. d \in Module
  BY <1>1, <1>2, NextSource
<1>4. d \notin Seen /\ loaded[d] = NoTable
  BY <1>1, <1>2, <1>3 DEF Inv, Tables, Known
<1>5. k = c + 1 /\ c \in Nat /\ c + 1 \in Module /\ Cardinality(Seen \union {d}) = c + 1
  BY <1>2, <1>3, <1>4, Numbering DEF Inv
<1>6. c + 1 \in 0 .. MaxModules /\ c + 1 # 0
  BY <1>5, ModulesAssumption DEF Module
<1>7. /\ ids \in [Module -> 0 .. MaxModules] /\ ids' = [ids EXCEPT ![d] = c + 1]
      /\ \A m \in Module : ids[m] <= c
  BY <1>1, <1>2, <1>5 DEF Inv, Ids
<1>8. ids'[d] = c + 1 /\ \A m \in Module : m # d => ids'[m] = ids[m]
  BY <1>3, <1>7
<1>9. Seen' = Seen \union {d}
  BY <1>3, <1>6, <1>8 DEF Seen
<1>10. Ids'
  <2>1. ids' \in [Module -> 0 .. MaxModules]
    BY <1>6, <1>7
  <2>2. Count' = c + 1
    BY <1>5, <1>9 DEF Count
  <2>3. \A m \in Module : ids'[m] <= c + 1
    <3> SUFFICES ASSUME NEW m \in Module
                 PROVE  ids'[m] <= c + 1
      OBVIOUS
    <3>1. ids[m] <= c /\ ids[m] \in 0 .. MaxModules
      BY <1>7
    <3>2. QED BY <1>5, <1>8, <3>1, ModulesAssumption
  <2>4. \E m \in Module : ids'[m] = c + 1
    BY <1>3, <1>8
  <2>5. 1 \in Seen'
    BY <1>9 DEF Inv, Ids
  <2>6. ASSUME NEW m \in Seen', NEW n \in Seen', ids'[m] = ids'[n]
        PROVE  m = n
    <3>1. \A x \in Seen : x \in Module /\ x # d /\ ids'[x] = ids[x] /\ ids[x] # c + 1
      <4> SUFFICES ASSUME NEW x \in Seen
                   PROVE  x \in Module /\ x # d /\ ids'[x] = ids[x] /\ ids[x] # c + 1
        OBVIOUS
      <4>1. x \in Module /\ x # d
        BY <1>4, SeenModules
      <4>2. ids[x] <= c /\ ids[x] \in 0 .. MaxModules
        BY <1>7, <4>1
      <4>3. QED BY <1>5, <1>8, <4>1, <4>2, ModulesAssumption
    <3>2. CASE m \in Seen /\ n \in Seen
      BY <2>6, <3>1, <3>2 DEF Inv, Ids
    <3>3. CASE m = d /\ n \in Seen
      BY <1>8, <2>6, <3>1, <3>3
    <3>4. CASE m \in Seen /\ n = d
      BY <1>8, <2>6, <3>1, <3>4
    <3>5. QED BY <1>9, <3>2, <3>3, <3>4
  <2>7. QED BY <2>1, <2>2, <2>3, <2>4, <2>5, <2>6 DEF Ids
<1>11. Later
  BY <1>1, <1>4, <1>8, <1>9, SeenModules DEF Later
<1>12. QED BY <1>2, <1>3, <1>4, <1>5, <1>8, <1>9, <1>10, <1>11

LEMMA LoadTables ==
    ASSUME Inv, Load
    PROVE  Tables'
<1>1. /\ predeclared' = [predeclared EXCEPT ![Source] = Provisional(Source, NextId)]
      /\ UNCHANGED <<program, loaded>>
  BY DEF Load, Enter
<1>2. PICK d, k : d = Source /\ k = NextId
  OBVIOUS
<1>3. /\ d \in Module /\ d \notin Seen /\ loaded[d] = NoTable
      /\ Seen' = Seen \union {d} /\ Later /\ ids'[d] = k /\ k \in Module
  BY <1>2, LoadParts
<1>4. PICK T : T = Provisional(d, k)
  OBVIOUS
<1>5. T \in Table /\ T # NoTable
  BY <1>3, <1>4, ProvisionalTable, TableNotNone DEF Inv
<1>6. predeclared \in [Module -> Table \union {NoTable}]
      /\ predeclared' = [predeclared EXCEPT ![d] = T]
  BY <1>1, <1>2, <1>4 DEF Inv, Tables
<1>7. predeclared'[d] = T /\ \A m \in Module : m # d => predeclared'[m] = predeclared[m]
  BY <1>3, <1>6
<1>8. Provisional(d, ids[d])' = T
  BY <1>1, <1>3, <1>4 DEF Provisional
<1>9. predeclared' \in [Module -> Table \union {NoTable}]
  BY <1>5, <1>6
<1>10. \A m \in Module : predeclared'[m] # NoTable <=> m \in Seen'
  BY <1>3, <1>5, <1>7 DEF Inv, Tables
<1>11. ASSUME NEW m \in Seen', loaded'[m] = NoTable
       PROVE  predeclared'[m] = Provisional(m, ids[m])'
  <2>1. CASE m = d
    BY <1>7, <1>8, <2>1
  <2>2. CASE m \in Seen
    <3>1. m \in Module /\ m # d
      BY <1>3, <2>2, SeenModules
    <3>2. predeclared[m] = Provisional(m, ids[m])
      BY <1>1, <1>11, <2>2 DEF Inv, Tables
    <3>3. Provisional(m, ids[m])' = Provisional(m, ids[m])
      BY <1>3, <2>2, ProvisionalStays
    <3>4. QED BY <1>7, <3>1, <3>2, <3>3
  <2>3. QED BY <1>3, <2>1, <2>2
<1>12. ASSUME NEW m \in Module, loaded'[m] # NoTable
       PROVE  m \in Seen' /\ predeclared'[m] = loaded'[m] /\ Extends(loaded[m], m)'
  <2>1. m \in Seen /\ m # d /\ predeclared[m] = loaded[m] /\ Extends(loaded[m], m)
    BY <1>1, <1>3, <1>12 DEF Inv, Tables
  <2>2. Provisional(m, ids[m])' = Provisional(m, ids[m])
    BY <1>3, <2>1, ProvisionalStays
  <2>3. Extends(loaded[m], m)'
    BY <1>1, <2>1, <2>2 DEF Extends
  <2>4. QED BY <1>1, <1>3, <1>7, <2>1, <2>3
<1>13. loaded' \in [Module -> Table \union {NoTable}]
  BY <1>1 DEF Inv, Tables
<1>14. QED BY <1>9, <1>10, <1>11, <1>12, <1>13 DEF Tables

LEMMA LoadStack ==
    ASSUME Inv, Load
    PROVE  Stack(frames)' /\ Held(frames)' /\ Source \in Needs(1) /\ frames' # << >>
           /\ \A m : OnStack(m, frames) \/ m = Source => OnStack(m, frames)'
<1>1. /\ Loading /\ Top.next <= Len(Text1.imports) /\ UNCHANGED <<program, loaded>>
      /\ frames' = Append(frames, NewFrame(Source))
  BY DEF Load, Enter
<1>2. PICK d, s, g, n, t : d = Source /\ s = frames /\ g = NewFrame(Source) /\ n = Len(frames)
                           /\ t = Append(frames, NewFrame(Source))
  OBVIOUS
<1>3. /\ d \in Module /\ d \notin Seen /\ loaded[d] = NoTable
      /\ Seen' = Seen \union {d} /\ Later
  BY <1>2, LoadParts
<1>4. /\ Stack(s) /\ s \in Seq(Frame) /\ n \in Nat \ {0} /\ Last(s) = s[n]
      /\ s # << >> /\ Len(s) = n /\ s[n] = Top
  BY <1>1, <1>2, FrontLast DEF Inv, Stack, Loading, Top
<1>5. g.module = d /\ g.next = 1 /\ g.dependencies = [x \in Module |-> NoTable] /\ g \in Frame
  BY <1>2, <1>3 DEF NewFrame, Frame
<1>6. t \in Seq(Frame) /\ Len(t) = n + 1 /\ t[n + 1] = g /\ t # << >>
      /\ \A i \in 1 .. n : t[i] = s[i]
  BY <1>2, <1>4, <1>5, AppendProperties
<1>7. FrameOK(g)'
  <2>1. Len(program[d].imports) \in Nat
    BY <1>3, TextFields, LenProperties DEF Inv
  <2>2. program' = program /\ loaded' = loaded
    BY <1>1
  <2>3. d \in Seen'
    BY <1>3
  <2>4. g.next \in 1 .. Len(program'[g.module].imports) + 1
    BY <1>5, <2>1, <2>2
  <2>5. \A k \in 1 .. g.next - 1 : FALSE
    BY <1>5
  <2>6. \A x \in Module : g.dependencies[x] = NoTable
    BY <1>5
  <2>7. QED BY <1>3, <1>5, <2>2, <2>3, <2>4, <2>5, <2>6 DEF FrameOK
<1>8. d \in Sources(program[s[n].module])
  BY <1>1, <1>2, <1>4, NextSource, TopModule
<1>9. Fits(s, g)'
  <2>1. \A i \in 1 .. Len(s) : loaded'[s[i].module] = NoTable
    BY <1>1, <1>4 DEF Stack, FrameOK
  <2>2. Stack(s)'
    BY <1>3, <1>4, <2>1, StackStays
  <2>3. \A i \in 1 .. Len(s) : s[i].module # g.module
    BY <1>3, <1>4, <1>5 DEF Stack, FrameOK
  <2>4. g.module \in Sources(program'[s[Len(s)].module])
    BY <1>1, <1>4, <1>5, <1>8
  <2>5. QED BY <1>4, <1>7, <2>2, <2>3, <2>4 DEF Fits
<1>10. Stack(t)'
  <2>1. Stack(Append(s, g))'
    BY <1>9, AllPushNext
  <2>2. QED BY <1>2, <2>1
<1>11. Stack(frames)' /\ frames' # << >>
  BY <1>1, <1>2, <1>6, <1>10
<1>12. d \in Needs(1)
  <2>1. Linked(t)
    <3> SUFFICES ASSUME NEW i \in 1 .. Len(t), i + 1 \in 1 .. Len(t)
                 PROVE  t[i + 1].module \in Sources(program[t[i].module])
      BY DEF Linked
    <3>1. i \in 1 .. n /\ (i + 1 \in 1 .. n \/ i = n)
      BY <1>4, <1>6
    <3>2. CASE i + 1 \in 1 .. n
      BY <1>4, <1>6, <3>1, <3>2 DEF Stack, Linked
    <3>3. CASE i = n
      BY <1>5, <1>6, <1>8, <3>1, <3>3
    <3>4. QED BY <3>1, <3>2, <3>3
  <2>2. n \in 0 .. MaxModules
    BY <1>4, StackLength DEF Inv
  <2>3. PICK j : j = n + 1
    OBVIOUS
  <2>4. /\ Len(t) \in Nat /\ 1 \in 1 .. Len(t) /\ j \in 1 .. Len(t) /\ 1 < j
        /\ j - 1 - 1 <= MaxModules
    BY <1>4, <1>6, <2>2, <2>3, ModulesAssumption
  <2>5. t[j].module \in Needs(t[1].module)
    BY <2>1, <2>4, LinkedWalk
  <2>6. t[1].module = 1
    <3>1. 1 \in 1 .. n
      BY <1>4
    <3>2. QED BY <1>4, <1>6, <3>1 DEF Stack
  <2>7. QED BY <1>5, <1>6, <2>3, <2>5, <2>6
<1>13. ASSUME NEW m, OnStack(m, s) \/ m = d
       PROVE  OnStack(m, t)
  <2>1. CASE m = d
    <3>1. n + 1 \in 1 .. Len(t) /\ t[n + 1].module = m
      BY <1>4, <1>5, <1>6, <2>1
    <3>2. QED BY <3>1 DEF OnStack
  <2>2. CASE OnStack(m, s)
    <3>1. PICK i \in 1 .. n : s[i].module = m
      BY <1>4, <2>2 DEF OnStack
    <3>2. i \in 1 .. Len(t) /\ t[i].module = m
      BY <1>4, <1>6, <3>1
    <3>3. QED BY <3>2 DEF OnStack
  <2>3. QED BY <1>13, <2>1, <2>2
<1>14. \A m : OnStack(m, frames) \/ m = Source => OnStack(m, frames)'
  BY <1>1, <1>2, <1>13 DEF OnStack
<1>15. Held(frames)'
  <2>1. Held(s)
    BY <1>2 DEF Inv
  <2>2. ASSUME NEW i \in 1 .. Len(t), NEW x \in Module, t[i].dependencies[x] # NoTable
        PROVE  t[i].dependencies[x] = loaded[x] \/ \E j \in 1 .. i : t[j].module = x
    <3>1. i \in 1 .. n
      BY <1>4, <1>5, <1>6, <2>2
    <3>2. s[i].dependencies[x] = loaded[x] \/ \E j \in 1 .. i : s[j].module = x
      BY <1>4, <1>6, <2>1, <2>2, <3>1 DEF Held
    <3>3. \A j \in 1 .. i : j \in 1 .. n
      BY <1>4, <3>1
    <3>4. QED BY <1>6, <3>1, <3>2, <3>3
  <2>3. Held(t)
    BY <2>2 DEF Held
  <2>4. Held(t)'
    BY <1>1, <2>3, HeldStays
  <2>5. QED BY <1>1, <1>2, <2>4
<1>16. QED BY <1>2, <1>11, <1>12, <1>14, <1>15

LEMMA LoadStep ==
    ASSUME Inv, Load
    PROVE  Inv'
<1>1. UNCHANGED <<program, loaded, emitted, bound, namespaces, phase>> /\ Loading
  BY DEF Load, Enter
<1>2. /\ Source \notin Seen /\ Seen' = Seen \union {Source} /\ Ids' /\ Later
  BY LoadParts
<1>3. Tables'
  BY LoadTables
<1>4. Stack(frames)' /\ Held(frames)' /\ Spaces'
  BY <1>1, <1>2, LoadStack, SpacesStay DEF Inv
<1>5. Bound'
  <2>1. bound' \in [Module -> Table]
    BY <1>1 DEF Inv, Bound
  <2>2. ASSUME NEW m \in Module, loaded'[m] # NoTable
        PROVE  AllExist(loaded[m])' /\ AllExist(bound[m])'
    <3>1. AllExist(loaded[m]) /\ AllExist(bound[m])
      BY <1>1, <2>2 DEF Inv, Bound
    <3>2. \A x : Exists(x) => Exists(x)'
      BY <1>2, ExistsStays
    <3>3. QED BY <1>1, <3>1, <3>2 DEF AllExist
  <2>3. ASSUME NEW m \in Module, loaded'[m] # NoTable
        PROVE  AllMet(m)'
    <3>1. AllMet(m)
      BY <1>1, <2>3 DEF Inv, Bound
    <3>2. ASSUME NEW i \in 1 .. Len(program[m].imports), NEW x \in Named(program[m].imports[i])
          PROVE  Met(bound[m][x.local], program[m].imports[i].source, x.imported)'
      <4>1. PICK v, d, n : v = bound[m][x.local] /\ d = program[m].imports[i].source /\ n = x.imported
        OBVIOUS
      <4>2. DOMAIN program[m].imports = 1 .. Len(program[m].imports)
        BY TextFields, LenProperties DEF Inv
      <4>3. n \in Name
        BY <3>2, <4>1, <4>2, ImportFields DEF Inv
      <4>4. Met(v, d, n)
        BY <3>1, <3>2, <4>1 DEF AllMet
      <4>5. loaded'[d] = loaded[d]
        BY <1>1
      <4>6. Met(v, d, n)'
        BY <1>2, <4>3, <4>4, <4>5, MetStays
      <4>7. QED BY <1>1, <4>1, <4>6
    <3>3. QED BY <1>1, <3>2 DEF AllMet
  <2>4. QED BY <2>1, <2>2, <2>3 DEF Bound
<1>6. \A m : Needs(m)' = Needs(m)
  BY <1>1, NeedsStays
<1>7. Emission(emitted)'
  <2>1. PICK q : q = emitted
    OBVIOUS
  <2>2. Emission(q)
    BY <2>1 DEF Inv
  <2>3. \A i \in 1 .. Len(q) : \A d \in Sources(program'[q[i]]) : d \in Seen' /\ Before(q, i, d)'
    BY <1>1, <1>2, <1>6, <2>2 DEF Emission, Before
  <2>4. Emission(q)'
    BY <2>2, <2>3 DEF Emission
  <2>5. QED BY <1>1, <2>1, <2>4
<1>8. Progress'
  <2>1. frames' # << >> /\ phase' = "loading" /\ Source \in Needs(1)
    BY <1>1, LoadStack DEF Loading
  <2>2. \A m \in Module : loaded'[m] # NoTable <=> \E i \in 1 .. Len(emitted') : emitted'[i] = m
    BY <1>1 DEF Inv, Progress
  <2>3. \A m \in Seen' : loaded'[m] # NoTable \/ OnStack(m, frames)'
    BY <1>1, <1>2, LoadStack DEF Inv, Progress
  <2>4. \A m \in Seen' : m = 1 \/ m \in Needs(1)'
    BY <1>2, <1>6, <2>1 DEF Inv, Progress
  <2>5. QED BY <2>1, <2>2, <2>3, <2>4 DEF Progress
<1>9. QED BY <1>1, <1>2, <1>3, <1>4, <1>5, <1>7, <1>8 DEF Inv

-----------------------------------------------------------------------------
(* Names bound when every dependency was read.                             *)
LEMMA ReadAll ==
    ASSUME Inv, AllRead
    PROVE  \A d \in Sources(Text1) : d \in Module /\ View(Top.dependencies[d], d)
<1> SUFFICES ASSUME NEW d \in Sources(Text1)
             PROVE  d \in Module /\ View(Top.dependencies[d], d)
  OBVIOUS
<1>1. Loading /\ Top.next > Len(Text1.imports)
  BY DEF AllRead
<1>2. PICK f, m, l : f = Top /\ m = Top.module /\ l = Len(Text1.imports)
  OBVIOUS
<1>3. /\ FrameOK(f) /\ m \in Module /\ m = f.module /\ f.next \in Nat \ {0} /\ l \in Nat
      /\ l = Len(program[m].imports) /\ d \in Sources(program[m])
  BY <1>1, <1>2, TopModule
<1>4. PICK i \in 1 .. l : d \in Module /\ d = program[m].imports[i].source
  BY <1>3, SourceOf DEF Inv
<1>5. f.next > l
  BY <1>1, <1>2
<1>6. i \in 1 .. f.next - 1
  BY <1>3, <1>4, <1>5
<1>7. f.dependencies[d] # NoTable
  BY <1>3, <1>4, <1>6 DEF FrameOK
<1>8. View(f.dependencies[d], d)
  BY <1>3, <1>4, <1>7 DEF FrameOK
<1>9. QED BY <1>2, <1>4, <1>8

(* A binding comes from a specifier of an import declaration.              *)
BindingOf(b, i, s) ==
    /\ i \in DOMAIN Text1.imports /\ s \in Named(Text1.imports[i])
    /\ b = <<s.local, Found(s, Text1.imports[i].source)>>

LEMMA BindingsAre ==
    ASSUME NEW b
    PROVE  b \in Bindings <=> \E i, s : BindingOf(b, i, s)
<1>1. PICK q : q = Text1.imports
  OBVIOUS
<1>2. \A x : x \in ToSet(q) <=> \E i \in DOMAIN q : x = q[i]
  BY DEF ToSet
<1>3. b \in Bindings <=>
          \E x \in ToSet(q) : b \in {<<s.local, Found(s, x.source)>> : s \in Named(x)}
  BY <1>1 DEF Bindings
<1>4. b \in Bindings <=>
          \E i \in DOMAIN q : b \in {<<s.local, Found(s, q[i].source)>> : s \in Named(q[i])}
  BY <1>2, <1>3
<1>5. QED BY <1>1, <1>4 DEF BindingOf

LEMMA BindingFields ==
    ASSUME Inv, AllRead, NEW b, NEW i, NEW s, BindingOf(b, i, s)
    PROVE  /\ b[1] = s.local /\ b[2] = Top.dependencies[Text1.imports[i].source][s.imported]
           /\ s.local \in Name /\ s.imported \in Name /\ s.local \notin Text1.declares
           /\ Text1.imports[i].source \in Sources(Text1)
<1>1. PICK m : m = Top.module
  OBVIOUS
<1>2. m \in Module /\ Text1 = program[m] /\ program \in Programs
  BY <1>1, TopModule DEF AllRead, Inv
<1>3. i \in DOMAIN program[m].imports /\ s \in Named(program[m].imports[i])
  BY <1>2 DEF BindingOf
<1>4. /\ s.imported \in Name /\ s.local \in Name /\ s \in Imported(program[m])
      /\ program[m].imports[i].source \in Sources(program[m])
  BY <1>2, <1>3, ImportFields
<1>5. s.local \notin program[m].declares
  BY <1>2, <1>4, TextFields DEF WellFormed
<1>6. QED BY <1>2, <1>4, <1>5 DEF BindingOf, Found

LEMMA RenameImport ==
    ASSUME Inv, AllRead, NEW b, NEW i, NEW s, BindingOf(b, i, s)
    PROVE  Rename[s.local] = b[2] /\ b \in Bindings
<1>1. PICK m, n, B : m = Top.module /\ n = s.local /\ B = Bindings
  OBVIOUS
<1>2. m \in Module /\ Text1 = program[m] /\ program \in Programs
  BY <1>1, TopModule DEF AllRead, Inv
<1>3. b \in B /\ b[1] = n /\ n \in Name
  BY <1>1, BindingsAre, BindingFields
<1>4. PICK c : c = CHOOSE x \in B : x[1] = n
  OBVIOUS
<1>5. c \in B /\ c[1] = n
  BY <1>3, <1>4
<1>6. PICK j, u : BindingOf(c, j, u)
  BY <1>1, <1>5, BindingsAre
<1>7. u.local = s.local
  BY <1>1, <1>5, <1>6, BindingFields
<1>8. /\ i \in DOMAIN program[m].imports /\ s \in program[m].imports[i].specifiers
      /\ j \in DOMAIN program[m].imports /\ u \in program[m].imports[j].specifiers
  BY <1>2, <1>6 DEF BindingOf, Named
<1>9. i = j /\ u = s
  BY <1>2, <1>7, <1>8, TextFields DEF WellFormed
<1>10. c = b
  BY <1>6, <1>9 DEF BindingOf
<1>11. Rename[n] = c[2]
  BY <1>1, <1>3, <1>4 DEF Rename
<1>12. QED BY <1>1, <1>3, <1>10, <1>11

LEMMA RenameOwn ==
    ASSUME Inv, AllRead, NEW n \in Name, \A i, s : BindingOf(<<s.local, Found(s, Text1.imports[i].source)>>, i, s) => s.local # n
    PROVE  Rename[n] = OwnNames(Top.module, ids[Top.module])[n]
<1>1. \A b \in Bindings : b[1] # n
  <2> SUFFICES ASSUME NEW b \in Bindings, b[1] = n
               PROVE  FALSE
    OBVIOUS
  <2>1. PICK i, s : BindingOf(b, i, s)
    BY BindingsAre
  <2>2. s.local = n
    BY <2>1, BindingFields
  <2>3. QED BY <2>1, <2>2 DEF BindingOf
<1>2. QED BY <1>1 DEF Rename

(* What a table may hold.                                                  *)
Good(x) == x \in Target \union {Nothing} /\ (x # Nothing => Exists(x))

LEMMA ViewGood ==
    ASSUME Inv, NEW T, NEW d, View(T, d), NEW n \in Name
    PROVE  Good(T[n])
<1>1. T \in Table
  BY ViewTable DEF Inv
<1>2. T[n] \in Target \union {Nothing}
  BY <1>1 DEF Table
<1>3. QED BY <1>2, ViewExists DEF Inv, Good

LEMMA RenameGood ==
    ASSUME Inv, AllRead, NEW n \in Name
    PROVE  /\ Good(Rename[n])
           /\ n \in Text1.declares => Rename[n] = <<ids[Top.module], Sanitized[n]>>
<1>1. PICK m, k : m = Top.module /\ k = ids[Top.module]
  OBVIOUS
<1>2. m \in Module /\ m \in Seen /\ Text1 = program[m] /\ k \in Module
  BY <1>1, TopModule, IdsType DEF AllRead, Inv
<1>3. CASE \E i, s : BindingOf(<<s.local, Found(s, Text1.imports[i].source)>>, i, s) /\ s.local = n
  <2>1. PICK i, s : BindingOf(<<s.local, Found(s, Text1.imports[i].source)>>, i, s) /\ s.local = n
    BY <1>3
  <2>2. PICK b : BindingOf(b, i, s)
    BY <2>1
  <2>3. PICK d, x, T : d = Text1.imports[i].source /\ x = s.imported /\ T = Top.dependencies[d]
    OBVIOUS
  <2>4. b[2] = T[x] /\ x \in Name /\ s.local \notin Text1.declares /\ d \in Sources(Text1)
    BY <2>2, <2>3, BindingFields
  <2>5. View(T, d)
    BY <2>3, <2>4, ReadAll
  <2>6. Rename[n] = T[x]
    BY <2>1, <2>2, <2>4, RenameImport
  <2>7. Good(T[x])
    BY <2>4, <2>5, ViewGood
  <2>8. QED BY <2>1, <2>4, <2>6, <2>7
<1>4. CASE ~\E i, s : BindingOf(<<s.local, Found(s, Text1.imports[i].source)>>, i, s) /\ s.local = n
  <2>1. Rename[n] = OwnNames(m, k)[n]
    BY <1>1, <1>4, RenameOwn
  <2>2. CASE n \in program[m].declares
    <3>1. Rename[n] = <<k, Sanitized[n]>>
      BY <2>1, <2>2 DEF OwnNames
    <3>2. <<k, Sanitized[n]>> \in Target
      BY <1>2, NamesAssumption DEF Target
    <3>3. Exists(<<k, Sanitized[n]>>)
      BY <1>1, <1>2, <2>2 DEF Exists, Declared
    <3>4. QED BY <1>1, <3>1, <3>2, <3>3 DEF Good
  <2>3. CASE n \notin program[m].declares
    <3>1. Rename[n] = Nothing
      BY <2>1, <2>3 DEF OwnNames
    <3>2. QED BY <1>2, <2>3, <3>1 DEF Good
  <2>4. QED BY <2>2, <2>3
<1>5. QED BY <1>3, <1>4

LEMMA ExportTargetGood ==
    ASSUME Inv, AllRead, ~Unresolved, NEW e \in Text1.exports
    PROVE  Good(ExportTarget(e))
<1>1. PICK m : m = Top.module
  OBVIOUS
<1>2. m \in Module /\ Text1 = program[m] /\ program \in Programs
  BY <1>1, TopModule DEF AllRead, Inv
<1>3. e \in Export /\ e \in program[m].exports
  BY <1>2, TextFields
<1>4. e.local \in Name
  BY <1>3 DEF Export
<1>5. CASE e.source # 0
  <2>1. e.source \in Sources(Text1)
    BY <1>2, <1>3, <1>5, TextFields DEF WellFormed
  <2>2. View(Top.dependencies[e.source], e.source)
    BY <2>1, ReadAll
  <2>3. PICK T, d : T = Top.dependencies[e.source] /\ d = e.source
    OBVIOUS
  <2>4. Good(T[e.local])
    BY <1>4, <2>2, <2>3, ViewGood
  <2>5. QED BY <1>5, <2>3, <2>4 DEF ExportTarget
<1>6. CASE e.source = 0 /\ Rename[e.local] # Nothing
  BY <1>4, <1>6, RenameGood DEF ExportTarget
<1>7. CASE e.source = 0 /\ Rename[e.local] = Nothing
  <2>1. ExportTarget(e) = <<0, e.local>>
    BY <1>7 DEF ExportTarget
  <2>2. e.local \notin program[m].declares
    BY <1>2, <1>4, <1>7, RenameGood, TargetNotNothing
  <2>3. PICK s \in Imported(program[m]) : s.local = e.local
    BY <1>2, <1>3, <1>7, <2>2, TextFields DEF WellFormed
  <2>4. PICK i \in DOMAIN program[m].imports : s \in program[m].imports[i].specifiers
    BY <2>3 DEF Imported
  <2>5. ~BindingOf(<<s.local, Found(s, Text1.imports[i].source)>>, i, s)
    <3> SUFFICES ASSUME BindingOf(<<s.local, Found(s, Text1.imports[i].source)>>, i, s)
                 PROVE  FALSE
      OBVIOUS
    <3>1. PICK b : b = <<s.local, Found(s, Text1.imports[i].source)>>
      OBVIOUS
    <3>2. Rename[s.local] = b[2] /\ b \in Bindings
      BY <3>1, RenameImport
    <3>3. QED BY <1>7, <2>3, <3>2 DEF Unresolved
  <2>6. s.imported = "*"
    BY <1>2, <2>4, <2>5 DEF BindingOf, Named
  <2>7. s = Space(e.local)
    <3>1. program[m].imports \in Seq(Import) /\ i \in 1 .. Len(program[m].imports)
      BY <1>2, <2>4, TextFields, ImportFields
    <3>2. program[m].imports[i] \in Import
      BY <3>1, ElementOfSeq
    <3>3. s \in Specifier
      BY <2>4, <3>2 DEF Import
    <3>4. QED BY <2>3, <2>6, <3>3 DEF Specifier, Space
  <2>8. Exists(<<0, e.local>>)
    <3>1. m \in Seen
      BY <1>1, TopModule DEF AllRead
    <3>2. Forwarded(<<0, e.local>>)
      BY <1>3, <1>7, <2>3, <2>7, <3>1 DEF Forwarded
    <3>3. QED BY <3>2 DEF Exists
  <2>9. <<0, e.local>> \in Target
    BY <1>4 DEF Target
  <2>10. QED BY <2>1, <2>8, <2>9 DEF Good
<1>8. QED BY <1>5, <1>6, <1>7

LEMMA ExportsGood ==
    ASSUME Inv, AllRead, ~Unresolved, NEW n \in Name
    PROVE  Good(Exports[n])
<1>1. PICK m, E, A : m = Top.module /\ E = Text1.exports /\ A = Text1.all
  OBVIOUS
<1>2. m \in Module /\ Text1 = program[m] /\ program \in Programs
  BY <1>1, TopModule DEF AllRead, Inv
<1>3. CASE \E e \in E : e.exported = n
  <2>1. PICK c : c = CHOOSE e \in E : e.exported = n
    OBVIOUS
  <2>2. c \in E
    BY <1>3, <2>1
  <2>3. Exports[n] = ExportTarget(c)
    BY <1>1, <1>3, <2>1 DEF Exports
  <2>4. QED BY <1>1, <2>2, <2>3, ExportTargetGood
<1>4. CASE (~\E e \in E : e.exported = n) /\ n # "default" /\ ExportedBySome(n) # {}
  <2>1. PICK X, i : X = ExportedBySome(n) /\ i = Min(ExportedBySome(n))
    OBVIOUS
  <2>2. A \in Seq(Module) /\ DOMAIN A = 1 .. Len(A)
    BY <1>1, <1>2, TextFields, LenProperties
  <2>3. X \in SUBSET Nat /\ X # {}
    BY <1>1, <1>4, <2>1, <2>2 DEF ExportedBySome
  <2>4. i \in X
    BY <2>1, <2>3, MinOf
  <2>5. i \in DOMAIN A
    BY <1>1, <2>1, <2>4 DEF ExportedBySome
  <2>6. A[i] \in Sources(Text1)
    <3>1. ToSet(program[m].all) \subseteq Sources(program[m])
      BY <1>2, TextFields DEF WellFormed
    <3>2. ToSet(A) \subseteq Sources(Text1)
      BY <1>1, <1>2, <3>1
    <3>3. QED BY <2>5, <3>2 DEF ToSet
  <2>7. PICK d, T : d = A[i] /\ T = Top.dependencies[A[i]]
    OBVIOUS
  <2>8. View(T, d)
    BY <2>6, <2>7, ReadAll
  <2>9. Good(T[n])
    BY <2>8, ViewGood
  <2>10. Exports[n] = T[n]
    BY <1>1, <1>4, <2>1, <2>7 DEF Exports
  <2>11. QED BY <2>9, <2>10
<1>5. CASE (~\E e \in E : e.exported = n) /\ ~(n # "default" /\ ExportedBySome(n) # {})
  <2>1. Exports[n] = Nothing
    BY <1>1, <1>5 DEF Exports
  <2>2. QED BY <2>1 DEF Good
<1>6. QED BY <1>3, <1>4, <1>5

(* The final table keeps what was provisional.                             *)
LEMMA ExportsExtend ==
    ASSUME Inv, AllRead
    PROVE  Extends(Exports, Top.module)
<1>1. PICK m, k, E : m = Top.module /\ k = ids[Top.module] /\ E = Text1.exports
  OBVIOUS
<1>2. m \in Module /\ Text1 = program[m] /\ program \in Programs
  BY <1>1, TopModule DEF AllRead, Inv
<1> SUFFICES ASSUME NEW n \in Name, Provisional(m, k)[n] # Nothing
             PROVE  Exports[n] = Provisional(m, k)[n]
  BY <1>1 DEF Extends
<1>3. PICK e : OwnExport(e, m, n) /\ Provisional(m, k)[n] = <<k, Sanitized[e.local]>>
  BY <1>2, ProvisionalEntries
<1>4. e \in E /\ e.exported = n /\ e.source = 0 /\ e.local \in Text1.declares
  BY <1>1, <1>2, <1>3 DEF OwnExport
<1>5. PICK c : c = CHOOSE x \in E : x.exported = n
  OBVIOUS
<1>6. c \in E /\ c.exported = n
  BY <1>4, <1>5
<1>7. c = e
  BY <1>1, <1>2, <1>4, <1>6, TextFields DEF WellFormed
<1>8. Exports[n] = ExportTarget(e)
  BY <1>1, <1>4, <1>5, <1>7 DEF Exports
<1>9. e.local \in Name
  BY <1>2, <1>4, TextFields
<1>10. Rename[e.local] = <<k, Sanitized[e.local]>>
  BY <1>1, <1>4, <1>9, RenameGood
<1>11. Rename[e.local] # Nothing
  BY <1>10, TargetNotNothing
<1>12. QED BY <1>3, <1>4, <1>8, <1>10, <1>11 DEF ExportTarget

LEMMA TablesMade ==
    ASSUME Inv, AllRead, ~Unresolved
    PROVE  /\ Rename \in Table /\ AllExist(Rename)
           /\ Exports \in Table /\ AllExist(Exports)
<1>1. PICK R, X : R = Rename /\ X = Exports
  OBVIOUS
<1>2. R = [n \in Name |-> R[n]] /\ X = [n \in Name |-> X[n]]
  BY <1>1 DEF Rename, Exports
<1>3. \A n \in Name : Good(R[n]) /\ Good(X[n])
  BY <1>1, RenameGood, ExportsGood
<1>4. \A n \in Name : R[n] \in Target \union {Nothing} /\ X[n] \in Target \union {Nothing}
  BY <1>3 DEF Good
<1>5. R \in Table /\ X \in Table
  BY <1>2, <1>4 DEF Table
<1>6. AllExist(R) /\ AllExist(X)
  BY <1>3 DEF Good, AllExist
<1>7. QED BY <1>1, <1>5, <1>6

-----------------------------------------------------------------------------
(* A module is finished.                                                   *)
Finishing(m, R, X) ==
    /\ AllRead /\ ~Unresolved
    /\ m = Top.module /\ R = Rename /\ X = Exports
    /\ bound' = [bound EXCEPT ![m] = R]
    /\ namespaces' = [namespaces EXCEPT ![m] = Namespaces]
    /\ emitted' = Append(emitted, m)
    /\ loaded' = [loaded EXCEPT ![m] = X]
    /\ predeclared' = [predeclared EXCEPT ![m] = X]
    /\ frames' = Front(frames)
    /\ phase' = IF Len(frames) = 1 THEN "done" ELSE "loading"
    /\ UNCHANGED <<program, ids>>

LEMMA FinishParts ==
    ASSUME Inv, NEW m, NEW R, NEW X, Finishing(m, R, X)
    PROVE  /\ m \in Module /\ m \in Seen /\ loaded[m] = NoTable
           /\ Text1 = program[m] /\ Loading
           /\ R \in Table /\ X \in Table /\ X # NoTable
           /\ loaded'[m] = X /\ bound'[m] = R /\ predeclared'[m] = X
           /\ \A x \in Module : x # m =>
                 loaded'[x] = loaded[x] /\ bound'[x] = bound[x] /\ predeclared'[x] = predeclared[x]
           /\ Seen' = Seen /\ Later /\ Extends(loaded[m], m)'
<1>1. Loading
  BY DEF Finishing, AllRead
<1>2. m \in Module /\ m \in Seen /\ loaded[m] = NoTable /\ Text1 = program[m]
  BY <1>1, TopModule DEF Finishing, FrameOK
<1>3. R \in Table /\ X \in Table /\ X # NoTable /\ Extends(X, m)
  BY TablesMade, TableNotNone, ExportsExtend DEF Finishing
<1>4. /\ loaded'[m] = X /\ bound'[m] = R /\ predeclared'[m] = X
      /\ \A x \in Module : x # m =>
            loaded'[x] = loaded[x] /\ bound'[x] = bound[x] /\ predeclared'[x] = predeclared[x]
  BY <1>2 DEF Finishing, Inv, Tables, Bound
<1>5. Seen' = Seen
  BY DEF Finishing, Seen
<1>6. Later
  BY <1>2, <1>4, <1>5 DEF Later, Finishing
<1>7. Extends(loaded[m], m)'
  <2>1. Provisional(m, ids[m])' = Provisional(m, ids[m])
    BY <1>2, <1>6, ProvisionalStays
  <2>2. QED BY <1>3, <1>4, <2>1 DEF Extends
<1>8. QED BY <1>1, <1>2, <1>3, <1>4, <1>5, <1>6, <1>7

LEMMA FinishTables ==
    ASSUME Inv, NEW m, NEW R, NEW X, Finishing(m, R, X)
    PROVE  Ids' /\ Tables'
<1>1. /\ m \in Module /\ m \in Seen /\ X \in Table /\ X # NoTable
      /\ loaded'[m] = X /\ predeclared'[m] = X
      /\ \A x \in Module : x # m => loaded'[x] = loaded[x] /\ predeclared'[x] = predeclared[x]
      /\ Seen' = Seen /\ Later /\ Extends(loaded[m], m)'
  BY FinishParts
<1>2. Ids'
  BY <1>1 DEF Finishing, Inv, Ids, Count
<1>3. loaded' \in [Module -> Table \union {NoTable}]
      /\ predeclared' \in [Module -> Table \union {NoTable}]
  BY <1>1 DEF Finishing, Inv, Tables
<1>4. \A x \in Module : predeclared'[x] # NoTable <=> x \in Seen'
  BY <1>1 DEF Inv, Tables
<1>5. ASSUME NEW x \in Seen', loaded'[x] = NoTable
      PROVE  predeclared'[x] = Provisional(x, ids[x])'
  <2>1. x \in Module /\ x # m /\ x \in Seen
    BY <1>1, <1>5, SeenModules
  <2>2. predeclared[x] = Provisional(x, ids[x])
    BY <1>1, <1>5, <2>1 DEF Inv, Tables
  <2>3. Provisional(x, ids[x])' = Provisional(x, ids[x])
    BY <1>1, <2>1, ProvisionalStays
  <2>4. QED BY <1>1, <2>1, <2>2, <2>3
<1>6. ASSUME NEW x \in Module, loaded'[x] # NoTable
      PROVE  x \in Seen' /\ predeclared'[x] = loaded'[x] /\ Extends(loaded[x], x)'
  <2>1. CASE x = m
    BY <1>1, <2>1
  <2>2. CASE x # m
    <3>1. x \in Seen /\ predeclared[x] = loaded[x] /\ Extends(loaded[x], x)
      BY <1>1, <1>6, <2>2 DEF Inv, Tables
    <3>2. Provisional(x, ids[x])' = Provisional(x, ids[x])
      BY <1>1, <3>1, ProvisionalStays
    <3>3. Extends(loaded[x], x)'
      BY <1>1, <2>2, <3>1, <3>2 DEF Extends
    <3>4. QED BY <1>1, <2>2, <3>1, <3>3
  <2>3. QED BY <2>1, <2>2
<1>7. Tables'
  BY <1>3, <1>4, <1>5, <1>6 DEF Tables
<1>8. QED BY <1>2, <1>7

(* The namespaces that the module itself imports.                          *)
LEMMA SpaceRead ==
    ASSUME Inv, AllRead, NEW n \in Name, NEW i \in DOMAIN Text1.imports,
           Space(n) \in Text1.imports[i].specifiers
    PROVE  Namespaces[n] = Top.dependencies[Text1.imports[i].source]
<1>1. PICK m : m = Top.module
  OBVIOUS
<1>2. m \in Module /\ Text1 = program[m] /\ program \in Programs
  BY <1>1, TopModule DEF AllRead, Inv
<1>3. PICK c : c = CHOOSE x \in Declaring(n) : TRUE
  OBVIOUS
<1>4. i \in Declaring(n)
  BY DEF Declaring
<1>5. c \in Declaring(n)
  BY <1>3, <1>4
<1>6. c \in DOMAIN Text1.imports /\ Space(n) \in Text1.imports[c].specifiers
  BY <1>5 DEF Declaring
<1>7. c = i
  BY <1>2, <1>6, TextFields DEF WellFormed
<1>8. SourceDeclaring(n) = Text1.imports[i].source
  BY <1>3, <1>7 DEF SourceDeclaring
<1>9. QED BY <1>4, <1>8 DEF Namespaces

LEMMA SpacesMade ==
    ASSUME Inv, AllRead
    PROVE  Namespaces \in [Name -> Table \union {NoTable}]
<1>1. PICK m : m = Top.module
  OBVIOUS
<1>2. m \in Module /\ Text1 = program[m] /\ program \in Programs /\ Top \in Frame
  BY <1>1, TopModule DEF AllRead, Inv
<1>3. Top.dependencies \in [Module -> Table \union {NoTable}]
  BY <1>2 DEF Frame
<1>4. ASSUME NEW n \in Name
      PROVE  Namespaces[n] \in Table \union {NoTable}
  <2>1. CASE Declaring(n) = {}
    BY <2>1 DEF Namespaces
  <2>2. ASSUME NEW i \in Declaring(n)
        PROVE  Namespaces[n] \in Table \union {NoTable}
    <3>1. i \in DOMAIN Text1.imports /\ Space(n) \in Text1.imports[i].specifiers
      BY DEF Declaring
    <3>2. Namespaces[n] = Top.dependencies[Text1.imports[i].source]
      BY <3>1, SpaceRead
    <3>3. Text1.imports[i].source \in Module
      BY <1>2, <3>1, ImportFields
    <3>4. QED BY <1>3, <3>2, <3>3
  <2>3. QED BY <2>1, <2>2
<1>5. PICK N : N = Namespaces
  OBVIOUS
<1>6. N = [n \in Name |-> N[n]]
  BY <1>5 DEF Namespaces
<1>7. QED BY <1>4, <1>5, <1>6

(* A table that was read and is final by now was final when it was read.   *)
LEMMA HeldFinal ==
    ASSUME Inv, AllRead, NEW d \in Sources(Text1), loaded[d] # NoTable
    PROVE  Top.dependencies[d] = loaded[d]
<1>1. PICK s, n, f : s = frames /\ n = Len(frames) /\ f = Top
  OBVIOUS
<1>2. n \in Nat \ {0} /\ f = s[n] /\ n \in 1 .. Len(s) /\ \A j \in 1 .. n : j \in 1 .. Len(s)
  BY <1>1, TopModule DEF AllRead
<1>3. d \in Module /\ f.dependencies[d] # NoTable
  BY <1>1, ReadAll DEF View
<1>4. Held(s) /\ Stack(s)
  BY <1>1 DEF Inv
<1>5. \A j \in 1 .. n : s[j].module # d
  BY <1>2, <1>4 DEF Stack, FrameOK
<1>6. f.dependencies[d] = loaded[d]
  BY <1>2, <1>3, <1>4, <1>5 DEF Held
<1>7. QED BY <1>1, <1>6

LEMMA FinishSpaces ==
    ASSUME Inv, NEW m, NEW R, NEW X, Finishing(m, R, X)
    PROVE  Spaces'
<1>1. /\ m \in Module /\ Text1 = program[m] /\ loaded[m] = NoTable
      /\ \A x \in Module : x # m => loaded'[x] = loaded[x]
      /\ Later
  BY FinishParts
<1>2. /\ program' = program /\ m = Top.module /\ AllRead
      /\ namespaces' = [namespaces EXCEPT ![m] = Namespaces]
      /\ emitted' = Append(emitted, m)
  BY DEF Finishing
<1>3. PICK N : N = Namespaces
  OBVIOUS
<1>4. /\ N \in [Name -> Table \union {NoTable}]
      /\ namespaces \in [Module -> [Name -> Table \union {NoTable}]]
  BY <1>2, <1>3, SpacesMade DEF Inv, Spaces
<1>5. /\ namespaces' \in [Module -> [Name -> Table \union {NoTable}]]
      /\ namespaces'[m] = N /\ \A x \in Module : x # m => namespaces'[x] = namespaces[x]
  BY <1>1, <1>2, <1>3, <1>4
<1>6. PICK q, t, k : q = emitted /\ t = Append(emitted, m) /\ k = Len(emitted)
  OBVIOUS
<1>7. q \in Seq(Module) /\ emitted' = t
  BY <1>2, <1>6 DEF Inv, Emission
<1>8. /\ k \in Nat /\ t \in Seq(Module) /\ Len(t) = k + 1 /\ t[k + 1] = m
      /\ \A i \in 1 .. k : t[i] = q[i]
  BY <1>1, <1>6, <1>7, AppendProperties, LenProperties
<1>9. DOMAIN t = 1 .. k + 1 /\ DOMAIN q = 1 .. k
  BY <1>6, <1>7, <1>8, LenProperties
<1>10. \A i \in 1 .. k : q[i] # m /\ loaded[q[i]] # NoTable
  <2>1. \A i \in 1 .. k : q[i] \in Module
    BY <1>6, <1>7, ElementOfSeq
  <2>2. QED BY <1>1, <1>6, <2>1 DEF Inv, Progress
<1>11. ASSUME NEW x, NEW d, Precedes(d, x)'
       PROVE  loaded[d] # NoTable /\ (x = m \/ Precedes(d, x))
  <2>1. PICK i \in 1 .. k + 1, j \in 1 .. k + 1 : i < j /\ t[i] = d /\ t[j] = x
    BY <1>7, <1>9, <1>11 DEF Precedes
  <2>2. i \in 1 .. k /\ q[i] = d
    BY <1>8, <2>1
  <2>3. CASE j = k + 1
    BY <1>8, <1>10, <2>1, <2>2, <2>3
  <2>4. CASE j \in 1 .. k
    <3>1. q[j] = x
      BY <1>8, <2>1, <2>4
    <3>2. Precedes(d, x)
      BY <1>6, <1>9, <2>1, <2>2, <2>4, <3>1 DEF Precedes
    <3>3. QED BY <1>10, <2>2, <3>2
  <2>5. QED BY <1>8, <2>1, <2>3, <2>4
<1>12. ASSUME NEW x \in Module, loaded'[x] # NoTable,
              NEW i \in 1 .. Len(program[x].imports), NEW n \in Name,
              Space(n) \in program[x].imports[i].specifiers
       PROVE  SpaceMet(x, n, program[x].imports[i].source)'
  <2>1. PICK d, T : d = program[x].imports[i].source /\ T = namespaces'[x][n]
    OBVIOUS
  <2>2. DOMAIN program[x].imports = 1 .. Len(program[x].imports)
    BY TextFields, LenProperties DEF Inv
  <2>3. d \in Module /\ d \in Sources(program[x])
    BY <2>1, <2>2, ImportFields DEF Inv
  <2>4. View(T, d) /\ (Precedes(d, x)' => T = loaded[d])
    <3>1. CASE x = m
      <4>1. T = Top.dependencies[d]
        <5>1. Space(n) \in Text1.imports[i].specifiers /\ i \in DOMAIN Text1.imports
          BY <1>1, <1>12, <2>2, <3>1
        <5>2. Namespaces[n] = Top.dependencies[Text1.imports[i].source]
          BY <1>2, <5>1, SpaceRead
        <5>3. QED BY <1>1, <1>3, <1>5, <2>1, <3>1, <5>2
      <4>2. d \in Sources(Text1)
        BY <1>1, <2>3, <3>1
      <4>3. QED BY <1>2, <1>11, <4>1, <4>2, ReadAll, HeldFinal
    <3>2. CASE x # m
      <4>1. loaded[x] # NoTable /\ T = namespaces[x][n]
        BY <1>1, <1>5, <1>12, <2>1, <3>2
      <4>2. SpaceMet(x, n, d)
        BY <1>12, <2>1, <4>1 DEF Inv, Spaces, AllSpaces
      <4>3. QED BY <1>11, <3>2, <4>1, <4>2 DEF SpaceMet
    <3>3. QED BY <3>1, <3>2
  <2>5. View(T, d)'
    BY <1>1, <2>4, ViewStays
  <2>6. Precedes(d, x)' => T = loaded'[d]
    BY <1>1, <1>11, <2>3, <2>4 DEF Later
  <2>7. SpaceMet(x, n, d)'
    BY <2>1, <2>5, <2>6 DEF SpaceMet
  <2>8. QED BY <1>2, <2>1, <2>7
<1>13. \A x \in Module : loaded'[x] # NoTable => AllSpaces(x)'
  BY <1>2, <1>12 DEF AllSpaces
<1>14. QED BY <1>5, <1>13 DEF Spaces

(* The names that the module itself imports.                               *)
LEMMA FinishMet ==
    ASSUME Inv, NEW m, NEW R, NEW X, Finishing(m, R, X),
           NEW i \in 1 .. Len(program[m].imports), NEW s \in Named(program[m].imports[i])
    PROVE  Met(R[s.local], program[m].imports[i].source, s.imported)
<1>1. m \in Module /\ Text1 = program[m] /\ AllRead /\ ~Unresolved /\ R = Rename
  BY FinishParts DEF Finishing
<1>2. DOMAIN program[m].imports = 1 .. Len(program[m].imports)
  BY <1>1, TextFields, LenProperties DEF Inv
<1>3. PICK b : b = <<s.local, Found(s, Text1.imports[i].source)>>
  OBVIOUS
<1>4. BindingOf(b, i, s)
  BY <1>1, <1>2, <1>3 DEF BindingOf
<1>5. PICK d, n, T : d = Text1.imports[i].source /\ n = s.imported /\ T = Top.dependencies[d]
  OBVIOUS
<1>6. b[2] = T[n] /\ n \in Name /\ d \in Sources(Text1)
  BY <1>1, <1>4, <1>5, BindingFields
<1>7. R[s.local] = b[2] /\ b \in Bindings
  BY <1>1, <1>4, RenameImport
<1>8. T[n] # Nothing
  BY <1>1, <1>6, <1>7 DEF Unresolved
<1>9. View(T, d)
  BY <1>1, <1>5, <1>6, ReadAll
<1>10. Met(T[n], d, n)
  BY <1>6, <1>8, <1>9, ViewMeets DEF Inv
<1>11. QED BY <1>1, <1>5, <1>6, <1>7, <1>10

LEMMA FinishBound ==
    ASSUME Inv, NEW m, NEW R, NEW X, Finishing(m, R, X)
    PROVE  Bound'
<1>1. /\ m \in Module /\ m \in Seen /\ loaded[m] = NoTable
      /\ R \in Table /\ X \in Table
      /\ loaded'[m] = X /\ bound'[m] = R
      /\ \A x \in Module : x # m => loaded'[x] = loaded[x] /\ bound'[x] = bound[x]
      /\ Later /\ Extends(loaded[m], m)'
  BY FinishParts
<1>2. program' = program
  BY DEF Finishing
<1>3. bound' \in [Module -> Table]
  BY <1>1 DEF Finishing, Inv, Bound
<1>4. \A x : Exists(x) => Exists(x)'
  BY <1>1, ExistsStays
<1>5. AllExist(R) /\ AllExist(X)
  BY TablesMade DEF Finishing
<1>6. ASSUME NEW x \in Module, loaded'[x] # NoTable
      PROVE  AllExist(loaded[x])' /\ AllExist(bound[x])'
  <2>1. CASE x = m
    BY <1>1, <1>4, <1>5, <2>1 DEF AllExist
  <2>2. CASE x # m
    <3>1. loaded'[x] = loaded[x] /\ bound'[x] = bound[x]
      BY <1>1, <2>2
    <3>2. AllExist(loaded[x]) /\ AllExist(bound[x])
      BY <1>6, <3>1 DEF Inv, Bound
    <3>3. QED BY <1>4, <3>1, <3>2 DEF AllExist
  <2>3. QED BY <2>1, <2>2
<1>7. ASSUME NEW x \in Module, loaded'[x] # NoTable
      PROVE  AllMet(x)'
  <2> SUFFICES ASSUME NEW i \in 1 .. Len(program[x].imports),
                      NEW s \in Named(program[x].imports[i])
               PROVE  Met(bound[x][s.local], program[x].imports[i].source, s.imported)'
    BY <1>2 DEF AllMet
  <2>1. PICK v, d, n : v = bound'[x][s.local] /\ d = program[x].imports[i].source /\ n = s.imported
    OBVIOUS
  <2>2. DOMAIN program[x].imports = 1 .. Len(program[x].imports)
    BY <1>7, TextFields, LenProperties DEF Inv
  <2>3. n \in Name /\ d \in Module
    BY <1>7, <2>1, <2>2, ImportFields DEF Inv
  <2>4. Met(v, d, n)
    <3>1. CASE x = m
      <4>1. Met(R[s.local], program[m].imports[i].source, s.imported)
        BY <3>1, FinishMet
      <4>2. QED BY <1>1, <2>1, <3>1, <4>1
    <3>2. CASE x # m
      <4>1. loaded[x] # NoTable /\ bound'[x] = bound[x]
        BY <1>1, <1>7, <3>2
      <4>2. AllMet(x)
        BY <1>7, <4>1 DEF Inv, Bound
      <4>3. QED BY <2>1, <4>1, <4>2 DEF AllMet
    <3>3. QED BY <3>1, <3>2
  <2>5. loaded[d] = NoTable /\ loaded'[d] # NoTable => Extends(loaded[d], d)'
    <3>1. CASE d = m
      BY <1>1, <3>1
    <3>2. CASE d # m
      BY <1>1, <2>3, <3>2
    <3>3. QED BY <3>1, <3>2
  <2>6. Met(v, d, n)'
    BY <1>1, <2>3, <2>4, <2>5, MetStays
  <2>7. QED BY <1>2, <2>1, <2>6
<1>8. QED BY <1>3, <1>6, <1>7 DEF Bound

LEMMA FinishEmission ==
    ASSUME Inv, NEW m, NEW R, NEW X, Finishing(m, R, X)
    PROVE  /\ Emission(emitted)'
           /\ \A x : (\E i \in 1 .. Len(emitted') : emitted'[i] = x) <=>
                     x = m \/ \E i \in 1 .. Len(emitted) : emitted[i] = x
<1>1. /\ m \in Module /\ m \in Seen /\ loaded[m] = NoTable
      /\ Text1 = program[m] /\ Loading /\ Seen' = Seen
  BY FinishParts
<1>2. program' = program /\ m = Top.module /\ AllRead
  BY DEF Finishing
<1>3. PICK q, t, n : q = emitted /\ t = Append(emitted, m) /\ n = Len(emitted)
  OBVIOUS
<1>4. Emission(q) /\ q \in Seq(Module) /\ emitted' = t
  BY <1>3 DEF Inv, Emission, Finishing
<1>5. n \in Nat /\ t \in Seq(Module) /\ Len(t) = n + 1 /\ t[n + 1] = m
      /\ \A i \in 1 .. n : t[i] = q[i]
  BY <1>1, <1>3, <1>4, AppendProperties, LenProperties
<1>6. \A i \in 1 .. Len(t) : i \in 1 .. n \/ i = n + 1
  BY <1>5
<1>7. \A i \in 1 .. n : q[i] # m
  BY <1>1, <1>3 DEF Inv, Progress
<1>8. \A i, j \in 1 .. Len(t) : t[i] = t[j] => i = j
  <2> SUFFICES ASSUME NEW i \in 1 .. Len(t), NEW j \in 1 .. Len(t), t[i] = t[j]
               PROVE  i = j
    OBVIOUS
  <2>1. CASE i \in 1 .. n /\ j \in 1 .. n
    BY <1>3, <1>4, <1>5, <2>1 DEF Emission
  <2>2. CASE i = n + 1 \/ j = n + 1
    BY <1>5, <1>6, <1>7, <2>2
  <2>3. QED BY <1>6, <2>1, <2>2
<1>9. ASSUME NEW i \in 1 .. n, NEW d \in Sources(program[t[i]])
      PROVE  d \in Seen /\ Before(t, i, d)
  <2>1. t[i] = q[i] /\ \A j \in 1 .. i : j \in 1 .. n /\ t[j] = q[j]
    BY <1>5
  <2>2. d \in Seen /\ Before(q, i, d)
    BY <1>3, <1>4, <1>9, <2>1 DEF Emission
  <2>3. QED BY <2>1, <2>2 DEF Before
<1>10. ASSUME NEW d \in Sources(program[m])
       PROVE  d \in Seen /\ Before(t, n + 1, d)
  <2>1. d \in Seen /\ d \in Module
    BY <1>1, <1>2, <1>10, ReadAll DEF View
  <2>2. \A j \in 1 .. n + 1 : t[j] \in {t[k] : k \in 1 .. n + 1}
    OBVIOUS
  <2>3. CASE loaded[d] # NoTable
    <3>1. PICK j \in 1 .. n : q[j] = d
      BY <1>3, <2>1, <2>3 DEF Inv, Progress
    <3>2. j \in 1 .. n + 1 /\ t[j] = d
      BY <1>5, <3>1
    <3>3. QED BY <2>1, <2>2, <3>2 DEF Before
  <2>4. CASE OnStack(d, frames)
    <3>1. PICK s, k : s = frames /\ k = Len(frames)
      OBVIOUS
    <3>2. PICK i \in 1 .. k : s[i].module = d
      BY <2>4, <3>1 DEF OnStack
    <3>3. k \in Nat \ {0} /\ s[k].module = m
      BY <1>1, <1>2, <3>1, TopModule
    <3>4. CASE i = k
      <4>1. n + 1 \in 1 .. n + 1 /\ t[n + 1] = d
        BY <1>5, <3>2, <3>3, <3>4
      <4>2. QED BY <2>1, <2>2, <4>1 DEF Before
    <3>5. CASE i # k
      <4>1. Linked(s) /\ k \in 0 .. MaxModules /\ Len(s) = k
        BY <3>1, StackLength DEF Inv, Stack
      <4>2. /\ k \in 1 .. Len(s) /\ i \in 1 .. Len(s) /\ i < k /\ k - i - 1 <= MaxModules
            /\ Len(s) \in Nat
        BY <3>2, <3>3, <3>5, <4>1, ModulesAssumption
      <4>3. s[k].module \in Needs(s[i].module)
        BY <4>1, <4>2, LinkedWalk
      <4>4. t[n + 1] \in Needs(d)
        BY <1>5, <3>2, <3>3, <4>3
      <4>5. QED BY <2>1, <4>4 DEF Before
    <3>6. QED BY <3>4, <3>5
  <2>5. QED BY <2>1, <2>3, <2>4 DEF Inv, Progress
<1>11. \A i \in 1 .. Len(t) : \A d \in Sources(program[t[i]]) : d \in Seen /\ Before(t, i, d)
  BY <1>5, <1>6, <1>9, <1>10
<1>12. \A i \in 1 .. Len(t) : \A d \in Sources(program'[t[i]]) : d \in Seen' /\ Before(t, i, d)'
  BY <1>1, <1>2, <1>11, NeedsStays DEF Before
<1>13. Emission(t)'
  BY <1>5, <1>8, <1>12 DEF Emission
<1>14. \A x : (\E i \in 1 .. Len(t) : t[i] = x) <=> x = m \/ \E i \in 1 .. n : q[i] = x
  <2>1. n + 1 \in 1 .. Len(t) /\ \A i \in 1 .. n : i \in 1 .. Len(t)
    BY <1>5
  <2>2. QED BY <1>5, <1>6, <2>1
<1>15. QED BY <1>3, <1>4, <1>13, <1>14

LEMMA FinishStack ==
    ASSUME Inv, NEW m, NEW R, NEW X, Finishing(m, R, X)
    PROVE  /\ Stack(frames)' /\ Held(frames)'
           /\ frames' = << >> <=> Len(frames) = 1
           /\ \A x : OnStack(x, frames) => x = m \/ OnStack(x, frames)'
<1>1. /\ m \in Module /\ loaded[m] = NoTable /\ Loading /\ Later
      /\ \A x \in Module : x # m => loaded'[x] = loaded[x]
  BY FinishParts
<1>2. m = Top.module /\ frames' = Front(frames)
  BY DEF Finishing
<1>3. PICK s, b, n, g : s = frames /\ b = Front(frames) /\ n = Len(frames) /\ g = Top
  OBVIOUS
<1>4. Stack(s) /\ s # << >> /\ s \in Seq(Frame)
  BY <1>1, <1>3 DEF Inv, Stack, Loading
<1>5. FrameOK(g) /\ g.module = m /\ g = s[n] /\ n \in Nat \ {0} /\ g.module = Last(s).module
  BY <1>1, <1>2, <1>3, TopModule DEF Top
<1>6. Stack(b) /\ Len(b) = n - 1 /\ Fits(b, g)
  BY <1>3, <1>4, <1>5, Pop
<1>7. b \in Seq(Frame) /\ \A i \in 1 .. n - 1 : b[i] = s[i]
  BY <1>3, <1>4, FrontLast
<1>8. \A i \in 1 .. Len(b) : loaded'[b[i].module] = NoTable
  <2> SUFFICES ASSUME NEW i \in 1 .. Len(b)
               PROVE  loaded'[b[i].module] = NoTable
    OBVIOUS
  <2>1. FrameOK(b[i]) /\ b[i].module # m
    BY <1>5, <1>6 DEF Stack, Fits
  <2>2. b[i].module \in Module /\ loaded[b[i].module] = NoTable
    BY <2>1, SeenModules DEF FrameOK
  <2>3. QED BY <1>1, <2>1, <2>2
<1>9. Stack(b)'
  BY <1>1, <1>6, <1>8, StackStays
<1>10. b = << >> <=> n = 1
  BY <1>5, <1>6, <1>7, EmptySeq
<1>11. ASSUME NEW x, OnStack(x, s)
       PROVE  x = m \/ OnStack(x, b)
  <2>1. PICK i \in 1 .. n : s[i].module = x
    BY <1>3, <1>11 DEF OnStack
  <2>2. i = n \/ i \in 1 .. Len(b)
    BY <1>5, <1>6
  <2>3. CASE i = n
    BY <1>5, <2>1, <2>3
  <2>4. CASE i \in 1 .. Len(b)
    BY <1>6, <1>7, <2>1, <2>4 DEF OnStack
  <2>5. QED BY <2>2, <2>3, <2>4
<1>12. \A x : OnStack(x, frames) => x = m \/ OnStack(x, frames)'
  BY <1>2, <1>3, <1>11 DEF OnStack
<1>13. Held(b)'
  <2>1. Held(s)
    BY <1>3 DEF Inv
  <2>2. ASSUME NEW i \in 1 .. Len(b), NEW x \in Module, b[i].dependencies[x] # NoTable
        PROVE  b[i].dependencies[x] = loaded'[x] \/ \E j \in 1 .. i : b[j].module = x
    <3>1. i \in 1 .. n - 1 /\ i \in 1 .. Len(s) /\ \A j \in 1 .. i : j \in 1 .. n - 1
      BY <1>3, <1>5, <1>6, <2>2
    <3>2. b[i].dependencies[x] = loaded[x] \/ \E j \in 1 .. i : s[j].module = x
      BY <1>7, <2>1, <2>2, <3>1 DEF Held
    <3>3. b[i].dependencies[x] = loaded[x] => loaded'[x] = loaded[x]
      BY <1>1, <2>2 DEF Later
    <3>4. QED BY <1>7, <3>1, <3>2, <3>3
  <2>3. QED BY <2>2 DEF Held
<1>14. QED BY <1>2, <1>3, <1>9, <1>10, <1>12, <1>13

LEMMA FinishStep ==
    ASSUME Inv, Finish
    PROVE  Inv'
<1>1. PICK m, R, X : m = Top.module /\ R = Rename /\ X = Exports
  OBVIOUS
<1>2. Finishing(m, R, X)
  BY <1>1 DEF Finish, Emit, Finishing
<1>3. /\ m \in Module /\ loaded[m] = NoTable /\ X # NoTable /\ loaded'[m] = X
      /\ \A x \in Module : x # m => loaded'[x] = loaded[x]
      /\ Seen' = Seen
  BY <1>2, FinishParts
<1>4. Ids' /\ Tables' /\ Bound' /\ Spaces'
  BY <1>2, FinishTables, FinishBound, FinishSpaces
<1>5. /\ Emission(emitted)'
      /\ \A x : (\E i \in 1 .. Len(emitted') : emitted'[i] = x) <=>
                x = m \/ \E i \in 1 .. Len(emitted) : emitted[i] = x
  BY <1>2, FinishEmission
<1>6. /\ Stack(frames)' /\ Held(frames)'
      /\ frames' = << >> <=> Len(frames) = 1
      /\ \A x : OnStack(x, frames) => x = m \/ OnStack(x, frames)'
  BY <1>2, FinishStack
<1>7. program' = program /\ phase' = IF Len(frames) = 1 THEN "done" ELSE "loading"
  BY <1>2 DEF Finishing
<1>8. Progress'
  <2>1. phase' \in {"loading", "done", "failed"} /\ (phase' = "done" <=> frames' = << >>)
    BY <1>6, <1>7
  <2>2. \A x \in Module : loaded'[x] # NoTable <=> \E i \in 1 .. Len(emitted') : emitted'[i] = x
    BY <1>3, <1>5 DEF Inv, Progress
  <2>3. ASSUME NEW x \in Seen'
        PROVE  loaded'[x] # NoTable \/ OnStack(x, frames)'
    BY <1>3, <1>6, SeenModules DEF Inv, Progress
  <2>4. \A x \in Seen' : x = 1 \/ x \in Needs(1)'
    BY <1>3, <1>7, NeedsStays DEF Inv, Progress
  <2>5. QED BY <2>1, <2>2, <2>3, <2>4 DEF Progress
<1>9. QED BY <1>4, <1>5, <1>6, <1>7, <1>8 DEF Inv

LEMMA StillStep ==
    ASSUME Inv, SameRest, frames' = frames,
           phase' = phase \/ (phase' = "failed" /\ frames # << >>)
    PROVE  Inv'
<1>1. /\ Later /\ Seen' = Seen /\ program' \in Programs
      /\ Ids' /\ Tables' /\ Bound' /\ Spaces' /\ Emission(emitted)'
  BY RestStays
<1>2. PICK s : s = frames
  OBVIOUS
<1>3. Stack(s) /\ Held(s)
  BY <1>2 DEF Inv
<1>4. Stack(s)' /\ Held(s)'
  <2>1. \A i \in 1 .. Len(s) : loaded'[s[i].module] = NoTable
    BY <1>3 DEF Stack, FrameOK, SameRest
  <2>2. loaded' = loaded
    BY DEF SameRest
  <2>3. QED BY <1>1, <1>3, <2>1, <2>2, StackStays, HeldStays
<1>5. \A m : OnStack(m, frames)' <=> OnStack(m, frames)
  BY DEF OnStack
<1>6. Progress'
  BY <1>1, <1>5, NeedsStays DEF Inv, Progress, SameRest
<1>7. QED BY <1>1, <1>2, <1>4, <1>6 DEF Inv

LEMMA StepKeeps ==
    ASSUME Inv, [Next]_vars
    PROVE  Inv'
<1>1. CASE TakeTable
  BY <1>1, TakeStep
<1>2. CASE Load
  BY <1>2, LoadStep
<1>3. CASE Finish
  BY <1>3, FinishStep
<1>4. CASE Fail
  BY <1>4, StillStep DEF Fail, AllRead, Loading, SameRest
<1>5. CASE UNCHANGED vars
  BY <1>5, StillStep DEF vars, SameRest
<1>6. QED BY <1>1, <1>2, <1>3, <1>4, <1>5 DEF Next

LEMMA InitHolds ==
    ASSUME Init
    PROVE  Inv
<1>1. 1 \in Module /\ MaxModules \in Nat \ {0} /\ 1 \in 0 .. MaxModules /\ 0 \in 0 .. MaxModules
  BY ModulesAssumption DEF Module
<1>2. /\ program \in Programs
      /\ ids = [m \in Module |-> IF m = 1 THEN 1 ELSE 0]
      /\ loaded = [m \in Module |-> NoTable]
      /\ predeclared = [m \in Module |-> IF m = 1 THEN Provisional(1, 1) ELSE NoTable]
      /\ frames = <<NewFrame(1)>> /\ emitted = << >>
      /\ bound = [m \in Module |-> Empty] /\ phase = "loading"
      /\ namespaces = [m \in Module |-> [n \in Name |-> NoTable]]
  BY DEF Init
<1>3. Seen = {1} /\ ids[1] = 1
  BY <1>1, <1>2 DEF Seen
<1>4. Ids
  <2>1. Count = 1
    BY <1>3, FS_Singleton DEF Count
  <2>2. QED BY <1>1, <1>2, <1>3, <2>1 DEF Ids
<1>5. PICK P : P = Provisional(1, 1)
  OBVIOUS
<1>6. P \in Table /\ P # NoTable
  BY <1>1, <1>2, <1>5, ProvisionalTable, TableNotNone
<1>7. Tables
  BY <1>1, <1>2, <1>3, <1>5, <1>6 DEF Tables
<1>8. Bound
  <2>1. Empty \in Table
    BY DEF Empty, Table
  <2>2. QED BY <1>2, <2>1 DEF Bound
<1>9. PICK s, g : s = frames /\ g = NewFrame(1)
  OBVIOUS
<1>10. s = <<g>> /\ Len(s) = 1 /\ s[1] = g /\ 1 \in 1 .. Len(s) /\ \A i \in 1 .. Len(s) : i = 1
  BY <1>2, <1>9
<1>11. g.module = 1 /\ g.next = 1 /\ g.dependencies = [x \in Module |-> NoTable] /\ g \in Frame
  BY <1>1, <1>9 DEF NewFrame, Frame
<1>12. FrameOK(g)
  <2>1. Len(program[1].imports) \in Nat
    BY <1>1, <1>2, TextFields, LenProperties
  <2>2. g.next \in 1 .. Len(program[g.module].imports) + 1
    BY <1>11, <2>1
  <2>3. \A k \in 1 .. g.next - 1 : FALSE
    BY <1>11
  <2>4. \A x \in Module : g.dependencies[x] = NoTable
    BY <1>11
  <2>5. QED BY <1>1, <1>2, <1>3, <1>11, <2>2, <2>3, <2>4 DEF FrameOK
<1>13. s \in Seq(Frame)
  BY <1>10, <1>11
<1>14. Stack(s) /\ Held(s)
  BY <1>10, <1>11, <1>12, <1>13 DEF Stack, Apart, Linked, Held
<1>15. Emission(emitted)
  <2>1. emitted \in Seq(Module) /\ Len(emitted) = 0
    BY <1>2, EmptySeq
  <2>2. \A i \in 1 .. Len(emitted) : FALSE
    BY <2>1
  <2>3. QED BY <2>1, <2>2 DEF Emission
<1>16. Progress
  <2>1. OnStack(1, frames) /\ frames # << >>
    BY <1>2, <1>9, <1>10, <1>11 DEF OnStack
  <2>2. \A i \in 1 .. Len(emitted) : FALSE
    BY <1>2, EmptySeq
  <2>3. QED BY <1>2, <1>3, <2>1, <2>2 DEF Progress
<1>17. Spaces
  BY <1>2 DEF Spaces
<1>18. QED BY <1>2, <1>4, <1>7, <1>8, <1>9, <1>14, <1>15, <1>16, <1>17 DEF Inv

LEMMA InvTypes ==
    ASSUME Inv
    PROVE  TypeOK
<1>1. \A i \in DOMAIN frames : frames[i] \in Frame
  <2>1. DOMAIN frames = 1 .. Len(frames)
    BY LenProperties DEF Inv, Stack
  <2>2. QED BY <2>1 DEF Inv, Stack, FrameOK
<1>2. ToSet(emitted) \subseteq Module
  BY EmittedSet DEF Inv, Emission
<1>3. QED BY <1>1, <1>2 DEF Inv, Ids, Tables, Bound, Spaces, Progress, TypeOK

(* The invariant holds in every reachable state.                           *)
THEOREM InvariantAlways ==
    Spec => []Inv
<1>1. Init => Inv
  BY InitHolds
<1>2. Inv /\ [Next]_vars => Inv'
  BY StepKeeps
<1>3. QED BY <1>1, <1>2, PTL DEF Spec

(* Tables, ids and frames have their types: in particular the next id is   *)
(* never beyond the number of modules.                                     *)
THEOREM TypesAlways ==
    Spec => []TypeOK
<1>1. Inv => TypeOK
  BY InvTypes
<1>2. QED BY <1>1, InvariantAlways, PTL

(* The statements of a module are emitted once, behind those of the        *)
(* modules it imports unless they import one another, and in the end those *)
(* of every module that the entry needs.                                   *)
THEOREM DependenciesFirstAlways ==
    Spec => []DependenciesFirst
<1>1. Inv => DependenciesFirst
  BY InvFirst
<1>2. QED BY <1>1, InvariantAlways, PTL

(* Ids of different modules differ, so the names __m{id}_{name} of two     *)
(* modules do, and every name is replaced by a declaration that exists, or *)
(* by the bare name of a namespace that was imported and exported again.   *)
THEOREM RenamedApartAlways ==
    Spec => []RenamedApart
<1>1. Inv => RenamedApart
  BY InvApart
<1>2. QED BY <1>1, InvariantAlways, PTL

(* An import bound from a provisional table is what the module exports     *)
(* under that name when it is finished.                                    *)
THEOREM ImportsMeetExportsAlways ==
    Spec => []ImportsMeetExports
<1>1. Inv => ImportsMeetExports
  BY InvMeets
<1>2. QED BY <1>1, InvariantAlways, PTL

(* A namespace never has a wrong entry, and lacks none unless it was read  *)
(* on a cycle, before its module was finished.                             *)
THEOREM NamespacesMeetExportsAlways ==
    Spec => []NamespacesMeetExports
<1>1. Inv => NamespacesMeetExports
  BY InvSpaces
<1>2. QED BY <1>1, InvariantAlways, PTL

=============================================================================
