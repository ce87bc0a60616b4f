------------------------------ MODULE BasicBlocks ------------------------------
(***************************************************************************)
(* ecmora-ir: blocks of instructions, each block ended by a terminator.    *)
(* What both lowerers produce, what finalize_native_program accepts, and   *)
(* what the blocks do when they run.                                       *)
(*                                                                         *)
(* An instruction with a result r has the type of the result.  Cells are   *)
(* named by their variable; function values and objects are left out.      *)
(***************************************************************************)
EXTENDS Statements

Dynamic == "Dynamic"

Unterminated == [k |-> "none"]
Jump(b) == [k |-> "jump", to |-> b]
Branch(r, yes, no) == [k |-> "branch", r |-> r, yes |-> yes, no |-> no]
ReturnValue(r) == [k |-> "return", r |-> r]
ThrowValue(r) == [k |-> "throw", r |-> r]
Unreachable == [k |-> "unreachable"]

PendingBlock == [code |-> <<>>, term |-> Unterminated]

Const(r, v) == [op |-> "const", r |-> r, type |-> v.type, v |-> v]
CellNew(x, v) == [op |-> "cell", x |-> x, v |-> v]
CellGet(r, x, type) == [op |-> "get", r |-> r, type |-> type, x |-> x]
CellSet(x, from) == [op |-> "set", x |-> x, from |-> from]
ConvertToBoolean(r, from) == [op |-> "bool", r |-> r, type |-> "Bool", from |-> from]
CompareValues(r, type, left, right) ==
    [op |-> "equal", r |-> r, type |-> type, left |-> left, right |-> right]
Call(r, n, args) == [op |-> "call", r |-> r, type |-> Dynamic, n |-> n, args |-> args]
Phi(r, type, incoming) == [op |-> "phi", r |-> r, type |-> type, incoming |-> incoming]
Incoming(b, r) == [block |-> b, r |-> r]

(* A lowerer g at work: the blocks so far, the current one, the number of  *)
(* the next value, and whether it gave up.                                 *)
Terminated(g) == g.blocks[g.current].term # Unterminated
Emit(g, instruction) == [g EXCEPT !.blocks[g.current].code = Append(@, instruction)]
Emits(g, instruction) == [Emit(g, instruction) EXCEPT !.next = @ + 1]    \* with a result
SetTerminator(g, term) == [g EXCEPT !.blocks[g.current].term = term]
FallInto(g, b) == IF Terminated(g) THEN g ELSE SetTerminator(g, Jump(b))
NewBlocks(g, n) == [g EXCEPT !.blocks = @ \o [i \in 1 .. n |-> PendingBlock]]
Bails(g) == [g EXCEPT !.bailed = TRUE]

JoinType(a, b) == IF a = b THEN a ELSE Dynamic

-----------------------------------------------------------------------------
Successors(block) ==
    CASE block.term.k = "jump" -> {block.term.to}
      [] block.term.k = "branch" -> {block.term.yes, block.term.no}
      [] OTHER -> {}

RECURSIVE ReachableFrom(_, _)
ReachableFrom(blocks, found) ==
    LET more == found \union UNION {Successors(blocks[b]) : b \in found}
    IN IF more = found THEN found ELSE ReachableFrom(blocks, more)
Reachable(blocks) == ReachableFrom(blocks, {1})
Predecessors(blocks, reachable, b) == {p \in reachable : b \in Successors(blocks[p])}

(* The blocks that are left close up.                                      *)
Renumber(reachable, b) == Cardinality({c \in reachable : c < b}) + 1
RemapTerminator(term, reachable) ==
    CASE term.k = "jump" -> Jump(Renumber(reachable, term.to))
      [] term.k = "branch" ->
           Branch(term.r, Renumber(reachable, term.yes), Renumber(reachable, term.no))
      [] OTHER -> term

(* What stays of a phi: the edges from blocks that do precede it.          *)
RealEdges(phi, predecessors) == SelectSeq(phi.incoming, LAMBDA e : e.block \in predecessors)

IsPhi(i) == i.op = "phi"
PhisOf(block) == SelectSeq(block.code, IsPhi)

(* A phi needs one value for each real predecessor.                        *)
PhiIsWhole(phi, predecessors) ==
    LET real == RealEdges(phi, predecessors)
    IN /\ real # <<>>
       /\ Len(real) = Cardinality(predecessors)
       /\ {real[i].block : i \in DOMAIN real} = predecessors

CanonicalBlock(block, reachable, predecessors) ==
    [code |-> [i \in DOMAIN block.code |->
                 IF IsPhi(block.code[i])
                 THEN [block.code[i] EXCEPT
                         !.incoming = LET real == RealEdges(block.code[i], predecessors)
                                      IN [j \in DOMAIN real |->
                                            Incoming(Renumber(reachable, real[j].block), real[j].r)]]
                 ELSE block.code[i]],
     term |-> RemapTerminator(block.term, reachable)]

Canonicalized(blocks, reachable) ==
    [accepted |-> \A b \in reachable : \A i \in DOMAIN PhisOf(blocks[b]) :
                    PhiIsWhole(PhisOf(blocks[b])[i], Predecessors(blocks, reachable, b)),
     blocks |-> LET kept == SelectSeq([b \in DOMAIN blocks |-> b], LAMBDA b : b \in reachable)
                IN [i \in DOMAIN kept |->
                      CanonicalBlock(blocks[kept[i]], reachable, Predecessors(blocks, reachable, kept[i]))]]
CanonicalizeCfg(blocks) == Canonicalized(blocks, Reachable(blocks))

-----------------------------------------------------------------------------
(* verify_program: the values an instruction or a terminator uses are      *)
(* defined somewhere, a phi joins values of its type, a branch tests a     *)
(* boolean, and phis come first.                                           *)
Instructions(blocks) == UNION {ToSet(blocks[b].code) : b \in DOMAIN blocks}
TypesOf(blocks) ==
    LET results == {i \in Instructions(blocks) : "r" \in DOMAIN i}
    IN [r \in {i.r : i \in results} |-> (CHOOSE i \in results : i.r = r).type]

Uses(i) ==
    CASE i.op \in {"set", "bool"} -> {i.from}
      [] i.op = "equal" -> {i.left, i.right}
      [] i.op = "call" -> ToSet(i.args)
      [] i.op = "phi" -> {i.incoming[j].r : j \in DOMAIN i.incoming}
      [] OTHER -> {}

VerifiedWith(blocks, types) ==
    /\ \A i \in Instructions(blocks) :
         /\ Uses(i) \subseteq DOMAIN types
         /\ IsPhi(i) /\ i.type # Dynamic => \A r \in Uses(i) : types[r] = i.type
    /\ \A b \in DOMAIN blocks :
         /\ blocks[b].term.k \in {"return", "throw"} => blocks[b].term.r \in DOMAIN types
         /\ blocks[b].term.k = "branch" =>
              blocks[b].term.r \in DOMAIN types /\ types[blocks[b].term.r] = "Bool"
         /\ \A i \in DOMAIN blocks[b].code : IsPhi(blocks[b].code[i]) => i <= Len(PhisOf(blocks[b]))
VerifyProgram(blocks) == VerifiedWith(blocks, TypesOf(blocks))

(* finalize_native_program: what is handed to the code generator, if the   *)
(* lowerer got that far and the verifier agrees.                           *)
NotCompiled == [accepted |-> FALSE, blocks |-> <<>>]
Checked(result) ==
    IF result.accepted /\ VerifyProgram(result.blocks) THEN result ELSE NotCompiled
FinalizeNativeProgram(g) == IF g.bailed THEN NotCompiled ELSE Checked(CanonicalizeCfg(g.blocks))

-----------------------------------------------------------------------------
(* What the blocks do.  A machine also has registers, the block it comes   *)
(* from, and records reads of a cell that did not hold the type they were  *)
(* emitted for.                                                            *)
Loaded(answers, steps) ==
    [cells |-> NoNames, left |-> answers, seen |-> <<>>, regs |-> <<>>, from |-> 0, misread |-> FALSE,
     steps |-> steps]
Puts(m, r, v) == [m EXCEPT !.regs = (r :> v) @@ @]
Holds(m, x, v) == [m EXCEPT !.cells = (x :> v) @@ @]

Lost == Completion("lost", NoName, Undefined)   \* out of steps, or at a value or block that is not there

RunInstruction(i, m) ==
    IF ~(Uses(i) \subseteq DOMAIN m.regs) THEN Outcome(m, Lost)
    ELSE CASE i.op = "const" -> Ends(Puts(m, i.r, i.v))
           [] i.op = "cell" -> Ends(Holds(m, i.x, i.v))
           [] i.op = "get" ->
                Ends([Puts(m, i.r, m.cells[i.x]) EXCEPT
                        !.misread = @ \/ i.type \notin {Dynamic, m.cells[i.x].type}])
           [] i.op = "set" -> Ends(Holds(m, i.x, m.regs[i.from]))
           [] i.op = "bool" -> Ends(Puts(m, i.r, IF Truthy(m.regs[i.from]) THEN True ELSE False))
           [] i.op = "equal" ->
                Ends(Puts(m, i.r, IF m.regs[i.left] = m.regs[i.right] THEN True ELSE False))
           [] i.op = "call" ->
                Then(Ask(m, Called(i.n, [j \in DOMAIN i.args |-> m.regs[i.args[j]]])),
                     LAMBDA n, v : Ends(Puts(n, i.r, v)))

(* The phis of a block take their values together, on the edge taken.      *)
Edge(phi, from) == (CHOOSE e \in ToSet(phi.incoming) : e.block = from).r
TakeEdge(phis, m) ==
    IF \A i \in DOMAIN phis : Edge(phis[i], m.from) \in DOMAIN m.regs
    THEN Ends([m EXCEPT !.regs =
           FoldLeft(LAMBDA regs, phi : (phi.r :> m.regs[Edge(phi, m.from)]) @@ regs, @, phis)])
    ELSE Outcome(m, Lost)

RunCode(block, m) ==
    FoldLeft(LAMBDA r, i : Then(r, LAMBDA n, v : RunInstruction(i, n)), TakeEdge(PhisOf(block), m),
             SelectSeq(block.code, LAMBDA i : ~IsPhi(i)))

RECURSIVE RunBlock(_, _, _)
RunBlock(blocks, b, m) ==
    LET term == blocks[b].term
        Leave(n, v) ==
          IF "r" \in DOMAIN term /\ term.r \notin DOMAIN n.regs THEN Outcome(n, Lost)
          ELSE CASE term.k = "jump" -> RunBlock(blocks, term.to, [n EXCEPT !.from = b])
                 [] term.k = "branch" ->
                      RunBlock(blocks, IF Truthy(n.regs[term.r]) THEN term.yes ELSE term.no,
                               [n EXCEPT !.from = b])
                 [] term.k = "return" -> Outcome(n, Returned(n.regs[term.r]))
                 [] term.k = "throw" -> Outcome(n, Thrown(n.regs[term.r]))
                 [] OTHER -> Outcome(n, Lost)
    IN IF m.steps = 0 THEN Outcome(m, Lost)
       ELSE Then(RunCode(blocks[b], [m EXCEPT !.steps = @ - 1]), Leave)
=============================================================================
