--------------------------- MODULE SpecializedBody ---------------------------
(***************************************************************************)
(* One entry function as the pass of lib/ShortSeqSpecializePass.cpp sees   *)
(* it: the body is written (by whoever imports the model), the pass        *)
(* collects the values it takes for the sequence length, validates the     *)
(* body, refines a clone to one static length, and the program runs on     *)
(* inputs that the dispatch wrapper routes to that clone.                  *)
(*                                                                         *)
(* The body is a sequence of operations in SSA form; an operation is named *)
(* by its position, and the first ones stand for the sequence arguments of *)
(* the entry.  A run gives each tensor the tuple of its extents along the  *)
(* dynamic axes of its type, and each index value the one-tuple of its     *)
(* value.  What the elements hold is left out.                             *)
(***************************************************************************)
EXTENDS TensorTypes

CONSTANTS
  Kind,          \* the contract of the entry
  Lengths,       \* lengths the clone may be specialized to
  Widths,        \* sequence widths of the program's inputs
  Types,         \* tensor types the body may use, besides the arguments'
  Constants,     \* index constants the body may use
  OpNames,       \* operations the body may use
  Axes,          \* axes, and slice offsets, the body may name
  MaxOps,        \* bound on the operations of a body
  NestedAsserts  \* whether a cf.assert may sit in a region or block that
                 \* a run skips

ASSUME KindAssumption    == Kind \in Kinds
ASSUME LengthsAssumption == Lengths \subseteq Nat \ {0}
ASSUME WidthsAssumption  == Widths \subseteq Nat
ASSUME TypesAssumption   ==
  Types \subseteq [elem : {"f32", "i64", "i1"}, shape : Seq(Nat \cup {Dyn})]
ASSUME ConstantsAssumption == Constants \subseteq Nat
ASSUME AxesAssumption      == Axes \subseteq Nat
ASSUME MaxOpsAssumption    == MaxOps \in Nat
ASSUME NestedAssumption    == NestedAsserts \in BOOLEAN

VARIABLES
  phase,    \* where the pass, then the program, is
  body,     \* the entry's operations
  length,   \* the length this clone is specialized to
  known,    \* the values collected as equal to the sequence length
  cursor,   \* the collecting walk: last cf.assert visited
  changed,  \* the collecting walk: whether this walk added a value
  clone,    \* the refined operations
  extents   \* the run: what each executed operation produced

vars == <<phase, body, length, known, cursor, changed, clone, extents>>

contract == Contract(Kind)
Args     == contract.sequenceArguments

Phases == {"build", "lengths", "collect", "validate", "rejected", "refine",
           "ready", "run", "trapped", "done"}

-----------------------------------------------------------------------------
\* An operation: its result type, its tensor operand (0: a constant), its
\* index operands and its integer attribute (axis, offset or constant).
Op(name, type, src, sizes, attr) ==
  [name |-> name, type |-> type, src |-> src, sizes |-> sizes, attr |-> attr,
   nested |-> FALSE]

ArgType == IF Kind = "E5" THEN I64(<<kBatch, Dyn>>)
                          ELSE F32(<<kBatch, Dyn, contract.hidden>>)

ArgOps == [a \in Args |-> Op("arg", ArgType, 0, <<>>, 0)]

IndexNames == {"tensor.dim", "arith.constant", "arith.minsi"}

Tensors == {v \in DOMAIN body : IsTensor(body[v].type)}
Indices == {v \in DOMAIN body : body[v].name \in IndexNames}

\* A tuple of index values, one for each dynamic axis of a type.
SizesFor(type) == [1..countDynamicDims(type) -> Indices]

\* The part of the MLIR verifier that a reshape between two types of the
\* body meets: the static extents agree, and a group of axes that holds a
\* dynamic one collapses to a dynamic one.
StaticCount(type) ==
  LET count[k \in 0..Len(type.shape)] ==
        CASE k = 0                -> 1
          [] k > 0 /\ type.shape[k] = Dyn  -> count[k - 1]
          [] k > 0 /\ type.shape[k] # Dyn  -> type.shape[k] * count[k - 1]
  IN count[Len(type.shape)]

ReshapeVerifies(small, big) ==
  /\ small.elem = big.elem
  /\ Len(small.shape) < Len(big.shape)
  /\ StaticCount(small) = StaticCount(big)
  /\ countDynamicDims(small) \in 1..countDynamicDims(big)

AddOp(op) == /\ phase = "build"
             /\ op.name \in OpNames
             /\ Len(body) < Cardinality(Args) + MaxOps
             /\ body' = Append(body, op)
             /\ UNCHANGED <<phase, length, known, cursor, changed, clone,
                            extents>>

AddDim ==
  \E v \in Tensors, axis \in Axes :
    /\ axis < Len(body[v].type.shape)
    /\ AddOp(Op("tensor.dim", NotATensor, v, <<>>, axis))

AddConstant ==
  \E c \in Constants : AddOp(Op("arith.constant", NotATensor, 0, <<>>, c))

\* The clamp of the imported position-id slice, and any other arithmetic.
AddArith ==
  \E v \in Indices, c \in Constants :
    AddOp(Op("arith.minsi", NotATensor, 0, <<v>>, c))

\* cf.assert of arith.cmpi eq (attr 0) or sle (attr 1).
AddAssert ==
  \E u, v \in Indices, pred \in {0, 1}, nested \in {FALSE, NestedAsserts} :
    /\ u # v
    /\ AddOp([Op("cf.assert", NotATensor, 0, <<u, v>>, pred)
                  EXCEPT !.nested = nested])

AddEmpty ==
  \E type \in Types : \E sizes \in SizesFor(type) :
    AddOp(Op("tensor.empty", type, 0, sizes, 0))

AddExpand ==
  \E v \in Tensors, type \in Types :
    /\ ReshapeVerifies(body[v].type, type)
    /\ \E sizes \in SizesFor(type) :
         AddOp(Op("tensor.expand_shape", type, v, sizes, 0))

AddCollapse ==
  \E v \in Tensors, type \in Types :
    /\ ReshapeVerifies(type, body[v].type)
    /\ AddOp(Op("tensor.collapse_shape", type, v, <<>>, 0))

\* A slice of the position table, tensor<1x512xi64>, from an offset.
AddSlice ==
  \E v \in Indices, offset \in Axes :
    AddOp(Op("tensor.extract_slice", I64(<<kBatch, Dyn>>), 0, <<v>>, offset))

\* linalg.fill, generic, matmul, batch_matmul, transpose: the result has the
\* type and the extents of the destination operand.
AddLinalg ==
  \E v \in Tensors :
    AddOp(Op("linalg.generic", body[v].type, v, <<>>, 0))

\* Any other tensor operation: tensor.pad by one along each dynamic axis.
AddPad ==
  \E v \in Tensors : AddOp(Op("tensor.pad", body[v].type, v, <<>>, 0))

Build == \/ AddDim \/ AddConstant \/ AddArith \/ AddAssert \/ AddEmpty
         \/ AddExpand \/ AddCollapse \/ AddSlice \/ AddLinalg \/ AddPad

RunPass == /\ phase = "build"
           /\ phase' = "lengths"
           /\ UNCHANGED <<body, length, known, cursor, changed, clone, extents>>

-----------------------------------------------------------------------------
\* The pass: lengths, then the body.
isEntrySequenceDim(v) == /\ body[v].name = "tensor.dim"
                         /\ body[v].attr = kSequenceAxis
                         /\ body[v].src \in Args

EntryDims == {v \in DOMAIN body : isEntrySequenceDim(v)}

\* Mistake: the position-embedding limit is not tested.
validateE5LengthsUnlimited ==
  /\ phase = "lengths"
  /\ phase' = IF Kind = "E5" THEN "collect" ELSE "validate"
  /\ known' = EntryDims
  /\ UNCHANGED <<body, length, cursor, changed, clone, extents>>

\* Seeds the known values with the entry's sequence dims.
validateE5Lengths ==
  /\ phase = "lengths"
  /\ IF Kind = "E5" /\ length > kE5MaxSequenceLength
       THEN phase' = "rejected" /\ UNCHANGED known
       ELSE /\ phase' = IF Kind = "E5" THEN "collect" ELSE "validate"
            /\ known' = EntryDims
  /\ UNCHANGED <<body, length, cursor, changed, clone, extents>>

\* entry.walk enters regions: a nested assert is visited like any other.
isEqualityAssert(v) == body[v].name = "cf.assert" /\ body[v].attr = 0

\* Mistake: any assert is taken for an equality.
UnvisitedOfAnyPredicate ==
  {v \in DOMAIN body : v > cursor /\ body[v].name = "cf.assert"}

Unvisited == {v \in DOMAIN body : v > cursor /\ isEqualityAssert(v)}

\* Mistake: the walk resumes one past the assert it has visited.
collectE5SequenceLengthsSkipping ==
  /\ phase = "collect"
  /\ \E v \in Unvisited :
       LET lhs   == body[v].sizes[1]
           rhs   == body[v].sizes[2]
           added == IF lhs \in known \/ rhs \in known THEN {lhs, rhs} ELSE {}
       IN /\ \A w \in Unvisited : v <= w
          /\ cursor' = v + 1
          /\ known' = known \cup added
          /\ changed' = (changed \/ ~ added \subseteq known)
  /\ UNCHANGED <<phase, body, length, clone, extents>>

collectE5SequenceLengths ==
  /\ phase = "collect"
  /\ \E v \in Unvisited :
       LET lhs   == body[v].sizes[1]
           rhs   == body[v].sizes[2]
           added == IF lhs \in known \/ rhs \in known THEN {lhs, rhs} ELSE {}
       IN /\ \A w \in Unvisited : v <= w
          /\ cursor' = v
          /\ known' = known \cup added
          /\ changed' = (changed \/ ~ added \subseteq known)
  /\ UNCHANGED <<phase, body, length, clone, extents>>

\* Mistake: one walk, whatever it has added.
EndOnlyWalk ==
  /\ phase = "collect"
  /\ Unvisited = {}
  /\ phase' = "validate"
  /\ cursor' = 0
  /\ changed' = FALSE
  /\ UNCHANGED <<body, length, known, clone, extents>>

\* The end of one walk of the do-while loop.
EndWalk ==
  /\ phase = "collect"
  /\ Unvisited = {}
  /\ phase' = IF changed THEN "collect" ELSE "validate"
  /\ cursor' = 0
  /\ changed' = FALSE
  /\ UNCHANGED <<body, length, known, clone, extents>>

SrcType(op) == IF op.src = 0 THEN I64(<<kBatch, kE5MaxSequenceLength>>)
                             ELSE body[op.src].type

hasDynamicTensorOperandOrResult(op) ==
  \/ isDynamicRankedTensor(op.type)
  \/ op.src # 0 /\ isDynamicRankedTensor(SrcType(op))

isAllowedDynamicTensorOp(op) ==
  op.name \in {"tensor.dim", "tensor.empty", "tensor.expand_shape",
               "tensor.collapse_shape", "linalg.generic"}
              \cup (IF Kind = "E5" THEN {"tensor.extract_slice"} ELSE {})

validateDynamicTensorValueTypes(op) ==
  \A type \in {op.type, SrcType(op)} :
    isDynamicRankedTensor(type) => isContractDynamicTensorType(type, contract)

\* Stage A and B: a size is the entry's own tensor.dim.
validateDynamicEmpty(op) ==
  op.name = "tensor.empty" =>
    /\ isContractEmptyTensorType(op.type, contract)
    /\ Len(op.sizes) = 1
    /\ op.sizes[1] \in EntryDims

validateDynamicExpandShape(op) ==
  op.name = "tensor.expand_shape" =>
    /\ op.type = F32(<<kBatch, Dyn, contract.hidden>>)
    /\ Len(op.sizes) = 1
    /\ op.sizes[1] \in EntryDims

validateStageOp(op) ==
  hasDynamicTensorOperandOrResult(op) =>
    /\ isAllowedDynamicTensorOp(op)
    /\ isDynamicRankedTensor(op.type) =>
         validateDynamicEmpty(op) /\ validateDynamicExpandShape(op)
    /\ validateDynamicTensorValueTypes(op)

\* Mistake: the number of sizes is checked, not where they come from.
SizesCounted(op) == Len(op.sizes) = countDynamicDims(op.type)

\* E5: a size is a value collected as equal to the sequence length.
SizesKnown(op) == /\ Len(op.sizes) = countDynamicDims(op.type)
                  /\ \A k \in DOMAIN op.sizes : op.sizes[k] \in known

isE5PositionSlice(op, extent) ==
  /\ op.name = "tensor.extract_slice"
  /\ Len(op.sizes) = 1
  /\ SrcType(op) = I64(<<kBatch, kE5MaxSequenceLength>>)
  /\ op.type = I64(<<kBatch, extent>>)
  /\ op.attr = 0

validateE5ShapeOperation(op) ==
  CASE op.name = "tensor.dim" -> op.attr = kSequenceAxis /\ op.src \in Args
    [] op.name = "tensor.empty" -> SizesKnown(op)
    [] op.name = "tensor.expand_shape" ->
         isE5ExpandShapePair(SrcType(op), op.type) /\ SizesKnown(op)
    [] op.name = "tensor.collapse_shape" ->
         isE5CollapseShapePair(SrcType(op), op.type)
    [] op.name = "tensor.extract_slice" ->
         isE5PositionSlice(op, Dyn) /\ op.sizes[1] \in known
    [] OTHER -> TRUE

validateE5Op(op) ==
  IF op.name = "tensor.extract_slice"
    THEN validateE5ShapeOperation(op)
    ELSE hasDynamicTensorOperandOrResult(op) =>
           /\ isAllowedDynamicTensorOp(op)
           /\ validateDynamicTensorValueTypes(op)
           /\ validateE5ShapeOperation(op)

\* The walk over the body proper: the arguments are not operations of it.
validateSpecializedBody ==
  /\ phase = "validate"
  /\ phase' = IF \A v \in DOMAIN body \ Args :
                   IF Kind = "E5" THEN validateE5Op(body[v])
                                  ELSE validateStageOp(body[v])
                THEN "refine" ELSE "rejected"
  /\ UNCHANGED <<body, length, known, cursor, changed, clone, extents>>

-----------------------------------------------------------------------------
\* Mistake: the operands of a tensor.expand_shape that became static stay.
dropEmptySizes(op) ==
  IF \/ op.name = "tensor.empty" /\ DynamicAxes(op.type) = {}
     \/ Kind = "E5" /\ isE5PositionSlice(op, length)
    THEN [op EXCEPT !.sizes = <<>>] ELSE op

\* The clone: result types first, then the operands and attributes of the
\* operations whose result became static.
dropSizes(op) ==
  IF \/ op.name \in {"tensor.empty", "tensor.expand_shape"}
        /\ DynamicAxes(op.type) = {}
     \/ Kind = "E5" /\ isE5PositionSlice(op, length)
    THEN [op EXCEPT !.sizes = <<>>] ELSE op

refineOp(op) ==
  dropSizes([op EXCEPT !.type = refineTensorType(@, contract, length)])

refineClone ==
  /\ phase = "refine"
  /\ clone' = [v \in DOMAIN body |-> refineOp(body[v])]
  /\ phase' = "ready"
  /\ UNCHANGED <<body, length, known, cursor, changed, extents>>

-----------------------------------------------------------------------------
\* Mistake: the wrapper looks at the first sequence argument only.
RoutedHereByFirst(widths) == widths[1] = length

\* The run, on widths for which the wrapper calls the clone.  The generic
\* function is executed on the same inputs: extents is what it computes.
RoutedHere(widths) == \A a \in Args : widths[a] = length

Enter ==
  /\ phase = "ready"
  /\ \E widths \in [1..Cardinality(Args) -> Widths] :
       /\ RoutedHere(widths)
       /\ extents' = [a \in 1..Cardinality(Args) |-> <<widths[a]>>]
  /\ phase' = "run"
  /\ UNCHANGED <<body, length, known, cursor, changed, clone>>

Value(v) == extents[v][1]

Product(tuple) ==
  LET product[k \in 0..Len(tuple)] ==
        IF k = 0 THEN 1 ELSE tuple[k] * product[k - 1]
  IN product[Len(tuple)]

\* Position of an axis among the dynamic axes of a type.
DynamicIndex(type, axis) == Cardinality({a \in DynamicAxes(type) : a <= axis})

DimResult(op) ==
  LET type == SrcType(op)
      axis == op.attr + 1
  IN <<IF type.shape[axis] = Dyn THEN extents[op.src][DynamicIndex(type, axis)]
                                 ELSE type.shape[axis]>>

\* A collapse that merges dynamic axes multiplies their extents.
CollapseResult(op) ==
  IF countDynamicDims(op.type) = countDynamicDims(SrcType(op))
    THEN extents[op.src]
    ELSE <<Product(extents[op.src])>>

Result(op) ==
  CASE op.name = "tensor.dim"            -> DimResult(op)
    [] op.name = "arith.constant"        -> <<op.attr>>
    [] op.name = "arith.minsi" ->
         <<IF Value(op.sizes[1]) <= op.attr THEN Value(op.sizes[1])
                                            ELSE op.attr>>
    [] op.name = "cf.assert"             -> <<>>
    [] op.name \in {"tensor.empty", "tensor.expand_shape",
                    "tensor.extract_slice"} ->
         [k \in DOMAIN op.sizes |-> Value(op.sizes[k])]
    [] op.name = "tensor.collapse_shape" -> CollapseResult(op)
    [] op.name = "linalg.generic"        -> extents[op.src]
    [] op.name = "tensor.pad" ->
         [k \in DOMAIN extents[op.src] |-> extents[op.src][k] + 1]

AssertHolds(op) ==
  IF op.attr = 0 THEN Value(op.sizes[1]) = Value(op.sizes[2])
                 ELSE Value(op.sizes[1]) <= Value(op.sizes[2])

Pc == Len(extents) + 1

\* The next operation completes; a nested assert may be skipped.
Execute ==
  /\ phase = "run"
  /\ Pc <= Len(body)
  /\ body[Pc].name = "cf.assert" =>
       body[Pc].nested \/ AssertHolds(body[Pc])
  /\ extents' = Append(extents, Result(body[Pc]))
  /\ UNCHANGED <<phase, body, length, known, cursor, changed, clone>>

Trap ==
  /\ phase = "run"
  /\ Pc <= Len(body)
  /\ body[Pc].name = "cf.assert"
  /\ ~ AssertHolds(body[Pc])
  /\ phase' = "trapped"
  /\ UNCHANGED <<body, length, known, cursor, changed, clone, extents>>

Return ==
  /\ phase = "run"
  /\ Pc > Len(body)
  /\ phase' = "done"
  /\ UNCHANGED <<body, length, known, cursor, changed, clone, extents>>

-----------------------------------------------------------------------------
Init == /\ phase = "build"
        /\ body = ArgOps
        /\ length \in Lengths
        /\ known = {}
        /\ cursor = 0
        /\ changed = FALSE
        /\ clone = <<>>
        /\ extents = <<>>

Next == \/ Build \/ RunPass
        \/ validateE5Lengths \/ collectE5SequenceLengths \/ EndWalk
        \/ validateSpecializedBody \/ refineClone
        \/ Enter \/ Execute \/ Trap \/ Return

Spec == Init /\ [][Next]_vars

-----------------------------------------------------------------------------
\* Every variable has its type; a run has executed a prefix of the body.
TypeOK ==
  /\ phase \in Phases
  /\ length \in Lengths
  /\ known \subseteq DOMAIN body
  /\ cursor \in 0..Len(body)
  /\ changed \in BOOLEAN
  /\ Len(extents) <= Len(body)
  /\ \A v \in DOMAIN body : DOMAIN body[v] = {"name", "type", "src", "sizes",
                                              "attr", "nested"}

\* What a value of the sequence lengths means: it equals the specialized
\* length under every assignment of index values that gives the entry's
\* sequence dims that length and passes the asserts every run executes.
Satisfies(rho) ==
  /\ \A v \in EntryDims : rho[v] = length
  /\ \A v \in DOMAIN body :
       isEqualityAssert(v) /\ ~ body[v].nested =>
         rho[body[v].sizes[1]] = rho[body[v].sizes[2]]

Proven(values) == \A rho \in [Indices -> values] :
                    Satisfies(rho) => \A v \in known : rho[v] = length

\* The collected lengths are proven, at every point of the collecting loop
\* (two values tell equal from different).
KnownAreProven ==
  phase \in {"collect", "validate"} => Proven({length, length + 1})

\* The do-while loop reaches its fixed point whatever the order of the
\* asserts: what validation uses is every value the asserts prove equal.
KnownAreAll ==
  phase = "validate" /\ Kind = "E5" =>
    \A v \in Indices :
      (\A rho \in [Indices -> {length, length + 1}] :
         Satisfies(rho) => rho[v] = length) => v \in known

\* When the program returns, every value taken for the sequence length has
\* been it: the asserted equalities were proofs.
KnownHold == phase = "done" => \A v \in known : Value(v) = length

\* The clone's static types are the shapes the generic function computes on
\* the inputs routed to the clone: no dynamic extent differs from the length.
CloneAgrees ==
  phase = "done" =>
    \A v \in Tensors : \A k \in DOMAIN extents[v] : extents[v][k] = length

\* A position slice stays inside the 512 rows of the position table.
SlicesInBounds ==
  phase = "done" =>
    \A v \in DOMAIN body :
      body[v].name = "tensor.extract_slice" =>
        body[v].attr + Value(v) <= kE5MaxSequenceLength

\* An expand_shape gives its result as many elements as its source has.
ReshapesKeepCount ==
  phase = "done" =>
    \A v \in DOMAIN body :
      body[v].name = "tensor.expand_shape" =>
        Product(extents[v]) = Product(extents[body[v].src])

\* The clone passes the verifier: no dynamic type is left, and an operation
\* has as many size operands as its result has dynamic axes.
CloneVerifies ==
  \A v \in DOMAIN clone :
    /\ ~ isDynamicRankedTensor(clone[v].type)
    /\ clone[v].name \in {"tensor.empty", "tensor.expand_shape",
                          "tensor.extract_slice"} => clone[v].sizes = <<>>

=============================================================================
