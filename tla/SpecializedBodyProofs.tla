------------------------ MODULE SpecializedBodyProofs ------------------------
(***************************************************************************)
(* For every contract, length, width, set of types and bound: a body the   *)
(* pass accepts computes, on the inputs routed to its clone, the shapes    *)
(* the clone was refined to, provided no assert sits where a run can skip  *)
(* it.                                                                     *)
(***************************************************************************)
EXTENDS SpecializedBody, FiniteSetTheorems, TLAPS

NArgs == Cardinality(Args)

TypeSet == [elem : {"f32", "i64", "i1", "none"}, shape : Seq(Nat \cup {Dyn})]

Names == {"arg", "tensor.dim", "arith.constant", "arith.minsi", "cf.assert",
          "tensor.empty", "tensor.expand_shape", "tensor.collapse_shape",
          "tensor.extract_slice", "linalg.generic", "tensor.pad"}

OpSet == [name : Names, type : TypeSet, src : Nat, sizes : Seq(Nat),
          attr : Nat, nested : BOOLEAN]

\* What holds of operation op placed after the first n of ops.
Follows(op, ops, n) ==
  /\ \A k \in DOMAIN op.sizes : /\ op.sizes[k] \in 1..n
                                /\ ops[op.sizes[k]].name \in IndexNames
  /\ op.src # 0 => op.src \in 1..n /\ IsTensor(ops[op.src].type)
  /\ op.name # "arg"
  /\ op.name \in IndexNames \cup {"cf.assert"} => op.type = NotATensor
  /\ op.name \notin IndexNames \cup {"cf.assert"} => IsTensor(op.type)
  /\ op.nested => NestedAsserts
  /\ op.name = "tensor.dim" =>
       op.src # 0 /\ op.attr + 1 \in DOMAIN ops[op.src].type.shape
  /\ op.name = "arith.minsi" => Len(op.sizes) = 1
  /\ op.name = "cf.assert" => Len(op.sizes) = 2
  /\ op.name \in {"tensor.empty", "tensor.expand_shape"} =>
       Len(op.sizes) = countDynamicDims(op.type)
  /\ op.name = "tensor.extract_slice" =>
       op.src = 0 /\ Len(op.sizes) = 1 /\ op.type = I64(<<kBatch, Dyn>>)
  /\ op.name = "tensor.collapse_shape" =>
       op.src # 0 /\ ReshapeVerifies(op.type, ops[op.src].type)
  /\ op.name = "tensor.expand_shape" =>
       op.src # 0 /\ ReshapeVerifies(ops[op.src].type, op.type)
  /\ op.name \in {"linalg.generic", "tensor.pad"} =>
       op.src # 0 /\ op.type = ops[op.src].type

WellFormed ==
  /\ body \in Seq(OpSet)
  /\ NArgs <= Len(body)
  /\ \A v \in 1..NArgs : body[v] = Op("arg", ArgType, 0, <<>>, 0)
  /\ \A v \in NArgs + 1..Len(body) : Follows(body[v], body, v - 1)

LEMMA ArgsRange == Args = 1..NArgs /\ NArgs \in Nat \ {0}
<1>1. Args = 1..1 \/ Args = 1..3
  BY KindAssumption DEF Args, contract, Contract, Kinds
<1>2. Cardinality(1..1) = 1 /\ Cardinality(1..3) = 3
  <2>1. Cardinality(1..1) = IF 1 > 1 THEN 0 ELSE 1 - 1 + 1
    BY FS_Interval, 1 \in Int, Zenon
  <2>2. Cardinality(1..3) = IF 1 > 3 THEN 0 ELSE 3 - 1 + 1
    BY FS_Interval, 1 \in Int, 3 \in Int, Zenon
  <2> QED BY <2>1, <2>2
<1>3. CASE Args = 1..1
  <2>1. NArgs = 1
    BY <1>2, <1>3, Zenon DEF NArgs
  <2> QED BY <1>3, <2>1
<1>4. CASE Args = 1..3
  <2>1. NArgs = 3
    BY <1>2, <1>4, Zenon DEF NArgs
  <2> QED BY <1>4, <2>1
<1> QED BY <1>1, <1>3, <1>4

LEMMA ArgTypeType == ArgType \in TypeSet /\ IsTensor(ArgType)
  BY KindAssumption DEF ArgType, TypeSet, I64, F32, Tensor, Dyn, kBatch,
     contract, Contract, Kinds, IsTensor, kE5Hidden

LEMMA InitWellFormed == Init => WellFormed
<1> SUFFICES ASSUME Init PROVE WellFormed
  OBVIOUS
<1>1. body = [a \in 1..NArgs |-> Op("arg", ArgType, 0, <<>>, 0)]
  BY ArgsRange DEF Init, ArgOps
<1>2. Op("arg", ArgType, 0, <<>>, 0) \in OpSet
  BY ArgTypeType DEF Op, OpSet, Names
<1>3. body \in Seq(OpSet) /\ Len(body) = NArgs
  BY <1>1, <1>2, ArgsRange
<1> QED BY <1>1, <1>3, ArgsRange DEF WellFormed

LEMMA AppendWellFormed ==
  ASSUME WellFormed, NEW op \in OpSet, Follows(op, body, Len(body)),
         body' = Append(body, op)
  PROVE  WellFormed'
<1> USE ArgsRange
<1>1. /\ body' \in Seq(OpSet)
      /\ Len(body') = Len(body) + 1
      /\ body'[Len(body) + 1] = op
      /\ \A v \in 1..Len(body) : body'[v] = body[v]
  BY DEF WellFormed
<1>2. ASSUME NEW v \in NArgs + 1..Len(body) PROVE Follows(body'[v], body', v - 1)
  <2>1. Follows(body[v], body, v - 1) /\ body[v] \in OpSet /\ body'[v] = body[v]
    BY <1>1 DEF WellFormed
  <2>2. \A u \in 1..v - 1 : body'[u] = body[u]
    BY <1>1 DEF WellFormed
  <2> QED BY <2>1, <2>2 DEF Follows, OpSet
<1>3. ASSUME NEW n, n = Len(body) PROVE Follows(op, body', n)
  BY <1>1, <1>3 DEF Follows, OpSet
<1>4. ASSUME NEW v \in NArgs + 1..Len(body') PROVE Follows(body'[v], body', v - 1)
  <2>1. CASE v \in NArgs + 1..Len(body)
    BY <1>2, <2>1
  <2>2. CASE v = Len(body) + 1
    <3>1. body'[v] = op /\ v - 1 = Len(body)
      BY <1>1, <2>2 DEF WellFormed
    <3>2. Follows(op, body', v - 1)
      BY <1>3, <3>1
    <3> QED BY <3>1, <3>2
  <2>3. Len(body) \in Nat /\ Len(body') = Len(body) + 1
    BY <1>1 DEF WellFormed
  <2>4. v \in NArgs + 1..Len(body) \/ v = Len(body) + 1
    BY <2>3
  <2> QED BY <2>1, <2>2, <2>4
<1>5. /\ NArgs <= Len(body')
      /\ \A v \in 1..NArgs : body'[v] = Op("arg", ArgType, 0, <<>>, 0)
  BY <1>1 DEF WellFormed
<1> QED BY <1>1, <1>4, <1>5 DEF WellFormed, Op, ArgType, contract

LEMMA CountType ==
  ASSUME NEW type \in TypeSet
  PROVE  /\ IsFiniteSet(DynamicAxes(type))
         /\ countDynamicDims(type) \in Nat
<1>1. DynamicAxes(type) \subseteq 1..Len(type.shape) /\ Len(type.shape) \in Nat
  BY DEF TypeSet, DynamicAxes
<1>2. IsFiniteSet(1..Len(type.shape))
  BY <1>1, FS_Interval
<1>3. IsFiniteSet(DynamicAxes(type))
  BY <1>1, <1>2, FS_Subset
<1> QED BY <1>3, FS_CardinalityType DEF countDynamicDims

LEMMA SizesType ==
  ASSUME NEW type \in TypeSet, NEW sizes \in SizesFor(type), WellFormed
  PROVE  /\ sizes \in Seq(Nat)
         /\ Len(sizes) = countDynamicDims(type)
         /\ \A k \in DOMAIN sizes : /\ sizes[k] \in 1..Len(body)
                                    /\ body[sizes[k]].name \in IndexNames
BY CountType DEF SizesFor, Indices, WellFormed

LEMMA BuildWellFormed == WellFormed /\ Build => WellFormed'
<1> SUFFICES ASSUME WellFormed, Build PROVE WellFormed'
  OBVIOUS
<1>a. /\ body \in Seq(OpSet) /\ Len(body) \in Nat
      /\ DOMAIN body = 1..Len(body)
      /\ \A v \in 1..Len(body) : body[v] \in OpSet
  BY DEF WellFormed
<1> USE DEF Op, OpSet, Names
<1>b. NotATensor \in TypeSet /\ ~ IsTensor(NotATensor)
  BY DEF NotATensor, Tensor, TypeSet, IsTensor
<1>c. \A type \in Types : type \in TypeSet /\ IsTensor(type)
  BY TypesAssumption DEF TypeSet, IsTensor
<1>d. \A v \in Tensors : /\ v \in 1..Len(body) /\ v # 0 /\ v \in Nat
                         /\ body[v].type \in TypeSet /\ IsTensor(body[v].type)
  <2> SUFFICES ASSUME NEW v \in Tensors
               PROVE  /\ v \in 1..Len(body) /\ v # 0 /\ v \in Nat
                      /\ body[v].type \in TypeSet /\ IsTensor(body[v].type)
    OBVIOUS
  <2>1. v \in 1..Len(body) /\ IsTensor(body[v].type)
    BY <1>a DEF Tensors
  <2>2. body[v] \in OpSet
    BY <1>a, <2>1
  <2> QED BY <2>1, <2>2
<1>e. \A type : IsTensor(type) => type # NotATensor
  BY <1>b
<1>1. CASE AddDim
  <2>1. PICK v \in Tensors, axis \in Axes :
          /\ axis < Len(body[v].type.shape)
          /\ AddOp(Op("tensor.dim", NotATensor, v, <<>>, axis))
    BY <1>1 DEF AddDim
  <2> DEFINE op == Op("tensor.dim", NotATensor, v, <<>>, axis)
  <2>2. axis + 1 \in DOMAIN body[v].type.shape
    BY <2>1, <1>d, AxesAssumption DEF TypeSet
  <2>3. op \in OpSet
    BY <1>b, <1>d, AxesAssumption
  <2>4. Follows(op, body, Len(body))
    BY <1>d, <2>2 DEF Follows, IndexNames
  <2> QED BY <2>1, <2>3, <2>4, AppendWellFormed DEF AddOp
<1>2. CASE AddConstant
  <2>1. PICK c \in Constants :
          AddOp(Op("arith.constant", NotATensor, 0, <<>>, c))
    BY <1>2 DEF AddConstant
  <2> DEFINE op == Op("arith.constant", NotATensor, 0, <<>>, c)
  <2>2. op \in OpSet
    BY <1>b, ConstantsAssumption
  <2>3. Follows(op, body, Len(body))
    BY DEF Follows, IndexNames
  <2> QED BY <2>1, <2>2, <2>3, AppendWellFormed DEF AddOp
<1>3. CASE AddArith
  <2>1. PICK v \in Indices, c \in Constants :
          AddOp(Op("arith.minsi", NotATensor, 0, <<v>>, c))
    BY <1>3 DEF AddArith
  <2> DEFINE op == Op("arith.minsi", NotATensor, 0, <<v>>, c)
  <2>2. v \in 1..Len(body) /\ body[v].name \in IndexNames
    BY <1>a DEF Indices
  <2>3. op \in OpSet
    BY <1>b, <2>2, ConstantsAssumption
  <2>4. Follows(op, body, Len(body))
    BY <2>2 DEF Follows, IndexNames
  <2> QED BY <2>1, <2>3, <2>4, AppendWellFormed DEF AddOp
<1>4. CASE AddAssert
  <2>1. PICK u \in Indices, v \in Indices, pred \in {0, 1},
             nested \in {FALSE, NestedAsserts} :
          AddOp([Op("cf.assert", NotATensor, 0, <<u, v>>, pred)
                   EXCEPT !.nested = nested])
    BY <1>4 DEF AddAssert
  <2> DEFINE op == [name |-> "cf.assert", type |-> NotATensor, src |-> 0,
                    sizes |-> <<u, v>>, attr |-> pred, nested |-> nested]
  <2>0. AddOp(op)
    BY <2>1
  <2>2. /\ u \in 1..Len(body) /\ body[u].name \in IndexNames
        /\ v \in 1..Len(body) /\ body[v].name \in IndexNames
    BY <1>a DEF Indices
  <2>5. nested \in BOOLEAN /\ (nested => NestedAsserts)
    <3>1. nested = FALSE \/ nested = NestedAsserts
      OBVIOUS
    <3>2. CASE nested = FALSE
      BY <3>2, Zenon
    <3>3. CASE nested = NestedAsserts
      BY <3>3, NestedAssumption, Zenon
    <3> QED BY <3>1, <3>2, <3>3, Zenon
  <2>6. <<u, v>> \in Seq(Nat) /\ pred \in Nat
    BY <1>a, <2>2
  <2>3. op \in OpSet
    BY <1>b, <2>5, <2>6
  <2>7. \A k \in DOMAIN op.sizes : /\ op.sizes[k] \in 1..Len(body)
                                 /\ body[op.sizes[k]].name \in IndexNames
    BY <2>2
  <2>8. op.nested => NestedAsserts
    BY <2>5
  <2>4. Follows(op, body, Len(body))
    BY <2>7, <2>8 DEF Follows, IndexNames
  <2> QED BY <2>0, <2>3, <2>4, AppendWellFormed DEF AddOp
<1>5. CASE AddEmpty
  <2>1. PICK type \in Types : \E sizes \in SizesFor(type) :
          AddOp(Op("tensor.empty", type, 0, sizes, 0))
    BY <1>5 DEF AddEmpty
  <2>2. PICK sizes \in SizesFor(type) :
          AddOp(Op("tensor.empty", type, 0, sizes, 0))
    BY <2>1
  <2> DEFINE op == Op("tensor.empty", type, 0, sizes, 0)
  <2>3. op \in OpSet
    BY <1>c, SizesType
  <2>4. Follows(op, body, Len(body))
    BY <1>c, <1>e, SizesType DEF Follows, IndexNames
  <2> QED BY <2>2, <2>3, <2>4, AppendWellFormed DEF AddOp
<1>6. CASE AddExpand
  <2>1. PICK v \in Tensors, type \in Types :
          /\ ReshapeVerifies(body[v].type, type)
          /\ \E sizes \in SizesFor(type) :
               AddOp(Op("tensor.expand_shape", type, v, sizes, 0))
    BY <1>6 DEF AddExpand
  <2>2. PICK sizes \in SizesFor(type) :
          AddOp(Op("tensor.expand_shape", type, v, sizes, 0))
    BY <2>1
  <2> DEFINE op == Op("tensor.expand_shape", type, v, sizes, 0)
  <2>3. op \in OpSet
    BY <1>c, <1>d, SizesType
  <2>4. Follows(op, body, Len(body))
    BY <1>c, <1>d, <1>e, <2>1, SizesType DEF Follows, IndexNames
  <2> QED BY <2>2, <2>3, <2>4, AppendWellFormed DEF AddOp
<1>7. CASE AddCollapse
  <2>1. PICK v \in Tensors, type \in Types :
          /\ ReshapeVerifies(type, body[v].type)
          /\ AddOp(Op("tensor.collapse_shape", type, v, <<>>, 0))
    BY <1>7 DEF AddCollapse
  <2> DEFINE op == Op("tensor.collapse_shape", type, v, <<>>, 0)
  <2>2. op \in OpSet
    BY <1>c, <1>d
  <2>3. Follows(op, body, Len(body))
    BY <1>c, <1>d, <1>e, <2>1 DEF Follows, IndexNames
  <2> QED BY <2>1, <2>2, <2>3, AppendWellFormed DEF AddOp
<1>8. CASE AddSlice
  <2>1. PICK v \in Indices, offset \in Axes :
          AddOp(Op("tensor.extract_slice", I64(<<kBatch, Dyn>>), 0, <<v>>,
                   offset))
    BY <1>8 DEF AddSlice
  <2> DEFINE type == I64(<<kBatch, Dyn>>)
             op   == Op("tensor.extract_slice", type, 0, <<v>>, offset)
  <2>2. v \in 1..Len(body) /\ body[v].name \in IndexNames
    BY <1>a DEF Indices
  <2>3. type \in TypeSet /\ IsTensor(type)
    BY DEF I64, Tensor, TypeSet, IsTensor, kBatch, Dyn
  <2>4. op \in OpSet
    BY <2>2, <2>3, AxesAssumption
  <2>5. Follows(op, body, Len(body))
    BY <1>e, <2>2, <2>3 DEF Follows, IndexNames
  <2> QED BY <2>1, <2>4, <2>5, AppendWellFormed DEF AddOp
<1>9. CASE AddLinalg \/ AddPad
  <2>1. PICK v \in Tensors, name \in {"linalg.generic", "tensor.pad"} :
          AddOp(Op(name, body[v].type, v, <<>>, 0))
    BY <1>9 DEF AddLinalg, AddPad
  <2> DEFINE op == Op(name, body[v].type, v, <<>>, 0)
  <2>2. op \in OpSet
    BY <1>d
  <2>3. Follows(op, body, Len(body))
    BY <1>d, <1>e DEF Follows, IndexNames
  <2> QED BY <2>1, <2>2, <2>3, AppendWellFormed DEF AddOp
<1> QED BY <1>1, <1>2, <1>3, <1>4, <1>5, <1>6, <1>7, <1>8, <1>9 DEF Build

-----------------------------------------------------------------------------
(***************************************************************************)
(* Extents and dynamic axes.                                               *)
(***************************************************************************)
LEMMA StaticCountZero ==
  ASSUME NEW type \in TypeSet
  PROVE  DynamicAxes(type) = {} <=> countDynamicDims(type) = 0
BY CountType, FS_EmptySet DEF countDynamicDims

LEMMA DynamicIndexRange ==
  ASSUME NEW type \in TypeSet, NEW axis \in DOMAIN type.shape,
         type.shape[axis] = Dyn
  PROVE  DynamicIndex(type, axis) \in 1..countDynamicDims(type)
<1> DEFINE S == {a \in DynamicAxes(type) : a <= axis}
<1>1. S \subseteq DynamicAxes(type) /\ IsFiniteSet(DynamicAxes(type))
  BY CountType
<1>2. IsFiniteSet(S) /\ Cardinality(S) <= Cardinality(DynamicAxes(type))
  BY <1>1, FS_Subset
<1>3. axis \in S
  BY DEF DynamicAxes, TypeSet
<1>4. Cardinality(S) # 0 /\ Cardinality(S) \in Nat
  BY <1>2, <1>3, FS_EmptySet, FS_CardinalityType
<1> QED BY <1>2, <1>4, CountType DEF DynamicIndex, countDynamicDims

LEMMA OneAxis ==
  ASSUME NEW type, NEW axis, DynamicAxes(type) = {axis}
  PROVE  countDynamicDims(type) = 1
BY FS_Singleton, Zenon DEF countDynamicDims

LEMMA TwoAxes ==
  ASSUME NEW type, NEW i, NEW j, i # j, DynamicAxes(type) = {i, j}
  PROVE  countDynamicDims(type) = 2
<1>1. IsFiniteSet({i}) /\ Cardinality({i}) = 1
  BY FS_Singleton
<1>2. {i, j} = {i} \cup {j}
  OBVIOUS
<1>3. Cardinality({i} \cup {j}) = 2
  BY <1>1, FS_AddElement
<1> QED BY <1>2, <1>3, Zenon DEF countDynamicDims

LEMMA ArgCount == countDynamicDims(ArgType) = 1
<1>1. DynamicAxes(ArgType) = {2}
  BY KindAssumption DEF ArgType, DynamicAxes, I64, F32, Tensor, Dyn, kBatch,
     contract, Contract, Kinds, kE5Hidden
<1> QED BY <1>1, OneAxis

LEMMA SliceCount == countDynamicDims(I64(<<kBatch, Dyn>>)) = 1
<1>1. DynamicAxes(I64(<<kBatch, Dyn>>)) = {2}
  BY DEF DynamicAxes, I64, Tensor, Dyn, kBatch
<1> QED BY <1>1, OneAxis

\* A collapse the E5 validator accepts keeps every dynamic axis.
LEMMA CollapsePairCount ==
  ASSUME NEW source \in TypeSet, NEW result \in TypeSet,
         isE5CollapseShapePair(source, result)
  PROVE  countDynamicDims(source) = countDynamicDims(result)
<1> USE DEF DynamicAxes, Dyn, kBatch, kE5Heads, kE5HeadSize, kE5Hidden
<1>1. CASE source.shape = <<kBatch, Dyn>> /\ result.shape = <<Dyn>>
  <2>1. DynamicAxes(source) = {2} /\ DynamicAxes(result) = {1}
    BY <1>1
  <2> QED BY <2>1, OneAxis
<1>2. CASE /\ source.shape = <<kBatch, kE5Heads, Dyn, kE5HeadSize>>
           /\ result.shape = <<kE5Heads, Dyn, kE5HeadSize>>
  <2>1. DynamicAxes(source) = {3} /\ DynamicAxes(result) = {2}
    BY <1>2
  <2> QED BY <2>1, OneAxis
<1>3. CASE /\ source.shape = <<kBatch, kE5Heads, kE5HeadSize, Dyn>>
           /\ result.shape = <<kE5Heads, kE5HeadSize, Dyn>>
  <2>1. DynamicAxes(source) = {4} /\ DynamicAxes(result) = {3}
    BY <1>3
  <2> QED BY <2>1, OneAxis
<1>4. CASE /\ source.shape = <<kBatch, kE5Heads, Dyn, Dyn>>
           /\ result.shape = <<kE5Heads, Dyn, Dyn>>
  <2>1. DynamicAxes(source) = {3, 4} /\ DynamicAxes(result) = {2, 3}
    BY <1>4
  <2>2. countDynamicDims(source) = 2
    BY <2>1, TwoAxes, 3 # 4
  <2>3. countDynamicDims(result) = 2
    BY <2>1, TwoAxes, 2 # 3
  <2> QED BY <2>2, <2>3
<1>5. CASE /\ source.shape = <<kBatch, Dyn, kE5Heads, kE5HeadSize>>
           /\ result.shape = <<kBatch, Dyn, kE5Hidden>>
  <2>1. DynamicAxes(source) = {2} /\ DynamicAxes(result) = {2}
    BY <1>5
  <2> QED BY <2>1, OneAxis
<1>6. \/ <<source.shape, result.shape>> \in E5CollapseI64
      \/ <<source.shape, result.shape>> \in E5CollapseF32
  BY DEF isE5CollapseShapePair
<1> QED BY <1>1, <1>2, <1>3, <1>4, <1>5, <1>6
        DEF E5CollapseI64, E5CollapseF32

\* So does an expand the E5 validator accepts.
LEMMA ExpandPairCount ==
  ASSUME NEW source \in TypeSet, NEW result \in TypeSet,
         isE5ExpandShapePair(source, result)
  PROVE  countDynamicDims(source) = countDynamicDims(result)
<1> USE DEF DynamicAxes, Dyn, kBatch, kE5Heads, kE5HeadSize, kE5Hidden
<1>1. CASE /\ source.shape = <<kE5Heads, Dyn, Dyn>>
           /\ result.shape = <<kBatch, kE5Heads, Dyn, Dyn>>
  <2>1. DynamicAxes(source) = {2, 3} /\ DynamicAxes(result) = {3, 4}
    BY <1>1
  <2>2. countDynamicDims(source) = 2
    BY <2>1, TwoAxes, 2 # 3
  <2>3. countDynamicDims(result) = 2
    BY <2>1, TwoAxes, 3 # 4
  <2> QED BY <2>2, <2>3
<1>2. CASE <<source.shape, result.shape>> \in E5ExpandI64
  <2>1. DynamicAxes(source) = {2} /\ DynamicAxes(result) = {4}
    BY <1>2 DEF E5ExpandI64
  <2> QED BY <2>1, OneAxis
<1>3. CASE /\ source.shape = <<Dyn, kE5Hidden>>
           /\ result.shape = <<kBatch, Dyn, kE5Hidden>>
  <2>1. DynamicAxes(source) = {1} /\ DynamicAxes(result) = {2}
    BY <1>3
  <2> QED BY <2>1, OneAxis
<1>4. CASE \/ /\ source.shape = <<kBatch, Dyn, kE5Hidden>>
              /\ result.shape = <<kBatch, Dyn, kE5Heads, kE5HeadSize>>
           \/ /\ source.shape = <<kBatch, Dyn>>
              /\ result.shape = <<kBatch, Dyn, 1>>
  <2>1. DynamicAxes(source) = {2} /\ DynamicAxes(result) = {2}
    BY <1>4
  <2> QED BY <2>1, OneAxis
<1>5. CASE /\ source.shape = <<kBatch, kE5Heads, Dyn>>
           /\ result.shape = <<kBatch, kE5Heads, Dyn, 1>>
  <2>1. DynamicAxes(source) = {3} /\ DynamicAxes(result) = {3}
    BY <1>5
  <2> QED BY <2>1, OneAxis
<1>6. CASE /\ source.shape = <<kE5Heads, Dyn, kE5HeadSize>>
           /\ result.shape = <<kBatch, kE5Heads, Dyn, kE5HeadSize>>
  <2>1. DynamicAxes(source) = {2} /\ DynamicAxes(result) = {3}
    BY <1>6
  <2> QED BY <2>1, OneAxis
<1>7. \/ <<source.shape, result.shape>> \in E5ExpandI64
      \/ <<source.shape, result.shape>> \in E5ExpandF32
  BY DEF isE5ExpandShapePair
<1> QED BY <1>1, <1>2, <1>3, <1>4, <1>5, <1>6, <1>7 DEF E5ExpandF32

\* The dynamic types of stages A and B have one dynamic axis.
LEMMA StageTypeCount ==
  ASSUME NEW type \in TypeSet, Kind # "E5",
         isContractDynamicTensorType(type, contract)
  PROVE  countDynamicDims(type) = 1
<1>1. contract.kind # "E5" /\ contract.hidden # Dyn /\ contract.intermediate # Dyn
  BY KindAssumption DEF contract, Contract, Kinds, Dyn
<1>2. CASE type.shape = <<kBatch, Dyn, contract.hidden>>
  <2>1. DynamicAxes(type) = {2}
    BY <1>1, <1>2 DEF DynamicAxes, Dyn, kBatch
  <2> QED BY <2>1, OneAxis
<1>3. CASE \/ type.shape = <<Dyn, contract.hidden>>
           \/ type.shape = <<Dyn, contract.intermediate>>
  <2>1. DynamicAxes(type) = {1}
    BY <1>1, <1>3 DEF DynamicAxes, Dyn
  <2> QED BY <2>1, OneAxis
<1> QED BY <1>1, <1>2, <1>3
        DEF isContractDynamicTensorType, isContractEmptyTensorType, F32, Tensor

-----------------------------------------------------------------------------
(***************************************************************************)
(* The inductive invariant of the pass.                                    *)
(***************************************************************************)
Validated == {"refine", "ready", "run", "trapped", "done"}
Running   == {"run", "trapped", "done"}

ValidOp(v) == IF Kind = "E5" THEN validateE5Op(body[v])
                             ELSE validateStageOp(body[v])

PassInv ==
  /\ phase \in Phases
  /\ length \in Lengths
  /\ known \subseteq Indices
  /\ Proven(Nat)
  /\ phase \in {"build", "lengths"} => known = {}
  /\ phase = "collect" => Kind = "E5"
  /\ phase \in {"validate"} \cup Validated /\ Kind # "E5" => known = EntryDims
  /\ phase \in Validated => \A v \in NArgs + 1..Len(body) : ValidOp(v)

\* An extent is the specialized length, or a known value of this run.
Grounded(x) == \/ x = length
               \/ \E u \in known : u \in DOMAIN extents /\ x = Value(u)

\* What the run has recorded for operation v.
Recorded(v) ==
  /\ extents[v] \in Seq(Nat)
  /\ v <= NArgs => extents[v] = <<length>>
  /\ v \in Tensors => /\ Len(extents[v]) = countDynamicDims(body[v].type)
                      /\ \A k \in DOMAIN extents[v] : Grounded(extents[v][k])
  /\ v \in Indices => Len(extents[v]) = 1
  /\ v \in EntryDims => Value(v) = length
  /\ isEqualityAssert(v) /\ ~ body[v].nested =>
       Value(body[v].sizes[1]) = Value(body[v].sizes[2])

RunInv ==
  /\ phase \notin Running => extents = <<>>
  /\ phase \in Running =>
       /\ extents \in Seq(Seq(Nat))
       /\ NArgs <= Len(extents) /\ Len(extents) <= Len(body)
       /\ \A v \in DOMAIN extents : Recorded(v)
  /\ phase = "done" => Len(extents) = Len(body)

LEMMA IndicesDomain == Indices \subseteq DOMAIN body /\ EntryDims \subseteq Indices
BY DEF Indices, EntryDims, isEntrySequenceDim, IndexNames

\* Both sides of an assert are index values.
LEMMA AssertSides ==
  ASSUME WellFormed, NEW v \in DOMAIN body, isEqualityAssert(v)
  PROVE  /\ v \in NArgs + 1..Len(body)
         /\ body[v].sizes[1] \in Indices /\ body[v].sizes[1] \in 1..v - 1
         /\ body[v].sizes[2] \in Indices /\ body[v].sizes[2] \in 1..v - 1
<1> USE ArgsRange
<1>1. v \in 1..Len(body) /\ Len(body) \in Nat /\ body[v] \in OpSet
  BY DEF WellFormed
<1>2. v \notin 1..NArgs
  BY DEF WellFormed, isEqualityAssert, Op
<1>3. v \in NArgs + 1..Len(body)
  BY <1>1, <1>2
<1>4. Follows(body[v], body, v - 1)
  BY <1>3 DEF WellFormed
<1>5. DOMAIN body[v].sizes = 1..2
  BY <1>1, <1>4 DEF Follows, isEqualityAssert, OpSet
<1>6. \A k \in 1..2 : /\ body[v].sizes[k] \in 1..v - 1
                      /\ body[body[v].sizes[k]].name \in IndexNames
  BY <1>4, <1>5 DEF Follows
<1> QED BY <1>1, <1>3, <1>6 DEF Indices

LEMMA InitPassInv == Init => PassInv /\ RunInv
BY DEF Init, PassInv, RunInv, Phases, Running, Validated, Proven

\* A step that leaves the body and the known values alone.
LEMMA SameKnown ==
  ASSUME PassInv, body' = body, length' = length, known' = known,
         phase' \in Phases, phase' \in {"build", "lengths"} => known = {},
         phase' = "collect" => Kind = "E5",
         phase' \in {"validate"} \cup Validated /\ Kind # "E5" =>
           known = EntryDims,
         phase' \in Validated => \A v \in NArgs + 1..Len(body) : ValidOp(v)
  PROVE  PassInv'
<1>1. Indices' = Indices /\ EntryDims' = EntryDims
  BY DEF Indices, EntryDims, isEntrySequenceDim
<1>2. Proven(Nat)'
  BY <1>1 DEF PassInv, Proven, Satisfies, isEqualityAssert
<1>3. known' \subseteq Indices' /\ length' \in Lengths
  BY <1>1 DEF PassInv
<1>4. ASSUME NEW v PROVE ValidOp(v)' <=> ValidOp(v)
  BY DEF ValidOp, validateE5Op, validateStageOp, SrcType, EntryDims,
     hasDynamicTensorOperandOrResult, isAllowedDynamicTensorOp,
     validateDynamicTensorValueTypes, validateE5ShapeOperation, SizesKnown,
     isE5PositionSlice, validateDynamicEmpty, validateDynamicExpandShape,
     isEntrySequenceDim, contract, Args
<1> QED BY <1>1, <1>2, <1>3, <1>4 DEF PassInv

LEMMA BuildPassInv == WellFormed /\ PassInv /\ Build => PassInv'
<1> SUFFICES ASSUME WellFormed, PassInv, Build PROVE PassInv'
  OBVIOUS
<1>1. phase = "build" /\ UNCHANGED <<phase, length, known>>
  BY DEF Build, AddDim, AddConstant, AddArith, AddAssert, AddEmpty, AddExpand,
     AddCollapse, AddSlice, AddLinalg, AddPad, AddOp
<1>2. known' = {}
  BY <1>1 DEF PassInv
<1> QED BY <1>1, <1>2 DEF PassInv, Proven, Validated

LEMMA LengthsPassInv ==
  WellFormed /\ PassInv /\ validateE5Lengths => PassInv'
<1> SUFFICES ASSUME WellFormed, PassInv, validateE5Lengths PROVE PassInv'
  OBVIOUS
<1>1. CASE phase' = "rejected" /\ known' = known
  BY <1>1, SameKnown DEF validateE5Lengths, Phases, Validated
<1>2. CASE /\ phase' = IF Kind = "E5" THEN "collect" ELSE "validate"
           /\ known' = EntryDims
  <2>1. body' = body /\ length' = length
    BY DEF validateE5Lengths
  <2>2. Indices' = Indices /\ EntryDims' = EntryDims
    BY <2>1 DEF Indices, EntryDims, isEntrySequenceDim
  <2>3. Proven(Nat)'
    BY <1>2, <2>1, <2>2 DEF Proven, Satisfies, isEqualityAssert
  <2> QED BY <1>2, <2>1, <2>2, <2>3, IndicesDomain
          DEF PassInv, Phases, Validated
<1> QED BY <1>1, <1>2 DEF validateE5Lengths

LEMMA CollectPassInv ==
  ASSUME NestedAsserts = FALSE, WellFormed, PassInv, collectE5SequenceLengths
  PROVE  PassInv'
<1>1. PICK v \in Unvisited :
        known' = known \cup (IF body[v].sizes[1] \in known
                               \/ body[v].sizes[2] \in known
                             THEN {body[v].sizes[1], body[v].sizes[2]} ELSE {})
  BY DEF collectE5SequenceLengths
<1>2. /\ phase = "collect"
      /\ UNCHANGED <<phase, body, length>>
  BY DEF collectE5SequenceLengths
<1>3. v \in DOMAIN body /\ isEqualityAssert(v)
  BY DEF Unvisited
<1>4. /\ v \in NArgs + 1..Len(body)
      /\ body[v].sizes[1] \in Indices /\ body[v].sizes[2] \in Indices
  BY <1>3, AssertSides
<1>5. ~ body[v].nested
  <2>1. Follows(body[v], body, v - 1)
    BY <1>4 DEF WellFormed
  <2> QED BY <2>1, Zenon DEF Follows
<1>6. Indices' = Indices /\ EntryDims' = EntryDims
  BY <1>2 DEF Indices, EntryDims, isEntrySequenceDim
<1>7. ASSUME NEW rho \in [Indices -> Nat], Satisfies(rho)
      PROVE  \A w \in known' : rho[w] = length
  <2>1. \A w \in known : rho[w] = length
    BY <1>7 DEF PassInv, Proven
  <2>2. rho[body[v].sizes[1]] = rho[body[v].sizes[2]]
    BY <1>3, <1>5, <1>7 DEF Satisfies
  <2> QED BY <1>1, <2>1, <2>2
<1>8. Proven(Nat)'
  BY <1>2, <1>6, <1>7 DEF Proven, Satisfies, isEqualityAssert
<1>9. known' \subseteq Indices'
  BY <1>1, <1>4, <1>6 DEF PassInv
<1> QED BY <1>2, <1>8, <1>9 DEF PassInv, Validated

LEMMA ValidatePassInv ==
  WellFormed /\ PassInv /\ validateSpecializedBody => PassInv'
<1> SUFFICES ASSUME WellFormed, PassInv, validateSpecializedBody PROVE PassInv'
  OBVIOUS
<1>1. DOMAIN body \ Args = NArgs + 1..Len(body)
  BY ArgsRange DEF WellFormed
<1>2. phase' = "refine" => \A v \in NArgs + 1..Len(body) : ValidOp(v)
  BY <1>1 DEF validateSpecializedBody, ValidOp
<1> QED BY <1>2, SameKnown
        DEF validateSpecializedBody, PassInv, Phases, Validated

LEMMA NextPassInv ==
  NestedAsserts = FALSE /\ WellFormed /\ PassInv /\ [Next]_vars => PassInv'
<1> SUFFICES ASSUME NestedAsserts = FALSE, WellFormed, PassInv, [Next]_vars
             PROVE  PassInv'
  OBVIOUS
<1>1. CASE \/ RunPass \/ EndWalk \/ refineClone \/ Enter \/ Execute
           \/ Trap \/ Return \/ UNCHANGED vars
  BY <1>1, SameKnown
     DEF RunPass, EndWalk, refineClone, Enter, Execute, Trap, Return, vars,
         PassInv, Phases, Validated
<1> QED BY <1>1, BuildPassInv, LengthsPassInv, CollectPassInv, ValidatePassInv
        DEF Next

-----------------------------------------------------------------------------
(***************************************************************************)
(* The run.                                                                *)
(***************************************************************************)

\* What the run may record for the operation it executes next.
Good(op, r) ==
  /\ r \in Seq(Nat)
  /\ IsTensor(op.type) => /\ Len(r) = countDynamicDims(op.type)
                         /\ \A k \in DOMAIN r : Grounded(r[k])
  /\ op.name \in IndexNames => Len(r) = 1
  /\ op.name = "tensor.dim" /\ op.attr = kSequenceAxis /\ op.src \in Args =>
       r[1] = length

\* The next operation of a run and its operands.
LEMMA NextOp ==
  ASSUME WellFormed, PassInv, RunInv, phase = "run", Pc <= Len(body)
  PROVE  /\ Pc \in NArgs + 1..Len(body) /\ DOMAIN extents = 1..Pc - 1
         /\ body[Pc] \in OpSet /\ Follows(body[Pc], body, Pc - 1)
         /\ ValidOp(Pc) /\ \A v \in 1..Pc - 1 : Recorded(v)
         /\ \A v \in 1..Pc - 1 : body[v] \in OpSet
<1>1. Len(body) \in Nat /\ \A v \in 1..Len(body) : body[v] \in OpSet
  BY DEF WellFormed
<1>2. /\ extents \in Seq(Seq(Nat))
      /\ NArgs <= Len(extents) /\ Len(extents) <= Len(body)
      /\ \A v \in DOMAIN extents : Recorded(v)
  BY DEF RunInv, Running
<1>3. Pc \in NArgs + 1..Len(body) /\ DOMAIN extents = 1..Pc - 1
  BY <1>1, <1>2, ArgsRange DEF Pc
<1>4. Follows(body[Pc], body, Pc - 1)
  BY <1>3 DEF WellFormed
<1>5. ValidOp(Pc)
  BY <1>3 DEF PassInv, Validated
<1>6. \A v \in 1..Pc - 1 : v \in 1..Len(body)
  BY <1>1, <1>3, ArgsRange
<1>7. body[Pc] \in OpSet
  BY <1>1, <1>3, ArgsRange
<1> QED BY <1>1, <1>2, <1>3, <1>4, <1>5, <1>6, <1>7

\* An index operand has been given a value.
LEMMA OperandValue ==
  ASSUME WellFormed, PassInv, RunInv, phase = "run", Pc <= Len(body),
         NEW k \in DOMAIN body[Pc].sizes
  PROVE  /\ Value(body[Pc].sizes[k]) \in Nat
         /\ body[Pc].sizes[k] \in known => Grounded(Value(body[Pc].sizes[k]))
<1> DEFINE u == body[Pc].sizes[k]
<1>1. u \in 1..Pc - 1 /\ body[u].name \in IndexNames
  BY NextOp DEF Follows
<1>2. u \in DOMAIN body
  BY <1>1, NextOp, ArgsRange DEF WellFormed
<1>3. Recorded(u) /\ u \in Indices /\ u \in DOMAIN extents
  BY <1>1, <1>2, NextOp DEF Indices
<1>4. extents[u] \in Seq(Nat) /\ Len(extents[u]) = 1
  BY <1>3 DEF Recorded
<1> QED BY <1>3, <1>4 DEF Value, Grounded

\* A result that copies the extents of the tensor operand.
LEMMA CopyGood ==
  ASSUME WellFormed, PassInv, RunInv, phase = "run", Pc <= Len(body),
         body[Pc].src # 0,
         countDynamicDims(body[Pc].type) = countDynamicDims(SrcType(body[Pc])),
         body[Pc].name \notin IndexNames
  PROVE  Good(body[Pc], extents[body[Pc].src])
<1> DEFINE op == body[Pc]
<1>1. op.src \in 1..Pc - 1 /\ IsTensor(body[op.src].type)
  BY NextOp DEF Follows
<1>2. Recorded(op.src) /\ op.src \in Tensors /\ SrcType(op) = body[op.src].type
  BY <1>1, NextOp, ArgsRange DEF Tensors, SrcType, WellFormed
<1>3. /\ extents[op.src] \in Seq(Nat)
      /\ Len(extents[op.src]) = countDynamicDims(SrcType(op))
      /\ \A k \in DOMAIN extents[op.src] : Grounded(extents[op.src][k])
  BY <1>2 DEF Recorded
<1> QED BY <1>3 DEF Good, IndexNames

\* A result whose extents are the index operands, all of them known.
LEMMA SizesGood ==
  ASSUME WellFormed, PassInv, RunInv, phase = "run", Pc <= Len(body),
         Len(body[Pc].sizes) = countDynamicDims(body[Pc].type),
         \A k \in DOMAIN body[Pc].sizes : body[Pc].sizes[k] \in known,
         body[Pc].name \notin IndexNames
  PROVE  Good(body[Pc], [k \in DOMAIN body[Pc].sizes |->
                           Value(body[Pc].sizes[k])])
<1> DEFINE op == body[Pc]
           r  == [k \in DOMAIN op.sizes |-> Value(op.sizes[k])]
<1>1. op.sizes \in Seq(Nat)
  BY NextOp DEF OpSet
<1>2. DOMAIN op.sizes = 1..Len(op.sizes) /\ Len(op.sizes) \in Nat
  BY <1>1
<1>3. \A k \in DOMAIN op.sizes : r[k] \in Nat /\ Grounded(r[k])
  BY OperandValue
<1>4. r \in Seq(Nat) /\ Len(r) = Len(op.sizes) /\ DOMAIN r = DOMAIN op.sizes
  BY <1>2, <1>3
<1> HIDE DEF r
<1>5. Good(op, r)
  BY <1>3, <1>4 DEF Good, IndexNames
<1> QED BY <1>5 DEF r

LEMMA DimGood ==
  ASSUME WellFormed, PassInv, RunInv, phase = "run", Pc <= Len(body),
         body[Pc].name = "tensor.dim"
  PROVE  Good(body[Pc], Result(body[Pc]))
<1> DEFINE op   == body[Pc]
           src  == op.src
           type == body[src].type
           axis == op.attr + 1
           x    == IF type.shape[axis] = Dyn
                     THEN extents[src][DynamicIndex(type, axis)]
                     ELSE type.shape[axis]
<1>1. /\ src # 0 /\ src \in 1..Pc - 1 /\ IsTensor(type)
      /\ axis \in DOMAIN type.shape
      /\ op.type = NotATensor
  BY NextOp DEF Follows, IndexNames
<1>2. type \in TypeSet
  BY <1>1, NextOp DEF OpSet
<1>3. Recorded(src) /\ src \in Tensors
  BY <1>1, NextOp, ArgsRange DEF Tensors, WellFormed
<1>4. extents[src] \in Seq(Nat) /\ Len(extents[src]) = countDynamicDims(type)
  BY <1>3 DEF Recorded
<1>5. x \in Nat
  <2>1. CASE type.shape[axis] = Dyn
    <3>1. DynamicIndex(type, axis) \in 1..countDynamicDims(type)
      BY <1>1, <1>2, <2>1, DynamicIndexRange
    <3> HIDE DEF type, axis
    <3>2. extents[src][DynamicIndex(type, axis)] \in Nat
      BY <1>4, <3>1
    <3> QED BY <2>1, <3>2
  <2>2. CASE type.shape[axis] # Dyn
    BY <1>1, <1>2, <2>2 DEF TypeSet
  <2> QED BY <2>1, <2>2
<1>6. Result(op) = <<x>>
  BY <1>1 DEF Result, DimResult, SrcType
<1>7. ASSUME op.attr = kSequenceAxis, src \in Args PROVE x = length
  <2>1. type = ArgType /\ axis = 2 /\ extents[src] = <<length>>
    BY <1>3, <1>7, ArgsRange DEF WellFormed, Recorded, Op, kSequenceAxis
  <2>2. type.shape[2] = Dyn
    BY <2>1, KindAssumption DEF ArgType, I64, F32, Tensor
  <2>3. DynamicIndex(type, axis) = 1
    BY <1>1, <1>2, <2>1, <2>2, DynamicIndexRange, ArgCount
  <2> QED BY <2>1, <2>2, <2>3
<1>8. ~ IsTensor(op.type)
  BY <1>1 DEF IsTensor, NotATensor, Tensor
<1> HIDE DEF x
<1>9. <<x>> \in Seq(Nat) /\ Len(<<x>>) = 1 /\ <<x>>[1] = x
  BY <1>5
<1> QED BY <1>6, <1>7, <1>8, <1>9 DEF Good

LEMMA ExecuteGood ==
  ASSUME WellFormed, PassInv, RunInv, phase = "run", Pc <= Len(body)
  PROVE  Good(body[Pc], Result(body[Pc]))
<1> DEFINE op == body[Pc]
<1>1. /\ op \in OpSet /\ Follows(op, body, Pc - 1) /\ ValidOp(Pc)
  BY NextOp
<1>2. op.type \in TypeSet
  BY <1>1 DEF OpSet
<1>3. Kind # "E5" => known = EntryDims
  BY DEF PassInv, Validated
<1>4. op.sizes \in Seq(Nat) /\ DOMAIN op.sizes = 1..Len(op.sizes)
  BY <1>1 DEF OpSet
<1>5. ASSUME IsTensor(op.type), DynamicAxes(op.type) # {}
      PROVE  hasDynamicTensorOperandOrResult(op) /\ isDynamicRankedTensor(op.type)
  BY <1>5 DEF hasDynamicTensorOperandOrResult, isDynamicRankedTensor
<1>6. CASE op.name = "tensor.dim"
  BY <1>6, DimGood
<1>7. CASE op.name = "arith.constant"
  <2>1. Result(op) = <<op.attr>> /\ op.attr \in Nat /\ op.type = NotATensor
    BY <1>1, <1>7 DEF Result, OpSet, Follows, IndexNames
  <2> QED BY <1>7, <2>1 DEF Good, IsTensor, NotATensor, Tensor
<1>8. CASE op.name = "arith.minsi"
  <2>0. Len(op.sizes) = 1
    BY <1>1, <1>8 DEF Follows
  <2>1. 1 \in DOMAIN op.sizes
    BY <1>4, <2>0
  <2>2. Value(op.sizes[1]) \in Nat
    BY <2>1, OperandValue
  <2>3. op.attr \in Nat /\ op.type = NotATensor
    BY <1>1, <1>8 DEF OpSet, Follows, IndexNames
  <2>4. Result(op) = <<IF Value(op.sizes[1]) <= op.attr
                         THEN Value(op.sizes[1]) ELSE op.attr>>
    BY <1>8 DEF Result
  <2> QED BY <1>8, <2>2, <2>3, <2>4 DEF Good, IsTensor, NotATensor, Tensor
<1>9. CASE op.name = "cf.assert"
  <2>1. Result(op) = <<>> /\ op.type = NotATensor
    BY <1>1, <1>9 DEF Result, Follows
  <2> QED BY <1>9, <2>1 DEF Good, IsTensor, NotATensor, Tensor, IndexNames
<1>10. CASE op.name \in {"tensor.empty", "tensor.expand_shape"}
  <2>1. /\ IsTensor(op.type) /\ Len(op.sizes) = countDynamicDims(op.type)
        /\ op.name = "tensor.expand_shape" => op.src # 0
    BY <1>1, <1>10 DEF Follows, IndexNames
  <2>2. \A k \in DOMAIN op.sizes : op.sizes[k] \in known
    <3>1. CASE DynamicAxes(op.type) = {}
      BY <1>2, <1>4, <2>1, <3>1, StaticCountZero
    <3>2. CASE DynamicAxes(op.type) # {} /\ Kind = "E5"
      <4>1. validateE5ShapeOperation(op)
        BY <1>1, <1>5, <1>10, <2>1, <3>2 DEF ValidOp, validateE5Op
      <4> QED BY <1>10, <4>1 DEF validateE5ShapeOperation, SizesKnown
    <3>3. CASE DynamicAxes(op.type) # {} /\ Kind # "E5"
      <4>1. validateDynamicEmpty(op) /\ validateDynamicExpandShape(op)
        BY <1>1, <1>5, <2>1, <3>3 DEF ValidOp, validateStageOp
      <4> QED BY <1>3, <1>4, <1>10, <3>3, <4>1
              DEF validateDynamicEmpty, validateDynamicExpandShape
    <3> QED BY <3>1, <3>2, <3>3
  <2>3. op.name \notin IndexNames
    BY <1>10 DEF IndexNames
  <2>4. Result(op) = [k \in DOMAIN op.sizes |-> Value(op.sizes[k])]
    BY <1>10 DEF Result
  <2> QED BY <2>1, <2>2, <2>3, <2>4, SizesGood
<1>11. CASE op.name = "tensor.extract_slice"
  <2>1. Len(op.sizes) = 1 /\ op.type = I64(<<kBatch, Dyn>>)
    BY <1>1, <1>11 DEF Follows
  <2>2. isDynamicRankedTensor(op.type)
    BY <2>1, SliceCount, <1>2, StaticCountZero
       DEF isDynamicRankedTensor, IsTensor, I64, Tensor
  <2>3. Kind = "E5"
    BY <1>1, <1>11, <2>2 DEF ValidOp, validateStageOp,
       hasDynamicTensorOperandOrResult, isAllowedDynamicTensorOp
  <2>4. op.sizes[1] \in known
    BY <1>1, <1>11, <2>3 DEF ValidOp, validateE5Op, validateE5ShapeOperation
  <2>5. \A k \in DOMAIN op.sizes : op.sizes[k] \in known
    BY <1>4, <2>1, <2>4
  <2>6. Result(op) = [k \in DOMAIN op.sizes |-> Value(op.sizes[k])]
    BY <1>11 DEF Result
  <2>7. op.name \notin IndexNames
    BY <1>11 DEF IndexNames
  <2> QED BY <2>1, <2>5, <2>6, <2>7, SizesGood, SliceCount
<1>12. CASE op.name = "tensor.collapse_shape"
  <2> DEFINE srcType == body[op.src].type
  <2>1. /\ op.src # 0 /\ ReshapeVerifies(op.type, srcType)
        /\ op.src \in 1..Pc - 1 /\ IsTensor(srcType)
    BY <1>1, <1>12 DEF Follows
  <2>2. srcType \in TypeSet /\ SrcType(op) = srcType
    BY <2>1, NextOp DEF OpSet, SrcType
  <2>3. /\ countDynamicDims(op.type) \in 1..countDynamicDims(srcType)
        /\ op.type.elem = srcType.elem
    BY <2>1 DEF ReshapeVerifies
  <2>4. DynamicAxes(op.type) # {} /\ DynamicAxes(srcType) # {}
    BY <1>2, <2>2, <2>3, StaticCountZero, CountType
  <2>5. /\ isDynamicRankedTensor(op.type) /\ isDynamicRankedTensor(srcType)
        /\ hasDynamicTensorOperandOrResult(op)
    BY <2>1, <2>3, <2>4
       DEF isDynamicRankedTensor, IsTensor, hasDynamicTensorOperandOrResult
  <2>6. countDynamicDims(op.type) = countDynamicDims(srcType)
    <3>1. CASE Kind = "E5"
      <4>1. isE5CollapseShapePair(srcType, op.type)
        BY <1>1, <1>12, <2>2, <2>5, <3>1
           DEF ValidOp, validateE5Op, validateE5ShapeOperation
      <4> QED BY <1>2, <2>2, <4>1, CollapsePairCount
    <3>2. CASE Kind # "E5"
      <4>1. validateDynamicTensorValueTypes(op)
        BY <1>1, <2>5, <3>2 DEF ValidOp, validateStageOp
      <4>2. /\ isContractDynamicTensorType(op.type, contract)
            /\ isContractDynamicTensorType(srcType, contract)
        BY <2>2, <2>5, <4>1 DEF validateDynamicTensorValueTypes
      <4> QED BY <1>2, <2>2, <3>2, <4>2, StageTypeCount
    <3> QED BY <3>1, <3>2
  <2>7. Result(op) = extents[op.src]
    BY <1>12, <2>2, <2>6 DEF Result, CollapseResult
  <2>8. op.name \notin IndexNames
    BY <1>12 DEF IndexNames
  <2> QED BY <2>1, <2>2, <2>6, <2>7, <2>8, CopyGood
<1>13. CASE op.name = "linalg.generic"
  <2>1. op.src # 0 /\ op.type = body[op.src].type
    BY <1>1, <1>13 DEF Follows
  <2>2. Result(op) = extents[op.src] /\ SrcType(op) = op.type
    BY <1>13, <2>1 DEF Result, SrcType
  <2>3. op.name \notin IndexNames
    BY <1>13 DEF IndexNames
  <2> QED BY <2>1, <2>2, <2>3, CopyGood
<1>14. CASE op.name = "tensor.pad"
  <2>1. /\ op.src # 0 /\ op.type = body[op.src].type
        /\ op.src \in 1..Pc - 1 /\ IsTensor(op.type)
    BY <1>1, <1>14 DEF Follows
  <2>2. ~ isAllowedDynamicTensorOp(op)
    BY <1>14 DEF isAllowedDynamicTensorOp
  <2>3. DynamicAxes(op.type) = {}
    BY <1>1, <1>5, <1>14, <2>1, <2>2 DEF ValidOp, validateE5Op, validateStageOp
  <2>4. countDynamicDims(op.type) = 0
    BY <1>2, <2>3, StaticCountZero
  <2>5. Recorded(op.src) /\ op.src \in Tensors
    BY <2>1, NextOp, ArgsRange DEF Tensors, WellFormed
  <2>6. extents[op.src] \in Seq(Nat) /\ Len(extents[op.src]) = 0
    BY <2>1, <2>4, <2>5 DEF Recorded
  <2>7. Result(op) = [k \in DOMAIN extents[op.src] |-> extents[op.src][k] + 1]
    BY <1>14 DEF Result
  <2>8. Result(op) \in Seq(Nat) /\ Len(Result(op)) = 0
    BY <2>6, <2>7
  <2> QED BY <1>14, <2>4, <2>8 DEF Good, IndexNames
<1>15. op.name # "arg"
  BY <1>1 DEF Follows
<1> QED BY <1>1, <1>6, <1>7, <1>8, <1>9, <1>10, <1>11, <1>12, <1>13, <1>14,
           <1>15 DEF OpSet, Names

LEMMA EnterRunInv ==
  ASSUME WellFormed, PassInv, RunInv, Enter PROVE RunInv'
<1>1. PICK widths \in [1..NArgs -> Widths] :
        /\ RoutedHere(widths)
        /\ extents' = [a \in 1..NArgs |-> <<widths[a]>>]
  BY DEF Enter, NArgs
<1>2. /\ phase' = "run"
      /\ UNCHANGED <<body, length, known>>
  BY DEF Enter
<1>3. \A a \in 1..NArgs : widths[a] = length
  BY <1>1, ArgsRange DEF RoutedHere
<1>4. length \in Nat
  BY LengthsAssumption DEF PassInv
<1>5. extents' = [a \in 1..NArgs |-> <<length>>]
  BY <1>1, <1>3
<1>6. extents' \in Seq(Seq(Nat)) /\ Len(extents') = NArgs /\ DOMAIN extents' = 1..NArgs
  BY <1>4, <1>5, ArgsRange
<1>7. ASSUME NEW v \in 1..NArgs PROVE Recorded(v)'
  <2>1. extents'[v] = <<length>> /\ body'[v] = Op("arg", ArgType, 0, <<>>, 0)
    BY <1>2, <1>5 DEF WellFormed
  <2>2. v \notin Indices' /\ v \notin EntryDims' /\ ~ isEqualityAssert(v)'
    BY <2>1 DEF Indices, IndexNames, EntryDims, isEntrySequenceDim,
       isEqualityAssert, Op
  <2>3. body'[v].type = ArgType
    BY <2>1 DEF Op
  <2>4. <<length>> \in Seq(Nat) /\ Len(<<length>>) = 1 /\ DOMAIN <<length>> = 1..1
    BY <1>4
  <2>5. \A k \in DOMAIN extents'[v] : Grounded(extents[v][k])'
    BY <1>2, <2>1, <2>4 DEF Grounded
  <2> QED BY <1>2, <2>1, <2>2, <2>3, <2>4, <2>5, ArgCount DEF Recorded
<1>8. Len(body') = Len(body) /\ NArgs <= Len(body)
  BY <1>2 DEF WellFormed
<1> QED BY <1>2, <1>6, <1>7, <1>8, ArgsRange DEF RunInv, Running

LEMMA ExecuteRunInv ==
  ASSUME NestedAsserts = FALSE, WellFormed, PassInv, RunInv, Execute
  PROVE  RunInv'
<1>0. PICK n \in Nat : n = Pc
  BY DEF Pc, RunInv, Running, Execute
<1> DEFINE op == body[n]
<1> PICK r : r = Result(op)
  OBVIOUS
<1>1. /\ phase = "run" /\ Pc <= Len(body)
      /\ op.name = "cf.assert" => op.nested \/ AssertHolds(op)
      /\ extents' = Append(extents, r)
      /\ phase' = "run" /\ body' = body /\ length' = length /\ known' = known
  BY <1>0 DEF Execute
<1>2. Good(op, r)
  BY <1>0, <1>1, ExecuteGood
<1>3. /\ n \in NArgs + 1..Len(body) /\ DOMAIN extents = 1..n - 1
      /\ Follows(op, body, n - 1) /\ op \in OpSet
      /\ \A v \in 1..n - 1 : Recorded(v)
  BY <1>0, <1>1, NextOp
<1>4. /\ extents \in Seq(Seq(Nat)) /\ Len(extents) = n - 1
      /\ NArgs <= n - 1 /\ Len(body) \in Nat /\ n <= Len(body) /\ n # 0
      /\ body \in Seq(OpSet) /\ DOMAIN body = 1..Len(body)
  BY <1>0, <1>1, <1>3, ArgsRange DEF RunInv, Running, Pc, WellFormed
<1>5. r \in Seq(Nat)
  BY <1>2 DEF Good
<1>6. /\ extents' \in Seq(Seq(Nat)) /\ Len(extents') = n
      /\ extents'[n] = r /\ DOMAIN extents' = 1..n
      /\ \A v \in 1..n - 1 : extents'[v] = extents[v]
  BY <1>1, <1>4, <1>5
<1>7. Tensors' = Tensors /\ Indices' = Indices /\ EntryDims' = EntryDims
  BY <1>1 DEF Tensors, Indices, EntryDims, isEntrySequenceDim
<1>8. ASSUME NEW x, Grounded(x) PROVE Grounded(x)'
  <2>1. CASE x = length
    BY <1>1, <2>1 DEF Grounded
  <2>2. CASE \E u \in known : u \in DOMAIN extents /\ x = extents[u][1]
    <3>1. PICK u \in known : u \in 1..n - 1 /\ x = extents[u][1]
      BY <1>3, <2>2
    <3>2. u \in DOMAIN extents' /\ x = extents'[u][1] /\ u \in known'
      BY <1>1, <1>4, <1>6, <3>1
    <3> QED BY <3>2 DEF Grounded, Value
  <2> QED BY <1>8, <2>1, <2>2 DEF Grounded, Value
<1>9. ASSUME NEW v \in 1..n, isEqualityAssert(v), ~ body[v].nested,
             v < n \/ AssertHolds(op)
      PROVE  Value(body[v].sizes[1])' = Value(body[v].sizes[2])'
  <2>0. v \in DOMAIN body /\ body'[v] = body[v]
    BY <1>1, <1>4
  <2>1. /\ body[v].sizes[1] \in 1..v - 1 /\ body[v].sizes[2] \in 1..v - 1
    BY <1>9, <2>0, AssertSides
  <2>2. /\ body[v].sizes[1] \in 1..n - 1 /\ body[v].sizes[2] \in 1..n - 1
    BY <2>1
  <2>3. extents[body[v].sizes[1]][1] = extents[body[v].sizes[2]][1]
    <3>1. CASE v < n
      <4>1. v \in 1..n - 1
        BY <3>1
      <4> QED BY <1>3, <1>9, <4>1 DEF Recorded, Value
    <3>2. CASE v = n
      BY <1>9, <3>2 DEF AssertHolds, Value, isEqualityAssert
    <3> QED BY <3>1, <3>2
  <2> QED BY <1>1, <1>6, <2>0, <2>2, <2>3 DEF Value
<1>10. ASSUME NEW v \in 1..n - 1 PROVE Recorded(v)'
  <2>1. Recorded(v) /\ extents'[v] = extents[v] /\ body'[v] = body[v] /\ v \in 1..n
    BY <1>1, <1>3, <1>6
  <2>2. v \in Tensors => /\ Len(extents[v]) = countDynamicDims(body[v].type)
                         /\ \A k \in DOMAIN extents[v] : Grounded(extents[v][k])
    BY <2>1 DEF Recorded
  <2>3. v \in Tensors => \A k \in DOMAIN extents'[v] : Grounded(extents[v][k])'
    <3> SUFFICES ASSUME v \in Tensors, NEW k \in DOMAIN extents'[v]
                 PROVE  Grounded(extents[v][k])'
      OBVIOUS
    <3>1. Grounded(extents[v][k])
      BY <2>1, <2>2
    <3>2. PICK x : x = extents[v][k]
      OBVIOUS
    <3>3. Grounded(x)'
      BY <1>8, <3>1, <3>2
    <3>4. x = extents'[v][k]
      BY <2>1, <3>2
    <3> QED BY <3>3, <3>4 DEF Grounded
  <2>4. isEqualityAssert(v)' <=> isEqualityAssert(v)
    BY <1>1 DEF isEqualityAssert
  <2>5. isEqualityAssert(v) /\ ~ body[v].nested =>
          Value(body[v].sizes[1])' = Value(body[v].sizes[2])'
    BY <1>9, <2>1
  <2>6. v \in EntryDims => Value(v)' = length
    BY <2>1 DEF Recorded, Value
  <2> QED BY <1>1, <1>7, <2>1, <2>2, <2>3, <2>4, <2>5, <2>6 DEF Recorded
<1>11. Recorded(n)'
  <2>1. body'[n] = body[n] /\ extents'[n] = r /\ ~ n <= NArgs /\ n \in 1..n
    BY <1>1, <1>4, <1>6, ArgsRange
  <2>2. n \in Tensors => /\ Len(r) = countDynamicDims(op.type)
                         /\ \A k \in DOMAIN r : Grounded(r[k])
    BY <1>2 DEF Good, Tensors
  <2>3. n \in Indices => Len(r) = 1
    BY <1>2 DEF Good, Indices
  <2>4. n \in EntryDims => r[1] = length
    BY <1>2 DEF Good, EntryDims, isEntrySequenceDim
  <2>5. isEqualityAssert(n) /\ ~ body[n].nested =>
          Value(body[n].sizes[1])' = Value(body[n].sizes[2])'
    <3> SUFFICES ASSUME isEqualityAssert(n), ~ body[n].nested
                 PROVE  Value(body[n].sizes[1])' = Value(body[n].sizes[2])'
      OBVIOUS
    <3>1. AssertHolds(op)
      BY <1>1 DEF isEqualityAssert
    <3> QED BY <1>9, <2>1, <3>1
  <2>6. n \in Tensors => \A k \in DOMAIN extents'[n] : Grounded(r[k])'
    <3> SUFFICES ASSUME n \in Tensors, NEW k \in DOMAIN extents'[n]
                 PROVE  Grounded(r[k])'
      OBVIOUS
    <3>1. Grounded(r[k])
      BY <2>1, <2>2
    <3>2. PICK x : x = r[k]
      OBVIOUS
    <3>3. Grounded(x)'
      BY <1>8, <3>1, <3>2
    <3> QED BY <3>2, <3>3 DEF Grounded
  <2>7. isEqualityAssert(n)' <=> isEqualityAssert(n)
    BY <1>1 DEF isEqualityAssert
  <2>8. n \in EntryDims => Value(n)' = length
    BY <2>1, <2>4 DEF Value
  <2> QED BY <1>1, <1>5, <1>7, <2>1, <2>2, <2>3, <2>5, <2>6, <2>7, <2>8
          DEF Recorded
<1>12. \A v \in DOMAIN extents' : Recorded(v)'
  <2> TAKE v \in DOMAIN extents'
  <2>1. v \in 1..n - 1 \/ v = n
    BY <1>4, <1>6
  <2> QED BY <1>10, <1>11, <2>1
<1>13. Len(body') = Len(body)
  BY <1>1
<1>14. NArgs <= Len(extents') /\ Len(extents') <= Len(body')
  BY <1>4, <1>6, <1>13, ArgsRange
<1> QED BY <1>1, <1>6, <1>12, <1>14 DEF RunInv, Running

-----------------------------------------------------------------------------
(***************************************************************************)
(* The inductive invariant, and what it implies.                           *)
(***************************************************************************)
IsE5Length == Kind = "E5" => length <= kE5MaxSequenceLength

\* The collecting walk, the length check and the clone.
WalkInv ==
  /\ cursor \in 0..Len(body)
  /\ changed \in BOOLEAN
  /\ phase \in {"collect", "validate"} \cup Validated => IsE5Length
  /\ \/ clone = <<>>
     \/ /\ phase \in {"ready"} \cup Running
        /\ clone = [v \in DOMAIN body |-> refineOp(body[v])]

IInv == WellFormed /\ PassInv /\ RunInv /\ WalkInv

\* Every step but Build leaves the body alone.
LEMMA NextBody == [Next]_vars => Build \/ body' = body
BY DEF Next, RunPass, validateE5Lengths, collectE5SequenceLengths, EndWalk,
   validateSpecializedBody, refineClone, Enter, Execute, Trap, Return, vars

LEMMA NextWellFormed == WellFormed /\ [Next]_vars => WellFormed'
<1>1. WellFormed /\ body' = body => WellFormed'
  BY DEF WellFormed
<1> QED BY <1>1, NextBody, BuildWellFormed

LEMMA BuildOnly ==
  ASSUME Build
  PROVE  /\ phase = "build" /\ phase' = "build"
         /\ extents' = extents /\ cursor' = cursor /\ changed' = changed
         /\ clone' = clone
         /\ \E op : body' = Append(body, op)
BY DEF Build, AddDim, AddConstant, AddArith, AddAssert, AddEmpty, AddExpand,
   AddCollapse, AddSlice, AddLinalg, AddPad, AddOp

LEMMA NextRunInv ==
  ASSUME NestedAsserts = FALSE, WellFormed, PassInv, RunInv, [Next]_vars
  PROVE  RunInv'
<1>1. CASE /\ phase \notin Running /\ phase' \notin Running
           /\ extents' = extents
  BY <1>1 DEF RunInv, Running
<1>2. ASSUME /\ phase = "run" /\ phase' \in {"trapped", "done"}
             /\ UNCHANGED <<body, length, known, extents>>
             /\ phase' = "done" => Len(extents) = Len(body)
      PROVE  RunInv'
  <2>1. ASSUME NEW v PROVE Recorded(v) => Recorded(v)'
    BY <1>2 DEF Recorded, Grounded, Value, Tensors, Indices, EntryDims,
       isEntrySequenceDim, isEqualityAssert
  <2> QED BY <1>2, <2>1 DEF RunInv, Running
<1>3. CASE Build
  BY <1>1, <1>3, BuildOnly DEF Running
<1>4. CASE \/ RunPass \/ validateE5Lengths \/ collectE5SequenceLengths
           \/ EndWalk \/ validateSpecializedBody \/ refineClone
  BY <1>1, <1>4 DEF Running, RunPass, validateE5Lengths,
     collectE5SequenceLengths, EndWalk, validateSpecializedBody, refineClone
<1>5. CASE Trap
  BY <1>2, <1>5 DEF Trap
<1>6. CASE Return
  <2>1. Len(extents) = Len(body)
    BY <1>6, ArgsRange DEF Return, Pc, RunInv, Running, WellFormed
  <2> QED BY <1>2, <1>6, <2>1 DEF Return
<1>7. CASE UNCHANGED vars
  BY <1>7 DEF vars, RunInv, Recorded, Grounded, Value, Tensors, Indices,
     EntryDims, isEntrySequenceDim, isEqualityAssert
<1> QED BY <1>3, <1>4, <1>5, <1>6, <1>7, EnterRunInv, ExecuteRunInv DEF Next

LEMMA NextWalkInv ==
  ASSUME WellFormed, PassInv, WalkInv, [Next]_vars PROVE WalkInv'
<1> USE DEF WalkInv, Validated, Running, IsE5Length
<1>1. CASE Build
  <2>1. Len(body) \in Nat /\ \A op : Len(Append(body, op)) = Len(body) + 1
    BY DEF WellFormed
  <2> QED BY <1>1, <2>1, BuildOnly
<1>2. CASE collectE5SequenceLengths
  <2>1. /\ phase' = "collect" /\ phase = "collect" /\ body' = body
        /\ length' = length /\ clone' = clone
    BY <1>2 DEF collectE5SequenceLengths
  <2>2. cursor' \in DOMAIN body
    BY <1>2 DEF collectE5SequenceLengths, Unvisited
  <2>3. changed' \in BOOLEAN
    BY <1>2 DEF collectE5SequenceLengths
  <2>4. cursor' \in 0..Len(body')
    BY <2>1, <2>2 DEF WellFormed
  <2> QED BY <2>1, <2>3, <2>4
<1>3. CASE refineClone
  <2>1. clone' = [v \in DOMAIN body |-> refineOp(body[v])]
    BY <1>3 DEF refineClone
  <2>2. [v \in DOMAIN body |-> refineOp(body[v])]' =
          [v \in DOMAIN body |-> refineOp(body[v])]
    BY <1>3 DEF refineClone, refineOp, dropSizes, isE5PositionSlice, SrcType
  <2> QED BY <1>3, <2>1, <2>2 DEF refineClone
<1>4. CASE \/ RunPass \/ validateE5Lengths \/ EndWalk
           \/ validateSpecializedBody
  <2>1. clone = <<>> /\ clone' = clone
    BY <1>4 DEF RunPass, validateE5Lengths, EndWalk, validateSpecializedBody
  <2>2. /\ body' = body /\ length' = length
        /\ cursor' \in {0, cursor} /\ changed' \in BOOLEAN
        /\ phase' \in {"collect", "validate"} \cup Validated => IsE5Length
    <3>1. CASE RunPass
      BY <3>1 DEF RunPass
    <3>2. CASE validateE5Lengths
      <4>1. length \in Nat
        BY LengthsAssumption DEF PassInv
      <4> QED BY <3>2, <4>1 DEF validateE5Lengths, kE5MaxSequenceLength
    <3>3. CASE EndWalk
      BY <3>3 DEF EndWalk
    <3>4. CASE validateSpecializedBody
      BY <3>4 DEF validateSpecializedBody
    <3> QED BY <1>4, <3>1, <3>2, <3>3, <3>4
  <2>3. 0 \in 0..Len(body)
    BY DEF WellFormed
  <2> QED BY <2>1, <2>2, <2>3
<1>5. CASE Enter \/ Execute \/ Trap \/ Return \/ UNCHANGED vars
  <2>1. /\ UNCHANGED <<body, length, cursor, changed, clone>>
        /\ \/ phase' = phase
           \/ /\ phase \in {"ready"} \cup Running
              /\ phase' \in {"ready"} \cup Running
    BY <1>5 DEF Enter, Execute, Trap, Return, vars
  <2>2. [v \in DOMAIN body |-> refineOp(body[v])]' =
          [v \in DOMAIN body |-> refineOp(body[v])]
    BY <2>1 DEF refineOp, dropSizes, isE5PositionSlice, SrcType
  <2> QED BY <2>1, <2>2
<1> QED BY <1>1, <1>2, <1>3, <1>4, <1>5 DEF Next

LEMMA InitIInv == Init => IInv
<1> SUFFICES ASSUME Init PROVE IInv
  OBVIOUS
<1>1. WellFormed /\ PassInv /\ RunInv
  BY InitWellFormed, InitPassInv
<1>2. 0 \in 0..Len(body)
  BY <1>1 DEF WellFormed
<1>3. WalkInv
  BY <1>2 DEF Init, WalkInv, Validated
<1> QED BY <1>1, <1>3 DEF IInv

LEMMA NextIInv == NestedAsserts = FALSE /\ IInv /\ [Next]_vars => IInv'
BY NextWellFormed, NextPassInv, NextRunInv, NextWalkInv DEF IInv

LEMMA SpecIInv == ASSUME NestedAsserts = FALSE PROVE Spec => []IInv
<1>1. IInv /\ [Next]_vars => IInv'
  BY NextIInv
<1> QED BY <1>1, InitIInv, PTL DEF Spec

-----------------------------------------------------------------------------
\* Every variable keeps its type, and a run executes a prefix of the body.
LEMMA TypeInv == IInv => TypeOK
<1> SUFFICES ASSUME IInv PROVE TypeOK
  OBVIOUS
<1>1. /\ phase \in Phases /\ length \in Lengths /\ known \subseteq DOMAIN body
      /\ cursor \in 0..Len(body) /\ changed \in BOOLEAN
  BY IndicesDomain DEF IInv, PassInv, WalkInv
<1>2. Len(extents) <= Len(body)
  BY DEF IInv, RunInv, WellFormed
<1>3. \A v \in DOMAIN body : body[v] \in OpSet
  BY DEF IInv, WellFormed
<1> QED BY <1>1, <1>2, <1>3 DEF TypeOK, OpSet

\* Every variable keeps its type through the pass and the run: a run has
\* executed a prefix of the body, and what is known are operations of it.
THEOREM TypeCorrect == ASSUME NestedAsserts = FALSE PROVE Spec => []TypeOK
BY SpecIInv, TypeInv, PTL

\* When a run returns, its index values are an assignment that satisfies the
\* asserts: what was proven of every such assignment holds of the run.
LEMMA RunHolds == ASSUME NestedAsserts = FALSE, IInv PROVE KnownHold
<1> SUFFICES ASSUME phase = "done" PROVE \A v \in known : Value(v) = length
  BY DEF KnownHold
<1> DEFINE rho == [v \in Indices |-> Value(v)]
<1>1. /\ extents \in Seq(Seq(Nat)) /\ Len(extents) = Len(body)
      /\ \A v \in DOMAIN extents : Recorded(v)
  BY DEF IInv, RunInv, Running
<1>2. DOMAIN extents = DOMAIN body
  BY <1>1 DEF IInv, WellFormed
<1>3. \A v \in Indices : Value(v) \in Nat
  BY <1>1, <1>2, IndicesDomain DEF Recorded, Value
<1>4. rho \in [Indices -> Nat]
  BY <1>3
<1>5. \A v \in EntryDims : rho[v] = length
  BY <1>1, <1>2, IndicesDomain DEF Recorded
<1>6. ASSUME NEW v \in DOMAIN body, isEqualityAssert(v)
      PROVE  rho[body[v].sizes[1]] = rho[body[v].sizes[2]]
  <2>1. body[v].sizes[1] \in Indices /\ body[v].sizes[2] \in Indices
    BY <1>6, AssertSides DEF IInv
  <2>2. ~ body[v].nested
    <3>1. v \in NArgs + 1..Len(body)
      BY <1>6, AssertSides DEF IInv
    <3>2. Follows(body[v], body, v - 1)
      BY <3>1 DEF IInv, WellFormed
    <3> QED BY <3>2, Zenon DEF Follows
  <2> QED BY <1>1, <1>2, <1>6, <2>1, <2>2 DEF Recorded
<1>7. Satisfies(rho)
  BY <1>5, <1>6 DEF Satisfies
<1>8. \A v \in known : rho[v] = length /\ v \in Indices
  BY <1>4, <1>7 DEF IInv, PassInv, Proven
<1> QED BY <1>8

\* On every run that returns, the values the pass took for the sequence
\* length have been the specialized length.
THEOREM KnownHoldTheorem ==
  ASSUME NestedAsserts = FALSE PROVE Spec => []KnownHold
BY SpecIInv, RunHolds, PTL

LEMMA RunAgrees ==
  ASSUME NestedAsserts = FALSE, IInv PROVE CloneAgrees
<1> SUFFICES ASSUME phase = "done", NEW v \in Tensors,
                    NEW k \in DOMAIN extents[v]
             PROVE  extents[v][k] = length
  BY DEF CloneAgrees
<1>1. v \in DOMAIN extents
  BY DEF IInv, RunInv, Running, Tensors, WellFormed
<1>2. Grounded(extents[v][k])
  BY <1>1 DEF IInv, RunInv, Running, Recorded
<1> QED BY <1>2, RunHolds DEF Grounded, KnownHold

\* A returning run of the generic function computes no extent that differs
\* from the length its clone was refined to.
THEOREM CloneAgreesTheorem ==
  ASSUME NestedAsserts = FALSE PROVE Spec => []CloneAgrees
BY SpecIInv, RunAgrees, PTL

\* What the collecting loop has gathered is equal to the sequence length, on
\* every assignment that passes the asserts, at every point of the loop.
THEOREM KnownAreProvenTheorem ==
  ASSUME NestedAsserts = FALSE PROVE Spec => []KnownAreProven
<1>1. IInv => KnownAreProven
  <2> SUFFICES ASSUME IInv PROVE Proven({length, length + 1})
    BY DEF KnownAreProven
  <2>1. {length, length + 1} \subseteq Nat
    BY LengthsAssumption DEF IInv, PassInv
  <2>2. [Indices -> {length, length + 1}] \subseteq [Indices -> Nat]
    BY <2>1
  <2> QED BY <2>2 DEF IInv, PassInv, Proven
<1> QED BY <1>1, SpecIInv, PTL

LEMMA RunSlices ==
  ASSUME NestedAsserts = FALSE, IInv PROVE SlicesInBounds
<1> SUFFICES ASSUME phase = "done", NEW v \in DOMAIN body,
                    body[v].name = "tensor.extract_slice"
             PROVE  body[v].attr + Value(v) <= kE5MaxSequenceLength
  BY DEF SlicesInBounds
<1> USE ArgsRange
<1>1. v \in NArgs + 1..Len(body) /\ body[v] \in OpSet
  BY DEF IInv, WellFormed, Op
<1>2. Follows(body[v], body, v - 1) /\ ValidOp(v)
  BY <1>1 DEF IInv, WellFormed, PassInv, Validated
<1>3. /\ body[v].type = I64(<<kBatch, Dyn>>) /\ body[v].type \in TypeSet
      /\ IsTensor(body[v].type)
  BY <1>1, <1>2 DEF Follows, OpSet, IndexNames
<1>4. isDynamicRankedTensor(body[v].type)
  BY <1>3, SliceCount, StaticCountZero DEF isDynamicRankedTensor
<1>5. Kind = "E5"
  BY <1>2, <1>4 DEF ValidOp, validateStageOp,
     hasDynamicTensorOperandOrResult, isAllowedDynamicTensorOp
<1>6. body[v].attr = 0
  BY <1>2, <1>5 DEF ValidOp, validateE5Op, validateE5ShapeOperation,
     isE5PositionSlice
<1>7. v \in Tensors /\ v \in DOMAIN extents
  BY <1>3 DEF Tensors, IInv, RunInv, Running, WellFormed
<1>8. extents[v] \in Seq(Nat) /\ Len(extents[v]) = 1
  BY <1>3, <1>7, SliceCount DEF IInv, RunInv, Running, Recorded
<1>9. Value(v) = length
  <2>1. 1 \in DOMAIN extents[v]
    BY <1>8
  <2>2. CloneAgrees
    BY RunAgrees
  <2> QED BY <1>7, <2>1, <2>2 DEF CloneAgrees, Value
<1>10. length <= kE5MaxSequenceLength /\ length \in Nat
  BY <1>5, LengthsAssumption DEF IInv, PassInv, WalkInv, IsE5Length, Validated
<1> QED BY <1>6, <1>9, <1>10 DEF kE5MaxSequenceLength

\* A position slice of a validated body never reads past the 512 rows.
THEOREM SlicesInBoundsTheorem ==
  ASSUME NestedAsserts = FALSE PROVE Spec => []SlicesInBounds
BY SpecIInv, RunSlices, PTL

LEMMA RunReshapes ==
  ASSUME NestedAsserts = FALSE, IInv PROVE ReshapesKeepCount
<1> SUFFICES ASSUME phase = "done", NEW v \in DOMAIN body,
                    body[v].name = "tensor.expand_shape"
             PROVE  Product(extents[v]) = Product(extents[body[v].src])
  BY DEF ReshapesKeepCount
<1> USE ArgsRange
<1> DEFINE op  == body[v]
           src == op.src
<1>1. v \in NArgs + 1..Len(body) /\ op \in OpSet
  BY DEF IInv, WellFormed, Op
<1>2. Follows(op, body, v - 1) /\ ValidOp(v)
  BY <1>1 DEF IInv, WellFormed, PassInv, Validated
<1>3. /\ src # 0 /\ src \in 1..v - 1 /\ IsTensor(op.type)
      /\ IsTensor(body[src].type) /\ ReshapeVerifies(body[src].type, op.type)
  BY <1>2 DEF Follows, IndexNames
<1>4. src \in DOMAIN body /\ v \in Tensors /\ src \in Tensors
  BY <1>1, <1>3 DEF Tensors, IInv, WellFormed
<1>5. /\ op.type \in TypeSet /\ body[src].type \in TypeSet
      /\ SrcType(op) = body[src].type
  <2>1. body[src] \in OpSet
    BY <1>4 DEF IInv, WellFormed
  <2> QED BY <1>1, <1>3, <2>1 DEF OpSet, SrcType
<1>6. /\ isDynamicRankedTensor(op.type) /\ isDynamicRankedTensor(SrcType(op))
      /\ hasDynamicTensorOperandOrResult(op)
  <2>1. countDynamicDims(body[src].type) \in 1..countDynamicDims(op.type)
    BY <1>3 DEF ReshapeVerifies
  <2>2. countDynamicDims(op.type) # 0 /\ countDynamicDims(body[src].type) # 0
    BY <1>5, <2>1, CountType
  <2> QED BY <1>3, <1>5, <2>2, StaticCountZero
          DEF isDynamicRankedTensor, hasDynamicTensorOperandOrResult
<1>7. countDynamicDims(op.type) = countDynamicDims(body[src].type)
  <2>1. CASE Kind = "E5"
    <3>1. isE5ExpandShapePair(body[src].type, op.type)
      BY <1>2, <1>5, <1>6, <2>1 DEF ValidOp, validateE5Op,
         validateE5ShapeOperation
    <3> QED BY <1>5, <3>1, ExpandPairCount
  <2>2. CASE Kind # "E5"
    <3>1. /\ isContractDynamicTensorType(op.type, contract)
          /\ isContractDynamicTensorType(body[src].type, contract)
      BY <1>2, <1>5, <1>6, <2>2 DEF ValidOp, validateStageOp,
         validateDynamicTensorValueTypes
    <3> QED BY <1>5, <2>2, <3>1, StageTypeCount
  <2> QED BY <2>1, <2>2
<1>8. v \in DOMAIN extents /\ src \in DOMAIN extents
  BY <1>4 DEF IInv, RunInv, Running, WellFormed
<1>9. /\ extents[v] \in Seq(Nat) /\ extents[src] \in Seq(Nat)
      /\ Len(extents[v]) = Len(extents[src])
  BY <1>4, <1>7, <1>8 DEF IInv, RunInv, Running, Recorded
<1>10. /\ \A k \in DOMAIN extents[v] : extents[v][k] = length
       /\ \A k \in DOMAIN extents[src] : extents[src][k] = length
  BY <1>4, RunAgrees DEF CloneAgrees
<1>11. extents[v] = extents[src]
  BY <1>9, <1>10
<1> QED BY <1>11

\* An expand_shape of a validated body keeps the number of elements.
THEOREM ReshapesKeepCountTheorem ==
  ASSUME NestedAsserts = FALSE PROVE Spec => []ReshapesKeepCount
BY SpecIInv, RunReshapes, PTL

-----------------------------------------------------------------------------
\* What refining does to a type the validators accept.
LEMMA RefinedStatic ==
  ASSUME NEW type \in TypeSet, NEW n \in Nat,
         isDynamicRankedTensor(type) =>
           isContractDynamicTensorType(type, contract)
  PROVE  /\ ~ isDynamicRankedTensor(refineTensorType(type, contract, n))
         /\ refineTensorType(type, contract, n).elem = type.elem
<1>1. CASE isContractDynamicTensorType(type, contract)
  <2> DEFINE new == [elem |-> type.elem, shape |-> StaticShape(type.shape, n)]
  <2>1. refineTensorType(type, contract, n) = new
    BY <1>1 DEF refineTensorType, TypeSet
  <2>2. \A axis \in DOMAIN new.shape : new.shape[axis] # Dyn
    BY DEF StaticShape, Dyn
  <2>3. DynamicAxes(new) = {}
    BY <2>2 DEF DynamicAxes
  <2> QED BY <2>1, <2>3 DEF isDynamicRankedTensor
<1>2. CASE ~ isContractDynamicTensorType(type, contract)
  BY <1>2 DEF refineTensorType
<1> QED BY <1>1, <1>2

\* An argument or a validated operation has only contract types.
LEMMA ValidTypes ==
  ASSUME IInv, phase \in Validated, NEW v \in DOMAIN body
  PROVE  /\ body[v] \in OpSet
         /\ isDynamicRankedTensor(body[v].type) =>
              isContractDynamicTensorType(body[v].type, contract)
<1>1. body[v] \in OpSet
  BY DEF IInv, WellFormed
<1>2. CASE v \in 1..NArgs
  <2>1. body[v].type = ArgType
    BY <1>2 DEF IInv, WellFormed, Op
  <2> QED BY <1>1, <2>1, KindAssumption
          DEF ArgType, isContractDynamicTensorType, isE5DynamicTensorType,
              E5I64Shapes, I64, F32, Tensor, contract, Contract, Kinds
<1>3. CASE v \in NArgs + 1..Len(body)
  <2>1. ValidOp(v) /\ Follows(body[v], body, v - 1)
    BY <1>3 DEF IInv, PassInv, WellFormed
  <2>2. CASE body[v].name = "tensor.extract_slice" /\ Kind = "E5"
    <3>1. body[v].type = I64(<<kBatch, Dyn>>)
      BY <2>1, <2>2 DEF Follows
    <3> QED BY <1>1, <2>2, <3>1
            DEF isContractDynamicTensorType, isE5DynamicTensorType,
                E5I64Shapes, I64, Tensor, contract, Contract
  <2>3. CASE ~ (body[v].name = "tensor.extract_slice" /\ Kind = "E5")
    BY <1>1, <2>1, <2>3 DEF ValidOp, validateE5Op, validateStageOp,
       hasDynamicTensorOperandOrResult, validateDynamicTensorValueTypes
  <2> QED BY <2>2, <2>3
<1> QED BY <1>2, <1>3, ArgsRange DEF IInv, WellFormed

LEMMA RefinedVerifies == IInv => CloneVerifies
<1> SUFFICES ASSUME IInv, NEW v \in DOMAIN clone
             PROVE  /\ ~ isDynamicRankedTensor(clone[v].type)
                    /\ clone[v].name \in {"tensor.empty", "tensor.expand_shape",
                                          "tensor.extract_slice"} =>
                         clone[v].sizes = <<>>
  BY DEF CloneVerifies
<1> USE ArgsRange
<1>1. CASE clone = <<>>
  BY <1>1
<1>2. CASE /\ phase \in {"ready"} \cup Running
           /\ clone = [w \in DOMAIN body |-> refineOp(body[w])]
  <2> DEFINE op   == body[v]
             type == refineTensorType(op.type, contract, length)
             new  == [name |-> op.name, type |-> type, src |-> op.src,
                      sizes |-> op.sizes, attr |-> op.attr,
                      nested |-> op.nested]
             bare == [name |-> op.name, type |-> type, src |-> op.src,
                      sizes |-> <<>>, attr |-> op.attr,
                      nested |-> op.nested]
  <2>1. v \in DOMAIN body /\ phase \in Validated
    BY <1>2 DEF Validated, Running
  <2>2. /\ op \in OpSet /\ op.type \in TypeSet /\ length \in Nat
        /\ ~ isDynamicRankedTensor(type) /\ type.elem = op.type.elem
    BY <2>1, ValidTypes, RefinedStatic, LengthsAssumption
       DEF OpSet, IInv, PassInv
  <2>3. clone[v] = dropSizes(new)
    BY <1>2, <2>1, <2>2 DEF refineOp, OpSet
  <2>4. clone[v] = new \/ clone[v] = bare
    BY <2>3 DEF dropSizes
  <2>5. ASSUME op.name \in {"tensor.empty", "tensor.expand_shape"}
        PROVE  clone[v].sizes = <<>>
    <3>1. v \in NArgs + 1..Len(body)
      BY <2>1, <2>5 DEF IInv, WellFormed, Op
    <3>2. IsTensor(op.type)
      BY <2>5, <3>1, Zenon DEF IInv, WellFormed, Follows, IndexNames
    <3>3. DynamicAxes(new.type) = {}
      BY <2>2, <3>2 DEF isDynamicRankedTensor, IsTensor
    <3> QED BY <2>3, <2>5, <3>3 DEF dropSizes
  <2>6. ASSUME op.name = "tensor.extract_slice"
        PROVE  clone[v].sizes = <<>>
    <3>1. v \in NArgs + 1..Len(body)
      BY <2>1, <2>6 DEF IInv, WellFormed, Op
    <3>2. ValidOp(v) /\ Follows(op, body, v - 1)
      BY <2>1, <3>1 DEF IInv, PassInv, WellFormed
    <3>3. /\ op.type = I64(<<kBatch, Dyn>>) /\ IsTensor(op.type)
          /\ Len(op.sizes) = 1 /\ op.src = 0
      BY <2>6, <3>2 DEF Follows, IndexNames
    <3>4. Kind = "E5"
      BY <2>2, <2>6, <3>2, <3>3, SliceCount, StaticCountZero
         DEF ValidOp, validateStageOp, hasDynamicTensorOperandOrResult,
             isAllowedDynamicTensorOp, isDynamicRankedTensor
    <3>5. op.attr = 0
      BY <2>6, <3>2, <3>4 DEF ValidOp, validateE5Op,
         validateE5ShapeOperation, isE5PositionSlice
    <3>6. type = I64(<<kBatch, length>>)
      BY <3>3, <3>4 DEF refineTensorType, isContractDynamicTensorType,
         isE5DynamicTensorType, E5I64Shapes, I64, Tensor, StaticShape,
         contract, Contract, Dyn, kBatch
    <3>7. isE5PositionSlice(new, length)
      BY <2>6, <3>3, <3>5, <3>6 DEF isE5PositionSlice, SrcType
    <3> QED BY <2>3, <3>4, <3>7 DEF dropSizes
  <2>7. clone[v].name = op.name /\ clone[v].type = type
    BY <2>4
  <2> QED BY <2>2, <2>5, <2>6, <2>7
<1> QED BY <1>1, <1>2 DEF IInv, WalkInv

\* The clone of a validated body passes the verifier.
THEOREM CloneVerifiesTheorem ==
  ASSUME NestedAsserts = FALSE PROVE Spec => []CloneVerifies
BY SpecIInv, RefinedVerifies, PTL

-----------------------------------------------------------------------------
(***************************************************************************)
(* The collecting loop stops only at its fixed point.  None of this asks   *)
(* where an assert sits.                                                   *)
(***************************************************************************)
\* The known values hold both sides of assert v or neither.
Balanced(v) == body[v].sizes[1] \in known <=> body[v].sizes[2] \in known

\* A walk that has changed nothing has found what it has passed balanced.
ClosedInv ==
  /\ length \in Lengths
  /\ cursor \in Nat
  /\ phase \in {"build", "lengths"} => cursor = 0
  /\ phase \in {"collect", "validate"} => EntryDims \subseteq known
  /\ phase = "collect" /\ ~ changed =>
       \A v \in DOMAIN body : isEqualityAssert(v) /\ v <= cursor => Balanced(v)
  /\ phase = "validate" /\ Kind = "E5" =>
       \A v \in DOMAIN body : isEqualityAssert(v) => Balanced(v)

LEMMA CollectClosedInv ==
  ASSUME WellFormed, ClosedInv, collectE5SequenceLengths
  PROVE  ClosedInv'
<1>1. PICK v \in Unvisited :
        /\ \A w \in Unvisited : v <= w
        /\ cursor' = v
        /\ known' = known \cup (IF body[v].sizes[1] \in known
                                  \/ body[v].sizes[2] \in known
                                THEN {body[v].sizes[1], body[v].sizes[2]}
                                ELSE {})
        /\ changed' = (changed \/
             ~ (IF body[v].sizes[1] \in known \/ body[v].sizes[2] \in known
                  THEN {body[v].sizes[1], body[v].sizes[2]}
                  ELSE {}) \subseteq known)
  BY DEF collectE5SequenceLengths
<1>2. phase = "collect" /\ UNCHANGED <<phase, body, length>>
  BY DEF collectE5SequenceLengths
<1>3. DOMAIN body \subseteq Nat /\ v \in DOMAIN body
  BY <1>1 DEF WellFormed, Unvisited
<1>4. EntryDims' = EntryDims
  BY <1>2 DEF EntryDims, isEntrySequenceDim
<1>5. ASSUME ~ changed', NEW w \in DOMAIN body, isEqualityAssert(w), w <= v
      PROVE  Balanced(w)'
  <2>1. ~ changed /\ known' = known
    BY <1>1, <1>5
  <2>2. CASE w <= cursor
    BY <1>2, <1>5, <2>1, <2>2 DEF ClosedInv, Balanced
  <2>3. CASE ~ w <= cursor
    <3>1. w \in Unvisited
      BY <1>3, <1>5, <2>3 DEF Unvisited, ClosedInv
    <3>2. w = v
      BY <1>1, <1>3, <1>5, <3>1
    <3>3. Balanced(v)
      BY <1>1, <1>5 DEF Balanced
    <3> QED BY <1>2, <2>1, <3>2, <3>3 DEF Balanced
  <2> QED BY <2>2, <2>3
<1>6. \A w \in DOMAIN body' :
        ~ changed' /\ isEqualityAssert(w)' /\ w <= cursor' => Balanced(w)'
  BY <1>1, <1>2, <1>5 DEF isEqualityAssert
<1>7. EntryDims' \subseteq known'
  BY <1>1, <1>2, <1>4 DEF ClosedInv
<1> QED BY <1>1, <1>2, <1>3, <1>6, <1>7 DEF ClosedInv

LEMMA EndWalkClosedInv ==
  ASSUME WellFormed, ClosedInv, EndWalk
  PROVE  ClosedInv'
<1>1. /\ phase = "collect" /\ Unvisited = {} /\ cursor' = 0
      /\ phase' = (IF changed THEN "collect" ELSE "validate")
      /\ UNCHANGED <<body, length, known>>
  BY DEF EndWalk
<1>2. DOMAIN body \subseteq Nat \ {0}
  BY DEF WellFormed
<1>3. EntryDims' \subseteq known'
  BY <1>1 DEF EntryDims, isEntrySequenceDim, ClosedInv
<1>4. \A v \in DOMAIN body : ~ v <= 0
  BY <1>2
<1>5. ASSUME ~ changed, NEW v \in DOMAIN body, isEqualityAssert(v)
      PROVE  Balanced(v)
  <2>1. v <= cursor
    BY <1>1, <1>2, <1>5 DEF Unvisited, ClosedInv
  <2> QED BY <1>1, <1>5, <2>1 DEF ClosedInv
<1>6. \A v \in DOMAIN body' :
        phase' = "validate" /\ isEqualityAssert(v)' => Balanced(v)'
  BY <1>1, <1>5 DEF isEqualityAssert, Balanced
<1> QED BY <1>1, <1>3, <1>4, <1>6 DEF ClosedInv

LEMMA NextClosedInv ==
  ASSUME WellFormed, ClosedInv, [Next]_vars PROVE ClosedInv'
<1>1. CASE Build
  <2>1. phase = "build" /\ UNCHANGED <<phase, length, cursor>>
    BY <1>1, BuildOnly
       DEF Build, AddDim, AddConstant, AddArith, AddAssert, AddEmpty,
           AddExpand, AddCollapse, AddSlice, AddLinalg, AddPad, AddOp
  <2> QED BY <2>1 DEF ClosedInv
<1>2. CASE RunPass
  BY <1>2 DEF RunPass, ClosedInv
<1>3. CASE validateE5Lengths
  <2>1. /\ cursor = 0 /\ UNCHANGED <<body, length, cursor, changed>>
        /\ phase' \in {"rejected", "collect", "validate"}
        /\ phase' = "validate" => Kind # "E5"
        /\ phase' # "rejected" => known' = EntryDims
    BY <1>3 DEF validateE5Lengths, ClosedInv
  <2>2. EntryDims' = EntryDims
    BY <2>1 DEF EntryDims, isEntrySequenceDim
  <2>3. \A v \in DOMAIN body : ~ v <= 0
    BY DEF WellFormed
  <2> QED BY <2>1, <2>2, <2>3 DEF ClosedInv
<1>4. CASE \/ validateSpecializedBody \/ refineClone \/ Enter \/ Execute
           \/ Trap \/ Return
  <2>1. /\ UNCHANGED <<length, cursor>>
        /\ phase' \in {"refine", "rejected", "ready", "run", "trapped", "done"}
    BY <1>4 DEF validateSpecializedBody, refineClone, Enter, Execute, Trap,
                Return
  <2> QED BY <2>1 DEF ClosedInv
<1>5. CASE UNCHANGED vars
  BY <1>5 DEF vars, ClosedInv, Balanced, isEqualityAssert, EntryDims,
              isEntrySequenceDim
<1> QED BY <1>1, <1>2, <1>3, <1>4, <1>5, CollectClosedInv, EndWalkClosedInv
        DEF Next

\* What is not known when the loop ends may differ from the length: give
\* every known value the length, and every other one the next number.
LEMMA ClosedIsAll == ASSUME WellFormed, ClosedInv PROVE KnownAreAll
<1> SUFFICES ASSUME phase = "validate", Kind = "E5", NEW v \in Indices,
                    v \notin known
             PROVE  \E rho \in [Indices -> {length, length + 1}] :
                      Satisfies(rho) /\ rho[v] # length
  BY DEF KnownAreAll
<1> DEFINE rho == [w \in Indices |-> IF w \in known THEN length ELSE length + 1]
<1>1. length \in Nat
  BY LengthsAssumption DEF ClosedInv
<1>2. rho \in [Indices -> {length, length + 1}]
  OBVIOUS
<1>3. \A w \in EntryDims : rho[w] = length
  BY IndicesDomain DEF ClosedInv
<1>4. ASSUME NEW w \in DOMAIN body, isEqualityAssert(w)
      PROVE  rho[body[w].sizes[1]] = rho[body[w].sizes[2]]
  <2>1. body[w].sizes[1] \in Indices /\ body[w].sizes[2] \in Indices
    BY <1>4, AssertSides
  <2>2. Balanced(w)
    BY <1>4 DEF ClosedInv
  <2> QED BY <2>1, <2>2 DEF Balanced
<1>5. Satisfies(rho)
  BY <1>3, <1>4 DEF Satisfies
<1>6. rho[v] # length
  BY <1>1
<1> QED BY <1>2, <1>5, <1>6

\* The collecting loop misses nothing: when validation begins, every index
\* value the asserts force to the sequence length is among the known ones,
\* whatever the order of the asserts and wherever they sit.
THEOREM KnownAreAllTheorem == Spec => []KnownAreAll
<1>1. Init => WellFormed /\ ClosedInv
  BY InitWellFormed DEF Init, ClosedInv
<1>2. WellFormed /\ ClosedInv /\ [Next]_vars => (WellFormed /\ ClosedInv)'
  BY NextWellFormed, NextClosedInv
<1>3. WellFormed /\ ClosedInv => KnownAreAll
  BY ClosedIsAll
<1> QED BY <1>1, <1>2, <1>3, PTL DEF Spec

=============================================================================
