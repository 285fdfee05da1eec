----------------------------- MODULE TensorTypes -----------------------------
(***************************************************************************)
(* The tensor types and contracts of lib/ShortSeqSpecializePass.cpp: which *)
(* dynamic types a contract knows, how a type is refined to a static       *)
(* sequence length, and which reshapes the E5 validator accepts.           *)
(*                                                                         *)
(* A ranked tensor type is a record with an element type and a shape; an   *)
(* extent of Dyn stands for ShapedType::kDynamic.  Whatever the pass's     *)
(* dyn_cast<RankedTensorType> refuses (index, f32, memref, unranked) is    *)
(* the one value NotATensor.  Function arguments count from 1 here and     *)
(* from 0 in the code.                                                     *)
(***************************************************************************)
EXTENDS Integers, Sequences, FiniteSets

kBatch               == 1
kE5Hidden            == 384
kE5Intermediate      == 1536
kE5Heads             == 12
kE5HeadSize          == 32
kE5MaxSequenceLength == 512
kDefaultLength       == 16
kSequenceAxis        == 1

Kinds == {"StageA", "StageB", "E5"}

\* The three contracts; sequenceArguments are the arguments whose axis 1 is
\* the sequence.
Contract(kind) ==
  CASE kind = "StageA" -> [kind |-> "StageA", hidden |-> 384,
                           intermediate |-> 1536, sequenceArguments |-> {1}]
    [] kind = "StageB" -> [kind |-> "StageB", hidden |-> 64,
                           intermediate |-> 256, sequenceArguments |-> {1}]
    [] kind = "E5"     -> [kind |-> "E5", hidden |-> kE5Hidden,
                           intermediate |-> kE5Intermediate,
                           sequenceArguments |-> 1..3]

-----------------------------------------------------------------------------
Dyn == -1

Tensor(elem, shape) == [elem |-> elem, shape |-> shape]
F32(shape)          == Tensor("f32", shape)
I64(shape)          == Tensor("i64", shape)
NotATensor          == Tensor("none", <<>>)

IsTensor(type) == type.elem # "none"

DynamicAxes(type)      == {axis \in DOMAIN type.shape : type.shape[axis] = Dyn}
countDynamicDims(type) == Cardinality(DynamicAxes(type))

isDynamicRankedTensor(type) == IsTensor(type) /\ DynamicAxes(type) # {}

-----------------------------------------------------------------------------
\* The dynamic types of each contract.
E5I64Shapes == {<<kBatch, Dyn>>, <<kBatch, 1, 1, Dyn>>,
                <<kBatch, kE5Heads, Dyn>>, <<Dyn>>}

E5I1Shapes == {<<kBatch, Dyn>>}

E5F32Shapes ==
  {<<kE5Heads, kE5HeadSize, Dyn>>, <<kE5Heads, Dyn, kE5HeadSize>>,
   <<kE5Heads, Dyn, Dyn>>,
   <<kBatch, kE5Heads, kE5HeadSize, Dyn>>, <<kBatch, kE5Heads, Dyn, 1>>,
   <<kBatch, kE5Heads, Dyn, kE5HeadSize>>, <<kBatch, kE5Heads, Dyn, Dyn>>,
   <<kBatch, kE5Heads, Dyn>>, <<kBatch, 1, 1, Dyn>>,
   <<kBatch, Dyn, kE5Heads, kE5HeadSize>>, <<kBatch, Dyn, kE5Intermediate>>,
   <<kBatch, Dyn, 1>>, <<kBatch, Dyn, kE5Hidden>>, <<kBatch, Dyn>>,
   <<Dyn, kE5Hidden>>}

isE5DynamicTensorType(type) ==
  \/ type.elem = "i64" /\ type.shape \in E5I64Shapes
  \/ type.elem = "i1"  /\ type.shape \in E5I1Shapes
  \/ type.elem = "f32" /\ type.shape \in E5F32Shapes

isContractEmptyTensorType(type, contract) ==
  /\ type.elem = "f32"
  /\ type.shape \in {<<Dyn, contract.hidden>>, <<Dyn, contract.intermediate>>}

isContractDynamicTensorType(type, contract) ==
  IF contract.kind = "E5"
    THEN isE5DynamicTensorType(type)
    ELSE \/ type = F32(<<kBatch, Dyn, contract.hidden>>)
         \/ isContractEmptyTensorType(type, contract)

-----------------------------------------------------------------------------
\* Refinement to a static length.  A type outside the contract is returned
\* as it is, dynamic extents included.
StaticShape(shape, length) ==
  [axis \in DOMAIN shape |-> IF shape[axis] = Dyn THEN length ELSE shape[axis]]

refineTensorType(type, contract, length) ==
  IF isContractDynamicTensorType(type, contract)
    THEN [type EXCEPT !.shape = StaticShape(@, length)]
    ELSE type

\* Mistake: the results keep their types.
getStaticInputsOnly(sig, contract, length) ==
  [sig EXCEPT !.inputs = [i \in DOMAIN sig.inputs |->
                            refineTensorType(sig.inputs[i], contract, length)]]

getStaticFunctionType(sig, contract, length) ==
  [inputs  |-> [i \in DOMAIN sig.inputs |->
                  refineTensorType(sig.inputs[i], contract, length)],
   results |-> [i \in DOMAIN sig.results |->
                  refineTensorType(sig.results[i], contract, length)]]

-----------------------------------------------------------------------------
\* The source and result shapes of the reshapes the E5 validator accepts.
E5ExpandI64 == {<< <<kBatch, Dyn>>, <<kBatch, 1, 1, Dyn>> >>}

E5ExpandF32 ==
  {<< <<Dyn, kE5Hidden>>, <<kBatch, Dyn, kE5Hidden>> >>,
   << <<kBatch, Dyn, kE5Hidden>>, <<kBatch, Dyn, kE5Heads, kE5HeadSize>> >>,
   << <<kE5Heads, Dyn, Dyn>>, <<kBatch, kE5Heads, Dyn, Dyn>> >>,
   << <<kBatch, kE5Heads, Dyn>>, <<kBatch, kE5Heads, Dyn, 1>> >>,
   << <<kE5Heads, Dyn, kE5HeadSize>>,
      <<kBatch, kE5Heads, Dyn, kE5HeadSize>> >>,
   << <<kBatch, Dyn>>, <<kBatch, Dyn, 1>> >>}

E5CollapseI64 == {<< <<kBatch, Dyn>>, <<Dyn>> >>}

E5CollapseF32 ==
  {<< <<kBatch, kE5Heads, Dyn, kE5HeadSize>>,
      <<kE5Heads, Dyn, kE5HeadSize>> >>,
   << <<kBatch, kE5Heads, kE5HeadSize, Dyn>>,
      <<kE5Heads, kE5HeadSize, Dyn>> >>,
   << <<kBatch, kE5Heads, Dyn, Dyn>>, <<kE5Heads, Dyn, Dyn>> >>,
   << <<kBatch, Dyn, kE5Heads, kE5HeadSize>>, <<kBatch, Dyn, kE5Hidden>> >>}

isE5ExpandShapePair(source, result) ==
  /\ source.elem = result.elem
  /\ \/ source.elem = "i64" /\ <<source.shape, result.shape>> \in E5ExpandI64
     \/ source.elem = "f32" /\ <<source.shape, result.shape>> \in E5ExpandF32

isE5CollapseShapePair(source, result) ==
  /\ source.elem = result.elem
  /\ \/ source.elem = "i64" /\ <<source.shape, result.shape>> \in E5CollapseI64
     \/ source.elem = "f32" /\ <<source.shape, result.shape>> \in E5CollapseF32

=============================================================================
