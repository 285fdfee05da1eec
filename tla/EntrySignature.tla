---------------------------- MODULE EntrySignature ----------------------------
(***************************************************************************)
(* The signature checks of lib/ShortSeqSpecializePass.cpp.  Somebody       *)
(* writes an entry: a signature of one of the contracts, with some edits.  *)
(* validateEntry accepts or rejects it, and the static signatures of the   *)
(* clones are derived from it.                                             *)
(***************************************************************************)
EXTENDS TensorTypes

CONSTANTS
  OtherTypes,  \* types an edit may put in a signature
  Lengths,     \* lengths of the clones
  MaxEdits     \* bound on the edits

\* A ranked tensor type is its element type and its extents.
IsTensorType(type) ==
  /\ type = Tensor(type.elem, type.shape)
  /\ Len(type.shape) \in Nat
  /\ type.shape = [axis \in 1..Len(type.shape) |-> type.shape[axis]]

ASSUME LengthsAssumption    == Lengths \subseteq (Nat \ {0})
ASSUME OtherTypesAssumption == \A type \in OtherTypes : IsTensorType(type)
ASSUME MaxEditsAssumption   == MaxEdits \in Nat

VARIABLES
  sig,      \* the entry's function type
  kind,     \* the contract its markers select
  edits,    \* how many edits were made
  verdict,  \* what validateEntry said
  statics   \* length -> the clone's function type

vars == <<sig, kind, edits, verdict, statics>>

Repeat(type, n) == [i \in 1..n |-> type]

\* The reference signatures: README.md and the contracts under docs/.
SignatureOf(k) ==
  LET c == Contract(k)
      h == c.hidden
      m == c.intermediate
      activation == F32(<<1, Dyn, h>>)
  IN CASE k = "StageA" ->
            [inputs  |-> <<activation, F32(<<h, m>>), F32(<<m>>),
                           F32(<<m, h>>), F32(<<h>>)>>,
             results |-> <<activation>>]
       [] k = "StageB" ->
            [inputs  |-> <<activation>> \o Repeat(F32(<<h, h>>), 4)
                         \o Repeat(F32(<<h>>), 2)
                         \o <<F32(<<h, m>>), F32(<<m>>), F32(<<m, h>>),
                              F32(<<h>>)>>,
             results |-> <<activation>>]
       [] k = "E5" ->
            [inputs  |-> Repeat(I64(<<1, Dyn>>), 3),
             results |-> <<F32(<<1, 384>>)>>]

-----------------------------------------------------------------------------
\* One edit of the signature.
Edit(new) == /\ verdict = "open"
             /\ edits < MaxEdits
             /\ sig' = new
             /\ edits' = edits + 1
             /\ UNCHANGED <<kind, verdict, statics>>

Retype     == \E i \in DOMAIN sig.inputs, type \in OtherTypes :
                Edit([sig EXCEPT !.inputs[i] = type])
RetypeResult == \E i \in DOMAIN sig.results, type \in OtherTypes :
                  Edit([sig EXCEPT !.results[i] = type])
DropInput  == /\ sig.inputs # <<>>
              /\ Edit([sig EXCEPT !.inputs = Tail(@)])
AddInput   == \E type \in OtherTypes :
                Edit([sig EXCEPT !.inputs = Append(@, type)])
AddResult  == \E type \in OtherTypes :
                Edit([sig EXCEPT !.results = Append(@, type)])
DropResult == /\ sig.results # <<>>
              /\ Edit([sig EXCEPT !.results = Tail(@)])

-----------------------------------------------------------------------------
\* Mistake: the batch dimension is not tested.
validateSequenceOfAnyBatch(type, contract) ==
  /\ IsTensor(type)
  /\ type.elem = "f32"
  /\ Len(type.shape) = 3
  /\ countDynamicDims(type) = 1
  /\ type.shape[2] = Dyn
  /\ type.shape[3] = contract.hidden

\* The checks, in the order of the code.
validateSequenceInput(type, contract) ==
  /\ IsTensor(type)
  /\ type.elem = "f32"
  /\ Len(type.shape) = 3
  /\ countDynamicDims(type) = 1
  /\ type.shape[1] = kBatch
  /\ type.shape[2] = Dyn
  /\ type.shape[3] = contract.hidden

validateE5SequenceInput(type) ==
  /\ IsTensor(type)
  /\ type.elem = "i64"
  /\ Len(type.shape) = 2
  /\ type.shape[1] = kBatch
  /\ type.shape[2] = Dyn

\* Parameters follow the first input.
Parameters(s) == Tail(s.inputs)

validateStageAMlpEntry(s) ==
  LET c == Contract("StageA")
  IN /\ Len(s.inputs) = 5
     /\ Len(s.results) = 1
     /\ validateSequenceInput(s.inputs[1], c)
     /\ Parameters(s) = <<F32(<<c.hidden, c.intermediate>>),
                          F32(<<c.intermediate>>),
                          F32(<<c.intermediate, c.hidden>>),
                          F32(<<c.hidden>>)>>
     /\ s.results[1] = F32(<<kBatch, Dyn, c.hidden>>)

validateStageBTinyEncoderEntry(s) ==
  LET c == Contract("StageB")
      hiddenByHidden == F32(<<c.hidden, c.hidden>>)
      hiddenVector   == F32(<<c.hidden>>)
  IN /\ Len(s.inputs) = 11
     /\ Len(s.results) = 1
     /\ validateSequenceInput(s.inputs[1], c)
     /\ Parameters(s) = <<hiddenByHidden, hiddenByHidden, hiddenByHidden,
                          hiddenByHidden, hiddenVector, hiddenVector,
                          F32(<<c.hidden, c.intermediate>>),
                          F32(<<c.intermediate>>),
                          F32(<<c.intermediate, c.hidden>>), hiddenVector>>
     /\ s.results[1] = F32(<<kBatch, Dyn, c.hidden>>)

validateE5Entry(s) ==
  /\ Len(s.inputs) = 3
  /\ Len(s.results) = 1
  /\ \A i \in 1..3 : validateE5SequenceInput(s.inputs[i])
  /\ s.results[1] = F32(<<kBatch, kE5Hidden>>)

Accepts(s, k) == CASE k = "StageA" -> validateStageAMlpEntry(s)
                   [] k = "StageB" -> validateStageBTinyEncoderEntry(s)
                   [] k = "E5"     -> validateE5Entry(s)

validateEntry ==
  /\ verdict = "open"
  /\ verdict' = IF Accepts(sig, kind) THEN "accepted" ELSE "rejected"
  /\ UNCHANGED <<sig, kind, edits, statics>>

\* One function type for each clone.
Specialize ==
  /\ verdict = "accepted"
  /\ statics = <<>>
  /\ statics' = [n \in Lengths |->
                   getStaticFunctionType(sig, Contract(kind), n)]
  /\ UNCHANGED <<sig, kind, edits, verdict>>

Init == /\ kind \in Kinds
        /\ \E k \in Kinds : sig = SignatureOf(k)
        /\ edits = 0
        /\ verdict = "open"
        /\ statics = <<>>

Next == \/ Retype \/ RetypeResult \/ DropInput \/ AddInput \/ AddResult
        \/ DropResult \/ validateEntry \/ Specialize

Spec == Init /\ [][Next]_vars

-----------------------------------------------------------------------------
\* The chain of checks accepts the documented signature and no other,
\* whatever the edits that led to it.
AcceptsOnlyContract ==
  /\ verdict = "accepted" => sig = SignatureOf(kind)
  /\ verdict = "rejected" => sig # SignatureOf(kind)

\* A clone's signature is static, and what the wrapper passes fits it: it
\* casts the sequence arguments from ? to the length and gives the others as
\* they are; a result differs only by that cast.
StaticSignatureFits ==
  \A n \in DOMAIN statics :
    LET static == statics[n]
        isCast(from, to) == /\ to.elem = from.elem
                            /\ to.shape = StaticShape(from.shape, n)
    IN /\ \A i \in DOMAIN sig.inputs :
            IF i \in Contract(kind).sequenceArguments
              THEN isCast(sig.inputs[i], static.inputs[i])
              ELSE static.inputs[i] = sig.inputs[i]
       /\ \A i \in DOMAIN sig.inputs : ~ isDynamicRankedTensor(static.inputs[i])
       /\ isCast(sig.results[1], static.results[1])

=============================================================================
