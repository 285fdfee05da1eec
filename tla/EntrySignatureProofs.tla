------------------------- MODULE EntrySignatureProofs -------------------------
(***************************************************************************)
(* For every list of edits with whatever tensor types, and for every       *)
(* length: validateEntry accepts the signature of the contract and no      *)
(* other, and the clone's signature is the static one the wrapper casts to. *)
(***************************************************************************)
EXTENDS EntrySignature, SequenceLemmas, FiniteSetTheorems

IsSignature(s) ==
  /\ s = [inputs |-> s.inputs, results |-> s.results]
  /\ IsSeq(s.inputs) /\ IsSeq(s.results)
  /\ \A i \in 1..Len(s.inputs) : IsTensorType(s.inputs[i])
  /\ \A i \in 1..Len(s.results) : IsTensorType(s.results[i])

StaticsOf(s, k) == [n \in Lengths |-> getStaticFunctionType(s, Contract(k), n)]

IInv ==
  /\ kind \in Kinds
  /\ IsSignature(sig)
  /\ verdict \in {"open", "accepted", "rejected"}
  /\ AcceptsOnlyContract
  /\ \/ statics = <<>>
     \/ verdict = "accepted" /\ statics = StaticsOf(sig, kind)

-----------------------------------------------------------------------------
\* The types of the contracts are tensor types.
LEMMA TypeOfShape ==
  ASSUME NEW elem, NEW shape, IsSeq(shape)
  PROVE  /\ IsTensorType(Tensor(elem, shape))
         /\ Tensor(elem, shape).elem = elem /\ Tensor(elem, shape).shape = shape
  BY DEF IsTensorType, Tensor, IsSeq

LEMMA Types ==
  ASSUME NEW a, NEW b
  PROVE  /\ IsTensorType(F32(<<a>>)) /\ IsTensorType(F32(<<a, b>>)) /\ IsTensorType(I64(<<a, b>>))
  BY TypeOfShape, SingletonIsSeq, PairIsSeq DEF F32, I64

LEMMA Activations ==
  ASSUME NEW a, NEW b, NEW c
  PROVE  IsTensorType(F32(<<a, b, c>>))
  BY TypeOfShape, TripleIsSeq DEF F32

\* The contract's constants.
LEMMA Contracts ==
  /\ Contract("StageA").hidden = 384 /\ Contract("StageA").intermediate = 1536
  /\ Contract("StageB").hidden = 64 /\ Contract("StageB").intermediate = 256
  /\ Contract("StageA").kind = "StageA" /\ Contract("StageB").kind = "StageB"
  /\ Contract("E5").kind = "E5" /\ Contract("E5").hidden = 384
  /\ Contract("StageA").sequenceArguments = {1} /\ Contract("StageB").sequenceArguments = {1}
  /\ Contract("E5").sequenceArguments = 1..3
  BY DEF Contract, kE5Hidden

\* A list and its first element and rest.
IsCons(u, a, t) ==
  /\ IsSeq(u) /\ IsSeq(t) /\ Len(u) = Len(t) + 1 /\ u[1] = a
  /\ \A i \in 1..Len(t) : u[i + 1] = t[i]

LEMMA ConsUnique ==
  ASSUME NEW s, NEW u, NEW a, NEW t, IsSeq(s), Len(s) = Len(u), IsCons(u, a, t)
  PROVE  s = u <=> s[1] = a /\ Tail(s) = t
<1>1. /\ IsSeq(u) /\ IsSeq(t) /\ Len(u) = Len(t) + 1 /\ u[1] = a /\ Len(t) \in Nat
      /\ \A i \in 1..Len(t) : u[i + 1] = t[i]
  BY DEF IsCons, IsSeq
<1>2. Len(s) # 0
  BY <1>1
<1>3. /\ IsSeq(Tail(s)) /\ Len(Tail(s)) = Len(s) - 1
      /\ \A i \in 1..Len(s) - 1 : Tail(s)[i] = s[i + 1]
  BY <1>2, TailIsSeq
<1>4. ASSUME s = u PROVE s[1] = a /\ Tail(s) = t
  <2>1. Len(Tail(s)) = Len(t) /\ \A i \in 1..Len(t) : Tail(s)[i] = t[i]
    BY <1>1, <1>3, <1>4
  <2> QED BY <1>1, <1>3, <1>4, <2>1, EqualSeqs
<1>5. ASSUME s[1] = a, Tail(s) = t PROVE s = u
  <2>1. ASSUME NEW i \in 1..Len(s) PROVE s[i] = u[i]
    <3>1. CASE i = 1
      BY <3>1, <1>1, <1>5
    <3>2. CASE i # 1
      <4>1. i - 1 \in 1..Len(t) /\ (i - 1) + 1 = i
        BY <1>1, <3>2
      <4>2. s[i] = Tail(s)[i - 1]
        BY <1>1, <1>3, <4>1
      <4>3. u[i] = t[i - 1]
        BY <1>1, <4>1
      <4> QED BY <1>5, <4>2, <4>3
    <3> QED BY <3>1, <3>2
  <2> QED BY <1>1, <2>1, EqualSeqs
<1> QED BY <1>4, <1>5

LEMMA OneResult ==
  ASSUME NEW s, NEW r, IsSeq(s), Len(s) = 1
  PROVE  s = <<r>> <=> s[1] = r
<1>1. IsSeq(<<r>>) /\ Len(<<r>>) = 1 /\ <<r>>[1] = r
  BY SingletonIsSeq
<1>2. ASSUME s[1] = r PROVE s = <<r>>
  <2>1. \A i \in 1..Len(s) : s[i] = <<r>>[i]
    BY <1>1, <1>2
  <2> QED BY <1>1, <2>1, EqualSeqs
<1> QED BY <1>1, <1>2

\* The checks of one input accept one type.
LEMMA SequenceInputType ==
  ASSUME NEW type, NEW c, IsTensorType(type), c.hidden \in Nat
  PROVE  validateSequenceInput(type, c) <=> type = F32(<<kBatch, Dyn, c.hidden>>)
<1> DEFINE shape == <<kBatch, Dyn, c.hidden>>
<1>1. /\ IsSeq(shape) /\ Len(shape) = 3
      /\ shape[1] = kBatch /\ shape[2] = Dyn /\ shape[3] = c.hidden
  BY TripleIsSeq
<1>2. type = Tensor(type.elem, type.shape) /\ IsSeq(type.shape)
  BY DEF IsTensorType, IsSeq
<1> HIDE DEF shape
<1>3. ASSUME validateSequenceInput(type, c) PROVE type = F32(shape)
  <2>1. type.elem = "f32" /\ Len(type.shape) = 3 /\ type.shape[1] = kBatch
        /\ type.shape[2] = Dyn /\ type.shape[3] = c.hidden
    BY <1>3 DEF validateSequenceInput
  <2>2. \A i \in 1..Len(type.shape) : type.shape[i] = shape[i]
    BY <1>1, <2>1
  <2>3. type.shape = shape
    BY <1>1, <1>2, <2>1, <2>2, EqualSeqs
  <2> QED BY <1>2, <2>1, <2>3 DEF F32
<1>4. ASSUME type = F32(shape) PROVE validateSequenceInput(type, c)
  <2>1. type.elem = "f32" /\ type.shape = shape
    BY <1>4 DEF F32, Tensor
  <2>2. DynamicAxes(type) = {2}
    <3>1. DOMAIN shape = {1, 2, 3}
      BY <1>1 DEF IsSeq
    <3> QED BY <2>1, <3>1, <1>1 DEF DynamicAxes, Dyn, kBatch
  <2>3. countDynamicDims(type) = 1
    BY <2>2, FS_Singleton DEF countDynamicDims
  <2> QED BY <1>1, <2>1, <2>3 DEF validateSequenceInput, IsTensor
<1> QED BY <1>3, <1>4 DEF shape

LEMMA E5InputType ==
  ASSUME NEW type, IsTensorType(type)
  PROVE  validateE5SequenceInput(type) <=> type = I64(<<kBatch, Dyn>>)
<1> DEFINE shape == <<kBatch, Dyn>>
<1>1. IsSeq(shape) /\ Len(shape) = 2 /\ shape[1] = kBatch /\ shape[2] = Dyn
  BY PairIsSeq
<1>2. type = Tensor(type.elem, type.shape) /\ IsSeq(type.shape)
  BY DEF IsTensorType, IsSeq
<1> HIDE DEF shape
<1>3. ASSUME validateE5SequenceInput(type) PROVE type = I64(shape)
  <2>1. type.elem = "i64" /\ Len(type.shape) = 2 /\ type.shape[1] = kBatch /\ type.shape[2] = Dyn
    BY <1>3 DEF validateE5SequenceInput
  <2>2. \A i \in 1..Len(type.shape) : type.shape[i] = shape[i]
    BY <1>1, <2>1
  <2>3. type.shape = shape
    BY <1>1, <1>2, <2>1, <2>2, EqualSeqs
  <2> QED BY <1>2, <2>1, <2>3 DEF I64
<1>4. ASSUME type = I64(shape) PROVE validateE5SequenceInput(type)
  <2>1. type.elem = "i64" /\ type.shape = shape
    BY <1>4 DEF I64, Tensor
  <2> QED BY <1>1, <2>1 DEF validateE5SequenceInput, IsTensor
<1> QED BY <1>3, <1>4 DEF shape

-----------------------------------------------------------------------------
\* The parameters of a reference signature, as the validators list them.
StageAParameters ==
  LET c == Contract("StageA")
  IN <<F32(<<c.hidden, c.intermediate>>), F32(<<c.intermediate>>),
       F32(<<c.intermediate, c.hidden>>), F32(<<c.hidden>>)>>

StageBParameters ==
  LET c == Contract("StageB")
      hiddenByHidden == F32(<<c.hidden, c.hidden>>)
      hiddenVector   == F32(<<c.hidden>>)
  IN <<hiddenByHidden, hiddenByHidden, hiddenByHidden, hiddenByHidden, hiddenVector, hiddenVector,
       F32(<<c.hidden, c.intermediate>>), F32(<<c.intermediate>>),
       F32(<<c.intermediate, c.hidden>>), hiddenVector>>

Activation(k) == F32(<<1, Dyn, Contract(k).hidden>>)

LEMMA FourIsSeq ==
  ASSUME NEW a, NEW b, NEW c, NEW d
  PROVE  /\ IsSeq(<<a, b, c, d>>) /\ Len(<<a, b, c, d>>) = 4
         /\ <<a, b, c, d>>[1] = a /\ <<a, b, c, d>>[2] = b
         /\ <<a, b, c, d>>[3] = c /\ <<a, b, c, d>>[4] = d
<1>1. <<a, b, c, d>> \in Seq({a, b, c, d})
  OBVIOUS
<1> QED BY <1>1, SeqIsSeq

LEMMA FiveIsSeq ==
  ASSUME NEW a, NEW b, NEW c, NEW d, NEW e
  PROVE  /\ IsSeq(<<a, b, c, d, e>>) /\ Len(<<a, b, c, d, e>>) = 5
         /\ <<a, b, c, d, e>>[1] = a /\ <<a, b, c, d, e>>[2] = b
         /\ <<a, b, c, d, e>>[3] = c /\ <<a, b, c, d, e>>[4] = d /\ <<a, b, c, d, e>>[5] = e
<1>1. <<a, b, c, d, e>> \in Seq({a, b, c, d, e})
  OBVIOUS
<1> QED BY <1>1, SeqIsSeq

LEMMA TenIsSeq ==
  ASSUME NEW a, NEW b, NEW c, NEW d, NEW e, NEW f, NEW g, NEW h, NEW i, NEW j,
         NEW t, t = <<a, b, c, d, e, f, g, h, i, j>>
  PROVE  /\ IsSeq(t) /\ Len(t) = 10
         /\ t[1] = a /\ t[2] = b /\ t[3] = c /\ t[4] = d /\ t[5] = e
         /\ t[6] = f /\ t[7] = g /\ t[8] = h /\ t[9] = i /\ t[10] = j
<1>1. t \in Seq({a, b, c, d, e, f, g, h, i, j})
  OBVIOUS
<1> QED BY <1>1, SeqIsSeq

LEMMA RepeatIsSeq ==
  ASSUME NEW type, NEW n \in Nat
  PROVE  IsSeq(Repeat(type, n)) /\ Len(Repeat(type, n)) = n /\ \A i \in 1..n : Repeat(type, n)[i] = type
<1> DEFINE r == [i \in 1..n |-> type]
<1>1. r = [i \in 1..n |-> r[i]] /\ \A i \in 1..n : r[i] = type
  OBVIOUS
<1>2. r = Repeat(type, n)
  BY DEF Repeat
<1> HIDE DEF r
<1>3. IsSeq(r) /\ Len(r) = n
  BY <1>1, FunctionIsSeq
<1> QED BY <1>1, <1>2, <1>3

LEMMA StageASignature ==
  /\ IsCons(SignatureOf("StageA").inputs, Activation("StageA"), StageAParameters)
  /\ Len(SignatureOf("StageA").inputs) = 5
  /\ SignatureOf("StageA").results = <<Activation("StageA")>>
  /\ SignatureOf("StageA") = [inputs |-> SignatureOf("StageA").inputs, results |-> SignatureOf("StageA").results]
<1> DEFINE c == Contract("StageA")
           p1 == F32(<<c.hidden, c.intermediate>>)
           p2 == F32(<<c.intermediate>>)
           p3 == F32(<<c.intermediate, c.hidden>>)
           p4 == F32(<<c.hidden>>)
           act == Activation("StageA")
           u == <<act, p1, p2, p3, p4>>
           t == <<p1, p2, p3, p4>>
<1>1. SignatureOf("StageA") = [inputs |-> u, results |-> <<act>>]
  BY DEF SignatureOf, Activation
<1>2. StageAParameters = t
  BY DEF StageAParameters
<1> HIDE DEF c, p1, p2, p3, p4, act
<1>3. IsSeq(u) /\ Len(u) = 5 /\ u[1] = act /\ u[2] = p1 /\ u[3] = p2 /\ u[4] = p3 /\ u[5] = p4
  BY FiveIsSeq
<1>4. IsSeq(t) /\ Len(t) = 4 /\ t[1] = p1 /\ t[2] = p2 /\ t[3] = p3 /\ t[4] = p4
  BY FourIsSeq
<1> HIDE DEF u, t
<1>5. \A i \in 1..4 : u[i + 1] = t[i]
  <2> TAKE i \in 1..4
  <2>1. i = 1 \/ i = 2 \/ i = 3 \/ i = 4
    OBVIOUS
  <2> QED BY <1>3, <1>4, <2>1
<1>6. IsCons(u, act, t)
  BY <1>3, <1>4, <1>5 DEF IsCons
<1> QED BY <1>1, <1>2, <1>3, <1>6 DEF act

LEMMA StageBSignature ==
  /\ IsCons(SignatureOf("StageB").inputs, Activation("StageB"), StageBParameters)
  /\ Len(SignatureOf("StageB").inputs) = 11
  /\ SignatureOf("StageB").results = <<Activation("StageB")>>
  /\ SignatureOf("StageB") = [inputs |-> SignatureOf("StageB").inputs, results |-> SignatureOf("StageB").results]
<1> DEFINE c == Contract("StageB")
           hh == F32(<<c.hidden, c.hidden>>)
           v == F32(<<c.hidden>>)
           p1 == F32(<<c.hidden, c.intermediate>>)
           p2 == F32(<<c.intermediate>>)
           p3 == F32(<<c.intermediate, c.hidden>>)
           act == Activation("StageB")
           r == Repeat(hh, 4)
           q == Repeat(v, 2)
           z == <<p1, p2, p3, v>>
           a1 == <<act>> \o r
           a2 == a1 \o q
           u == a2 \o z
           t == <<hh, hh, hh, hh, v, v, p1, p2, p3, v>>
<1>1. SignatureOf("StageB") = [inputs |-> u, results |-> <<act>>]
  BY DEF SignatureOf, Activation
<1>2. StageBParameters = t
  BY DEF StageBParameters
<1> HIDE DEF c, hh, v, p1, p2, p3, act
<1>3. IsSeq(<<act>>) /\ Len(<<act>>) = 1 /\ <<act>>[1] = act
  BY SingletonIsSeq
<1>4. IsSeq(r) /\ Len(r) = 4 /\ \A i \in 1..4 : r[i] = hh
  BY RepeatIsSeq
<1>5. IsSeq(q) /\ Len(q) = 2 /\ \A i \in 1..2 : q[i] = v
  BY RepeatIsSeq
<1>6. IsSeq(z) /\ Len(z) = 4 /\ z[1] = p1 /\ z[2] = p2 /\ z[3] = p3 /\ z[4] = v
  BY FourIsSeq
<1>7. IsSeq(t) /\ Len(t) = 10
      /\ t[1] = hh /\ t[2] = hh /\ t[3] = hh /\ t[4] = hh /\ t[5] = v
      /\ t[6] = v /\ t[7] = p1 /\ t[8] = p2 /\ t[9] = p3 /\ t[10] = v
  BY TenIsSeq
<1> HIDE DEF t, z, q, r
<1>8. /\ IsSeq(a1) /\ Len(a1) = Len(<<act>>) + Len(r)
      /\ \A i \in 1..Len(<<act>>) : a1[i] = <<act>>[i]
      /\ \A i \in Len(<<act>>) + 1..Len(<<act>>) + Len(r) : a1[i] = r[i - Len(<<act>>)]
  BY <1>3, <1>4, ConcatIsSeq
<1> HIDE DEF a1
<1>9. IsSeq(a1) /\ Len(a1) = 5 /\ a1[1] = act /\ \A i \in 2..5 : a1[i] = hh
  BY <1>3, <1>4, <1>8
<1>10. /\ IsSeq(a2) /\ Len(a2) = Len(a1) + Len(q)
       /\ \A i \in 1..Len(a1) : a2[i] = a1[i]
       /\ \A i \in Len(a1) + 1..Len(a1) + Len(q) : a2[i] = q[i - Len(a1)]
  BY <1>5, <1>9, ConcatIsSeq
<1> HIDE DEF a2
<1>11. IsSeq(a2) /\ Len(a2) = 7 /\ a2[1] = act /\ (\A i \in 2..5 : a2[i] = hh) /\ \A i \in 6..7 : a2[i] = v
  BY <1>5, <1>9, <1>10
<1>12. /\ IsSeq(u) /\ Len(u) = Len(a2) + Len(z)
       /\ \A i \in 1..Len(a2) : u[i] = a2[i]
       /\ \A i \in Len(a2) + 1..Len(a2) + Len(z) : u[i] = z[i - Len(a2)]
  BY <1>6, <1>11, ConcatIsSeq
<1> HIDE DEF u
<1>13. IsSeq(u) /\ Len(u) = 11 /\ u[1] = act /\ (\A i \in 2..5 : u[i] = hh) /\ (\A i \in 6..7 : u[i] = v)
  BY <1>6, <1>11, <1>12
<1>14. u[8] = p1 /\ u[9] = p2 /\ u[10] = p3 /\ u[11] = v
  <2>1. \A i \in 8..11 : u[i] = z[i - 7]
    BY <1>6, <1>11, <1>12
  <2>2. u[8] = z[1] /\ u[9] = z[2] /\ u[10] = z[3] /\ u[11] = z[4]
    BY <2>1
  <2> QED BY <2>2, <1>6
<1>15. \A i \in 1..10 : u[i + 1] = t[i]
  <2> TAKE i \in 1..10
  <2>1. CASE i \in 1..4
    <3>1. i + 1 \in 2..5 /\ (i = 1 \/ i = 2 \/ i = 3 \/ i = 4)
      BY <2>1
    <3> QED BY <3>1, <1>7, <1>13
  <2>2. CASE i \in 5..6
    <3>1. i + 1 \in 6..7 /\ (i = 5 \/ i = 6)
      BY <2>2
    <3> QED BY <3>1, <1>7, <1>13
  <2>3. CASE i \in 7..10
    <3>1. i = 7 \/ i = 8 \/ i = 9 \/ i = 10
      BY <2>3
    <3> QED BY <3>1, <1>7, <1>14
  <2> QED BY <2>1, <2>2, <2>3
<1>16. IsCons(u, act, t)
  BY <1>7, <1>13, <1>15 DEF IsCons
<1> QED BY <1>1, <1>2, <1>13, <1>16 DEF act

LEMMA E5Signature ==
  /\ IsSeq(SignatureOf("E5").inputs) /\ Len(SignatureOf("E5").inputs) = 3
  /\ \A i \in 1..3 : SignatureOf("E5").inputs[i] = I64(<<1, Dyn>>)
  /\ SignatureOf("E5").results = <<F32(<<1, 384>>)>>
  /\ SignatureOf("E5") = [inputs |-> SignatureOf("E5").inputs, results |-> SignatureOf("E5").results]
<1>1. SignatureOf("E5") = [inputs |-> Repeat(I64(<<1, Dyn>>), 3), results |-> <<F32(<<1, 384>>)>>]
  BY DEF SignatureOf
<1>2. /\ IsSeq(Repeat(I64(<<1, Dyn>>), 3)) /\ Len(Repeat(I64(<<1, Dyn>>), 3)) = 3
      /\ \A i \in 1..3 : Repeat(I64(<<1, Dyn>>), 3)[i] = I64(<<1, Dyn>>)
  BY RepeatIsSeq
<1> QED BY <1>1, <1>2

-----------------------------------------------------------------------------
LEMMA SameSignature ==
  ASSUME NEW s, NEW u,
         s = [inputs |-> s.inputs, results |-> s.results],
         u = [inputs |-> u.inputs, results |-> u.results]
  PROVE  s = u <=> s.inputs = u.inputs /\ s.results = u.results
  OBVIOUS

\* The chain of checks of each contract is equality with its signature.
LEMMA AcceptsStageA ==
  ASSUME NEW s, IsSignature(s)
  PROVE  validateStageAMlpEntry(s) <=> s = SignatureOf("StageA")
<1> DEFINE u == SignatureOf("StageA")
           act == Activation("StageA")
           t == StageAParameters
<1>1. IsCons(u.inputs, act, t) /\ Len(u.inputs) = 5 /\ u.results = <<act>>
      /\ u = [inputs |-> u.inputs, results |-> u.results]
  BY StageASignature
<1>2. IsSeq(s.inputs) /\ IsSeq(s.results) /\ s = [inputs |-> s.inputs, results |-> s.results]
  BY DEF IsSignature
<1>3. Len(s.inputs) = 5 => (validateSequenceInput(s.inputs[1], Contract("StageA")) <=> s.inputs[1] = act)
  <2> SUFFICES ASSUME Len(s.inputs) = 5
               PROVE  validateSequenceInput(s.inputs[1], Contract("StageA")) <=> s.inputs[1] = act
    OBVIOUS
  <2>1. IsTensorType(s.inputs[1])
    BY DEF IsSignature
  <2>2. act = F32(<<kBatch, Dyn, Contract("StageA").hidden>>)
    BY DEF Activation, kBatch
  <2>3. Contract("StageA").hidden \in Nat
    BY Contracts
  <2> QED BY <2>1, <2>2, <2>3, SequenceInputType
<1>4. act = F32(<<kBatch, Dyn, Contract("StageA").hidden>>)
  BY DEF Activation, kBatch
<1>5. validateStageAMlpEntry(s) <=>
        /\ Len(s.inputs) = 5 /\ Len(s.results) = 1
        /\ validateSequenceInput(s.inputs[1], Contract("StageA"))
        /\ Tail(s.inputs) = t
        /\ s.results[1] = act
  BY <1>4 DEF validateStageAMlpEntry, Parameters, StageAParameters
<1>6. s = u <=> s.inputs = u.inputs /\ s.results = <<act>>
  BY <1>1, <1>2, SameSignature
<1> HIDE DEF u, act, t
<1>7. Len(s.inputs) = 5 => (s.inputs = u.inputs <=> s.inputs[1] = act /\ Tail(s.inputs) = t)
  BY <1>1, <1>2, ConsUnique
<1>8. Len(s.results) = 1 => (s.results = <<act>> <=> s.results[1] = act)
  BY <1>2, OneResult
<1>9. Len(<<act>>) = 1
  BY SingletonIsSeq
<1>10. s = u => Len(s.inputs) = 5 /\ Len(s.results) = 1
  BY <1>1, <1>6, <1>9
<1>11. ASSUME s = u PROVE validateStageAMlpEntry(s)
  BY <1>3, <1>5, <1>6, <1>7, <1>8, <1>10, <1>11
<1>12. ASSUME validateStageAMlpEntry(s) PROVE s = u
  BY <1>3, <1>5, <1>6, <1>7, <1>8, <1>12
<1> QED BY <1>11, <1>12 DEF u

LEMMA AcceptsStageB ==
  ASSUME NEW s, IsSignature(s)
  PROVE  validateStageBTinyEncoderEntry(s) <=> s = SignatureOf("StageB")
<1> DEFINE u == SignatureOf("StageB")
           act == Activation("StageB")
           t == StageBParameters
<1>1. IsCons(u.inputs, act, t) /\ Len(u.inputs) = 11 /\ u.results = <<act>>
      /\ u = [inputs |-> u.inputs, results |-> u.results]
  BY StageBSignature
<1>2. IsSeq(s.inputs) /\ IsSeq(s.results) /\ s = [inputs |-> s.inputs, results |-> s.results]
  BY DEF IsSignature
<1>3. Len(s.inputs) = 11 => (validateSequenceInput(s.inputs[1], Contract("StageB")) <=> s.inputs[1] = act)
  <2> SUFFICES ASSUME Len(s.inputs) = 11
               PROVE  validateSequenceInput(s.inputs[1], Contract("StageB")) <=> s.inputs[1] = act
    OBVIOUS
  <2>1. IsTensorType(s.inputs[1])
    BY DEF IsSignature
  <2>2. act = F32(<<kBatch, Dyn, Contract("StageB").hidden>>)
    BY DEF Activation, kBatch
  <2>3. Contract("StageB").hidden \in Nat
    BY Contracts
  <2> QED BY <2>1, <2>2, <2>3, SequenceInputType
<1>4. act = F32(<<kBatch, Dyn, Contract("StageB").hidden>>)
  BY DEF Activation, kBatch
<1>5. validateStageBTinyEncoderEntry(s) <=>
        /\ Len(s.inputs) = 11 /\ Len(s.results) = 1
        /\ validateSequenceInput(s.inputs[1], Contract("StageB"))
        /\ Tail(s.inputs) = t
        /\ s.results[1] = act
  BY <1>4 DEF validateStageBTinyEncoderEntry, Parameters, StageBParameters
<1>6. s = u <=> s.inputs = u.inputs /\ s.results = <<act>>
  BY <1>1, <1>2, SameSignature
<1> HIDE DEF u, act, t
<1>7. Len(s.inputs) = 11 => (s.inputs = u.inputs <=> s.inputs[1] = act /\ Tail(s.inputs) = t)
  BY <1>1, <1>2, ConsUnique
<1>8. Len(s.results) = 1 => (s.results = <<act>> <=> s.results[1] = act)
  BY <1>2, OneResult
<1>9. Len(<<act>>) = 1
  BY SingletonIsSeq
<1>10. s = u => Len(s.inputs) = 11 /\ Len(s.results) = 1
  BY <1>1, <1>6, <1>9
<1>11. ASSUME s = u PROVE validateStageBTinyEncoderEntry(s)
  BY <1>3, <1>5, <1>6, <1>7, <1>8, <1>10, <1>11
<1>12. ASSUME validateStageBTinyEncoderEntry(s) PROVE s = u
  BY <1>3, <1>5, <1>6, <1>7, <1>8, <1>12
<1> QED BY <1>11, <1>12 DEF u

LEMMA AcceptsE5 ==
  ASSUME NEW s, IsSignature(s)
  PROVE  validateE5Entry(s) <=> s = SignatureOf("E5")
<1> DEFINE u == SignatureOf("E5")
           a == I64(<<1, Dyn>>)
           r == F32(<<1, 384>>)
<1>1. /\ IsSeq(u.inputs) /\ Len(u.inputs) = 3 /\ u.results = <<r>>
      /\ \A i \in 1..3 : u.inputs[i] = a
      /\ u = [inputs |-> u.inputs, results |-> u.results]
  BY E5Signature
<1>2. IsSeq(s.inputs) /\ IsSeq(s.results) /\ s = [inputs |-> s.inputs, results |-> s.results]
  BY DEF IsSignature
<1>3. r = F32(<<kBatch, kE5Hidden>>) /\ a = I64(<<kBatch, Dyn>>)
  BY DEF kBatch, kE5Hidden
<1> HIDE DEF u, r, a
<1>4. Len(s.inputs) = 3 => \A i \in 1..3 : validateE5SequenceInput(s.inputs[i]) <=> s.inputs[i] = a
  BY <1>3, E5InputType DEF IsSignature
<1>5. validateE5Entry(s) <=> /\ Len(s.inputs) = 3 /\ Len(s.results) = 1
                             /\ \A i \in 1..3 : validateE5SequenceInput(s.inputs[i])
                             /\ s.results[1] = r
  BY <1>3 DEF validateE5Entry
<1>6. s = u <=> s.inputs = u.inputs /\ s.results = <<r>>
  BY <1>1, <1>2, SameSignature
<1>7. Len(s.inputs) = 3 => (s.inputs = u.inputs <=> \A i \in 1..3 : s.inputs[i] = a)
  <2>1. ASSUME Len(s.inputs) = 3, \A i \in 1..3 : s.inputs[i] = a PROVE s.inputs = u.inputs
    <3>1. \A i \in 1..Len(s.inputs) : s.inputs[i] = u.inputs[i]
      BY <1>1, <2>1
    <3> QED BY <1>1, <1>2, <2>1, <3>1, EqualSeqs
  <2> QED BY <1>1, <2>1
<1>8. Len(s.results) = 1 => (s.results = <<r>> <=> s.results[1] = r)
  BY <1>2, OneResult
<1>9. Len(<<r>>) = 1
  BY SingletonIsSeq
<1>10. s = u => Len(s.inputs) = 3 /\ Len(s.results) = 1
  BY <1>1, <1>6, <1>9
<1>11. ASSUME s = u PROVE validateE5Entry(s)
  BY <1>4, <1>5, <1>6, <1>7, <1>8, <1>10, <1>11
<1>12. ASSUME validateE5Entry(s) PROVE s = u
  BY <1>4, <1>5, <1>6, <1>7, <1>8, <1>12
<1> QED BY <1>11, <1>12 DEF u

LEMMA AcceptsOne ==
  ASSUME NEW s, IsSignature(s), NEW k \in Kinds
  PROVE  Accepts(s, k) <=> s = SignatureOf(k)
<1>1. CASE k = "StageA"
  BY <1>1, AcceptsStageA DEF Accepts
<1>2. CASE k = "StageB"
  BY <1>2, AcceptsStageB DEF Accepts
<1>3. CASE k = "E5"
  BY <1>3, AcceptsE5 DEF Accepts
<1> QED BY <1>1, <1>2, <1>3 DEF Kinds

LEMMA ReferenceIsSignature == ASSUME NEW k \in Kinds PROVE IsSignature(SignatureOf(k))
<1>1. CASE k = "StageA"
  <2> DEFINE u == SignatureOf("StageA")
             act == Activation("StageA")
             t == StageAParameters
  <2>1. IsCons(u.inputs, act, t) /\ Len(u.inputs) = 5 /\ u.results = <<act>>
        /\ u = [inputs |-> u.inputs, results |-> u.results]
    BY StageASignature
  <2>2. IsTensorType(act)
    BY Activations DEF Activation
  <2>3. Len(t) = 4 /\ IsTensorType(t[1]) /\ IsTensorType(t[2]) /\ IsTensorType(t[3]) /\ IsTensorType(t[4])
    BY FourIsSeq, Types DEF StageAParameters
  <2> HIDE DEF u, act, t
  <2>4. ASSUME NEW i \in 1..Len(u.inputs) PROVE IsTensorType(u.inputs[i])
    <3>1. CASE i = 1
      BY <3>1, <2>1, <2>2 DEF IsCons
    <3>2. CASE i # 1
      <4>1. i - 1 \in 1..Len(t) /\ (i - 1) + 1 = i /\ (i - 1 = 1 \/ i - 1 = 2 \/ i - 1 = 3 \/ i - 1 = 4)
        BY <2>1, <2>3, <3>2
      <4>2. u.inputs[i] = t[i - 1]
        BY <2>1, <4>1 DEF IsCons
      <4> QED BY <2>3, <4>1, <4>2
    <3> QED BY <3>1, <3>2
  <2>5. IsSeq(u.results) /\ \A i \in 1..Len(u.results) : IsTensorType(u.results[i])
    BY <2>1, <2>2, SingletonIsSeq
  <2> QED BY <1>1, <2>1, <2>4, <2>5 DEF IsSignature, IsCons, u
<1>2. CASE k = "StageB"
  <2> DEFINE u == SignatureOf("StageB")
             act == Activation("StageB")
             t == StageBParameters
  <2>1. IsCons(u.inputs, act, t) /\ Len(u.inputs) = 11 /\ u.results = <<act>>
        /\ u = [inputs |-> u.inputs, results |-> u.results]
    BY StageBSignature
  <2>2. IsTensorType(act)
    BY Activations DEF Activation
  <2>3. Len(t) = 10 /\ \A i \in 1..10 : IsTensorType(t[i])
    <3> DEFINE c == Contract("StageB")
               hh == F32(<<c.hidden, c.hidden>>)
               v == F32(<<c.hidden>>)
               p1 == F32(<<c.hidden, c.intermediate>>)
               p2 == F32(<<c.intermediate>>)
               p3 == F32(<<c.intermediate, c.hidden>>)
    <3>1. IsTensorType(hh) /\ IsTensorType(v) /\ IsTensorType(p1) /\ IsTensorType(p2) /\ IsTensorType(p3)
      BY Types
    <3>2. t = <<hh, hh, hh, hh, v, v, p1, p2, p3, v>>
      BY DEF StageBParameters
    <3> HIDE DEF c, hh, v, p1, p2, p3, t
    <3>3. /\ Len(t) = 10
          /\ t[1] = hh /\ t[2] = hh /\ t[3] = hh /\ t[4] = hh /\ t[5] = v
          /\ t[6] = v /\ t[7] = p1 /\ t[8] = p2 /\ t[9] = p3 /\ t[10] = v
      BY <3>2, TenIsSeq
    <3>4. ASSUME NEW i \in 1..10 PROVE IsTensorType(t[i])
      <4>1. \/ i = 1 \/ i = 2 \/ i = 3 \/ i = 4 \/ i = 5 \/ i = 6 \/ i = 7 \/ i = 8 \/ i = 9 \/ i = 10
        OBVIOUS
      <4> QED BY <3>1, <3>3, <4>1
    <3> QED BY <3>3, <3>4
  <2> HIDE DEF u, act, t
  <2>4. ASSUME NEW i \in 1..Len(u.inputs) PROVE IsTensorType(u.inputs[i])
    <3>1. CASE i = 1
      BY <3>1, <2>1, <2>2 DEF IsCons
    <3>2. CASE i # 1
      <4>1. i - 1 \in 1..Len(t) /\ (i - 1) + 1 = i
        BY <2>1, <2>3, <3>2
      <4>2. u.inputs[i] = t[i - 1]
        BY <2>1, <4>1 DEF IsCons
      <4> QED BY <2>3, <4>1, <4>2
    <3> QED BY <3>1, <3>2
  <2>5. IsSeq(u.results) /\ \A i \in 1..Len(u.results) : IsTensorType(u.results[i])
    BY <2>1, <2>2, SingletonIsSeq
  <2> QED BY <1>2, <2>1, <2>4, <2>5 DEF IsSignature, IsCons, u
<1>3. CASE k = "E5"
  <2> DEFINE u == SignatureOf("E5")
  <2>1. /\ IsSeq(u.inputs) /\ Len(u.inputs) = 3 /\ u.results = <<F32(<<1, 384>>)>>
        /\ \A i \in 1..3 : u.inputs[i] = I64(<<1, Dyn>>)
        /\ u = [inputs |-> u.inputs, results |-> u.results]
    BY E5Signature
  <2>2. IsTensorType(F32(<<1, 384>>)) /\ IsTensorType(I64(<<1, Dyn>>))
    BY Types
  <2> HIDE DEF u
  <2>3. IsSeq(u.results) /\ \A i \in 1..Len(u.results) : IsTensorType(u.results[i])
    BY <2>1, <2>2, SingletonIsSeq
  <2> QED BY <1>3, <2>1, <2>2, <2>3 DEF IsSignature, u
<1> QED BY <1>1, <1>2, <1>3 DEF Kinds

-----------------------------------------------------------------------------
\* A type without a dynamic extent.
Static(type) == IsTensorType(type) /\ \A axis \in DOMAIN type.shape : type.shape[axis] # Dyn

LEMMA StaticTypes ==
  ASSUME NEW a \in Nat, NEW b \in Nat
  PROVE  Static(F32(<<a>>)) /\ Static(F32(<<a, b>>))
<1>1. a # Dyn /\ b # Dyn
  BY DEF Dyn
<1>2. IsTensorType(F32(<<a>>)) /\ IsTensorType(F32(<<a, b>>))
  BY Types
<1>3. \A axis \in DOMAIN <<a>> : <<a>>[axis] # Dyn
  <2>1. DOMAIN <<a>> = {1} /\ <<a>>[1] = a
    BY SingletonIsSeq DEF IsSeq
  <2> QED BY <1>1, <2>1
<1>4. \A axis \in DOMAIN <<a, b>> : <<a, b>>[axis] # Dyn
  <2>1. DOMAIN <<a, b>> = {1, 2} /\ <<a, b>>[1] = a /\ <<a, b>>[2] = b
    BY PairIsSeq DEF IsSeq
  <2> QED BY <1>1, <2>1
<1>5. F32(<<a>>).shape = <<a>> /\ F32(<<a, b>>).shape = <<a, b>>
  BY DEF F32, Tensor
<1> QED BY <1>2, <1>3, <1>4, <1>5 DEF Static

\* What refinement makes of a type the contract knows, and of a static one.
LEMMA Refined ==
  ASSUME NEW type, IsTensorType(type), NEW c, NEW n \in Nat \ {0},
         isContractDynamicTensorType(type, c) \/ Static(type),
         NEW refined, refined = refineTensorType(type, c, n)
  PROVE  /\ refined.elem = type.elem
         /\ refined.shape = StaticShape(type.shape, n)
         /\ ~ isDynamicRankedTensor(refined)
         /\ Static(type) => refined = type
<1>1. type = [elem |-> type.elem, shape |-> type.shape]
  BY DEF IsTensorType, Tensor
<1>2. type.shape = [axis \in 1..Len(type.shape) |-> type.shape[axis]]
  BY DEF IsTensorType
<1>3. Static(type) => StaticShape(type.shape, n) = type.shape
  <2> SUFFICES ASSUME Static(type) PROVE StaticShape(type.shape, n) = type.shape
    OBVIOUS
  <2> DEFINE shape == type.shape
  <2>1. shape = [axis \in DOMAIN shape |-> shape[axis]]
    BY <1>2
  <2>2. \A axis \in DOMAIN shape : shape[axis] # Dyn
    BY DEF Static
  <2> QED BY <2>1, <2>2 DEF StaticShape
<1>4. CASE isContractDynamicTensorType(type, c)
  <2>1. refined = [type EXCEPT !.shape = StaticShape(type.shape, n)]
    BY <1>4 DEF refineTensorType
  <2>2. refined = [elem |-> type.elem, shape |-> StaticShape(type.shape, n)]
    BY <1>1, <2>1
  <2>3. Static(type) => refined = type
    BY <1>1, <1>3, <2>2
  <2>4. \A axis \in DOMAIN StaticShape(type.shape, n) : StaticShape(type.shape, n)[axis] # Dyn
    BY DEF StaticShape, Dyn
  <2>5. ~ isDynamicRankedTensor(refined)
    BY <2>2, <2>4 DEF isDynamicRankedTensor, DynamicAxes
  <2> QED BY <2>2, <2>3, <2>5
<1>5. CASE ~ isContractDynamicTensorType(type, c)
  <2>1. refined = type /\ Static(type)
    BY <1>5 DEF refineTensorType
  <2>2. ~ isDynamicRankedTensor(refined)
    BY <2>1 DEF isDynamicRankedTensor, DynamicAxes, Static
  <2> QED BY <1>3, <2>1, <2>2
<1> QED BY <1>4, <1>5

\* The sequence arguments of a contract's signature are types the contract
\* knows, the others are static, and so is its result one or the other.
LEMMA Roles ==
  ASSUME NEW k \in Kinds
  PROVE  /\ \A i \in 1..Len(SignatureOf(k).inputs) :
              IF i \in Contract(k).sequenceArguments
                THEN isContractDynamicTensorType(SignatureOf(k).inputs[i], Contract(k))
                ELSE Static(SignatureOf(k).inputs[i])
         /\ Len(SignatureOf(k).results) = 1
         /\ \/ isContractDynamicTensorType(SignatureOf(k).results[1], Contract(k))
            \/ Static(SignatureOf(k).results[1])
<1>1. CASE k = "StageA"
  <2> DEFINE u == SignatureOf("StageA")
             act == Activation("StageA")
             t == StageAParameters
  <2>1. IsCons(u.inputs, act, t) /\ Len(u.inputs) = 5 /\ u.results = <<act>>
    BY StageASignature
  <2>2. isContractDynamicTensorType(act, Contract("StageA"))
    BY Contracts DEF Activation, isContractDynamicTensorType, kBatch
  <2>3. Len(t) = 4 /\ Static(t[1]) /\ Static(t[2]) /\ Static(t[3]) /\ Static(t[4])
    BY FourIsSeq, StaticTypes, Contracts DEF StageAParameters
  <2> HIDE DEF u, act, t
  <2>4. ASSUME NEW i \in 1..Len(u.inputs)
        PROVE  IF i \in {1} THEN isContractDynamicTensorType(u.inputs[i], Contract("StageA"))
                            ELSE Static(u.inputs[i])
    <3>1. CASE i = 1
      BY <3>1, <2>1, <2>2 DEF IsCons
    <3>2. CASE i # 1
      <4>1. i - 1 \in 1..Len(t) /\ (i - 1) + 1 = i /\ (i - 1 = 1 \/ i - 1 = 2 \/ i - 1 = 3 \/ i - 1 = 4)
        BY <2>1, <2>3, <3>2
      <4>2. u.inputs[i] = t[i - 1]
        BY <2>1, <4>1 DEF IsCons
      <4> QED BY <2>3, <3>2, <4>1, <4>2
    <3> QED BY <3>1, <3>2
  <2>5. Len(u.results) = 1 /\ u.results[1] = act
    BY <2>1, SingletonIsSeq
  <2> QED BY <1>1, <2>2, <2>4, <2>5, Contracts DEF u
<1>2. CASE k = "StageB"
  <2> DEFINE u == SignatureOf("StageB")
             act == Activation("StageB")
             t == StageBParameters
  <2>1. IsCons(u.inputs, act, t) /\ Len(u.inputs) = 11 /\ u.results = <<act>>
    BY StageBSignature
  <2>2. isContractDynamicTensorType(act, Contract("StageB"))
    BY Contracts DEF Activation, isContractDynamicTensorType, kBatch
  <2>3. Len(t) = 10 /\ \A i \in 1..10 : Static(t[i])
    <3> DEFINE c == Contract("StageB")
               hh == F32(<<c.hidden, c.hidden>>)
               v == F32(<<c.hidden>>)
               p1 == F32(<<c.hidden, c.intermediate>>)
               p2 == F32(<<c.intermediate>>)
               p3 == F32(<<c.intermediate, c.hidden>>)
    <3>1. c.hidden \in Nat /\ c.intermediate \in Nat
      BY Contracts
    <3>2. Static(hh) /\ Static(v) /\ Static(p1) /\ Static(p2) /\ Static(p3)
      BY <3>1, StaticTypes
    <3>3. t = <<hh, hh, hh, hh, v, v, p1, p2, p3, v>>
      BY DEF StageBParameters
    <3> HIDE DEF c, hh, v, p1, p2, p3, t
    <3>4. /\ Len(t) = 10
          /\ t[1] = hh /\ t[2] = hh /\ t[3] = hh /\ t[4] = hh /\ t[5] = v
          /\ t[6] = v /\ t[7] = p1 /\ t[8] = p2 /\ t[9] = p3 /\ t[10] = v
      BY <3>3, TenIsSeq
    <3>5. ASSUME NEW i \in 1..10 PROVE Static(t[i])
      <4>1. \/ i = 1 \/ i = 2 \/ i = 3 \/ i = 4 \/ i = 5 \/ i = 6 \/ i = 7 \/ i = 8 \/ i = 9 \/ i = 10
        OBVIOUS
      <4> QED BY <3>2, <3>4, <4>1
    <3> QED BY <3>4, <3>5
  <2> HIDE DEF u, act, t
  <2>4. ASSUME NEW i \in 1..Len(u.inputs)
        PROVE  IF i \in {1} THEN isContractDynamicTensorType(u.inputs[i], Contract("StageB"))
                            ELSE Static(u.inputs[i])
    <3>1. CASE i = 1
      BY <3>1, <2>1, <2>2 DEF IsCons
    <3>2. CASE i # 1
      <4>1. i - 1 \in 1..Len(t) /\ (i - 1) + 1 = i
        BY <2>1, <2>3, <3>2
      <4>2. u.inputs[i] = t[i - 1]
        BY <2>1, <4>1 DEF IsCons
      <4> QED BY <2>3, <3>2, <4>1, <4>2
    <3> QED BY <3>1, <3>2
  <2>5. Len(u.results) = 1 /\ u.results[1] = act
    BY <2>1, SingletonIsSeq
  <2> QED BY <1>2, <2>2, <2>4, <2>5, Contracts DEF u
<1>3. CASE k = "E5"
  <2> DEFINE u == SignatureOf("E5")
  <2>1. /\ Len(u.inputs) = 3 /\ u.results = <<F32(<<1, 384>>)>>
        /\ \A i \in 1..3 : u.inputs[i] = I64(<<1, Dyn>>)
    BY E5Signature
  <2>2. isContractDynamicTensorType(I64(<<1, Dyn>>), Contract("E5"))
    <3>1. I64(<<1, Dyn>>).elem = "i64" /\ I64(<<1, Dyn>>).shape = <<1, Dyn>>
      BY DEF I64, Tensor
    <3>2. <<1, Dyn>> \in E5I64Shapes
      BY DEF E5I64Shapes, kBatch
    <3> QED BY <3>1, <3>2, Contracts DEF isContractDynamicTensorType, isE5DynamicTensorType
  <2>3. Static(F32(<<1, 384>>))
    <3>1. PICK a \in Nat, b \in Nat : a = 1 /\ b = 384
      OBVIOUS
    <3>2. Static(F32(<<a, b>>))
      BY StaticTypes
    <3> QED BY <3>1, <3>2
  <2> HIDE DEF u
  <2>4. Len(u.results) = 1 /\ Static(u.results[1])
    BY <2>1, <2>3, SingletonIsSeq
  <2>5. \A i \in 1..Len(u.inputs) :
          i \in Contract("E5").sequenceArguments /\ isContractDynamicTensorType(u.inputs[i], Contract("E5"))
    BY <2>1, <2>2, Contracts
  <2> QED BY <1>3, <2>4, <2>5 DEF u
<1> QED BY <1>1, <1>2, <1>3 DEF Kinds

-----------------------------------------------------------------------------
\* The signatures derived from an accepted entry.
LEMMA DerivedFit ==
  ASSUME IInv, verdict = "accepted", statics = StaticsOf(sig, kind)
  PROVE  StaticSignatureFits
<1> DEFINE c == Contract(kind)
<1>1. sig = SignatureOf(kind) /\ kind \in Kinds /\ IsSignature(sig)
  BY DEF IInv, AcceptsOnlyContract
<1>2. /\ IsSeq(sig.inputs) /\ IsSeq(sig.results)
      /\ DOMAIN sig.inputs = 1..Len(sig.inputs) /\ DOMAIN sig.results = 1..Len(sig.results)
      /\ \A i \in 1..Len(sig.inputs) : IsTensorType(sig.inputs[i])
      /\ \A i \in 1..Len(sig.results) : IsTensorType(sig.results[i])
  BY <1>1 DEF IsSignature, IsSeq
<1>3. /\ \A i \in 1..Len(sig.inputs) :
           IF i \in c.sequenceArguments
             THEN isContractDynamicTensorType(sig.inputs[i], c)
             ELSE Static(sig.inputs[i])
      /\ Len(sig.results) = 1
      /\ isContractDynamicTensorType(sig.results[1], c) \/ Static(sig.results[1])
  BY <1>1, Roles
<1>4. DOMAIN statics = Lengths /\ \A n \in Lengths : statics[n] = getStaticFunctionType(sig, c, n)
  BY DEF StaticsOf
<1>5. ASSUME NEW n \in Lengths
      PROVE  LET static == statics[n]
                 isCast(from, to) == to.elem = from.elem /\ to.shape = StaticShape(from.shape, n)
             IN /\ \A i \in DOMAIN sig.inputs :
                     IF i \in c.sequenceArguments
                       THEN isCast(sig.inputs[i], static.inputs[i])
                       ELSE static.inputs[i] = sig.inputs[i]
                /\ \A i \in DOMAIN sig.inputs : ~ isDynamicRankedTensor(static.inputs[i])
                /\ isCast(sig.results[1], static.results[1])
  <2>1. n \in Nat \ {0}
    BY LengthsAssumption
  <2>2. \A i \in DOMAIN sig.inputs : statics[n].inputs[i] = refineTensorType(sig.inputs[i], c, n)
    BY <1>4 DEF getStaticFunctionType
  <2>3. statics[n].results[1] = refineTensorType(sig.results[1], c, n)
    <3>1. 1 \in DOMAIN sig.results
      BY <1>2, <1>3
    <3> QED BY <3>1, <1>4 DEF getStaticFunctionType
  <2> HIDE DEF c
  <2>4. ASSUME NEW i \in DOMAIN sig.inputs
        PROVE  /\ IF i \in c.sequenceArguments
                    THEN /\ statics[n].inputs[i].elem = sig.inputs[i].elem
                         /\ statics[n].inputs[i].shape = StaticShape(sig.inputs[i].shape, n)
                    ELSE statics[n].inputs[i] = sig.inputs[i]
               /\ ~ isDynamicRankedTensor(statics[n].inputs[i])
    <3>1. IsTensorType(sig.inputs[i])
          /\ (isContractDynamicTensorType(sig.inputs[i], c) \/ Static(sig.inputs[i]))
          /\ (i \notin c.sequenceArguments => Static(sig.inputs[i]))
      BY <1>2, <1>3
    <3>2. /\ statics[n].inputs[i].elem = sig.inputs[i].elem
          /\ statics[n].inputs[i].shape = StaticShape(sig.inputs[i].shape, n)
          /\ ~ isDynamicRankedTensor(statics[n].inputs[i])
          /\ Static(sig.inputs[i]) => statics[n].inputs[i] = sig.inputs[i]
      BY <2>1, <2>2, <3>1, Refined
    <3> QED BY <3>1, <3>2
  <2>5. /\ statics[n].results[1].elem = sig.results[1].elem
        /\ statics[n].results[1].shape = StaticShape(sig.results[1].shape, n)
    <3>1. IsTensorType(sig.results[1])
      BY <1>2, <1>3
    <3> QED BY <2>1, <2>3, <3>1, <1>3, Refined
  <2> QED BY <2>4, <2>5
<1> QED BY <1>4, <1>5 DEF StaticSignatureFits

-----------------------------------------------------------------------------
LEMMA EditedSignature ==
  ASSUME IsSignature(sig), Retype \/ RetypeResult \/ DropInput \/ AddInput \/ AddResult \/ DropResult
  PROVE  IsSignature(sig') /\ verdict = "open" /\ UNCHANGED <<kind, verdict, statics>>
<1>1. /\ sig = [inputs |-> sig.inputs, results |-> sig.results]
      /\ IsSeq(sig.inputs) /\ IsSeq(sig.results)
      /\ \A i \in 1..Len(sig.inputs) : IsTensorType(sig.inputs[i])
      /\ \A i \in 1..Len(sig.results) : IsTensorType(sig.results[i])
      /\ DOMAIN sig.inputs = 1..Len(sig.inputs) /\ DOMAIN sig.results = 1..Len(sig.results)
      /\ Len(sig.inputs) \in Nat /\ Len(sig.results) \in Nat
  BY DEF IsSignature, IsSeq
<1>2. verdict = "open" /\ UNCHANGED <<kind, verdict, statics>>
  BY DEF Retype, RetypeResult, DropInput, AddInput, AddResult, DropResult, Edit
\* A list of types with an element replaced, dropped or added.
<1>3. \A list, type, i : IsSeq(list) /\ i \in 1..Len(list) /\ IsTensorType(type)
                           /\ (\A j \in 1..Len(list) : IsTensorType(list[j]))
         => /\ IsSeq([list EXCEPT ![i] = type])
            /\ \A j \in 1..Len([list EXCEPT ![i] = type]) : IsTensorType([list EXCEPT ![i] = type][j])
  <2> TAKE list, type, i
  <2> HAVE IsSeq(list) /\ i \in 1..Len(list) /\ IsTensorType(type)
             /\ (\A j \in 1..Len(list) : IsTensorType(list[j]))
  <2> DEFINE t == [list EXCEPT ![i] = type]
  <2>1. IsSeq(t) /\ Len(t) = Len(list) /\ t[i] = type /\ \A j \in 1..Len(list) : j # i => t[j] = list[j]
    BY ExceptIsSeq
  <2> HIDE DEF t
  <2>2. \A j \in 1..Len(t) : IsTensorType(t[j])
    BY <2>1
  <2> QED BY <2>1, <2>2 DEF t
<1>4. \A list : IsSeq(list) /\ list # <<>> /\ (\A j \in 1..Len(list) : IsTensorType(list[j]))
         => IsSeq(Tail(list)) /\ \A j \in 1..Len(Tail(list)) : IsTensorType(Tail(list)[j])
  <2> TAKE list
  <2> HAVE IsSeq(list) /\ list # <<>> /\ (\A j \in 1..Len(list) : IsTensorType(list[j]))
  <2>1. Len(list) \in Nat /\ Len(list) # 0
    <3>1. Len(list) = 0 => list = <<>>
      BY EmptyIsSeq, EqualSeqs
    <3> QED BY <3>1 DEF IsSeq
  <2>2. IsSeq(Tail(list)) /\ Len(Tail(list)) = Len(list) - 1
        /\ \A j \in 1..Len(list) - 1 : Tail(list)[j] = list[j + 1]
    BY <2>1, TailIsSeq
  <2> QED BY <2>1, <2>2
<1>5. \A list, type : IsSeq(list) /\ IsTensorType(type) /\ (\A j \in 1..Len(list) : IsTensorType(list[j]))
         => IsSeq(Append(list, type)) /\ \A j \in 1..Len(Append(list, type)) : IsTensorType(Append(list, type)[j])
  <2> TAKE list, type
  <2> HAVE IsSeq(list) /\ IsTensorType(type) /\ (\A j \in 1..Len(list) : IsTensorType(list[j]))
  <2> DEFINE t == Append(list, type)
  <2>1. IsSeq(t) /\ Len(t) = Len(list) + 1 /\ t[Len(list) + 1] = type /\ Len(list) \in Nat
        /\ \A j \in 1..Len(list) : t[j] = list[j]
    BY AppendIsSeq DEF IsSeq
  <2> HIDE DEF t
  <2>2. \A j \in 1..Len(t) : IsTensorType(t[j])
    <3> TAKE j \in 1..Len(t)
    <3>1. j \in 1..Len(list) \/ j = Len(list) + 1
      BY <2>1
    <3> QED BY <3>1, <2>1
  <2> QED BY <2>1, <2>2 DEF t
<1>6. CASE Retype
  <2>1. PICK i \in DOMAIN sig.inputs, type \in OtherTypes : sig' = [sig EXCEPT !.inputs[i] = type]
    BY <1>6 DEF Retype, Edit
  <2>2. sig' = [inputs |-> [sig.inputs EXCEPT ![i] = type], results |-> sig.results]
    BY <1>1, <2>1
  <2>3. IsTensorType(type) /\ i \in 1..Len(sig.inputs)
    BY <1>1, <2>1, OtherTypesAssumption
  <2>4. IsSeq(sig'.inputs) /\ \A j \in 1..Len(sig'.inputs) : IsTensorType(sig'.inputs[j])
    BY <1>1, <1>3, <2>2, <2>3
  <2>5. sig' = [inputs |-> sig'.inputs, results |-> sig'.results] /\ sig'.results = sig.results
    BY <2>2
  <2> QED BY <1>1, <1>2, <2>4, <2>5 DEF IsSignature
<1>7. CASE RetypeResult
  <2>1. PICK i \in DOMAIN sig.results, type \in OtherTypes : sig' = [sig EXCEPT !.results[i] = type]
    BY <1>7 DEF RetypeResult, Edit
  <2>2. sig' = [inputs |-> sig.inputs, results |-> [sig.results EXCEPT ![i] = type]]
    BY <1>1, <2>1
  <2>3. IsTensorType(type) /\ i \in 1..Len(sig.results)
    BY <1>1, <2>1, OtherTypesAssumption
  <2>4. IsSeq(sig'.results) /\ \A j \in 1..Len(sig'.results) : IsTensorType(sig'.results[j])
    BY <1>1, <1>3, <2>2, <2>3
  <2>5. sig' = [inputs |-> sig'.inputs, results |-> sig'.results] /\ sig'.inputs = sig.inputs
    BY <2>2
  <2> QED BY <1>1, <1>2, <2>4, <2>5 DEF IsSignature
<1>8. CASE DropInput
  <2>1. sig.inputs # <<>> /\ sig' = [inputs |-> Tail(sig.inputs), results |-> sig.results]
    BY <1>1, <1>8 DEF DropInput, Edit
  <2> QED BY <1>1, <1>2, <1>4, <2>1 DEF IsSignature
<1>9. CASE DropResult
  <2>1. sig.results # <<>> /\ sig' = [inputs |-> sig.inputs, results |-> Tail(sig.results)]
    BY <1>1, <1>9 DEF DropResult, Edit
  <2> QED BY <1>1, <1>2, <1>4, <2>1 DEF IsSignature
<1>10. CASE AddInput
  <2>1. PICK type \in OtherTypes : sig' = [sig EXCEPT !.inputs = Append(@, type)]
    BY <1>10 DEF AddInput, Edit
  <2>2. sig' = [inputs |-> Append(sig.inputs, type), results |-> sig.results] /\ IsTensorType(type)
    BY <1>1, <2>1, OtherTypesAssumption
  <2> QED BY <1>1, <1>2, <1>5, <2>2 DEF IsSignature
<1>11. CASE AddResult
  <2>1. PICK type \in OtherTypes : sig' = [sig EXCEPT !.results = Append(@, type)]
    BY <1>11 DEF AddResult, Edit
  <2>2. sig' = [inputs |-> sig.inputs, results |-> Append(sig.results, type)] /\ IsTensorType(type)
    BY <1>1, <2>1, OtherTypesAssumption
  <2> QED BY <1>1, <1>2, <1>5, <2>2 DEF IsSignature
<1> QED BY <1>6, <1>7, <1>8, <1>9, <1>10, <1>11

LEMMA InitInvariant == Init => IInv
<1> SUFFICES ASSUME Init PROVE IInv
  OBVIOUS
<1>1. PICK k \in Kinds : sig = SignatureOf(k)
  BY DEF Init
<1>2. IsSignature(sig)
  BY <1>1, ReferenceIsSignature
<1>3. kind \in Kinds /\ verdict = "open" /\ statics = <<>>
  BY DEF Init
<1>4. AcceptsOnlyContract
  BY <1>3 DEF AcceptsOnlyContract
<1> QED BY <1>2, <1>3, <1>4 DEF IInv

LEMMA NextInvariant == ASSUME IInv, [Next]_vars PROVE IInv'
<1>1. kind \in Kinds /\ IsSignature(sig)
  BY DEF IInv
<1>2. CASE Retype \/ RetypeResult \/ DropInput \/ AddInput \/ AddResult \/ DropResult
  <2>1. IsSignature(sig') /\ verdict = "open" /\ UNCHANGED <<kind, verdict, statics>>
    BY <1>1, <1>2, EditedSignature
  <2>2. IsSignature(sig)'
    BY <2>1 DEF IsSignature
  <2>3. statics = <<>>
    BY <2>1 DEF IInv
  <2>4. kind' \in Kinds /\ verdict' = "open" /\ statics' = <<>>
    BY <1>1, <2>1, <2>3
  <2>5. AcceptsOnlyContract'
    BY <2>4 DEF AcceptsOnlyContract
  <2> QED BY <2>2, <2>4, <2>5 DEF IInv
<1>3. CASE validateEntry
  <2>1. /\ verdict = "open" /\ UNCHANGED <<sig, kind, edits, statics>>
        /\ verdict' = IF Accepts(sig, kind) THEN "accepted" ELSE "rejected"
    BY <1>3 DEF validateEntry
  <2>2. Accepts(sig, kind) <=> sig = SignatureOf(kind)
    BY <1>1, AcceptsOne
  <2>3. statics = <<>>
    BY <2>1 DEF IInv
  <2>4. SignatureOf(kind)' = SignatureOf(kind)
    BY <2>1
  <2>5. CASE Accepts(sig, kind)
    BY <1>1, <2>1, <2>2, <2>3, <2>4, <2>5 DEF IInv, AcceptsOnlyContract
  <2>6. CASE ~ Accepts(sig, kind)
    BY <1>1, <2>1, <2>2, <2>3, <2>4, <2>6 DEF IInv, AcceptsOnlyContract
  <2> QED BY <2>5, <2>6
<1>4. CASE Specialize
  <2>1. verdict = "accepted" /\ UNCHANGED <<sig, kind, edits, verdict>> /\ statics' = StaticsOf(sig, kind)
    BY <1>4 DEF Specialize, StaticsOf
  <2>2. StaticsOf(sig, kind)' = StaticsOf(sig, kind) /\ SignatureOf(kind)' = SignatureOf(kind)
    BY <2>1
  <2> QED BY <1>1, <2>1, <2>2 DEF IInv, AcceptsOnlyContract
<1>5. CASE UNCHANGED vars
  <2>1. UNCHANGED <<sig, kind, edits, verdict, statics>>
    BY <1>5 DEF vars
  <2>2. StaticsOf(sig, kind)' = StaticsOf(sig, kind) /\ SignatureOf(kind)' = SignatureOf(kind)
    BY <2>1
  <2> QED BY <2>1, <2>2 DEF IInv, AcceptsOnlyContract
<1> QED BY <1>2, <1>3, <1>4, <1>5 DEF Next

\* The invariant holds whatever the edits and whatever the verdict.
THEOREM Invariant == Spec => []IInv
  BY InitInvariant, NextInvariant, PTL DEF Spec

\* Whatever the edits, the checks accept the documented signature alone.
THEOREM OnlyContract == Spec => []AcceptsOnlyContract
<1>1. IInv => AcceptsOnlyContract
  BY DEF IInv
<1> QED BY <1>1, Invariant, PTL

\* Whatever the length, what the wrapper casts fits the clone's signature.
THEOREM CloneFits == Spec => []StaticSignatureFits
<1>1. ASSUME IInv PROVE StaticSignatureFits
  <2>1. CASE statics = <<>>
    BY <2>1 DEF StaticSignatureFits
  <2>2. CASE verdict = "accepted" /\ statics = StaticsOf(sig, kind)
    BY <1>1, <2>2, DerivedFit
  <2> QED BY <1>1, <2>1, <2>2 DEF IInv
<1> QED BY <1>1, Invariant, PTL

===============================================================================
