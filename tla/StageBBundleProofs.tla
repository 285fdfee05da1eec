-------------------------- MODULE StageBBundleProofs --------------------------
(***************************************************************************)
(* The three invariants of StageBBundle, for any sources and scopes, any   *)
(* number of changes by other exporters and any number of stopped writers. *)
(***************************************************************************)
EXTENDS StageBBundle, SequenceLemmas, FiniteSetTheorems

-----------------------------------------------------------------------------
\* The bytes of an array of one or of two axes.
LEMMA MaxOfOne == Max({1}) = 1
BY DEF Max

LEMMA MaxOfTwo == Max({1, 2}) = 2 /\ Max({2}) = 2
BY DEF Max

LEMMA BytesOfOne ==
  ASSUME NEW a \in Nat, NEW array, array.type = "f32", array.shape = <<a>>
  PROVE  Nbytes(array) = 4 * a
<1> DEFINE S == DOMAIN array.shape
           base == IF array.type = "f32" THEN 4 ELSE 8
           iter == CHOOSE f : f = [s \in SUBSET S |->
                     IF s = {} THEN base
                     ELSE f[s \ {Max(s)}] * array.shape[Max(s)]]
           G == [s \in SUBSET S |-> IF s = {} THEN 4 ELSE 4 * a]
<1>1. SUBSET S = {{}, {1}} /\ S = {1} /\ base = 4
  OBVIOUS
<1>2. G = [s \in SUBSET S |-> IF s = {} THEN base
                              ELSE G[s \ {Max(s)}] * array.shape[Max(s)]]
  <2>1. ASSUME NEW s \in SUBSET S, s # {}
        PROVE  G[s \ {Max(s)}] * array.shape[Max(s)] = 4 * a
    <3>1. s = {1}
      BY <2>1, <1>1
    <3>2. s \ {Max(s)} = {} /\ array.shape[Max(s)] = a
      BY <3>1, MaxOfOne
    <3>3. G[{}] = 4
      BY <1>1
    <3> HIDE DEF G
    <3> QED BY <3>2, <3>3
  <2> QED BY <2>1
<1>3. iter = [s \in SUBSET S |-> IF s = {} THEN base
                                 ELSE iter[s \ {Max(s)}] * array.shape[Max(s)]]
  <2> HIDE DEF G, S, base
  <2> QED BY <1>2
<1>4. Nbytes(array) = iter[S]
  BY DEF Nbytes, FoldLeft, MapThenFoldSet
<1> HIDE DEF iter, base, S
<1>5. iter[{}] = 4
  BY <1>1, <1>3
<1>6. iter[{1}] = iter[{1} \ {1}] * array.shape[1]
  BY <1>1, <1>3, MaxOfOne
<1>7. {1} \ {1} = {} /\ array.shape[1] = a
  OBVIOUS
<1> QED BY <1>1, <1>4, <1>5, <1>6, <1>7

LEMMA BytesOfTwo ==
  ASSUME NEW a \in Nat, NEW b \in Nat, NEW array,
         array.type = "f32", array.shape = <<a, b>>
  PROVE  Nbytes(array) = 4 * a * b
<1> DEFINE S == DOMAIN array.shape
           base == IF array.type = "f32" THEN 4 ELSE 8
           iter == CHOOSE f : f = [s \in SUBSET S |->
                     IF s = {} THEN base
                     ELSE f[s \ {Max(s)}] * array.shape[Max(s)]]
           Product(s) == CASE s = {}     -> 4
                           [] s = {1}    -> 4 * a
                           [] s = {2}    -> 4 * b
                           [] s = {1, 2} -> 4 * a * b
           G == [s \in SUBSET S |-> Product(s)]
<1>1. SUBSET S = {{}, {1}, {2}, {1, 2}} /\ S = {1, 2} /\ base = 4
  OBVIOUS
<1>2. array.shape[1] = a /\ array.shape[2] = b
  OBVIOUS
<1>3. G = [s \in SUBSET S |-> IF s = {} THEN base
                              ELSE G[s \ {Max(s)}] * array.shape[Max(s)]]
  <2>1. /\ Product({}) = 4     /\ Product({1}) = 4 * a
        /\ Product({2}) = 4 * b /\ Product({1, 2}) = 4 * a * b
    OBVIOUS
  <2> HIDE DEF Product
  <2>2. G[{}] = 4 /\ G[{1}] = 4 * a
    BY <1>1, <2>1
  <2>3. ASSUME NEW s \in SUBSET S, s # {}
        PROVE  Product(s) = G[s \ {Max(s)}] * array.shape[Max(s)]
    <3> HIDE DEF G
    <3>1. CASE s = {1}
      <4>1. s \ {Max(s)} = {} /\ array.shape[Max(s)] = a
        BY <1>2, <3>1, MaxOfOne
      <4> QED BY <3>1, <4>1, <2>1, <2>2
    <3>2. CASE s = {2}
      <4>1. s \ {Max(s)} = {} /\ array.shape[Max(s)] = b
        BY <1>2, <3>2, MaxOfTwo
      <4> QED BY <3>2, <4>1, <2>1, <2>2
    <3>3. CASE s = {1, 2}
      <4>1. s \ {Max(s)} = {1} /\ array.shape[Max(s)] = b
        BY <1>2, <3>3, MaxOfTwo
      <4> QED BY <3>3, <4>1, <2>1, <2>2
    <3> QED BY <1>1, <2>3, <3>1, <3>2, <3>3
  <2>4. \A s \in SUBSET S : Product(s) = IF s = {} THEN base
                              ELSE G[s \ {Max(s)}] * array.shape[Max(s)]
    BY <1>1, <2>1, <2>3
  <2> HIDE DEF S, base
  <2> QED BY <2>4
<1>4. iter = [s \in SUBSET S |-> IF s = {} THEN base
                                 ELSE iter[s \ {Max(s)}] * array.shape[Max(s)]]
  <2> HIDE DEF G, S, base
  <2> QED BY <1>3
<1>5. Nbytes(array) = iter[S]
  BY DEF Nbytes, FoldLeft, MapThenFoldSet
<1> HIDE DEF iter, base, S
<1>6. \A s \in {{1}, {1, 2}} :
        iter[s] = iter[s \ {Max(s)}] * array.shape[Max(s)]
  <2>1. {1} \in SUBSET S /\ {1, 2} \in SUBSET S /\ {1} # {} /\ {1, 2} # {}
    BY <1>1
  <2> QED BY <1>4, <2>1
<1>7. iter[{}] = 4
  BY <1>1, <1>4
<1>8. iter[{1}] = iter[{1} \ {1}] * a
  BY <1>2, <1>6, MaxOfOne
<1>9. iter[{1, 2}] = iter[{1, 2} \ {2}] * b
  BY <1>2, <1>6, MaxOfTwo
<1>10. {1} \ {1} = {} /\ {1, 2} \ {2} = {1}
  OBVIOUS
<1>11. iter[{1}] = 4 * a
  BY <1>7, <1>8, <1>10
<1>12. iter[{1, 2}] = (4 * a) * b
  BY <1>9, <1>10, <1>11
<1> QED BY <1>1, <1>5, <1>12

LEMMA ParamNames ==
  Params = {"q_w", "k_w", "v_w", "o_w", "norm_scale", "norm_bias", "ff_w1",
            "ff_b1", "ff_w2", "ff_b2"}
BY DEF Params, Names, ToSet

LEMMA NamesLength ==
  IsSeq(Names) /\ Len(Names) = 10 /\ DOMAIN Names = 1..10
BY DEF Names, IsSeq

LEMMA ParamCount == Cardinality(Params) = 10
<1>1. Names \in Bijection(1..10, Params)
  <2>1. \A i \in 1..10, j \in 1..10 : Names[i] = Names[j] => i = j
    BY DEF Names
  <2>2. Names \in [1..10 -> Params] /\ \A n \in Params : \E i \in 1..10 : Names[i] = n
    BY NamesLength DEF Params, ToSet, IsSeq
  <2> QED BY <2>1, <2>2 DEF Bijection, Injection, Surjection, IsInjective
<1>2. ExistsBijection(1..10, Params)
  BY <1>1 DEF ExistsBijection
<1>3. IsFiniteSet(1..10) /\ Cardinality(1..10) = 10
  <2>1. /\ IsFiniteSet(1..10)
        /\ Cardinality(1..10) = IF 1 > 10 THEN 0 ELSE 10 - 1 + 1
    BY FS_Interval, 1 \in Int, 10 \in Int, Zenon
  <2> QED BY <2>1
<1> QED BY <1>2, <1>3, FS_Bijection

\* The four tables agree.
LEMMA Tables ==
  ASSUME NEW n \in Params
  PROVE  /\ ArtifactShape(n) = BundleShape(n)
         /\ \A array : array.type = "f32" /\ array.shape = BundleShape(n)
                         => Nbytes(array) = PARAM_BYTES(n)
<1>1. ArtifactShape(n) = BundleShape(n)
  BY ParamNames DEF ArtifactShape, BundleShape, HIDDEN, INTERMEDIATE
<1>2. ASSUME NEW array, array.type = "f32", array.shape = BundleShape(n)
      PROVE  Nbytes(array) = PARAM_BYTES(n)
  <2>1. CASE BundleShape(n) \in {<<64>>, <<256>>}
    <3>1. PICK a \in Nat : BundleShape(n) = <<a>> /\ PARAM_BYTES(n) = a * 4
      BY <2>1, ParamNames DEF BundleShape, PARAM_BYTES
    <3> QED BY <1>2, <3>1, BytesOfOne
  <2>2. CASE BundleShape(n) \in {<<64, 64>>, <<64, 256>>, <<256, 64>>}
    <3>1. PICK a \in Nat, b \in Nat :
            BundleShape(n) = <<a, b>> /\ PARAM_BYTES(n) = 4 * a * b
      BY <2>2, ParamNames DEF BundleShape, PARAM_BYTES
    <3> QED BY <1>2, <3>1, BytesOfTwo
  <2> QED BY <2>1, <2>2, ParamNames DEF BundleShape
<1> QED BY <1>1, <1>2

-----------------------------------------------------------------------------
(***************************************************************************)
(* The inductive invariant.                                                *)
(***************************************************************************)
Table == [n \in Params |-> PARAM_BYTES(n)]

\* All that the builder writes before the body of the source.
Headed(ir) ==
  /\ ir.loads = 10 /\ ir.adapter = TRUE /\ Len(ir.refs) = 10
  /\ \A i \in 1..10 : ir.refs[i] = <<ir.refs[1][1], Names[i]>>

BodyOk(body) ==
  /\ body = [refs |-> body.refs, loads |-> body.loads, dense |-> body.dense]
  /\ IsSeq(body.refs) /\ body.loads \in Nat /\ body.dense \in BOOLEAN

\* Of the body there is nothing unless all is there that comes before it.
TextOk(ir) ==
  /\ DOMAIN ir = {"end", "refs", "adapter", "loads", "body"}
  /\ IsSeq(ir.refs) /\ ir.loads \in Nat /\ BodyOk(ir.body)
  /\ ir.body # NoBody => Headed(ir)

MlirInv == TextOk(mlir)

\* Between its two writes a build holds the archive of the table, and its
\* module is as it was written.
BuildInv == building # <<>> => building = Table /\ Headed(mlir)

\* A verdict is about what is there.
JudgedInv ==
  /\ judged.what = "artifact" => AcceptedArtifactBuilds
  /\ judged.what = "bundle" => check_mlir(mlir, judged.scope) /\ check_irpa(irpa)
  /\ judged.what = "built" =>
       /\ irpa = Table /\ judged.bytes = SumFunction(irpa)
       /\ Headed(mlir) /\ judged.scope = mlir.refs[1][1]

IInv == MlirInv /\ BuildInv /\ JudgedInv

LEMMA InitInv == Init => IInv
<1> SUFFICES ASSUME Init PROVE IInv
  OBVIOUS
<1>1. MlirInv
  BY EmptyIsSeq DEF Init, MlirInv, TextOk, BodyOk, NoBody
<1>2. BuildInv
  BY DEF Init, BuildInv
<1>3. JudgedInv
  BY DEF Init, JudgedInv, Nothing
<1> QED BY <1>1, <1>2, <1>3 DEF IInv

-----------------------------------------------------------------------------
\* An array that load_parameters accepts has the bytes of the table.
LEMMA LoadedBytes ==
  ASSUME NEW data, load_parameters(data)
  PROVE  ParamBytes(data) = Table
BY Tables DEF load_parameters, ParamBytes, Table

\* What the builder writes.
LEMMA RenderedMlir ==
  ASSUME NEW source \in Sources, NEW scope
  PROVE  TextOk(render_mlir(source, scope)) /\ Headed(render_mlir(source, scope))
<1> DEFINE named == [i \in DOMAIN Names |-> <<scope, Names[i]>>]
           ir    == render_mlir(source, scope)
<1>1. IsSeq(named) /\ Len(named) = 10
  <2>1. named = [i \in 1..10 |-> named[i]]
    BY NamesLength
  <2> HIDE DEF named
  <2> QED BY <2>1, FunctionIsSeq
<1>2. \A i \in 1..10 : named[i] = <<scope, Names[i]>>
  BY NamesLength
<1>3. named[1][1] = scope
  <2>1. named[1] = <<scope, Names[1]>>
    BY <1>2
  <2> HIDE DEF named
  <2> QED BY <2>1
<1>4. BodyOk(source_body(source))
  <2>1. IsSeq(source.refs) /\ source.loads \in Nat /\ source.dense \in BOOLEAN
    BY SourcesAssumption, SeqIsSeq
  <2> QED BY <2>1 DEF BodyOk, source_body
<1>5. /\ DOMAIN ir = {"end", "refs", "adapter", "loads", "body"}
      /\ ir.refs = named /\ ir.adapter = TRUE /\ ir.loads = 10
      /\ ir.body = source_body(source)
  BY NamesLength DEF render_mlir
<1> HIDE DEF named, ir
<1>6. Headed(ir)
  BY <1>1, <1>2, <1>3, <1>5 DEF Headed
<1> QED BY <1>1, <1>4, <1>5, <1>6 DEF TextOk, ir

\* A prefix of a sequence is one that is no longer.
LEMMA PrefixOf ==
  ASSUME NEW seq, IsSeq(seq), NEW part \in Prefixes(seq)
  PROVE  IsSeq(part) /\ Len(part) \in 0..Len(seq)
<1>1. PICK n \in 0..Len(seq) : part = SubSeq(seq, 1, n)
  BY DEF Prefixes
<1>2. 1 \in 1..Len(seq) + 1 /\ 1 <= n + 1
  BY DEF IsSeq
<1>3. IsSeq(SubSeq(seq, 1, n)) /\ Len(SubSeq(seq, 1, n)) = n - 1 + 1
  BY <1>2, SubSeqIsSeq
<1> QED BY <1>1, <1>3

\* Wherever a text is cut, its parts are there in their order.
LEMMA CutText ==
  ASSUME NEW ir, TextOk(ir), NEW cut \in Cuts(ir)
  PROVE  TextOk(cut)
<1>1. ASSUME NEW seq, IsSeq(seq), NEW part \in Prefixes(seq) PROVE IsSeq(part)
  BY <1>1, PrefixOf
<1>2. BodyOk(NoBody) /\ IsSeq(ir.refs) /\ ir.loads \in Nat /\ BodyOk(ir.body)
  BY EmptyIsSeq DEF BodyOk, NoBody, TextOk
<1>3. ASSUME NEW refs \in Prefixes(ir.refs), cut = Cut(refs, FALSE, 0, NoBody)
      PROVE  TextOk(cut)
  BY <1>1, <1>2, <1>3 DEF TextOk, Cut
<1>4. ASSUME NEW n \in 0..ir.loads, cut = Cut(ir.refs, ir.adapter, n, NoBody)
      PROVE  TextOk(cut)
  BY <1>2, <1>4 DEF TextOk, Cut
<1>5. ASSUME NEW body \in CutBodies(ir.body),
             cut = Cut(ir.refs, ir.adapter, ir.loads, body)
      PROVE  TextOk(cut)
  <2>1. PICK refs \in Prefixes(ir.body.refs), n \in 0..ir.body.loads,
             dense \in {FALSE, ir.body.dense} :
          body = [refs |-> refs, loads |-> n, dense |-> dense]
    BY <1>5 DEF CutBodies
  <2>2. /\ IsSeq(ir.body.refs) /\ ir.body.loads \in Nat
        /\ ir.body.dense \in BOOLEAN
    BY <1>2 DEF BodyOk
  <2>3. IsSeq(refs) /\ n \in Nat /\ dense \in BOOLEAN
    <3>1. IsSeq(refs)
      BY <1>1, <2>1, <2>2
    <3>2. n \in Nat
      BY <2>1, <2>2
    <3>3. dense \in BOOLEAN
      BY <2>1, <2>2, Zenon
    <3> QED BY <3>1, <3>2, <3>3
  <2>4. BodyOk(body)
    BY <2>1, <2>3 DEF BodyOk
  <2>5. ASSUME ir.body = NoBody PROVE body = NoBody
    <3>1. ir.body.refs = <<>> /\ ir.body.loads = 0 /\ ir.body.dense = FALSE
      BY <2>5 DEF NoBody
    <3>2. n = 0
      BY <2>1, <3>1
    <3>3. dense = FALSE
      BY <2>1, <3>1, Zenon
    <3>4. IsSeq(refs) /\ Len(refs) = 0
      BY <2>2, <3>1, EmptyIsSeq, PrefixOf
    <3>5. refs = <<>>
      BY <3>4, EmptyIfNone
    <3> QED BY <2>1, <3>2, <3>3, <3>5 DEF NoBody
  <2>6. /\ DOMAIN cut = {"end", "refs", "adapter", "loads", "body"}
        /\ cut.body = body /\ cut.refs = ir.refs
        /\ cut.adapter = ir.adapter /\ cut.loads = ir.loads
    BY <1>5 DEF Cut
  <2>7. Headed(ir) => Headed(cut)
    BY <2>6 DEF Headed
  <2> QED BY <1>2, <2>4, <2>5, <2>6, <2>7 DEF TextOk
<1> QED BY <1>3, <1>4, <1>5 DEF Cuts

LEMMA NextInv == IInv /\ [Next]_vars => IInv'
<1> SUFFICES ASSUME IInv, [Next]_vars PROVE IInv'
  OBVIOUS
<1> USE DEF IInv
<1>1. CASE UNCHANGED vars
  BY <1>1 DEF vars, MlirInv, BuildInv, JudgedInv, AcceptedArtifactBuilds
<1>2. CASE MakeArtifact \/ StopArtifact \/ Export
  <2>1. UNCHANGED <<mlir, irpa, building>> /\ judged' = Nothing
    BY <1>2 DEF MakeArtifact, StopArtifact, Export
  <2> QED BY <2>1 DEF MlirInv, BuildInv, JudgedInv, Nothing
<1>3. CASE CheckArtifact
  <2>1. UNCHANGED <<npz, mlir, irpa, building>>
    BY <1>3 DEF CheckArtifact
  <2>2. ASSUME judged'.what = "artifact" PROVE AcceptedArtifactBuilds'
    <3>1. /\ \A n \in Params : check_array(npz, Param(n), ArtifactShape(n))
          /\ CopiedParams(npz) = {}
          /\ judged' = [what |-> "artifact", bytes |-> SumFunction(ParamBytes(npz))]
      BY <1>3, <2>2 DEF CheckArtifact, Nothing
    <3>2. load_parameters(npz)
      BY <3>1, Tables DEF load_parameters, check_array
    <3>3. judged'.bytes = SumFunction(Table)
      BY <3>1, <3>2, LoadedBytes
    <3> QED BY <2>1, <3>2, <3>3 DEF AcceptedArtifactBuilds, Table, load_parameters,
            CopiedParams, Param
  <2>3. judged'.what \notin {"bundle", "built"}
    BY <1>3 DEF CheckArtifact, Nothing
  <2> QED BY <2>1, <2>2, <2>3 DEF MlirInv, BuildInv, JudgedInv
<1>4. CASE BuildMlir
  <2>1. PICK source \in Sources, scope \in Scopes : mlir' = render_mlir(source, scope)
    BY <1>4 DEF BuildMlir
  <2>2. MlirInv' /\ Headed(mlir')
    BY <2>1, RenderedMlir DEF MlirInv
  <2>3. building' = Table /\ judged' = Nothing
    BY <1>4, LoadedBytes DEF BuildMlir
  <2> QED BY <2>2, <2>3 DEF BuildInv, JudgedInv, Nothing
<1>5. CASE write_archive
  <2>1. /\ building = Table /\ Headed(mlir)
        /\ irpa' = Table /\ building' = <<>> /\ UNCHANGED mlir
        /\ judged' = [what |-> "built", scope |-> mlir.refs[1][1],
                      bytes |-> SumFunction(building)]
    BY <1>5 DEF write_archive, BuildInv
  <2>2. /\ judged'.what = "built" /\ judged'.scope = mlir.refs[1][1]
        /\ judged'.bytes = SumFunction(Table)
    BY <2>1
  <2> QED BY <2>1, <2>2 DEF MlirInv, BuildInv, JudgedInv
<1>6. CASE StopBuild
  <2>1. building' = <<>> /\ judged' = Nothing
    BY <1>6 DEF StopBuild
  <2>2. mlir' = mlir \/ mlir' \in Cuts(mlir)
    BY <1>6 DEF StopBuild
  <2>3. MlirInv'
    BY <2>2, CutText DEF MlirInv
  <2> QED BY <2>1, <2>3 DEF BuildInv, JudgedInv, Nothing
<1>7. CASE CheckBundle
  <2>1. UNCHANGED <<npz, mlir, irpa, building>>
    BY <1>7 DEF CheckBundle
  <2>2. PICK scope \in Scopes :
          judged' = IF check_mlir(mlir, scope) /\ check_irpa(irpa)
                      THEN [what |-> "bundle", scope |-> scope] ELSE Nothing
    BY <1>7 DEF CheckBundle
  <2>3. /\ judged'.what \notin {"artifact", "built"}
        /\ judged'.what = "bundle" => /\ check_mlir(mlir, judged'.scope)
                                      /\ check_irpa(irpa)
    BY <2>2 DEF Nothing
  <2> QED BY <2>1, <2>3 DEF MlirInv, BuildInv, JudgedInv, check_mlir, check_irpa
<1> QED BY <1>1, <1>2, <1>3, <1>4, <1>5, <1>6, <1>7 DEF Next

\* The invariant holds in every state, whoever writes, stops or checks.
THEOREM Invariant == Spec => []IInv
BY InitInv, NextInv, PTL DEF Spec

-----------------------------------------------------------------------------
\* The names in their order, as a sequence of references.
LEMMA Expected ==
  ASSUME NEW scope
  PROVE  LET expected == [i \in DOMAIN Names |-> <<scope, Names[i]>>]
         IN /\ IsSeq(expected) /\ Len(expected) = 10
            /\ \A i \in 1..10 : expected[i] = <<scope, Names[i]>>
<1> DEFINE expected == [i \in DOMAIN Names |-> <<scope, Names[i]>>]
<1>1. /\ expected = [i \in 1..10 |-> expected[i]]
      /\ \A i \in 1..10 : expected[i] = <<scope, Names[i]>>
  BY NamesLength
<1>2. IsSeq(expected) /\ Len(expected) = 10
  <2> HIDE DEF expected
  <2> QED BY <1>1, FunctionIsSeq
<1> QED BY <1>1, <1>2

\* The checker's totals leave no room for a body that adds anything.
LEMMA AcceptedText ==
  ASSUME TextOk(mlir), NEW scope, check_mlir(mlir, scope)
  PROVE  /\ mlir.refs = [i \in DOMAIN Names |-> <<scope, Names[i]>>]
         /\ mlir.adapter /\ mlir.loads = 10 /\ mlir.body = NoBody
<1> DEFINE expected == [i \in DOMAIN Names |-> <<scope, Names[i]>>]
           refs     == mlir.refs
           added    == mlir.body.refs
<1>1. /\ IsSeq(refs) /\ IsSeq(added) /\ mlir.loads \in Nat
      /\ mlir.body.loads \in Nat
      /\ mlir.body = [refs |-> added, loads |-> mlir.body.loads,
                      dense |-> mlir.body.dense]
  BY DEF TextOk, BodyOk
<1>2. /\ mlir.body.dense = FALSE /\ mlir.adapter /\ refs \o added = expected
      /\ mlir.loads + mlir.body.loads = 10
  BY ParamCount DEF check_mlir, TextOk, BodyOk
<1>3. Len(expected) = 10
  BY Expected
<1> HIDE DEF expected, refs, added
<1>4. IsSeq(refs \o added) /\ Len(refs \o added) = Len(refs) + Len(added)
  BY <1>1, ConcatIsSeq
<1>5. Len(refs) + Len(added) = 10 /\ Len(refs) \in Nat /\ Len(added) \in Nat
  BY <1>1, <1>2, <1>3, <1>4 DEF IsSeq
<1>6. mlir.body = NoBody
  <2>1. ASSUME mlir.body # NoBody PROVE FALSE
    <3>1. Len(refs) = 10 /\ mlir.loads = 10
      BY <2>1 DEF TextOk, Headed, refs
    <3>2. Len(added) = 0 /\ mlir.body.loads = 0
      BY <1>1, <1>2, <1>5, <3>1
    <3>3. added = <<>>
      BY <1>1, <3>2, EmptyIfNone
    <3> QED BY <1>1, <1>2, <2>1, <3>2, <3>3 DEF NoBody
  <2> QED BY <2>1
<1>7. added = <<>> /\ mlir.body.loads = 0
  BY <1>6 DEF NoBody, added
<1>8. refs = expected
  <2>1. Len(added) = 0
    BY <1>7, EmptyIsSeq
  <2>2. Len(refs \o added) = Len(refs)
    BY <1>4, <1>5, <2>1
  <2>3. \A i \in 1..Len(refs) : (refs \o added)[i] = refs[i]
    BY <1>1, ConcatIsSeq
  <2>4. refs \o added = refs
    BY <1>1, <1>4, <2>2, <2>3, EqualSeqs
  <2> QED BY <1>2, <2>4
<1>9. mlir.loads = 10
  BY <1>1, <1>2, <1>7
<1> QED BY <1>2, <1>6, <1>8, <1>9 DEF refs, expected

\* Of a bundle that the checker accepts, every parameter is there once, in each
\* of its places, whichever builds left its two files and wherever they stopped.
THEOREM Once == Spec => []ParametersOnce
<1>1. ASSUME IInv PROVE ParametersOnce
  <2> SUFFICES ASSUME judged.what = "bundle"
               PROVE  /\ mlir.refs = [i \in DOMAIN Names |-> <<judged.scope, Names[i]>>]
                      /\ mlir.adapter /\ mlir.loads = Len(Names)
                      /\ mlir.body = NoBody
                      /\ DOMAIN irpa = Params
                      /\ \A n \in Params : irpa[n] = Nbytes(Array(BundleShape(n)))
    BY DEF ParametersOnce
  <2>1. TextOk(mlir) /\ check_mlir(mlir, judged.scope) /\ check_irpa(irpa)
    BY <1>1 DEF IInv, JudgedInv, MlirInv
  <2>2. /\ mlir.refs = [i \in DOMAIN Names |-> <<judged.scope, Names[i]>>]
        /\ mlir.adapter /\ mlir.loads = 10 /\ mlir.body = NoBody
    BY <2>1, AcceptedText
  <2>3. ASSUME NEW n \in Params PROVE irpa[n] = Nbytes(Array(BundleShape(n)))
    BY <2>1, Tables DEF check_irpa, Array
  <2> QED BY <2>1, <2>2, <2>3, NamesLength DEF check_irpa
<1> QED BY <1>1, Invariant, PTL

\* An artifact that its checker accepts is one the bundle is made of, with the
\* bytes of the bundle checker's table.
THEOREM Builds == Spec => []AcceptedArtifactBuilds
<1>1. IInv => AcceptedArtifactBuilds
  BY DEF IInv, JudgedInv, AcceptedArtifactBuilds
<1> QED BY <1>1, Invariant, PTL

\* What was built is accepted exactly if its source brings nothing of its own.
THEOREM Checks == Spec => []BuiltBundleChecks
<1>1. ASSUME IInv PROVE BuiltBundleChecks
  <2> SUFFICES ASSUME judged.what = "built"
               PROVE  /\ judged.bytes = SumFunction(irpa)
                      /\ check_irpa(irpa)
                      /\ check_mlir(mlir, judged.scope) <=> mlir.body = NoBody
    BY DEF BuiltBundleChecks
  <2>1. /\ irpa = Table /\ judged.bytes = SumFunction(irpa) /\ TextOk(mlir)
        /\ Headed(mlir) /\ judged.scope = mlir.refs[1][1]
    BY <1>1 DEF IInv, JudgedInv, MlirInv
  <2>2. check_irpa(irpa)
    BY <2>1 DEF check_irpa, Table
  <2>3. ASSUME mlir.body = NoBody PROVE check_mlir(mlir, judged.scope)
    <3> DEFINE refs     == mlir.refs
               expected == [i \in DOMAIN Names |-> <<judged.scope, Names[i]>>]
    <3>1. IsSeq(refs) /\ Len(refs) = 10
      BY <2>1 DEF TextOk, Headed
    <3>2. \A i \in 1..10 : refs[i] = <<judged.scope, Names[i]>>
      BY <2>1 DEF Headed
    <3>3. /\ IsSeq(expected) /\ Len(expected) = 10
          /\ \A i \in 1..10 : expected[i] = <<judged.scope, Names[i]>>
      BY Expected
    <3> HIDE DEF refs, expected
    <3>4. refs = expected
      BY <3>1, <3>2, <3>3, EqualSeqs
    <3>5. refs \o <<>> = refs
      <4>1. /\ IsSeq(refs \o <<>>) /\ Len(refs \o <<>>) = Len(refs) + Len(<<>>)
            /\ \A i \in 1..Len(refs) : (refs \o <<>>)[i] = refs[i]
        BY <3>1, EmptyIsSeq, ConcatIsSeq
      <4>2. Len(refs \o <<>>) = Len(refs)
        BY <3>1, <4>1, EmptyIsSeq
      <4> QED BY <3>1, <4>1, <4>2, EqualSeqs
    <3>6. /\ mlir.body.refs = <<>> /\ mlir.body.loads = 0
          /\ mlir.body.dense = FALSE
      BY <2>3 DEF NoBody
    <3>7. mlir.refs \o mlir.body.refs = [i \in DOMAIN Names |-> <<judged.scope, Names[i]>>]
      BY <3>4, <3>5, <3>6 DEF refs, expected
    <3>8. mlir.loads = 10 /\ mlir.adapter
      BY <2>1 DEF Headed
    <3>9. mlir.loads + mlir.body.loads = Cardinality(Params)
      BY <3>6, <3>8, ParamCount
    <3> QED BY <3>6, <3>7, <3>8, <3>9 DEF check_mlir
  <2> QED BY <2>1, <2>2, <2>3, AcceptedText
<1> QED BY <1>1, Invariant, PTL

=============================================================================
