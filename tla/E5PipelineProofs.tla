--------------------------- MODULE E5PipelineProofs ---------------------------
(***************************************************************************)
(* For all releases a manifest may pin, all lists of lengths and variants  *)
(* and any number of failures and changes of the manifest.                 *)
(***************************************************************************)
EXTENDS E5Pipeline, FetchArtifacts, SequenceLemmas, FiniteSetTheorems

-----------------------------------------------------------------------------
\* What a text in memory or on disk is made of.
IsText(text) ==
  /\ text = [end     |-> text.end,     graph   |-> text.graph,
             entries |-> text.entries, bodies  |-> text.bodies,
             refs    |-> text.refs,    globals |-> text.globals,
             payload |-> text.payload, markers |-> text.markers]
  /\ IsABag(text.refs)
  /\ text.payload \in {"none", "dense_resource"}

IsTextOf(text, width) ==
  IsText(text) /\ text.end = "whole" /\ DOMAIN text.bodies = {width}

\* The fields that the text and the archive of a model are made from.
IsNamed(model) ==
  /\ model = [inputs |-> model.inputs, outputs |-> model.outputs,
              inner  |-> model.inner,  opset   |-> model.opset,
              layers |-> model.layers, graph   |-> model.graph,
              inits  |-> model.inits]
  /\ IsFiniteSet(DOMAIN model.inits)
  /\ model.graph # "miscompiled"

-----------------------------------------------------------------------------
\* The inductive invariant: the files.
IsFile(text, name) ==
  Whole(text) => /\ IsText(text)
                 /\ name[1] \in {"generic", "core"} => DOMAIN text.bodies = {name[2]}

FileInv ==
  /\ dir = [source   |-> dir.source,   onnx  |-> dir.onnx,
            archives |-> dir.archives, texts |-> dir.texts,
            modules  |-> dir.modules,  oracles |-> dir.oracles,
            summary  |-> dir.summary]
  /\ DOMAIN dir.onnx = Widths
  /\ \A w \in Widths : Whole(dir.onnx[w]) => IsNamed(dir.onnx[w].model)
  /\ DOMAIN dir.texts = TextNames
  /\ \A name \in TextNames : IsFile(dir.texts[name], name)
  /\ DOMAIN dir.modules = {"dynamic", "multiversioned"}

\* What check-e5 knows before its k-th command.
Compiled(name, text) ==
  dir.modules[name] \in {Module(text), [Module(text) EXCEPT !.graph = "miscompiled"]}

ImportedArchive(model) ==
  Archive = Irpa(model) \/ Archive = Repacked(Irpa(model))

Chain(k) ==
  LET model == Adapted(dir.source.model)
      core  == Text("core", Dynamic)
      multi == Text("multiversioned", Dynamic)
  IN /\ k > 1  => dir.source = manifest.release
     /\ k > 2  => ValidMetadata(dir.source.model, dir.source.config)
     /\ k > 3  => /\ CanAdapt(dir.source.model) /\ validate_dynamic_contract(model)
                  /\ dir.onnx[Dynamic] = [end |-> "whole", model |-> model]
     /\ k > 5  => ImportedArchive(model)
     /\ k > 10 => IsTextOf(core, Dynamic)
     /\ k > 11 => Compiled("dynamic", core)
     /\ k > 13 => ParameterIdentity(model, Archive) /\ CoreStructure(model, core, {})
     /\ k > 14 => dir.modules["dynamic"].graph = model.graph
     /\ k > 15 => IsText(multi)
     /\ k > 16 => CoreStructure(model, multi, ExactLengths)
     /\ k > 17 => Compiled("multiversioned", multi)
     /\ k > 18 => dir.modules["multiversioned"].graph = model.graph

CheckAt(k) == /\ k \in 1..18
              /\ IsSeq(todo) /\ Len(todo) = 19 - k
              /\ \A i \in 1..19 - k : todo[i] = CheckE5[i + k - 1]

Checking(k) == /\ locals = [program |-> "check-e5", text |-> locals.text]
               /\ CheckAt(k) /\ Chain(k)
               /\ k \in 6..10 => IsTextOf(locals.text, Dynamic)

\* The commands of a build of oracles and of a benchmark, and what may come
\* after each.
BuildNames == {"begin", "staticize", "imported", "torch", "builtin", "generic", "core", "end"}

IsCommand(c) ==
  /\ c = Cmd(c.name, c.width)
  /\ \/ c.name \in BuildNames /\ c.width \in Widths \ {Dynamic}
     \/ /\ c.name \in {"exist", "check", "recheck", "count", "manifest", "artifacts", "measure"}
        /\ c.width = Dynamic

Follows(c, d, variants) ==
  CASE c.name = "begin"     -> d = Cmd("staticize", c.width)
    [] c.name = "staticize" -> d = Cmd("imported", c.width)
    [] c.name = "imported"  -> d = Cmd("torch", c.width)
    [] c.name = "torch"     -> d = Cmd("builtin", c.width)
    [] c.name = "builtin"   -> d = Cmd("generic", c.width)
    [] c.name = "generic"   -> d = Cmd("core", c.width)
    [] c.name = "core"      -> d = Cmd("end", c.width)
    [] c.name = "end"       -> d.name = "manifest" \/ (d.name = "begin" /\ d.width > c.width)
    [] c.name = "exist"     -> d.name = "check"
    [] c.name = "check"     -> d.name = IF "dispatched" \in variants THEN "recheck" ELSE "count"
    [] c.name = "recheck"   -> d.name = "count"
    [] c.name = "count"     -> d.name = IF "static-oracle" \in variants THEN "begin" ELSE "artifacts"
    [] c.name = "manifest"  -> d.name = "artifacts"
    [] c.name = "artifacts" -> d.name = "measure"
    [] OTHER -> FALSE

Ordered(commands, variants) ==
  /\ IsSeq(commands) /\ Len(commands) > 0
  /\ \A i \in 1..Len(commands) : IsCommand(commands[i])
  /\ \A i \in 1..Len(commands) - 1 : Follows(commands[i], commands[i + 1], variants)

\* The archive the oracles are built for: during a build the one that was there
\* at its beginning.
Canonical(name) ==
  IF name \in BuildNames \ {"begin"} THEN locals.canonical ELSE Archive

SoundOracle(record) ==
  LET core == Text("core", record.length)
  IN /\ record = [length            |-> record.length,
                  initializer_count |-> record.initializer_count,
                  canonical         |-> record.canonical]
     /\ record.length \in Widths \ {Dynamic}
     /\ Whole(core) /\ core.entries = 1 /\ DOMAIN core.bodies = {record.length}
     /\ ~ core.bodies[record.length].dynamic
     /\ EachOnce(core.refs, Keys(dir.onnx[Dynamic].model))
     /\ record.initializer_count = core.globals

\* What a build of oracles knows before the command c.
Building(c) ==
  /\ c.name \in BuildNames \ {"begin", "staticize"} =>
       /\ Whole(dir.onnx[c.width])
       /\ Keys(dir.onnx[c.width].model) = Keys(dir.onnx[Dynamic].model)
  /\ c.name \in Lowered => IsTextOf(locals.text, c.width)
  /\ c.name = "end" => Whole(Text("core", c.width))
  /\ c.name = "manifest" => DOMAIN dir.archives = {"e5.irpa"}
  /\ IsSeq(locals.records)
  /\ \A i \in DOMAIN locals.records :
       LET record == locals.records[i]
       IN /\ SoundOracle(record) /\ record.canonical = Canonical(c.name)
          /\ c.name \in BuildNames => record.length < c.width

Oracling ==
  /\ locals = [program |-> "oracles", text |-> locals.text,
               canonical |-> locals.canonical, records |-> locals.records]
  /\ Ordered(todo, {}) /\ todo[Len(todo)].name = "manifest"
  /\ \A i \in 1..Len(todo) : todo[i].name \in BuildNames \cup {"manifest"}
  /\ Building(todo[1])

\* What a benchmark knows before the command c.
WidthsOf(cell) == CASE cell[1] = "dynamic"       -> {Dynamic}
                    [] cell[1] = "dispatched"    -> {Dynamic} \cup ExactLengths
                    [] cell[1] = "static-oracle" -> {cell[2]}

Comparable(cell, module) ==
  /\ module.refs = [k \in Keys(dir.onnx[Dynamic].model) |-> 1]
  /\ module.widths = WidthsOf(cell)

Vouched(c) ==
  LET model == dir.onnx[Dynamic].model
  IN /\ c.name \in {"exist", "check", "recheck", "count"} => locals.records = <<>>
     /\ c.name \notin {"exist", "check"} =>
          /\ Whole(dir.onnx[Dynamic]) /\ ParameterIdentity(model, Canonical(c.name))
          /\ CoreStructure(model, Text("core", Dynamic), {})
     /\ c.name \notin {"exist", "check", "recheck"} /\ "dispatched" \in locals.variants =>
          CoreStructure(model, Text("multiversioned", Dynamic), ExactLengths)
     /\ c.name \notin {"exist", "check", "recheck", "count"} =>
          Cardinality(DOMAIN Canonical(c.name).bytes) = NumEntries
     /\ c.name = "artifacts" /\ "static-oracle" \in locals.variants =>
          \A i \in DOMAIN dir.oracles : SoundOracle(dir.oracles[i])
     /\ c.name = "measure" =>
          \A cell \in DOMAIN locals.modules : Comparable(cell, locals.modules[cell])

Benching ==
  /\ locals = [program |-> "bench", lengths |-> locals.lengths,
               variants |-> locals.variants, text |-> locals.text,
               canonical |-> locals.canonical, records |-> locals.records,
               modules |-> locals.modules]
  /\ locals.lengths \in OracleLengths /\ locals.variants \in Variants
  /\ Ordered(todo, locals.variants) /\ todo[Len(todo)].name = "measure"
  /\ Building(todo[1]) /\ Vouched(todo[1])

IInv ==
  /\ manifest \in Committed \cup Pinnable
  /\ FileInv
  /\ \/ todo = <<>> /\ locals = Idle
     \/ todo # <<>> /\ passed = "none" /\ ((\E k \in 1..18 : Checking(k)) \/ Oracling \/ Benching)
  /\ passed = "check-e5" => Chain(19)
  /\ OracleClaims
  /\ MeasuredTogether

-----------------------------------------------------------------------------
\* Texts and their references.
LEMMA KeysFinite ==
  ASSUME NEW model, IsFiniteSet(DOMAIN model.inits)
  PROVE  IsFiniteSet(Keys(model)) /\ Cardinality(Keys(model)) \in Nat
<1> DEFINE f == [n \in DOMAIN model.inits |-> irpa_key(n)]
<1>1. f \in Surjection(DOMAIN model.inits, Keys(model))
  BY DEF Surjection, Keys
<1> HIDE DEF f
<1>2. IsFiniteSet(Keys(model))
  BY <1>1, FS_Surjection
<1> QED BY <1>2, FS_CardinalityType

\* A tool that goes wrong leaves a text a text.
LEMMA WrongText ==
  ASSUME NEW text, IsText(text), NEW other \in Wrong(text)
  PROVE  IsText(other) /\ other.end = text.end /\ DOMAIN other.bodies = DOMAIN text.bodies
<1>1. CASE \/ other = [text EXCEPT !.graph = "miscompiled"]
           \/ other = [text EXCEPT !.graph = "miscompiled", !.entries = 0]
  BY <1>1 DEF IsText
<1>2. CASE \E w \in DOMAIN text.bodies : other = [text EXCEPT !.bodies[w].dynamic = TRUE]
  <2>1. PICK w \in DOMAIN text.bodies : other = [text EXCEPT !.bodies[w].dynamic = TRUE]
    BY <1>2
  <2> QED BY <2>1 DEF IsText
<1>3. CASE \E k \in DOMAIN text.refs :
             \/ other = [text EXCEPT !.payload = "dense_resource", !.globals = @ - 1,
                                     !.refs = @ (-) SetToBag({k})]
             \/ other = [text EXCEPT !.globals = @ + 1, !.refs = @ (+) SetToBag({k})]
  <2>1. PICK k \in DOMAIN text.refs :
             \/ other = [text EXCEPT !.payload = "dense_resource", !.globals = @ - 1,
                                     !.refs = @ (-) SetToBag({k})]
             \/ other = [text EXCEPT !.globals = @ + 1, !.refs = @ (+) SetToBag({k})]
    BY <1>3
  <2>2. IsABag(text.refs (-) SetToBag({k})) /\ IsABag(text.refs (+) SetToBag({k}))
    BY DEF IsText, IsABag, SetToBag, (+), (-)
  <2> DEFINE less == text.refs (-) SetToBag({k})
             more == text.refs (+) SetToBag({k})
  <2>3. \/ other = [text EXCEPT !.payload = "dense_resource", !.globals = @ - 1, !.refs = less]
        \/ other = [text EXCEPT !.globals = @ + 1, !.refs = more]
    BY <2>1
  <2> HIDE DEF less, more
  <2>4. IsABag(less) /\ IsABag(more)
    BY <2>2 DEF less, more
  <2> QED BY <2>3, <2>4 DEF IsText
<1> QED BY <1>1, <1>2, <1>3 DEF Wrong, BagToSet

LEMMA ImportedTextOf ==
  ASSUME NEW model, IsNamed(model), NEW width
  PROVE  IsTextOf(ImportedText(model, width), width)
<1> DEFINE refs == [k \in Keys(model) |->
                      Cardinality({n \in DOMAIN model.inits : irpa_key(n) = k})]
<1>1. \A k \in Keys(model) : refs[k] \in {n \in Nat : n > 0}
  <2> TAKE k \in Keys(model)
  <2> DEFINE ns == {n \in DOMAIN model.inits : irpa_key(n) = k}
  <2>1. IsFiniteSet(ns)
    BY FS_Subset DEF IsNamed
  <2>2. ns # {}
    BY DEF Keys
  <2>3. Cardinality(ns) \in Nat /\ Cardinality(ns) # 0
    BY <2>1, <2>2, FS_CardinalityType, FS_EmptySet
  <2> QED BY <2>3
<1>2. IsABag(refs)
  BY <1>1 DEF IsABag
<1> HIDE DEF refs
<1> QED BY <1>2 DEF ImportedText, IsTextOf, IsText, refs

\* References of one key each are all there are.
LEMMA OnceEach ==
  ASSUME NEW refs, NEW keys, IsABag(refs), IsFiniteSet(keys), EachOnce(refs, keys)
  PROVE  refs = [k \in keys |-> 1]
<1>1. DOMAIN refs = keys /\ Cardinality(References(refs)) = Cardinality(keys)
  BY DEF EachOnce
<1>2. \A k \in keys : refs[k] \in Nat /\ refs[k] > 0
  BY <1>1 DEF IsABag
<1> DEFINE once == {<<k, 1>> : k \in keys}
           f == [k \in keys |-> <<k, 1>>]
<1>3. f \in Bijection(keys, once)
  BY DEF Bijection, Injection, IsInjective, Surjection
<1> HIDE DEF f
<1>4. IsFiniteSet(once) /\ Cardinality(once) = Cardinality(keys)
  BY <1>3, FS_Bijection DEF ExistsBijection
<1>5. once \subseteq References(refs)
  BY <1>1, <1>2 DEF References
<1>6. IsFiniteSet(References(refs))
  <2> DEFINE parts == {{k} \X (1..refs[k]) : k \in keys}
             g == [k \in keys |-> {k} \X (1..refs[k])]
  <2>1. g \in Surjection(keys, parts)
    BY DEF Surjection
  <2> HIDE DEF g
  <2>2. IsFiniteSet(parts)
    BY <2>1, FS_Surjection
  <2>3. \A p \in parts : IsFiniteSet(p)
    <3> TAKE p \in parts
    <3>1. PICK k \in keys : p = {k} \X (1..refs[k])
      OBVIOUS
    <3>2. IsFiniteSet({k})
      BY FS_Singleton
    <3>3. IsFiniteSet(1..refs[k])
      BY <1>2, FS_Interval
    <3>4. IsFiniteSet({k} \X (1..refs[k]))
      BY <3>2, <3>3, FS_Product, Zenon
    <3> QED BY <3>1, <3>4
  <2> HIDE DEF parts
  <2>4. IsFiniteSet(UNION parts)
    BY <2>2, <2>3, FS_UNION
  <2> QED BY <1>1, <2>4 DEF References, parts
<1>7. once = References(refs)
  BY <1>1, <1>4, <1>5, <1>6, FS_Subset
<1>8. \A k \in keys : refs[k] = 1
  <2> TAKE k \in keys
  <2>1. <<k, refs[k]>> \in References(refs)
    BY <1>1, <1>2 DEF References
  <2>2. <<k, refs[k]>> \in once
    BY <1>7, <2>1
  <2> QED BY <2>2
<1> QED BY <1>1, <1>8 DEF IsABag

-----------------------------------------------------------------------------
\* The commands of check-e5.
CheckNames == <<"fetch", "validate", "adapt", "reload", "imported", "torch", "builtin",
                "marked", "generic", "core", "dynamic", "inventory", "check", "baseline",
                "specialize", "recheck", "multiversioned", "compare">>

LEMMA CheckCommands ==
  IsSeq(CheckE5) /\ Len(CheckE5) = 18 /\ \A k \in 1..18 : CheckE5[k] = Cmd(CheckNames[k], Dynamic)
<1> DEFINE a == <<"fetch", "validate", "adapt", "reload">>
           b == BridgeStages
           c == <<"dynamic">>
           d == <<"inventory", "check", "baseline", "specialize", "recheck",
                  "multiversioned", "compare">>
<1>1. /\ IsSeq(a) /\ Len(a) = 4 /\ IsSeq(b) /\ Len(b) = 6
      /\ IsSeq(c) /\ Len(c) = 1 /\ IsSeq(d) /\ Len(d) = 7
  <2>1. a \in Seq({"fetch", "validate", "adapt", "reload"}) /\ Len(a) = 4
    OBVIOUS
  <2>2. b \in Seq({"imported", "torch", "builtin", "marked", "generic", "core"}) /\ Len(b) = 6
    BY DEF BridgeStages
  <2>3. c \in Seq({"dynamic"}) /\ Len(c) = 1
    OBVIOUS
  <2>4. d \in Seq({"inventory", "check", "baseline", "specialize", "recheck",
                     "multiversioned", "compare"}) /\ Len(d) = 7
    OBVIOUS
  <2> HIDE DEF a, b, c, d
  <2> QED BY <2>1, <2>2, <2>3, <2>4, SeqIsSeq
<1> DEFINE bc == b \o c
           abc == a \o bc
<1> HIDE DEF a, b, c, d
<1>2. /\ IsSeq(bc) /\ Len(bc) = Len(b) + Len(c)
      /\ \A i \in 1..Len(b) : bc[i] = b[i]
      /\ \A i \in Len(b) + 1..Len(b) + Len(c) : bc[i] = c[i - Len(b)]
  BY <1>1, ConcatIsSeq
<1> HIDE DEF bc
<1>3. /\ IsSeq(abc) /\ Len(abc) = Len(a) + Len(bc)
      /\ \A i \in 1..Len(a) : abc[i] = a[i]
      /\ \A i \in Len(a) + 1..Len(a) + Len(bc) : abc[i] = bc[i - Len(a)]
  <2>1. IsSeq(a) /\ IsSeq(bc)
    BY <1>1, <1>2
  <2> QED BY <2>1, ConcatIsSeq
<1> HIDE DEF abc
<1> DEFINE all == abc \o d
<1>4. /\ IsSeq(all) /\ Len(all) = Len(abc) + Len(d)
      /\ \A i \in 1..Len(abc) : all[i] = abc[i]
      /\ \A i \in Len(abc) + 1..Len(abc) + Len(d) : all[i] = d[i - Len(abc)]
  <2>1. IsSeq(abc) /\ IsSeq(d)
    BY <1>1, <1>3
  <2> QED BY <2>1, ConcatIsSeq
<1> HIDE DEF all
<1>5. \A k \in 1..4 : all[k] = a[k]
  BY <1>1, <1>2, <1>3, <1>4
<1>6. \A k \in 5..10 : all[k] = b[k - 4]
  BY <1>1, <1>2, <1>3, <1>4
<1>7. all[11] = c[1]
  BY <1>1, <1>2, <1>3, <1>4
<1>8. \A k \in 12..18 : all[k] = d[k - 11]
  BY <1>1, <1>2, <1>3, <1>4
<1>9. \A k \in 1..18 : all[k] = CheckNames[k]
  <2>1. \A k \in 1..4 : all[k] = CheckNames[k]
    BY <1>5 DEF a, CheckNames
  <2>2. \A k \in 5..10 : all[k] = CheckNames[k]
    BY <1>6 DEF b, BridgeStages, CheckNames
  <2>3. all[11] = CheckNames[11]
    BY <1>7 DEF c, CheckNames
  <2>4. \A k \in 12..18 : all[k] = CheckNames[k]
    BY <1>8 DEF d, CheckNames
  <2> QED BY <2>1, <2>2, <2>3, <2>4
<1>10. CheckE5 = Cmds(all)
  BY DEF CheckE5, build_e5_bridge, a, b, c, d, bc, abc, all
<1>11. DOMAIN all = 1..18
  BY <1>1, <1>2, <1>3, <1>4 DEF IsSeq
<1>12. CheckE5 = [i \in 1..18 |-> Cmd(all[i], Dynamic)]
  BY <1>10, <1>11 DEF Cmds
<1>13. IsSeq(CheckE5) /\ Len(CheckE5) = 18
  BY <1>12, FunctionIsSeq
<1> QED BY <1>9, <1>12, <1>13

-----------------------------------------------------------------------------
\* The command at the head is taken, or the program ends.
LEMMA HeadOf ==
  ASSUME NEW s, IsSeq(s), Len(s) # 0
  PROVE  s # <<>> /\ Head(s) = s[1] /\ (Tail(s) = <<>> <=> Len(s) = 1)
<1> DEFINE S == Elements(s)
<1>1. s \in Seq(S) /\ s # <<>>
  BY IsSeqSeq, EmptyIsSeq
<1> HIDE DEF S
<1>2. Head(s) = s[1]
  BY <1>1, HeadTailProperties
<1>3. IsSeq(Tail(s)) /\ Len(Tail(s)) = Len(s) - 1 /\ Len(s) \in Nat
  BY TailIsSeq DEF IsSeq
<1>4. Tail(s) = <<>> <=> Len(Tail(s)) = 0
  BY <1>3, EmptyIfNone
<1> QED BY <1>1, <1>2, <1>3, <1>4

\* The program has come to its end, or a command of it has failed.
Ended == todo = <<>> /\ locals = Idle

LEMMA CheckHead ==
  ASSUME NEW k, CheckAt(k)
  PROVE  todo # <<>> /\ Head(todo) = Cmd(CheckNames[k], Dynamic)
<1>1. IsSeq(todo) /\ Len(todo) # 0 /\ k \in 1..18 /\ todo[1] = CheckE5[k]
  BY DEF CheckAt
<1> QED BY <1>1, HeadOf, CheckCommands

LEMMA CheckTail ==
  ASSUME NEW k, CheckAt(k), todo' = Tail(todo)
  PROVE  IF k < 18 THEN CheckAt(k + 1)' /\ todo' # <<>> ELSE todo' = <<>>
<1>1. IsSeq(todo) /\ Len(todo) = 19 - k /\ k \in 1..18 /\ Len(todo) # 0
      /\ \A i \in 1..19 - k : todo[i] = CheckE5[i + k - 1]
  BY DEF CheckAt
<1>2. IsSeq(todo') /\ Len(todo') = Len(todo) - 1 /\ \A i \in 1..Len(todo) - 1 : todo'[i] = todo[i + 1]
  BY <1>1, TailIsSeq
<1>3. todo' = <<>> <=> Len(todo) = 1
  BY <1>1, HeadOf
<1>4. CASE k < 18
  <2>1. \A i \in 1..18 - k : todo'[i] = CheckE5[i + (k + 1) - 1]
    BY <1>1, <1>2
  <2>2. k + 1 \in 1..18 /\ Len(todo') = 19 - (k + 1) /\ 19 - (k + 1) = 18 - k
    BY <1>1, <1>2, <1>4
  <2>3. CheckAt(k + 1)'
    BY <1>2, <2>1, <2>2 DEF CheckAt
  <2> QED BY <1>1, <1>3, <1>4, <2>3
<1>5. CASE k = 18
  BY <1>1, <1>3, <1>5
<1> QED BY <1>1, <1>4, <1>5

\* What is left to show of a command of check-e5.
LEMMA CheckStep ==
  ASSUME NEW k \in 1..18, Checking(k), NEW ok, NEW held, Holding(ok, held),
         held = [program |-> "check-e5", text |-> held.text],
         ok => Chain(k + 1)' /\ (k + 1 \in 6..10 => IsTextOf(held.text, Dynamic))
  PROVE  /\ Ended' \/ (k < 18 /\ todo' # <<>> /\ passed' = "none" /\ Checking(k + 1)')
         /\ passed' = "none" \/ (passed' = "check-e5" /\ Chain(19)')
<1>1. locals.program = "check-e5" /\ CheckAt(k)
  BY DEF Checking
<1>2. CASE ~ ok
  BY <1>2 DEF Holding, Ended
<1>3. CASE ok /\ k < 18
  <2>1. todo' = Tail(todo) /\ (todo' # <<>> => passed' = "none" /\ locals' = held)
    BY <1>3 DEF Holding
  <2>2. CheckAt(k + 1)' /\ todo' # <<>>
    BY <1>1, <1>3, <2>1, CheckTail
  <2>3. locals' = held /\ passed' = "none"
    BY <2>1, <2>2
  <2>4. Chain(k + 1)' /\ (k + 1 \in 6..10 => IsTextOf(held.text, Dynamic))
    BY <1>3
  <2> HIDE DEF Chain, IsTextOf
  <2> QED BY <1>3, <2>2, <2>3, <2>4 DEF Checking
<1>4. CASE ok /\ k = 18
  <2>1. todo' = Tail(todo) /\ (todo' = <<>> => passed' = locals.program /\ locals' = Idle)
    BY <1>4 DEF Holding
  <2>2. todo' = <<>>
    BY <1>1, <1>4, <2>1, CheckTail
  <2>3. Chain(19)'
    BY <1>4
  <2> QED BY <1>1, <2>1, <2>2, <2>3 DEF Ended
<1> QED BY <1>2, <1>3, <1>4

LEMMA Positions ==
  \A k \in 1..18 :
       /\ CheckNames[k] = "fetch" <=> k = 1
       /\ CheckNames[k] = "validate" <=> k = 2
       /\ CheckNames[k] = "adapt" <=> k = 3
       /\ CheckNames[k] = "reload" <=> k = 4
       /\ CheckNames[k] = "imported" <=> k = 5
       /\ CheckNames[k] = "torch" <=> k = 6
       /\ CheckNames[k] = "builtin" <=> k = 7
       /\ CheckNames[k] = "marked" <=> k = 8
       /\ CheckNames[k] = "generic" <=> k = 9
       /\ CheckNames[k] = "core" <=> k = 10
       /\ CheckNames[k] = "dynamic" <=> k = 11
       /\ CheckNames[k] = "inventory" <=> k = 12
       /\ CheckNames[k] = "check" <=> k = 13
       /\ CheckNames[k] = "baseline" <=> k = 14
       /\ CheckNames[k] = "specialize" <=> k = 15
       /\ CheckNames[k] = "recheck" <=> k = 16
       /\ CheckNames[k] = "multiversioned" <=> k = 17
       /\ CheckNames[k] = "compare" <=> k = 18
  BY DEF CheckNames

LEMMA Doings ==
  ASSUME NEW k \in 1..18, CheckAt(k), NEW name, Doing(name)
  PROVE  CheckNames[k] = name /\ Width = Dynamic
  BY CheckHead DEF Doing, Cmd, Width

-----------------------------------------------------------------------------
\* The files after a command.
LEMMA NamedModel ==
  ASSUME NEW model, IsModel(model)
  PROVE  IsNamed(Adapted(model))
<1> DEFINE inputs  == [name \in INPUTS |-> [model.inputs[name] EXCEPT !.shape[1] = 1]]
           outputs == [name \in {OUTPUT} |-> <<1, 384>>]
<1>1. Adapted(model) = [model EXCEPT !.inputs = inputs, !.outputs = outputs]
  BY DEF Adapted
<1> HIDE DEF inputs, outputs
<1> QED BY <1>1 DEF IsModel, IsNamed

LEMMA WidthsType == Widths \subseteq Nat /\ Dynamic \in Widths
<1>1. \A lengths \in OracleLengths : ToSet(lengths) \subseteq Nat
  <2> TAKE lengths \in OracleLengths
  <2>1. lengths \in Seq(1..512)
    BY LengthsAssumption
  <2>2. \A i \in DOMAIN lengths : lengths[i] \in 1..512
    <3>1. DOMAIN lengths = 1..Len(lengths)
      BY <2>1, LenProperties
    <3>2. \A i \in 1..Len(lengths) : lengths[i] \in 1..512
      BY <2>1, ElementOfSeq, Zenon
    <3> QED BY <3>1, <3>2
  <2>3. \A i \in DOMAIN lengths : lengths[i] \in Nat
    BY <2>2
  <2> QED BY <2>3 DEF ToSet
<1> QED BY <1>1 DEF Widths, Dynamic

LEMMA FileFrame ==
  ASSUME FileInv,
         \/ dir' = dir
         \/ \E source : dir' = [dir EXCEPT !.source = source]
         \/ \E archives : dir' = [dir EXCEPT !.archives = archives]
         \/ \E oracles : dir' = [dir EXCEPT !.oracles = oracles]
         \/ \E name, module : dir' = [dir EXCEPT !.modules[name] = module]
  PROVE  FileInv' /\ dir'.summary = dir.summary
<1> USE DEF FileInv, IsFile, Whole
<1>1. CASE dir' = dir
  BY <1>1
<1>2. CASE \E source : dir' = [dir EXCEPT !.source = source]
  BY <1>2
<1>3. CASE \E archives : dir' = [dir EXCEPT !.archives = archives]
  BY <1>3
<1>4. CASE \E oracles : dir' = [dir EXCEPT !.oracles = oracles]
  BY <1>4
<1>5. CASE \E name, module : dir' = [dir EXCEPT !.modules[name] = module]
  BY <1>5
<1> QED BY <1>1, <1>2, <1>3, <1>4, <1>5

LEMMA FileOnnx ==
  ASSUME FileInv, NEW w \in Widths, NEW onnx, Whole(onnx) => IsNamed(onnx.model),
         dir' = [dir EXCEPT !.onnx[w] = onnx]
  PROVE  FileInv' /\ dir'.summary = dir.summary
<1>1. /\ dir'.onnx = [dir.onnx EXCEPT ![w] = onnx]
      /\ dir' = [source   |-> dir.source,   onnx  |-> dir'.onnx,
                 archives |-> dir.archives, texts |-> dir.texts,
                 modules  |-> dir.modules,  oracles |-> dir.oracles,
                 summary  |-> dir.summary]
  BY DEF FileInv
<1>2. DOMAIN dir'.onnx = Widths /\ \A v \in Widths : dir'.onnx[v] = IF v = w THEN onnx ELSE dir.onnx[v]
  BY <1>1 DEF FileInv
<1> QED BY <1>1, <1>2 DEF FileInv

LEMMA FileText ==
  ASSUME FileInv, NEW stage, NEW w, NEW text, IsFile(text, <<stage, w>>),
         dir' = PutText(stage, w, text)
  PROVE  FileInv' /\ dir'.summary = dir.summary
<1>1. CASE <<stage, w>> \notin TextNames
  BY <1>1, FileFrame DEF PutText
<1>2. CASE <<stage, w>> \in TextNames
  <2> DEFINE n == <<stage, w>>
  <2>0. n \in TextNames /\ dir' = [dir EXCEPT !.texts[n] = text] /\ IsFile(text, n)
    BY <1>2 DEF PutText
  <2> HIDE DEF n
  <2>1. /\ dir'.texts = [dir.texts EXCEPT ![n] = text]
        /\ dir' = [source   |-> dir.source,   onnx  |-> dir.onnx,
                   archives |-> dir.archives, texts |-> dir'.texts,
                   modules  |-> dir.modules,  oracles |-> dir.oracles,
                   summary  |-> dir.summary]
    BY <2>0 DEF FileInv
  <2>2. DOMAIN dir'.texts = TextNames /\ \A m \in TextNames : dir'.texts[m] = IF m = n THEN text ELSE dir.texts[m]
    BY <2>0, <2>1 DEF FileInv
  <2> QED BY <2>0, <2>1, <2>2 DEF FileInv
<1> QED BY <1>1, <1>2

-----------------------------------------------------------------------------
\* The commands of check-e5.
Passes(k) ==
  /\ Ended' \/ (k < 18 /\ todo' # <<>> /\ passed' = "none" /\ Checking(k + 1)')
  /\ passed' = "none" \/ (passed' = "check-e5" /\ Chain(19)')

CheckGoal(k) == Passes(k) /\ FileInv' /\ dir'.summary = dir.summary

LEMMA CheckFetch ==
  ASSUME FileInv, NEW k \in 1..18, Checking(k), Fetch
  PROVE  CheckGoal(k)
<1>1. k = 1
  BY Doings, Positions DEF Checking, Fetch
<1> DEFINE ok == TRUE
<1>2. dir' = [dir EXCEPT !.source = manifest.release] /\ Holding(ok, locals)
  BY DEF Fetch, Writes
<1>3. manifest' = manifest
  BY <1>2 DEF Holding
<1>4. ok => Chain(2)'
  BY <1>2, <1>3 DEF Chain, FileInv
<1>5. Passes(k)
  <2> HIDE DEF ok
  <2> QED BY <1>1, <1>2, <1>4, CheckStep DEF Checking, Passes
<1>6. FileInv' /\ dir'.summary = dir.summary
  BY <1>2, FileFrame
<1> QED BY <1>5, <1>6 DEF CheckGoal

LEMMA CheckValidate ==
  ASSUME FileInv, NEW k \in 1..18, Checking(k), Validate
  PROVE  CheckGoal(k)
<1>1. k = 2
  BY Doings, Positions DEF Checking, Validate
<1> DEFINE ok == validate_hashes /\ ValidMetadata(dir.source.model, dir.source.config)
<1>2. dir' = dir /\ Holding(ok, locals)
  BY DEF Validate, Check, Writes
<1>3. manifest' = manifest
  BY <1>2 DEF Holding
<1>4. Chain(2)
  BY <1>1 DEF Checking
<1>5. ok => Chain(3)'
  BY <1>2, <1>3, <1>4 DEF Chain
<1>6. Passes(k)
  <2> HIDE DEF ok
  <2> QED BY <1>1, <1>2, <1>5, CheckStep DEF Checking, Passes
<1>7. FileInv' /\ dir'.summary = dir.summary
  BY <1>2, FileFrame
<1> QED BY <1>6, <1>7 DEF CheckGoal

LEMMA Pinned ==
  ASSUME IInv, NEW k, Checking(k), k > 1
  PROVE  IsModel(dir.source.model) /\ IsNamed(Adapted(dir.source.model))
<1>1. IsModel(manifest.release.model)
  BY PinsAssumption DEF IInv
<1>2. dir.source = manifest.release
  BY DEF Checking, Chain
<1> QED BY <1>1, <1>2, NamedModel

LEMMA CheckAdapt ==
  ASSUME IInv, NEW k \in 1..18, Checking(k), Adapt
  PROVE  CheckGoal(k)
<1>1. k = 3
  BY Doings, Positions DEF Checking, Adapt
<1> DEFINE model == Adapted(dir.source.model)
           ok == CanAdapt(dir.source.model) /\ validate_dynamic_contract(model)
           onnx == [end |-> "whole", model |-> model]
<1>2. /\ dir' = IF ok THEN [dir EXCEPT !.onnx[Dynamic] = onnx] ELSE dir
      /\ Holding(ok, locals)
  BY DEF Adapt, Writes, PutOnnx
<1>3. manifest' = manifest
  BY <1>2 DEF Holding
<1>4. Chain(3) /\ FileInv /\ Dynamic \in Widths
  BY <1>1, WidthsType DEF Checking, IInv
<1>5. ok => Chain(4)'
  <2> SUFFICES ASSUME ok PROVE Chain(4)'
    OBVIOUS
  <2>1. dir' = [dir EXCEPT !.onnx[Dynamic] = onnx]
    BY <1>2
  <2>2. dir'.source = dir.source /\ dir'.onnx[Dynamic] = onnx
    BY <1>4, <2>1 DEF FileInv
  <2> QED BY <1>3, <1>4, <2>2 DEF Chain
<1>6. Passes(k)
  <2> HIDE DEF ok
  <2> QED BY <1>1, <1>2, <1>5, CheckStep DEF Checking, Passes
<1>7. FileInv' /\ dir'.summary = dir.summary
  <2>1. IsNamed(onnx.model)
    BY <1>1, Pinned
  <2> HIDE DEF ok, onnx
  <2>2. CASE ok
    BY <1>2, <1>4, <2>1, <2>2, FileOnnx
  <2>3. CASE ~ ok
    BY <1>2, <1>4, <2>3, FileFrame
  <2> QED BY <2>2, <2>3
<1> QED BY <1>6, <1>7 DEF CheckGoal

LEMMA CheckReload ==
  ASSUME IInv, NEW k \in 1..18, Checking(k), Reload
  PROVE  CheckGoal(k)
<1>1. k = 4
  BY Doings, Positions DEF Checking, Reload
<1> DEFINE ok == assert_initializer_identity(dir.source.model.inits, dir.onnx[Dynamic].model)
<1>2. dir' = dir /\ Holding(ok, locals)
  BY DEF Reload, Check, Writes
<1>3. manifest' = manifest
  BY <1>2 DEF Holding
<1>4. Chain(4)
  BY <1>1 DEF Checking
<1>5. ok => Chain(5)'
  BY <1>2, <1>3, <1>4 DEF Chain
<1>6. Passes(k)
  <2> HIDE DEF ok
  <2> QED BY <1>1, <1>2, <1>5, CheckStep DEF Checking, Passes
<1>7. FileInv' /\ dir'.summary = dir.summary
  BY <1>2, FileFrame DEF IInv
<1> QED BY <1>6, <1>7 DEF CheckGoal

\* What a tool that may go wrong leaves.
LEMMA WrongTextOf ==
  ASSUME NEW text, NEW w, IsTextOf(text, w), NEW other \in {text} \cup Wrong(text)
  PROVE  IsTextOf(other, w)
  BY WrongText DEF IsTextOf

LEMMA ImportDoes ==
  ASSUME Import
  PROVE  \E archives : \E t \in {ImportedText(dir.onnx[Width].model, Width)}
                                  \cup Wrong(ImportedText(dir.onnx[Width].model, Width)) :
           /\ dir' = [dir EXCEPT !.archives = archives]
           /\ Holding(TRUE, [locals EXCEPT !.text = t])
  BY Zenon DEF Import, Tool

\* The bridge saves the parameters of its model, or other bytes.
LEMMA ImportSaves ==
  ASSUME Import, Width = Dynamic
  PROVE  \E archive \in {Irpa(dir.onnx[Dynamic].model),
                          Repacked(Irpa(dir.onnx[Dynamic].model))} :
         \E t \in {ImportedText(dir.onnx[Dynamic].model, Dynamic)}
                    \cup Wrong(ImportedText(dir.onnx[Dynamic].model, Dynamic)) :
           /\ dir' = [dir EXCEPT !.archives = Saved("e5.irpa", archive)]
           /\ Holding(TRUE, [locals EXCEPT !.text = t])
<1> DEFINE model == dir.onnx[Dynamic].model
           text  == ImportedText(model, Dynamic)
           saved == Saved("e5.irpa", Irpa(model))
           other == Saved("e5.irpa", Repacked(Irpa(model)))
           wrong == ({saved} \X Wrong(text)) \cup (({other} \cup {}) \X {text})
           Do(out) == /\ dir' = [dir EXCEPT !.archives = out[1]]
                      /\ Holding(TRUE, [locals EXCEPT !.text = out[2]])
<1>1. \E out \in {<<saved, text>>} \cup wrong : Do(out)
  BY Zenon DEF Import, Tool
<1>2. PICK out \in {<<saved, text>>} \cup wrong : Do(out)
  BY <1>1
<1>3. out[1] \in {saved, other} /\ out[2] \in {text} \cup Wrong(text)
  <2> HIDE DEF saved, text, other
  <2> QED OBVIOUS
<1> HIDE DEF saved, text, other
<1> QED BY <1>2, <1>3 DEF saved, text, other

LEMMA LowerDoes ==
  ASSUME Lower
  PROVE  \E t \in {locals.text} \cup Wrong(locals.text) :
           /\ dir' = PutText(Head(todo).name, Width, t)
           /\ Holding(TRUE, [locals EXCEPT !.text = t])
  BY Zenon DEF Lower, Tool

LEMMA CheckImport ==
  ASSUME IInv, NEW k \in 1..18, Checking(k), Import
  PROVE  CheckGoal(k)
<1>1. k = 5 /\ Width = Dynamic
  BY Doings, Positions DEF Checking, Import
<1> DEFINE model == dir.onnx[Dynamic].model
           text == ImportedText(model, Dynamic)
           ok == TRUE
<1>2. PICK archive \in {Irpa(model), Repacked(Irpa(model))} :
        \E t \in {text} \cup Wrong(text) :
           /\ dir' = [dir EXCEPT !.archives = Saved("e5.irpa", archive)]
           /\ Holding(ok, [locals EXCEPT !.text = t])
  BY <1>1, ImportSaves
<1>3. PICK t \in {text} \cup Wrong(text) :
           /\ dir' = [dir EXCEPT !.archives = Saved("e5.irpa", archive)]
           /\ Holding(ok, [locals EXCEPT !.text = t])
  BY <1>2
<1>4. Chain(5)
  BY <1>1 DEF Checking
<1>5. IsNamed(model)
  BY <1>1, <1>4, Pinned DEF Chain
<1>6. IsTextOf(t, Dynamic)
  BY <1>5, ImportedTextOf, WrongTextOf
<1>7. manifest' = manifest
  BY <1>3 DEF Holding
<1>8. Chain(6)'
  <2>1. model = Adapted(dir.source.model)
    BY <1>4 DEF Chain
  <2> DEFINE archives == Saved("e5.irpa", archive)
             good == Irpa(model)
             bad  == Repacked(Irpa(model))
  <2>2. /\ archives["e5.irpa"] = good \/ archives["e5.irpa"] = bad
        /\ good = Irpa(Adapted(dir.source.model))
        /\ bad = Repacked(Irpa(Adapted(dir.source.model)))
    BY <1>2, <2>1 DEF Saved
  <2>3. /\ dir'.source = dir.source /\ dir'.onnx = dir.onnx
        /\ dir'.archives["e5.irpa"] = archives["e5.irpa"]
    <3> HIDE DEF archives
    <3> QED BY <1>3 DEF IInv, FileInv, archives
  <2> HIDE DEF archives, good, bad
  <2>4. ImportedArchive(Adapted(dir.source.model))'
    BY <2>2, <2>3 DEF ImportedArchive, Archive
  <2> HIDE DEF model
  <2> QED BY <1>4, <1>7, <2>3, <2>4 DEF Chain
<1> DEFINE held == [locals EXCEPT !.text = t]
<1>9. held = [program |-> "check-e5", text |-> held.text] /\ held.text = t
  BY DEF Checking
<1>10. Passes(k)
  <2>1. Chain(k + 1)' /\ IsTextOf(held.text, Dynamic)
    BY <1>1, <1>6, <1>8, <1>9
  <2>2. Holding(ok, held)
    BY <1>3
  <2> HIDE DEF ok, held
  <2> QED BY <1>9, <2>1, <2>2, CheckStep DEF Passes
<1>11. FileInv' /\ dir'.summary = dir.summary
  BY <1>3, FileFrame DEF IInv
<1> QED BY <1>10, <1>11 DEF CheckGoal

LEMMA CheckLower ==
  ASSUME IInv, NEW k \in 1..18, Checking(k), Lower
  PROVE  CheckGoal(k)
<1>1. k \in {6, 7, 9, 10} /\ Width = Dynamic /\ Head(todo).name = CheckNames[k]
  <2>1. CheckAt(k)
    BY DEF Checking
  <2>2. Head(todo).name = CheckNames[k] /\ Width = Dynamic
    BY <2>1, CheckHead DEF Cmd, Width
  <2> QED BY <2>2, Positions DEF Lower, Lowered
<1> DEFINE name == CheckNames[k]
           ok == TRUE
<1>2. PICK t \in {locals.text} \cup Wrong(locals.text) :
           /\ dir' = PutText(name, Dynamic, t)
           /\ Holding(ok, [locals EXCEPT !.text = t])
  BY <1>1, LowerDoes
<1>3. Chain(k) /\ IsTextOf(locals.text, Dynamic) /\ FileInv
  BY <1>1 DEF Checking, IInv
<1>5. IsTextOf(t, Dynamic)
  BY <1>3, WrongTextOf
<1>6. manifest' = manifest
  BY <1>2 DEF Holding
<1>7. dir'.source = dir.source /\ dir'.onnx = dir.onnx /\ dir'.archives = dir.archives
  BY <1>2, <1>3 DEF PutText, FileInv
<1>8. k = 10 => Text("core", Dynamic)' = t
  <2> SUFFICES ASSUME k = 10 PROVE Text("core", Dynamic)' = t
    OBVIOUS
  <2>1. name = "core" /\ <<"core", Dynamic>> \in TextNames
    BY Positions, WidthsType DEF TextNames
  <2> DEFINE n == <<"core", Dynamic>>
  <2>2. dir' = [dir EXCEPT !.texts[n] = t] /\ n \in TextNames
    BY <1>2, <2>1 DEF PutText
  <2> HIDE DEF n
  <2>3. dir'.texts[n] = t
    BY <1>3, <2>2 DEF FileInv
  <2> QED BY <2>3 DEF n, Text
<1>9. Chain(k + 1)'
  BY <1>1, <1>3, <1>5, <1>6, <1>7, <1>8 DEF Chain, Archive, ImportedArchive
<1> DEFINE held == [locals EXCEPT !.text = t]
<1>10. held = [program |-> "check-e5", text |-> held.text] /\ held.text = t
  BY DEF Checking
<1>11. Passes(k)
  <2>1. Holding(ok, held) /\ (ok => Chain(k + 1)' /\ (k + 1 \in 6..10 => IsTextOf(held.text, Dynamic)))
    BY <1>2, <1>5, <1>9, <1>10
  <2> HIDE DEF ok, held
  <2> QED BY <1>10, <2>1, CheckStep DEF Passes
<1>12. FileInv' /\ dir'.summary = dir.summary
  <2>1. IsFile(t, <<name, Dynamic>>)
    BY <1>5 DEF IsFile, IsTextOf
  <2> HIDE DEF name
  <2> QED BY <1>2, <1>3, <2>1, FileText
<1> QED BY <1>11, <1>12 DEF CheckGoal

LEMMA CheckMark ==
  ASSUME IInv, NEW k \in 1..18, Checking(k), mark_entry
  PROVE  CheckGoal(k)
<1>1. k = 8
  BY Doings, Positions DEF Checking, mark_entry
<1> DEFINE ok == locals.text.entries = 1
           held == [locals EXCEPT !.text.markers = 1]
<1>2. dir' = dir /\ Holding(ok, held)
  BY DEF mark_entry
<1>3. manifest' = manifest
  BY <1>2 DEF Holding
<1>4. Chain(8) /\ IsTextOf(locals.text, Dynamic)
  BY <1>1 DEF Checking
<1>5. Chain(9)'
  BY <1>2, <1>3, <1>4 DEF Chain, Archive, ImportedArchive
<1> DEFINE text == locals.text
<1>6. held = [program |-> "check-e5", text |-> [text EXCEPT !.markers = 1]]
  BY DEF Checking
<1>7. IsTextOf(held.text, Dynamic)
  <2> HIDE DEF held, text
  <2>1. IsTextOf(text, Dynamic) /\ held.text = [text EXCEPT !.markers = 1]
    BY <1>4, <1>6 DEF text
  <2> QED BY <2>1 DEF IsTextOf, IsText
<1>8. Passes(k)
  <2>1. held = [program |-> "check-e5", text |-> held.text]
    BY <1>6
  <2> HIDE DEF ok, held
  <2> QED BY <1>1, <1>2, <1>5, <1>7, <2>1, CheckStep DEF Passes
<1>9. FileInv' /\ dir'.summary = dir.summary
  BY <1>2, FileFrame DEF IInv
<1> QED BY <1>8, <1>9 DEF CheckGoal

\* iree-compile, for check-e5 and for nothing else.
LEMMA CompileDoes ==
  ASSUME Compile, NEW name, Head(todo).name = name
  PROVE  LET module == Module(Text(IF name = "dynamic" THEN "core" ELSE name, Dynamic))
         IN \E m \in {module, [module EXCEPT !.graph = "miscompiled"]} :
              dir' = [dir EXCEPT !.modules[name] = m] /\ Holding(TRUE, locals)
  BY Zenon DEF Compile, Tool

LEMMA CheckCompile ==
  ASSUME IInv, NEW k \in 1..18, Checking(k), Compile
  PROVE  CheckGoal(k)
<1>1. k \in {11, 17} /\ Head(todo).name = CheckNames[k]
  <2>1. CheckAt(k)
    BY DEF Checking
  <2>2. Head(todo).name = CheckNames[k]
    BY <2>1, CheckHead DEF Cmd
  <2> QED BY <2>2, Positions DEF Compile, Doing
<1> DEFINE name == CheckNames[k]
           source == Text(IF name = "dynamic" THEN "core" ELSE name, Dynamic)
           ok == TRUE
<1>2. PICK m \in {Module(source), [Module(source) EXCEPT !.graph = "miscompiled"]} :
           dir' = [dir EXCEPT !.modules[name] = m] /\ Holding(ok, locals)
  BY <1>1, CompileDoes
<1>3. Chain(k) /\ FileInv
  BY DEF Checking, IInv
<1>4. name = IF k = 11 THEN "dynamic" ELSE "multiversioned"
  BY <1>1 DEF CheckNames
<1>5. manifest' = manifest
  BY <1>2 DEF Holding
<1>6. /\ dir'.source = dir.source /\ dir'.onnx = dir.onnx
      /\ dir'.archives = dir.archives /\ dir'.texts = dir.texts
      /\ dir'.modules = [dir.modules EXCEPT ![name] = m]
  BY <1>2, <1>3 DEF FileInv
<1>7. dir'.modules[name] = m /\ \A other \in DOMAIN dir.modules \ {name} : dir'.modules[other] = dir.modules[other]
  BY <1>3, <1>4, <1>6 DEF FileInv
<1>8. Compiled(name, source)'
  BY <1>2, <1>6, <1>7 DEF Compiled, Text, Module
<1>9. Chain(k + 1)'
  <2>1. CASE k = 11
    <3>1. Compiled("dynamic", Text("core", Dynamic))'
      BY <1>4, <1>8, <2>1
    <3> QED BY <1>3, <1>5, <1>6, <2>1, <3>1 DEF Chain, Text, Archive, ImportedArchive
  <2>2. CASE k = 17
    <3>1. Compiled("multiversioned", Text("multiversioned", Dynamic))'
      BY <1>4, <1>8, <2>2
    <3>2. dir'.modules["dynamic"] = dir.modules["dynamic"]
      BY <1>3, <1>4, <1>7, <2>2 DEF FileInv
    <3> QED BY <1>3, <1>5, <1>6, <2>2, <3>1, <3>2 DEF Chain, Text, Archive, ImportedArchive, Compiled
  <2> QED BY <1>1, <2>1, <2>2
<1>10. Passes(k)
  <2>1. Holding(ok, locals) /\ locals = [program |-> "check-e5", text |-> locals.text]
    BY <1>2 DEF Checking
  <2>2. k + 1 \notin 6..10
    BY <1>1
  <2> HIDE DEF ok
  <2> QED BY <1>9, <2>1, <2>2, CheckStep DEF Passes
<1>11. FileInv' /\ dir'.summary = dir.summary
  BY <1>2, <1>3, FileFrame
<1> QED BY <1>10, <1>11 DEF CheckGoal

\* A command that only looks at files: what holds after it.
LEMMA CheckLooks ==
  ASSUME IInv, NEW k \in 1..18, Checking(k), k + 1 \notin 6..10, NEW ok, Check(ok),
         ok /\ dir' = dir /\ manifest' = manifest => Chain(k + 1)'
  PROVE  CheckGoal(k)
<1>1. dir' = dir /\ Holding(ok, locals) /\ manifest' = manifest
  BY DEF Check, Writes, Holding
<1>2. locals = [program |-> "check-e5", text |-> locals.text]
  BY DEF Checking
<1>3. Passes(k)
  BY <1>1, <1>2, CheckStep DEF Passes
<1>4. FileInv' /\ dir'.summary = dir.summary
  BY <1>1, FileFrame DEF IInv
<1> QED BY <1>3, <1>4 DEF CheckGoal

LEMMA CheckInventory ==
  ASSUME IInv, NEW k \in 1..18, Checking(k), Inventory
  PROVE  CheckGoal(k)
<1>1. k = 12
  BY Doings, Positions DEF Checking, Inventory
<1> DEFINE ok == reviewed = render(manifest.revision, Text("generic", Dynamic))
<1>2. Check(ok)
  BY DEF Inventory
<1>3. Chain(12)
  BY <1>1 DEF Checking
<1>4. ok /\ dir' = dir /\ manifest' = manifest => Chain(13)'
  BY <1>3 DEF Chain, Text, Compiled, Archive, ImportedArchive
<1> HIDE DEF ok
<1> QED BY <1>1, <1>2, <1>4, CheckLooks

LEMMA CheckChecked ==
  ASSUME IInv, NEW k \in 1..18, Checking(k), CheckBridge
  PROVE  CheckGoal(k)
<1>1. k = 13
  BY Doings, Positions DEF Checking, CheckBridge
<1> DEFINE onnx == dir.onnx[Dynamic]
           ok == /\ Whole(onnx) /\ ParameterIdentity(onnx.model, Archive)
                 /\ CoreStructure(onnx.model, Text("core", Dynamic), {})
<1>2. Check(ok)
  BY DEF CheckBridge
<1>3. Chain(13)
  BY <1>1 DEF Checking
<1>4. ok /\ dir' = dir /\ manifest' = manifest => Chain(14)'
  BY <1>3 DEF Chain, Text, Compiled, Archive, ImportedArchive
<1> HIDE DEF ok
<1> QED BY <1>1, <1>2, <1>4, CheckLooks

LEMMA CheckBaseline ==
  ASSUME IInv, NEW k \in 1..18, Checking(k), Baseline
  PROVE  CheckGoal(k)
<1>1. k = 14
  BY Doings, Positions DEF Checking, Baseline
<1> DEFINE ok == Agrees(dir.modules["dynamic"], Archive, dir.onnx[Dynamic].model, 17)
<1>2. Check(ok)
  BY DEF Baseline
<1>3. Chain(14)
  BY <1>1 DEF Checking
<1>4. ok /\ dir' = dir /\ manifest' = manifest => Chain(15)'
  BY <1>3 DEF Chain, Text, Compiled, Archive, ImportedArchive, Agrees
<1> HIDE DEF ok
<1> QED BY <1>1, <1>2, <1>4, CheckLooks

LEMMA CheckRecheck ==
  ASSUME IInv, NEW k \in 1..18, Checking(k), Recheck
  PROVE  CheckGoal(k)
<1>1. k = 16
  BY Doings, Positions DEF Checking, Recheck
<1> DEFINE onnx == dir.onnx[Dynamic]
           ok == /\ Whole(onnx) /\ ParameterIdentity(onnx.model, Archive)
                 /\ CoreStructure(onnx.model, Text("multiversioned", Dynamic),
                                  ExactLengths)
<1>2. Check(ok)
  BY DEF Recheck
<1>3. Chain(16)
  BY <1>1 DEF Checking
<1>4. ok /\ dir' = dir /\ manifest' = manifest => Chain(17)'
  BY <1>3 DEF Chain, Text, Compiled, Archive, ImportedArchive
<1> HIDE DEF ok
<1> QED BY <1>1, <1>2, <1>4, CheckLooks

LEMMA CheckCompare ==
  ASSUME IInv, NEW k \in 1..18, Checking(k), Compare
  PROVE  CheckGoal(k)
<1>1. k = 18
  BY Doings, Positions DEF Checking, Compare
<1> DEFINE ok == \A name \in {"dynamic", "multiversioned"}, w \in ExactLengths \cup {17} :
                    Agrees(dir.modules[name], Archive, dir.onnx[Dynamic].model, w)
<1>2. Check(ok)
  BY DEF Compare
<1>3. Chain(18)
  BY <1>1 DEF Checking
<1>4. ok /\ dir' = dir /\ manifest' = manifest => Chain(19)'
  <2> SUFFICES ASSUME ok, dir' = dir, manifest' = manifest PROVE Chain(19)'
    OBVIOUS
  <2>1. Agrees(dir.modules["multiversioned"], Archive, dir.onnx[Dynamic].model, 17)
    OBVIOUS
  <2>2. dir.modules["multiversioned"].graph = Adapted(dir.source.model).graph
    BY <1>3, <2>1 DEF Agrees, Chain
  <2> QED BY <1>3, <2>2 DEF Chain, Text, Compiled, Archive, ImportedArchive
<1> HIDE DEF ok
<1> QED BY <1>1, <1>2, <1>4, CheckLooks

\* A text that is written next to others.
LEMMA PutTextAt ==
  ASSUME FileInv, NEW stage, NEW w, <<stage, w>> \in TextNames, NEW text,
         dir' = PutText(stage, w, text)
  PROVE  /\ dir'.source = dir.source /\ dir'.onnx = dir.onnx
         /\ dir'.archives = dir.archives /\ dir'.modules = dir.modules
         /\ dir'.oracles = dir.oracles
         /\ Text(stage, w)' = text
         /\ \A name, v : <<name, v>> \in TextNames /\ <<name, v>> # <<stage, w>> =>
              Text(name, v)' = Text(name, v)
<1> DEFINE n == <<stage, w>>
<1>1. n \in TextNames /\ dir' = [dir EXCEPT !.texts[n] = text]
  BY DEF PutText
<1>2. Text(stage, w)' = dir'.texts[n] /\ DOMAIN dir.texts = TextNames
  BY DEF Text, FileInv
<1> HIDE DEF n
<1>3. /\ dir'.source = dir.source /\ dir'.onnx = dir.onnx
      /\ dir'.archives = dir.archives /\ dir'.modules = dir.modules
      /\ dir'.oracles = dir.oracles /\ dir'.texts = [dir.texts EXCEPT ![n] = text]
  BY <1>1 DEF FileInv
<1>4. dir'.texts[n] = text /\ \A m \in TextNames : m # n => dir'.texts[m] = dir.texts[m]
  BY <1>1, <1>2, <1>3
<1> QED BY <1>2, <1>3, <1>4 DEF n, Text

LEMMA SpecializeDoes ==
  ASSUME Specialize
  PROVE  LET text == SpecializedText(Text("core", Dynamic))
         IN \E t \in {text} \cup Wrong(text) :
              dir' = PutText("multiversioned", Dynamic, t) /\ Holding(TRUE, locals)
  BY Zenon DEF Specialize, Tool

LEMMA SpecializedIsText ==
  ASSUME NEW core, IsText(core)
  PROVE  IsText(SpecializedText(core)) /\ SpecializedText(core).end = core.end
<1> DEFINE bodies == [w \in {Dynamic} \cup ExactLengths |->
                        [core.bodies[Dynamic] EXCEPT !.dynamic = (w = Dynamic)]]
<1>1. SpecializedText(core) = [core EXCEPT !.markers = 0, !.bodies = bodies]
  BY DEF SpecializedText
<1> HIDE DEF bodies
<1> QED BY <1>1 DEF IsText

LEMMA CheckSpecialize ==
  ASSUME IInv, NEW k \in 1..18, Checking(k), Specialize
  PROVE  CheckGoal(k)
<1>1. k = 15
  BY Doings, Positions DEF Checking, Specialize
<1> DEFINE core == Text("core", Dynamic)
           text == SpecializedText(core)
           ok == TRUE
<1>2. PICK t \in {text} \cup Wrong(text) :
           dir' = PutText("multiversioned", Dynamic, t) /\ Holding(ok, locals)
  BY SpecializeDoes
<1>3. Chain(15) /\ FileInv
  BY <1>1 DEF Checking, IInv
<1>4. IsText(t) /\ t.end = "whole"
  <2>1. IsText(text) /\ text.end = "whole"
    BY <1>3, SpecializedIsText DEF Chain, IsTextOf
  <2> HIDE DEF text
  <2> QED BY <2>1, WrongText
<1>5. manifest' = manifest
  BY <1>2 DEF Holding
<1>6. /\ <<"multiversioned", Dynamic>> \in TextNames /\ <<"core", Dynamic>> \in TextNames
      /\ <<"core", Dynamic>> # <<"multiversioned", Dynamic>>
  BY WidthsType DEF TextNames
<1>7. /\ dir'.source = dir.source /\ dir'.onnx = dir.onnx
      /\ dir'.archives = dir.archives /\ dir'.modules = dir.modules
      /\ Text("multiversioned", Dynamic)' = t /\ core' = core
  BY <1>2, <1>3, <1>6, PutTextAt, Zenon
<1>8. Chain(16)'
  BY <1>3, <1>4, <1>5, <1>7 DEF Chain, Archive, ImportedArchive, Compiled
<1>9. Passes(k)
  <2>1. Holding(ok, locals) /\ locals = [program |-> "check-e5", text |-> locals.text]
    BY <1>2 DEF Checking
  <2> HIDE DEF ok
  <2> QED BY <1>1, <1>8, <2>1, CheckStep DEF Passes
<1>10. FileInv' /\ dir'.summary = dir.summary
  <2>1. IsFile(t, <<"multiversioned", Dynamic>>)
    BY <1>4 DEF IsFile
  <2> QED BY <1>2, <1>3, <2>1, FileText
<1> QED BY <1>9, <1>10 DEF CheckGoal

\* No other command is one of check-e5.
LEMMA CheckCommand ==
  ASSUME IInv, NEW k \in 1..18, Checking(k), Command
  PROVE  CheckGoal(k)
<1>1. CheckAt(k) /\ FileInv
  BY DEF Checking, IInv
<1>2. \A name \in {"begin", "staticize", "end", "manifest", "exist", "count", "artifacts",
                   "measure"} : ~ Doing(name)
  <2>1. \A name \in {"begin", "staticize", "end", "manifest", "exist", "count", "artifacts",
                     "measure"} : CheckNames[k] # name
    BY DEF CheckNames
  <2> QED BY <1>1, <2>1, Doings
<1>3. CASE Fetch          BY <1>1, <1>3, CheckFetch
<1>4. CASE Validate       BY <1>1, <1>4, CheckValidate
<1>5. CASE Adapt          BY <1>5, CheckAdapt
<1>6. CASE Reload         BY <1>6, CheckReload
<1>7. CASE Import         BY <1>7, CheckImport
<1>8. CASE Lower          BY <1>8, CheckLower
<1>9. CASE mark_entry     BY <1>9, CheckMark
<1>10. CASE Compile       BY <1>10, CheckCompile
<1>11. CASE Inventory     BY <1>11, CheckInventory
<1>12. CASE CheckBridge   BY <1>12, CheckChecked
<1>13. CASE Baseline      BY <1>13, CheckBaseline
<1>14. CASE Specialize    BY <1>14, CheckSpecialize
<1>15. CASE Recheck       BY <1>15, CheckRecheck
<1>16. CASE Compare       BY <1>16, CheckCompare
<1>17. ~ (Begin \/ staticize_model \/ End \/ WriteManifest \/ Exist \/ Count \/ Artifacts
          \/ Measure)
  BY <1>2 DEF Begin, staticize_model, End, WriteManifest, Exist, Count, Artifacts, Measure
<1> QED BY <1>3, <1>4, <1>5, <1>6, <1>7, <1>8, <1>9, <1>10, <1>11, <1>12, <1>13, <1>14,
           <1>15, <1>16, <1>17 DEF Command

-----------------------------------------------------------------------------
\* The commands of a build of oracles and of a benchmark: what the program holds,
\* and what it does not change.
Builder(held) ==
  \/ held = [program |-> "oracles", text |-> held.text,
             canonical |-> held.canonical, records |-> held.records]
  \/ held = [program |-> "bench", lengths |-> held.lengths,
             variants |-> held.variants, text |-> held.text,
             canonical |-> held.canonical, records |-> held.records,
             modules |-> held.modules]

Keeps(held) ==
  /\ Builder(held) /\ held.program = locals.program
  /\ locals.program = "bench" =>
       held.lengths = locals.lengths /\ held.variants = locals.variants

LEMMA HeldText ==
  ASSUME Builder(locals), NEW held, NEW t, held = [locals EXCEPT !.text = t]
  PROVE  /\ Keeps(held) /\ held.text = t
         /\ held.canonical = locals.canonical /\ held.records = locals.records
  BY DEF Builder, Keeps

LEMMA HeldCanonical ==
  ASSUME Builder(locals), NEW held, NEW t, held = [locals EXCEPT !.canonical = t]
  PROVE  Keeps(held) /\ held.canonical = t /\ held.records = locals.records
  BY DEF Builder, Keeps

LEMMA HeldRecords ==
  ASSUME Builder(locals), NEW held, NEW t, held = [locals EXCEPT !.records = t]
  PROVE  Keeps(held) /\ held.records = t /\ held.canonical = locals.canonical
  BY DEF Builder, Keeps

SameFiles ==
  /\ FileInv' /\ dir'.summary = dir.summary
  /\ dir'.onnx[Dynamic] = dir.onnx[Dynamic]
  /\ Text("core", Dynamic)' = Text("core", Dynamic)
  /\ Text("multiversioned", Dynamic)' = Text("multiversioned", Dynamic)

\* What is left to show of a command of a build.
Comes(c, d) == IsCommand(d) /\ \E variants : Follows(c, d, variants)

Built(c) ==
  /\ SameFiles /\ passed' = "none"
  /\ \/ Ended'
     \/ /\ todo' = Tail(todo) /\ Keeps(locals')
        /\ \A d : Comes(c, d) => Building(d)' /\ Canonical(d.name)' = Canonical(c.name)

LEMMA BuildStep ==
  ASSUME NEW c, NEW ok, NEW held, Holding(ok, held), Tail(todo) # <<>>, SameFiles, Keeps(held),
         ok /\ locals' = held =>
           \A d : Comes(c, d) => Building(d)' /\ Canonical(d.name)' = Canonical(c.name)
  PROVE  Built(c)
<1>1. CASE ok
  BY <1>1, Zenon DEF Holding, Built
<1>2. CASE ~ ok
  BY <1>2, Zenon DEF Holding, Built, Ended
<1> QED BY <1>1, <1>2

LEMMA SoundFrame ==
  ASSUME NEW record, SoundOracle(record), dir'.onnx[Dynamic] = dir.onnx[Dynamic],
         Text("core", record.length)' = Text("core", record.length)
  PROVE  SoundOracle(record)'
  BY DEF SoundOracle

LEMMA BuildBegin ==
  ASSUME FileInv, Builder(locals), NEW c, c = Head(todo), IsCommand(c), Building(c),
         Tail(todo) # <<>>, Begin
  PROVE  Built(c)
<1>1. c.name = "begin"
  BY DEF Begin, Doing
<1> DEFINE ok == DOMAIN dir.archives = {"e5.irpa"}
           held == [locals EXCEPT !.canonical = Archive]
<1>2. dir' = dir /\ Holding(ok, held)
  BY DEF Begin
<1>3. SameFiles
  BY <1>2, FileFrame DEF SameFiles, Text
<1>4. Keeps(held) /\ held.canonical = Archive /\ held.records = locals.records
  BY HeldCanonical
<1> HIDE DEF held
<1>5. ASSUME locals' = held, NEW d, Comes(c, d)
      PROVE  Building(d)' /\ Canonical(d.name)' = Canonical(c.name)
  <2>1. d = Cmd("staticize", c.width)
    BY <1>1, <1>5 DEF Comes, Follows
  <2>2. d.name = "staticize" /\ d.width = c.width
    BY <2>1 DEF Cmd
  <2>3. Canonical(d.name)' = Archive /\ Canonical(c.name) = Archive
    BY <1>1, <1>4, <1>5, <2>2 DEF Canonical, BuildNames
  <2>4. \A record : SoundOracle(record) => SoundOracle(record)'
    BY <1>2, SoundFrame DEF Text
  <2>5. Building(d)'
    BY <1>1, <1>4, <1>5, <2>2, <2>3, <2>4 DEF Building, BuildNames, Lowered
  <2> QED BY <2>3, <2>5
<1> HIDE DEF ok
<1> QED BY <1>2, <1>3, <1>4, <1>5, BuildStep

LEMMA StaticizedModel ==
  ASSUME NEW model, IsNamed(model), NEW length
  PROVE  IsNamed(Staticized(model, length)) /\ Keys(Staticized(model, length)) = Keys(model)
<1> DEFINE inputs == [name \in INPUTS |->
                        [model.inputs[name] EXCEPT !.shape = Fixed(@, length)]]
           inner == {IF IsParam(d) THEN length ELSE d : d \in model.inner}
<1>1. Staticized(model, length) = [model EXCEPT !.inputs = inputs, !.inner = inner]
  BY DEF Staticized
<1> HIDE DEF inputs, inner
<1> QED BY <1>1 DEF IsNamed, Keys

LEMMA BuildStaticize ==
  ASSUME FileInv, Builder(locals), NEW c, c = Head(todo), IsCommand(c), Building(c),
         Tail(todo) # <<>>, staticize_model
  PROVE  Built(c)
<1>1. c.name = "staticize" /\ c.width = Width /\ c.width \in Widths \ {Dynamic}
  BY DEF staticize_model, Doing, Width, IsCommand, BuildNames
<1> DEFINE onnx == dir.onnx[Dynamic]
           ok   == Whole(onnx) /\ CanStaticize(onnx.model)
           model == Staticized(onnx.model, c.width)
           saved == [end |-> "whole", model |-> model]
<1>2. /\ Holding(ok, locals)
      /\ dir' = IF ok THEN [dir EXCEPT !.onnx[c.width] = saved] ELSE dir
  BY <1>1 DEF staticize_model, Writes, PutOnnx
<1>3. ok => IsNamed(model) /\ Keys(model) = Keys(onnx.model)
  BY StaticizedModel, WidthsType DEF FileInv
<1> HIDE DEF model
<1>4. saved.end = "whole" /\ saved.model = model
  OBVIOUS
<1> HIDE DEF saved
<1>5. FileInv' /\ dir'.summary = dir.summary
  <2>1. CASE ok
    <3>1. dir' = [dir EXCEPT !.onnx[c.width] = saved]
      BY <1>2, <2>1
    <3> QED BY <1>1, <1>3, <1>4, <2>1, <3>1, FileOnnx
  <2>2. CASE ~ ok
    BY <1>2, <2>2, FileFrame
  <2> QED BY <2>1, <2>2
<1>6. dir'.onnx[Dynamic] = dir.onnx[Dynamic] /\ dir'.texts = dir.texts /\ dir'.archives = dir.archives
      /\ (ok => dir'.onnx[c.width] = saved)
  BY <1>1, <1>2 DEF FileInv
<1>7. SameFiles
  BY <1>5, <1>6 DEF SameFiles, Text
<1>8. Keeps(locals)
  BY DEF Keeps
<1>9. ASSUME ok, locals' = locals, NEW d, Comes(c, d)
      PROVE  Building(d)' /\ Canonical(d.name)' = Canonical(c.name)
  <2>1. d = Cmd("imported", c.width)
    BY <1>1, <1>9 DEF Comes, Follows
  <2>2. d.name = "imported" /\ d.width = c.width
    BY <2>1 DEF Cmd
  <2>3. Canonical(d.name)' = locals.canonical /\ Canonical(c.name) = locals.canonical
    BY <1>1, <1>9, <2>2 DEF Canonical, BuildNames
  <2>4. \A record : SoundOracle(record) => SoundOracle(record)'
    BY <1>6, SoundFrame DEF Text
  <2>5. Whole(dir.onnx[d.width])' /\ Keys(dir.onnx[d.width].model)' = Keys(dir.onnx[Dynamic].model)'
    BY <1>3, <1>4, <1>6, <1>9, <2>2 DEF Whole
  <2>6. Building(d)'
    BY <1>1, <1>9, <2>2, <2>3, <2>4, <2>5 DEF Building, BuildNames, Lowered
  <2> QED BY <2>3, <2>6
<1> HIDE DEF ok
<1> QED BY <1>2, <1>7, <1>8, <1>9, BuildStep

LEMMA BuildImport ==
  ASSUME FileInv, Builder(locals), NEW c, c = Head(todo), IsCommand(c), Building(c),
         Tail(todo) # <<>>, Import
  PROVE  Built(c)
<1>1. c.name = "imported" /\ c.width = Width /\ c.width \in Widths \ {Dynamic}
  BY DEF Import, Doing, Width, IsCommand, BuildNames
<1> DEFINE text == ImportedText(dir.onnx[c.width].model, c.width)
           ok == TRUE
<1>2. PICK archives : \E t \in {text} \cup Wrong(text) :
           /\ dir' = [dir EXCEPT !.archives = archives]
           /\ Holding(ok, [locals EXCEPT !.text = t])
  BY <1>1, ImportDoes
<1>3. PICK t \in {text} \cup Wrong(text) :
           /\ dir' = [dir EXCEPT !.archives = archives]
           /\ Holding(ok, [locals EXCEPT !.text = t])
  BY <1>2
<1> DEFINE held == [locals EXCEPT !.text = t]
<1>4. Whole(dir.onnx[c.width]) /\ Keys(dir.onnx[c.width].model) = Keys(dir.onnx[Dynamic].model)
  BY <1>1 DEF Building, BuildNames
<1>5. IsTextOf(t, c.width)
  <2>1. IsNamed(dir.onnx[c.width].model)
    BY <1>1, <1>4 DEF FileInv
  <2> QED BY <2>1, ImportedTextOf, WrongTextOf
<1>6. dir'.onnx = dir.onnx /\ dir'.texts = dir.texts
  BY <1>3 DEF FileInv
<1>7. SameFiles
  BY <1>3, <1>6, FileFrame DEF SameFiles, Text
<1>8. /\ Keeps(held) /\ held.text = t
      /\ held.canonical = locals.canonical /\ held.records = locals.records
  BY HeldText
<1>9. Holding(ok, held)
  BY <1>3
<1> HIDE DEF held
<1>10. ASSUME locals' = held, NEW d, Comes(c, d)
       PROVE  Building(d)' /\ Canonical(d.name)' = Canonical(c.name)
  <2>1. d = Cmd("torch", c.width)
    BY <1>1, <1>10 DEF Comes, Follows
  <2>2. d.name = "torch" /\ d.width = c.width
    BY <2>1 DEF Cmd
  <2>3. Canonical(d.name)' = locals.canonical /\ Canonical(c.name) = locals.canonical
    BY <1>1, <1>8, <1>10, <2>2 DEF Canonical, BuildNames
  <2>4. \A record : SoundOracle(record) => SoundOracle(record)'
    BY <1>6, SoundFrame DEF Text
  <2>5. Building(d)'
    BY <1>1, <1>4, <1>5, <1>6, <1>8, <1>10, <2>2, <2>3, <2>4 DEF Building, BuildNames, Lowered
  <2> QED BY <2>3, <2>5
<1> HIDE DEF ok
<1> QED BY <1>7, <1>8, <1>9, <1>10, BuildStep

\* A static text is written where no other text is.
LEMMA StaticText ==
  ASSUME FileInv, NEW stage \in Lowered, NEW w \in Widths \ {Dynamic}, NEW text,
         dir' = PutText(stage, w, text)
  PROVE  /\ dir'.onnx = dir.onnx
         /\ \A name, v : v # w => Text(name, v)' = Text(name, v)
         /\ stage = "core" => Text("core", w)' = text
<1>1. CASE <<stage, w>> \in TextNames
  <2> DEFINE n == <<stage, w>>
  <2>1. n \in TextNames /\ dir' = [dir EXCEPT !.texts[n] = text]
    BY <1>1 DEF PutText
  <2>2. \A name, v : v # w => <<name, v>> # n
    OBVIOUS
  <2> HIDE DEF n
  <2>3. dir'.onnx = dir.onnx /\ dir'.texts = [dir.texts EXCEPT ![n] = text]
    BY <2>1 DEF FileInv
  <2>4. dir'.texts[n] = text /\ \A m : m # n => dir'.texts[m] = dir.texts[m]
    <3>1. dir'.texts[n] = text
      BY <2>1, <2>3 DEF FileInv
    <3>2. \A m \in TextNames : m # n => dir'.texts[m] = dir.texts[m]
      BY <2>1, <2>3 DEF FileInv
    <3>3. \A m : m # n => dir'.texts[m] = dir.texts[m]
      BY <2>3
    <3> QED BY <3>1, <3>3
  <2>5. \A name, v : v # w => Text(name, v)' = Text(name, v)
    BY <2>2, <2>4 DEF Text
  <2>6. Text(stage, w)' = text
    BY <2>4 DEF Text, n
  <2> QED BY <2>3, <2>5, <2>6
<1>2. CASE <<stage, w>> \notin TextNames
  <2>1. dir' = dir /\ stage # "core"
    BY <1>2 DEF PutText, TextNames
  <2> QED BY <2>1 DEF Text
<1> QED BY <1>1, <1>2

LEMMA BuildLower ==
  ASSUME FileInv, Builder(locals), NEW c, c = Head(todo), IsCommand(c), Building(c),
         Tail(todo) # <<>>, Lower
  PROVE  Built(c)
<1>1. /\ c.name \in Lowered /\ c.width = Width /\ c.width \in Widths \ {Dynamic}
      /\ c.name \in BuildNames
  BY DEF Lower, Width, IsCommand, BuildNames, Lowered
<1> DEFINE ok == TRUE
           text == locals.text
<1>2. PICK t \in {text} \cup Wrong(text) :
           /\ dir' = PutText(c.name, c.width, t)
           /\ Holding(ok, [locals EXCEPT !.text = t])
  BY <1>1, LowerDoes
<1> DEFINE held == [locals EXCEPT !.text = t]
<1>3. /\ IsTextOf(text, c.width) /\ Whole(dir.onnx[c.width])
      /\ Keys(dir.onnx[c.width].model) = Keys(dir.onnx[Dynamic].model)
  BY <1>1 DEF Building, Lowered, BuildNames
<1>4. IsTextOf(t, c.width)
  BY <1>3, WrongTextOf
<1>5. /\ dir'.onnx = dir.onnx
      /\ \A name, v : v # c.width => Text(name, v)' = Text(name, v)
      /\ c.name = "core" => Text("core", c.width)' = t
  BY <1>1, <1>2, StaticText
<1>6. FileInv' /\ dir'.summary = dir.summary
  <2>1. IsFile(t, <<c.name, c.width>>)
    BY <1>4 DEF IsFile, IsTextOf
  <2> QED BY <1>2, <2>1, FileText
<1>7. SameFiles
  BY <1>1, <1>5, <1>6 DEF SameFiles
<1>8. /\ Keeps(held) /\ held.text = t
      /\ held.canonical = locals.canonical /\ held.records = locals.records
  BY HeldText
<1>9. Holding(ok, held)
  BY <1>2
<1> HIDE DEF held, text
<1>10. ASSUME locals' = held, NEW d, Comes(c, d)
       PROVE  Building(d)' /\ Canonical(d.name)' = Canonical(c.name)
  <2>1. d = Cmd(CASE c.name = "torch" -> "builtin" [] c.name = "builtin" -> "generic"
                  [] c.name = "generic" -> "core" [] c.name = "core" -> "end", c.width)
    BY <1>1, <1>10 DEF Comes, Follows, Lowered
  <2>2. /\ d.name = CASE c.name = "torch" -> "builtin" [] c.name = "builtin" -> "generic"
                      [] c.name = "generic" -> "core" [] c.name = "core" -> "end"
        /\ d.width = c.width
    BY <2>1 DEF Cmd
  <2>3. /\ d.name \in {"builtin", "generic", "core", "end"}
        /\ d.name = "end" => c.name = "core"
    BY <1>1, <2>2 DEF Lowered
  <2>4. Canonical(d.name)' = locals.canonical /\ Canonical(c.name) = locals.canonical
    BY <1>1, <1>8, <1>10, <2>3 DEF Canonical, BuildNames, Lowered
  <2>5. \A record : SoundOracle(record) /\ record.length < c.width => SoundOracle(record)'
    <3> TAKE record
    <3> HAVE SoundOracle(record) /\ record.length < c.width
    <3>1. record.length # c.width
      BY <1>1, WidthsType DEF SoundOracle
    <3> QED BY <1>5, <3>1, SoundFrame
  <2>6. \A i \in DOMAIN locals.records :
          SoundOracle(locals.records[i]) /\ locals.records[i].canonical = locals.canonical
          /\ locals.records[i].length < c.width
    BY <1>1, <2>4 DEF Building
  <2>7. IsSeq(locals.records)
    BY DEF Building
  <2>8. d.name = "end" => Whole(Text("core", c.width))'
    BY <1>4, <1>5, <2>3 DEF IsTextOf, Whole
  <2>9. Building(d)'
    BY <1>3, <1>4, <1>5, <1>8, <1>10, <2>2, <2>3, <2>4, <2>5, <2>6, <2>7, <2>8 DEF Building, Whole
  <2> QED BY <2>4, <2>9
<1> HIDE DEF ok
<1> QED BY <1>7, <1>8, <1>9, <1>10, BuildStep

LEMMA BuildEnd ==
  ASSUME FileInv, Builder(locals), NEW c, c = Head(todo), IsCommand(c), Building(c),
         Tail(todo) # <<>>, End
  PROVE  Built(c)
<1>1. c.name = "end" /\ c.width = Width /\ c.width \in Widths \ {Dynamic}
  BY DEF End, Doing, Width, IsCommand, BuildNames
<1> DEFINE keys == Keys(dir.onnx[c.width].model)
           core == Text("core", c.width)
           ok == /\ check_core(core, c.width, keys)
                 /\ DOMAIN dir.archives = {"e5.irpa"}
                 /\ Archive = locals.canonical
           made == [length |-> c.width, initializer_count |-> Cardinality(keys),
                    canonical |-> locals.canonical]
<1>0. PICK record : record = made
  OBVIOUS
<1> DEFINE held == [locals EXCEPT !.records = Append(@, record)]
<1>2. dir' = dir /\ Holding(ok, held)
  BY <1>0, <1>1 DEF End
<1>3. SameFiles
  BY <1>2, FileFrame DEF SameFiles, Text
<1>4. /\ Keeps(held) /\ held.records = Append(locals.records, record)
      /\ held.canonical = locals.canonical
  BY HeldRecords
<1>5. keys = Keys(dir.onnx[Dynamic].model) /\ Whole(core)
  BY <1>1 DEF Building, BuildNames
<1>6. ok => SoundOracle(record) /\ record.canonical = Archive
  BY <1>0, <1>1, <1>5 DEF SoundOracle, check_core
<1>7. record.length = c.width
  BY <1>0
<1> HIDE DEF held
<1>8. ASSUME ok, locals' = held, NEW d, Comes(c, d)
      PROVE  Building(d)' /\ Canonical(d.name)' = Canonical(c.name)
  <2>1. d.name = "manifest" \/ (d.name = "begin" /\ d.width > c.width)
    BY <1>1, <1>8 DEF Comes, Follows
  <2>2. Canonical(d.name)' = Archive /\ Canonical(c.name) = Archive
    BY <1>1, <1>2, <1>8, <2>1 DEF Canonical, BuildNames, Archive
  <2>3. \A r : SoundOracle(r) => SoundOracle(r)'
    BY <1>2, SoundFrame DEF Text
  <2>0. PICK before, after : before = locals.records /\ after = Append(before, record)
    OBVIOUS
  <2> DEFINE n == Len(before)
  <2>4. /\ IsSeq(before) /\ IsSeq(after) /\ Len(after) = n + 1 /\ n \in Nat
        /\ \A i \in 1..n : after[i] = before[i]
        /\ after[n + 1] = record
    <3>1. IsSeq(before)
      BY <2>0 DEF Building
    <3> QED BY <2>0, <3>1, AppendIsSeq DEF IsSeq
  <2>5. \A i \in 1..n : /\ SoundOracle(before[i]) /\ before[i].canonical = Archive
                        /\ before[i].length < c.width
    BY <1>1, <2>0, <2>2, <2>4 DEF Building, BuildNames, IsSeq
  <2>6. locals'.records = after
    BY <1>4, <1>8, <2>0
  <2>7. \A i \in 1..n + 1 : /\ SoundOracle(after[i])' /\ after[i].canonical = Archive
                            /\ after[i].length <= c.width /\ after[i].length \in Nat
    <3> TAKE i \in 1..n + 1
    <3>1. CASE i \in 1..n
      <4>1. SoundOracle(before[i]) /\ before[i].canonical = Archive /\ before[i].length < c.width
        BY <2>5, <3>1
      <4>2. before[i].length \in Nat /\ c.width \in Nat
        BY <1>1, <4>1, WidthsType DEF SoundOracle
      <4> QED BY <2>3, <2>4, <3>1, <4>1, <4>2
    <3>2. CASE i = n + 1
      <4>1. SoundOracle(record) /\ record.canonical = Archive
        BY <1>6, <1>8
      <4>2. c.width \in Nat
        BY <1>1, WidthsType
      <4> QED BY <1>7, <2>3, <2>4, <3>2, <4>1, <4>2
    <3> QED BY <2>4, <3>1, <3>2
  <2>8. DOMAIN after = 1..n + 1
    BY <2>4 DEF IsSeq
  <2>9. \A i \in DOMAIN after :
          /\ SoundOracle(after[i])' /\ after[i].canonical = Canonical(d.name)'
          /\ d.name \in BuildNames => after[i].length < d.width
    <3>1. d.name \in BuildNames => d.width \in Nat /\ d.width > c.width /\ c.width \in Nat
      BY <1>1, <1>8, <2>1, WidthsType DEF Comes, IsCommand, BuildNames
    <3> QED BY <2>2, <2>7, <2>8, <3>1
  <2>10. DOMAIN dir'.archives = {"e5.irpa"}
    BY <1>2, <1>8
  <2>11. Building(d)'
    BY <2>1, <2>4, <2>6, <2>9, <2>10 DEF Building, BuildNames, Lowered
  <2> QED BY <2>2, <2>11
<1> HIDE DEF ok
<1> QED BY <1>2, <1>3, <1>4, <1>8, BuildStep

LEMMA BuildCommand ==
  ASSUME FileInv, Builder(locals), NEW c, c = Head(todo), IsCommand(c), Building(c),
         Tail(todo) # <<>>, c.name \in BuildNames, Command
  PROVE  Built(c)
<1>1. \A name \in {"fetch", "validate", "adapt", "reload", "marked", "dynamic", "inventory",
                   "check", "baseline", "specialize", "recheck", "multiversioned", "compare",
                   "manifest", "exist", "count", "artifacts", "measure"} : ~ Doing(name)
  BY DEF Doing, BuildNames
<1>2. CASE Import            BY <1>2, BuildImport
<1>3. CASE Lower             BY <1>3, BuildLower
<1>4. CASE Begin             BY <1>4, BuildBegin
<1>5. CASE staticize_model   BY <1>5, BuildStaticize
<1>6. CASE End               BY <1>6, BuildEnd
<1>7. ~ (\/ Fetch \/ Validate \/ Adapt \/ Reload \/ mark_entry \/ Compile \/ Inventory
         \/ CheckBridge \/ Baseline \/ Specialize \/ Recheck \/ Compare \/ WriteManifest
         \/ Exist \/ Count \/ Artifacts \/ Measure)
  BY <1>1 DEF Fetch, Validate, Adapt, Reload, mark_entry, Compile, Inventory, CheckBridge,
              Baseline, Specialize, Recheck, Compare, WriteManifest, Exist, Count, Artifacts,
              Measure
<1> QED BY <1>2, <1>3, <1>4, <1>5, <1>6, <1>7 DEF Command

\* The name of a command says which action takes it.
LEMMA CommandOf ==
  ASSUME Command
  PROVE  /\ Head(todo).name = "manifest"  => WriteManifest
         /\ Head(todo).name = "exist"     => Exist
         /\ Head(todo).name = "check"     => CheckBridge
         /\ Head(todo).name = "recheck"   => Recheck
         /\ Head(todo).name = "count"     => Count
         /\ Head(todo).name = "artifacts" => Artifacts
         /\ Head(todo).name = "measure"   => Measure
<1> DEFINE name == Head(todo).name
           Others == {"fetch", "validate", "adapt", "reload", "imported", "torch", "builtin",
                      "generic", "core", "marked", "dynamic", "inventory", "baseline",
                      "specialize", "multiversioned", "compare", "begin", "staticize", "end"}
<1>1. \/ Fetch \/ Validate \/ Adapt \/ Reload \/ Import \/ Lower \/ mark_entry \/ Compile
      \/ Inventory \/ Baseline \/ Specialize \/ Compare \/ Begin \/ staticize_model \/ End
      => name \in Others
  BY DEF Doing, Fetch, Validate, Adapt, Reload, Import, Lower, Lowered, mark_entry, Compile,
     Inventory, Baseline, Specialize, Compare, Begin, staticize_model, End
<1>2. /\ WriteManifest => name = "manifest"
      /\ Exist => name = "exist"
      /\ CheckBridge => name = "check"
      /\ Recheck => name = "recheck"
      /\ Count => name = "count"
      /\ Artifacts => name = "artifacts"
      /\ Measure => name = "measure"
  BY DEF Doing, WriteManifest, Exist, CheckBridge, Recheck, Count, Artifacts, Measure
<1> HIDE DEF name
<1>3. /\ name = "manifest"  => WriteManifest
      /\ name = "exist"     => Exist
      /\ name = "check"     => CheckBridge
      /\ name = "recheck"   => Recheck
      /\ name = "count"     => Count
      /\ name = "artifacts" => Artifacts
      /\ name = "measure"   => Measure
  BY <1>1, <1>2 DEF Command
<1> QED BY <1>3 DEF name

\* What is left of a list of commands once its first is taken.
LEMMA OrderedHead ==
  ASSUME NEW variants, Ordered(todo, variants)
  PROVE  /\ todo # <<>> /\ Head(todo) = todo[1] /\ IsCommand(todo[1])
         /\ Tail(todo) = <<>> <=> Len(todo) = 1
         /\ IsSeq(todo) /\ Len(todo) \in Nat /\ Len(todo) > 0
  BY HeadOf DEF Ordered, IsSeq

LEMMA OrderedTail ==
  ASSUME NEW variants, Ordered(todo, variants), Len(todo) > 1, todo' = Tail(todo)
  PROVE  /\ Ordered(todo', variants) /\ todo'[1] = todo[2] /\ todo' # <<>>
         /\ Follows(todo[1], todo[2], variants) /\ IsCommand(todo[2])
         /\ todo'[Len(todo')] = todo[Len(todo)]
         /\ \A i \in 1..Len(todo') : todo'[i] = todo[i + 1] /\ i + 1 \in 1..Len(todo)
<1>1. IsSeq(todo) /\ Len(todo) \in Nat
  BY OrderedHead
<1>2. IsSeq(todo') /\ Len(todo') = Len(todo) - 1 /\ \A i \in 1..Len(todo) - 1 : todo'[i] = todo[i + 1]
  BY <1>1, TailIsSeq
<1>3. \A i \in 1..Len(todo') : todo'[i] = todo[i + 1] /\ i + 1 \in 1..Len(todo)
  BY <1>1, <1>2
<1>4. \A i \in 1..Len(todo') : IsCommand(todo'[i])
  BY <1>3 DEF Ordered
<1>5. \A i \in 1..Len(todo') - 1 : Follows(todo'[i], todo'[i + 1], variants)
  <2> TAKE i \in 1..Len(todo') - 1
  <2>1. i + 1 \in 1..Len(todo) - 1 /\ i \in 1..Len(todo') /\ i + 1 \in 1..Len(todo')
    BY <1>1, <1>2
  <2>2. Follows(todo[i + 1], todo[(i + 1) + 1], variants)
    BY <2>1 DEF Ordered
  <2> QED BY <1>3, <2>1, <2>2
<1>6. Ordered(todo', variants)
  BY <1>1, <1>2, <1>4, <1>5 DEF Ordered
<1>7. 1 \in 1..Len(todo) - 1 /\ 2 \in 1..Len(todo) /\ 1 + 1 = 2 /\ 1 \in 1..Len(todo')
  BY <1>1, <1>2
<1>8. Follows(todo[1], todo[2], variants) /\ IsCommand(todo[2])
  BY <1>7 DEF Ordered
<1>9. todo' # <<>>
  BY <1>1, <1>2, EmptyIsSeq
<1>10. todo'[1] = todo[2] /\ todo'[Len(todo')] = todo[Len(todo)]
  BY <1>1, <1>2, <1>3, <1>7
<1> QED BY <1>3, <1>6, <1>8, <1>9, <1>10

-----------------------------------------------------------------------------
\* A build of oracles.
OracleGoal ==
  /\ FileInv' /\ dir'.summary = dir.summary
  /\ Ended' \/ (todo' # <<>> /\ passed' = "none" /\ Oracling')
  /\ passed' \in {"none", "oracles"} /\ OracleClaims'

LEMMA OracleBuild ==
  ASSUME FileInv, Oracling, todo[1].name \in BuildNames, Command
  PROVE  OracleGoal
<1>1. /\ Ordered(todo, {}) /\ todo[Len(todo)].name = "manifest"
      /\ \A i \in 1..Len(todo) : todo[i].name \in BuildNames \cup {"manifest"}
      /\ Building(todo[1]) /\ Builder(locals) /\ locals.program = "oracles"
  BY DEF Oracling, Builder
<1>2. PICK c, d : c = todo[1] /\ d = todo[2]
  OBVIOUS
<1>3. /\ todo # <<>> /\ Head(todo) = c /\ IsCommand(c) /\ Building(c)
      /\ Tail(todo) = <<>> <=> Len(todo) = 1
      /\ IsSeq(todo) /\ Len(todo) \in Nat /\ Len(todo) > 0
  BY <1>1, <1>2, OrderedHead
<1>4. Len(todo) > 1
  BY <1>1, <1>3 DEF BuildNames
<1>5. Built(c)
  BY <1>1, <1>2, <1>3, <1>4, BuildCommand
<1>6. FileInv' /\ dir'.summary = dir.summary /\ passed' = "none"
  BY <1>5 DEF Built, SameFiles
<1>7. ASSUME ~ Ended'
      PROVE  todo' # <<>> /\ Oracling'
  <2>1. /\ todo' = Tail(todo) /\ Keeps(locals')
        /\ Comes(c, d) => Building(d)'
    BY <1>5, <1>7 DEF Built
  <2>2. /\ Ordered(todo', {}) /\ todo'[1] = d /\ todo' # <<>>
        /\ Follows(c, d, {}) /\ IsCommand(d)
        /\ todo'[Len(todo')] = todo[Len(todo)]
        /\ \A i \in 1..Len(todo') : todo'[i] = todo[i + 1] /\ i + 1 \in 1..Len(todo)
    BY <1>1, <1>2, <1>4, <2>1, OrderedTail
  <2>3. Building(d)'
    BY <2>1, <2>2 DEF Comes
  <2>4. locals' = [program |-> "oracles", text |-> locals'.text,
                   canonical |-> locals'.canonical, records |-> locals'.records]
    BY <1>1, <2>1 DEF Keeps, Builder
  <2>5. todo'[Len(todo')].name = "manifest"
        /\ \A i \in 1..Len(todo') : todo'[i].name \in BuildNames \cup {"manifest"}
    BY <1>1, <2>2
  <2>6. Building(todo[1])'
    BY <2>2, <2>3
  <2> QED BY <2>2, <2>4, <2>5, <2>6 DEF Oracling
<1>8. OracleClaims'
  BY <1>6 DEF OracleClaims
<1> QED BY <1>6, <1>7, <1>8 DEF OracleGoal

LEMMA OracleManifest ==
  ASSUME FileInv, Oracling, todo[1].name = "manifest", Command
  PROVE  OracleGoal
<1>1. /\ Ordered(todo, {}) /\ Building(todo[1]) /\ locals.program = "oracles"
      /\ \A i \in 1..Len(todo) : todo[i].name \in BuildNames \cup {"manifest"}
  BY DEF Oracling
<1>2. /\ Head(todo) = todo[1] /\ Tail(todo) = <<>> <=> Len(todo) = 1
      /\ Len(todo) \in Nat /\ Len(todo) > 0
  BY <1>1, OrderedHead
<1>3. Len(todo) = 1
  <2> SUFFICES ASSUME Len(todo) > 1 PROVE FALSE
    BY <1>2
  <2>1. 1 \in 1..Len(todo) - 1 /\ 1 + 1 = 2 /\ 2 \in 1..Len(todo)
    BY <1>2
  <2>2. Follows(todo[1], todo[2], {})
    BY <1>1, <2>1 DEF Ordered
  <2>3. todo[2].name = "artifacts"
    BY <2>2 DEF Follows
  <2> QED BY <1>1, <2>1, <2>3 DEF BuildNames
<1>4. WriteManifest
  BY <1>2, CommandOf
<1> DEFINE ok == TRUE
<1>5. dir' = [dir EXCEPT !.oracles = locals.records] /\ Holding(ok, locals)
  BY <1>4 DEF WriteManifest, Writes
<1>6. FileInv' /\ dir'.summary = dir.summary
  BY <1>5, FileFrame
<1>7. todo' = <<>> /\ locals' = Idle /\ passed' = "oracles"
  BY <1>1, <1>2, <1>3, <1>5 DEF Holding
<1>8. dir'.oracles = locals.records /\ dir'.archives = dir.archives
      /\ dir'.texts = dir.texts /\ dir'.onnx = dir.onnx
  BY <1>5 DEF FileInv
<1>9. DOMAIN dir.archives = {"e5.irpa"}
      /\ \A i \in DOMAIN locals.records :
           SoundOracle(locals.records[i]) /\ locals.records[i].canonical = Archive
  BY <1>1 DEF Building, BuildNames, Canonical
<1>10. OracleClaims'
  BY <1>8, <1>9 DEF OracleClaims, SoundOracle, Text, Archive
<1> QED BY <1>6, <1>7, <1>10 DEF OracleGoal, Ended

LEMMA OracleCommand ==
  ASSUME FileInv, Oracling, Command
  PROVE  OracleGoal
<1>1. Ordered(todo, {})
      /\ \A i \in 1..Len(todo) : todo[i].name \in BuildNames \cup {"manifest"}
  BY DEF Oracling
<1>2. 1 \in 1..Len(todo)
  BY <1>1, OrderedHead
<1> QED BY <1>1, <1>2, OracleBuild, OracleManifest

-----------------------------------------------------------------------------
\* A benchmark.
BenchGoal ==
  /\ FileInv' /\ MeasuredTogether'
  /\ Ended' \/ (todo' # <<>> /\ passed' = "none" /\ Benching')
  /\ passed' \in {"none", "bench"}

Together(summary) ==
  \A c, d \in DOMAIN summary :
    /\ summary[c].graph = summary[d].graph /\ summary[c].graph # "miscompiled"
    /\ summary[c].refs = summary[d].refs
    /\ Cardinality(References(summary[c].refs)) = NumEntries
    /\ summary[c].widths = WidthsOf(c)

LEMMA Measured == MeasuredTogether <=> Together(dir.summary)
  BY Zenon DEF MeasuredTogether, Together, WidthsOf

LEMMA SummaryFrame ==
  ASSUME MeasuredTogether, dir'.summary = dir.summary
  PROVE  MeasuredTogether'
<1>1. Together(dir.summary)'
  BY Measured
<1>2. MeasuredTogether' <=> Together(dir.summary)'
  BY Measured, PTL
<1> QED BY <1>1, <1>2

LEMMA BenchHead ==
  ASSUME Benching
  PROVE  /\ todo # <<>> /\ Head(todo) = todo[1] /\ IsCommand(todo[1])
         /\ (Tail(todo) = <<>> <=> Len(todo) = 1) /\ Len(todo) \in Nat /\ Len(todo) > 0
         /\ Len(todo) = 1 <=> todo[1].name = "measure"
         /\ Building(todo[1]) /\ Vouched(todo[1]) /\ Builder(locals) /\ locals.program = "bench"
<1>1. Ordered(todo, locals.variants) /\ todo[Len(todo)].name = "measure"
  BY DEF Benching
<1>2. PICK variants : variants = locals.variants
  OBVIOUS
<1>3. /\ todo # <<>> /\ Head(todo) = todo[1] /\ IsCommand(todo[1])
      /\ (Tail(todo) = <<>> <=> Len(todo) = 1) /\ Len(todo) \in Nat /\ Len(todo) > 0
  BY <1>1, <1>2, OrderedHead
<1>4. Len(todo) = 1 <=> todo[1].name = "measure"
  <2>1. ASSUME Len(todo) > 1, todo[1].name = "measure"
        PROVE  FALSE
    <3>1. 1 \in 1..Len(todo) - 1 /\ 1 + 1 = 2
      BY <1>3, <2>1
    <3>2. Follows(todo[1], todo[2], variants)
      BY <1>1, <1>2, <3>1 DEF Ordered
    <3> QED BY <2>1, <3>2 DEF Follows
  <2> QED BY <1>1, <1>3, <2>1
<1> QED BY <1>3, <1>4 DEF Benching, Builder

LEMMA BenchNext ==
  ASSUME Benching, NEW c, NEW d, NEW variants, c = todo[1], d = todo[2], variants = locals.variants,
         Len(todo) > 1, todo' = Tail(todo), Keeps(locals'),
         IsCommand(d) /\ Follows(c, d, variants) => Building(d)' /\ Vouched(d)'
  PROVE  todo' # <<>> /\ Benching'
<1>1. Ordered(todo, variants) /\ todo[Len(todo)].name = "measure"
      /\ locals.lengths \in OracleLengths /\ locals.variants \in Variants /\ locals.program = "bench"
  BY DEF Benching
<1>2. /\ Ordered(todo', variants) /\ todo'[1] = d /\ todo' # <<>>
      /\ Follows(c, d, variants) /\ IsCommand(d)
      /\ todo'[Len(todo')] = todo[Len(todo)]
  BY <1>1, OrderedTail
<1>3. locals'.lengths = locals.lengths /\ locals'.variants = variants
      /\ locals' = [program |-> "bench", lengths |-> locals'.lengths,
                    variants |-> locals'.variants, text |-> locals'.text,
                    canonical |-> locals'.canonical, records |-> locals'.records,
                    modules |-> locals'.modules]
  BY <1>1 DEF Keeps, Builder
<1>4. Building(d)' /\ Vouched(d)'
  BY <1>2
<1>5. Building(todo[1])' /\ Vouched(todo[1])'
  BY <1>2, <1>4
<1>6. Ordered(todo, locals.variants)'
  BY <1>2, <1>3
<1> HIDE DEF Ordered, Building, Vouched
<1> QED BY <1>1, <1>2, <1>3, <1>5, <1>6 DEF Benching

LEMMA BenchBuild ==
  ASSUME FileInv, MeasuredTogether, Benching, todo[1].name \in BuildNames, Command
  PROVE  BenchGoal
<1>1. PICK c, d, variants : c = todo[1] /\ d = todo[2] /\ variants = locals.variants
  OBVIOUS
<1>2. /\ Head(todo) = c /\ IsCommand(c) /\ Building(c) /\ Vouched(c) /\ Builder(locals)
      /\ Tail(todo) # <<>> /\ Len(todo) > 1 /\ locals.program = "bench"
  BY <1>1, BenchHead DEF BuildNames
<1>3. Built(c)
  BY <1>1, <1>2, BuildCommand
<1>4. FileInv' /\ SameFiles /\ dir'.summary = dir.summary /\ passed' = "none"
  BY <1>3 DEF Built, SameFiles
<1>5. ASSUME ~ Ended'
      PROVE  todo' # <<>> /\ Benching'
  <2>1. /\ todo' = Tail(todo) /\ Keeps(locals')
        /\ Comes(c, d) => Building(d)' /\ Canonical(d.name)' = Canonical(c.name)
    BY <1>3, <1>5 DEF Built
  <2>2. ASSUME IsCommand(d), Follows(c, d, variants)
        PROVE  Building(d)' /\ Vouched(d)'
    <3>1. Building(d)' /\ Canonical(d.name)' = Canonical(c.name)
      BY <2>1, <2>2 DEF Comes
    <3>2. d.name \in BuildNames \cup {"manifest"}
      <4>1. \A name, width : Cmd(name, width).name = name
        BY DEF Cmd
      <4> QED BY <1>1, <2>2, <4>1 DEF Follows, BuildNames
    <3>3. locals'.variants = locals.variants
      BY <1>2, <2>1 DEF Keeps
    <3>4. \A name \in {"exist", "check", "recheck", "count", "artifacts", "measure"} :
            c.name # name /\ d.name # name
      BY <1>1, <3>2 DEF BuildNames
    <3>5. /\ Whole(dir.onnx[Dynamic]) /\ ParameterIdentity(dir.onnx[Dynamic].model, Canonical(c.name))
          /\ CoreStructure(dir.onnx[Dynamic].model, Text("core", Dynamic), {})
          /\ "dispatched" \in locals.variants =>
               CoreStructure(dir.onnx[Dynamic].model, Text("multiversioned", Dynamic), ExactLengths)
          /\ Cardinality(DOMAIN Canonical(c.name).bytes) = NumEntries
      BY <1>2, <3>4 DEF Vouched
    <3>6. Vouched(d)'
      BY <1>4, <3>1, <3>3, <3>4, <3>5 DEF Vouched, SameFiles
    <3> QED BY <3>1, <3>6
  <2> QED BY <1>1, <1>2, <2>1, <2>2, BenchNext
<1>6. MeasuredTogether'
  BY <1>4, SummaryFrame
<1> QED BY <1>4, <1>5, <1>6 DEF BenchGoal

\* The commands of a benchmark that write none of the files it compares.
LEMMA BenchStep ==
  ASSUME FileInv', dir'.summary = dir.summary, MeasuredTogether, Benching, todo[1].name # "measure",
         NEW ok, NEW held, Holding(ok, held), Keeps(held), NEW c, NEW d, NEW variants,
         c = todo[1], d = todo[2], variants = locals.variants,
         ok /\ locals' = held /\ IsCommand(d) /\ Follows(c, d, variants) =>
           Building(d)' /\ Vouched(d)'
  PROVE  BenchGoal
<1>1. Len(todo) > 1 /\ Tail(todo) # <<>>
  BY BenchHead
<1>2. MeasuredTogether'
  BY SummaryFrame
<1>3. passed' = "none"
  BY <1>1 DEF Holding
<1>4. CASE ~ ok
  BY <1>2, <1>3, <1>4 DEF Holding, BenchGoal, Ended
<1>5. CASE ok
  <2>1. todo' = Tail(todo) /\ locals' = held
    BY <1>1, <1>5 DEF Holding
  <2>2. todo' # <<>> /\ Benching'
    BY <1>1, <1>5, <2>1, BenchNext
  <2> QED BY <1>2, <1>3, <2>2 DEF BenchGoal
<1> QED BY <1>4, <1>5

LooksAt == {"exist", "check", "recheck", "count", "artifacts", "measure"}

LEMMA StillBuilding ==
  ASSUME NEW c, NEW d, Building(c), c.name \in LooksAt \cup {"manifest"}, d.name \in LooksAt,
         dir'.onnx = dir.onnx, dir'.archives = dir.archives, dir'.texts = dir.texts,
         locals'.records = locals.records
  PROVE  Building(d)'
<1>1. /\ Canonical(c.name) = Archive /\ Canonical(d.name)' = Archive' /\ Archive' = Archive
      /\ d.name \notin BuildNames \cup Lowered \cup {"end", "manifest"} /\ c.name \notin BuildNames
  BY DEF Canonical, BuildNames, LooksAt, Archive, Lowered
<1>2. \A record : SoundOracle(record) => SoundOracle(record)'
  BY SoundFrame DEF Text
<1> QED BY <1>1, <1>2 DEF Building

LEMMA SameHeld ==
  ASSUME Builder(locals)
  PROVE  Keeps(locals)
  BY DEF Keeps

LEMMA BenchExist ==
  ASSUME FileInv, MeasuredTogether, Benching, todo[1].name = "exist", Exist
  PROVE  BenchGoal
<1>1. PICK c, d, variants : c = todo[1] /\ d = todo[2] /\ variants = locals.variants
  OBVIOUS
<1>2. Building(c) /\ Vouched(c) /\ Builder(locals) /\ locals.program = "bench"
  BY <1>1, BenchHead
<1> DEFINE ok == /\ "e5.irpa" \in DOMAIN dir.archives
                 /\ dir.onnx[Dynamic].end # "missing" /\ Text("core", Dynamic).end # "missing"
                 /\ "dispatched" \in locals.variants =>
                      Text("multiversioned", Dynamic).end # "missing"
<1>3. dir' = dir /\ Holding(ok, locals)
  BY DEF Exist, Check, Writes
<1>4. FileInv' /\ dir'.summary = dir.summary
  BY <1>3, FileFrame
<1>5. ASSUME locals' = locals, Follows(c, d, variants)
      PROVE  Building(d)' /\ Vouched(d)'
  <2>1. d.name = "check"
    BY <1>1, <1>5 DEF Follows
  <2>2. locals.records = <<>>
    BY <1>1, <1>2 DEF Vouched
  <2> QED BY <1>1, <1>2, <1>3, <1>5, <2>1, <2>2, StillBuilding DEF Vouched, LooksAt
<1> HIDE DEF ok
<1> QED BY <1>1, <1>2, <1>3, <1>4, <1>5, BenchStep, SameHeld

LEMMA BenchCheck ==
  ASSUME FileInv, MeasuredTogether, Benching, todo[1].name = "check", CheckBridge
  PROVE  BenchGoal
<1>1. PICK c, d, variants : c = todo[1] /\ d = todo[2] /\ variants = locals.variants
  OBVIOUS
<1>2. Building(c) /\ Vouched(c) /\ Builder(locals) /\ locals.program = "bench"
  BY <1>1, BenchHead
<1> DEFINE onnx == dir.onnx[Dynamic]
           ok == /\ Whole(onnx) /\ ParameterIdentity(onnx.model, Archive)
                 /\ CoreStructure(onnx.model, Text("core", Dynamic), {})
<1>3. dir' = dir /\ Holding(ok, locals)
  BY DEF CheckBridge, Check, Writes
<1>4. FileInv' /\ dir'.summary = dir.summary
  BY <1>3, FileFrame
<1>5. ASSUME ok, locals' = locals, Follows(c, d, variants)
      PROVE  Building(d)' /\ Vouched(d)'
  <2>1. d.name = IF "dispatched" \in variants THEN "recheck" ELSE "count"
    BY <1>1, <1>5 DEF Follows
  <2>2. locals.records = <<>>
    BY <1>1, <1>2 DEF Vouched
  <2>3. Building(d)'
    BY <1>1, <1>2, <1>3, <1>5, <2>1, StillBuilding DEF LooksAt
  <2>4. Canonical(d.name)' = Archive
    BY <1>3, <2>1 DEF Canonical, BuildNames, Archive
  <2>5. Whole(onnx) /\ ParameterIdentity(onnx.model, Archive)
        /\ CoreStructure(onnx.model, Text("core", Dynamic), {})
    BY <1>5
  <2>6. Vouched(d)'
    BY <1>1, <1>3, <1>5, <2>1, <2>2, <2>4, <2>5 DEF Vouched, Text
  <2> QED BY <2>3, <2>6
<1> HIDE DEF ok
<1> QED BY <1>1, <1>2, <1>3, <1>4, <1>5, BenchStep, SameHeld

LEMMA BenchRecheck ==
  ASSUME FileInv, MeasuredTogether, Benching, todo[1].name = "recheck", Recheck
  PROVE  BenchGoal
<1>1. PICK c, d, variants : c = todo[1] /\ d = todo[2] /\ variants = locals.variants
  OBVIOUS
<1>2. Building(c) /\ Vouched(c) /\ Builder(locals) /\ locals.program = "bench"
  BY <1>1, BenchHead
<1> DEFINE onnx == dir.onnx[Dynamic]
           ok == /\ Whole(onnx) /\ ParameterIdentity(onnx.model, Archive)
                 /\ CoreStructure(onnx.model, Text("multiversioned", Dynamic),
                                  ExactLengths)
<1>3. dir' = dir /\ Holding(ok, locals)
  BY DEF Recheck, Check, Writes
<1>4. FileInv' /\ dir'.summary = dir.summary
  BY <1>3, FileFrame
<1>5. ASSUME ok, locals' = locals, Follows(c, d, variants)
      PROVE  Building(d)' /\ Vouched(d)'
  <2>1. d.name = "count"
    BY <1>1, <1>5 DEF Follows
  <2>2. locals.records = <<>> /\ CoreStructure(onnx.model, Text("core", Dynamic), {})
    BY <1>1, <1>2 DEF Vouched
  <2>3. Building(d)'
    BY <1>1, <1>2, <1>3, <1>5, <2>1, StillBuilding DEF LooksAt
  <2>4. Canonical(d.name)' = Archive
    BY <1>3, <2>1 DEF Canonical, BuildNames, Archive
  <2>5. Whole(onnx) /\ ParameterIdentity(onnx.model, Archive)
        /\ CoreStructure(onnx.model, Text("multiversioned", Dynamic), ExactLengths)
    BY <1>5
  <2>6. Vouched(d)'
    BY <1>1, <1>3, <1>5, <2>1, <2>2, <2>4, <2>5 DEF Vouched, Text
  <2> QED BY <2>3, <2>6
<1> HIDE DEF ok
<1> QED BY <1>1, <1>2, <1>3, <1>4, <1>5, BenchStep, SameHeld

LEMMA BenchCount ==
  ASSUME FileInv, MeasuredTogether, Benching, todo[1].name = "count", Count
  PROVE  BenchGoal
<1>1. PICK c, d, variants : c = todo[1] /\ d = todo[2] /\ variants = locals.variants
  OBVIOUS
<1>2. Building(c) /\ Vouched(c) /\ Builder(locals) /\ locals.program = "bench"
  BY <1>1, BenchHead
<1> DEFINE ok == Cardinality(DOMAIN Archive.bytes) = NumEntries
<1>3. dir' = dir /\ Holding(ok, locals)
  BY DEF Count, Check, Writes
<1>4. FileInv' /\ dir'.summary = dir.summary
  BY <1>3, FileFrame
<1>5. ASSUME ok, locals' = locals, Follows(c, d, variants)
      PROVE  Building(d)' /\ Vouched(d)'
  <2>1. d.name = IF "static-oracle" \in variants THEN "begin" ELSE "artifacts"
    BY <1>1, <1>5 DEF Follows
  <2>2. locals.records = <<>>
    BY <1>1, <1>2 DEF Vouched
  <2>3. Canonical(d.name)' = Archive /\ Canonical(c.name) = Archive
    BY <1>1, <1>3, <2>1 DEF Canonical, BuildNames, Archive
  <2>4. Building(d)'
    <3>1. CASE d.name = "artifacts"
      BY <1>1, <1>2, <1>3, <1>5, <3>1, StillBuilding DEF LooksAt
    <3>2. CASE d.name = "begin"
      <4>1. locals'.records = <<>> /\ DOMAIN <<>> = {} /\ IsSeq(<<>>)
        BY <1>5, <2>2, EmptyIsSeq
      <4> QED BY <3>2, <4>1 DEF Building, BuildNames, Lowered
    <3> QED BY <2>1, <3>1, <3>2
  <2>5. Cardinality(DOMAIN Archive.bytes) = NumEntries
    BY <1>5
  <2>6. /\ Whole(dir.onnx[Dynamic]) /\ ParameterIdentity(dir.onnx[Dynamic].model, Archive)
        /\ CoreStructure(dir.onnx[Dynamic].model, Text("core", Dynamic), {})
        /\ "dispatched" \in locals.variants =>
             CoreStructure(dir.onnx[Dynamic].model, Text("multiversioned", Dynamic), ExactLengths)
    BY <1>1, <1>2, <2>3 DEF Vouched
  <2>7. Vouched(d)'
    BY <1>1, <1>3, <1>5, <2>1, <2>2, <2>3, <2>5, <2>6 DEF Vouched, Text
  <2> QED BY <2>4, <2>7
<1> HIDE DEF ok
<1> QED BY <1>1, <1>2, <1>3, <1>4, <1>5, BenchStep, SameHeld

LEMMA BenchManifest ==
  ASSUME FileInv, MeasuredTogether, Benching, todo[1].name = "manifest", WriteManifest
  PROVE  BenchGoal
<1>1. PICK c, d, variants : c = todo[1] /\ d = todo[2] /\ variants = locals.variants
  OBVIOUS
<1>2. Building(c) /\ Vouched(c) /\ Builder(locals) /\ locals.program = "bench"
  BY <1>1, BenchHead
<1> DEFINE ok == TRUE
<1>3. dir' = [dir EXCEPT !.oracles = locals.records] /\ Holding(ok, locals)
  BY DEF WriteManifest, Writes
<1>4. FileInv' /\ dir'.summary = dir.summary
  BY <1>3, FileFrame
<1>5. /\ dir'.oracles = locals.records /\ dir'.archives = dir.archives
      /\ dir'.texts = dir.texts /\ dir'.onnx = dir.onnx
  BY <1>3 DEF FileInv
<1>6. ASSUME locals' = locals, Follows(c, d, variants)
      PROVE  Building(d)' /\ Vouched(d)'
  <2>1. d.name = "artifacts"
    BY <1>1, <1>6 DEF Follows
  <2>2. Building(d)'
    BY <1>1, <1>2, <1>5, <1>6, <2>1, StillBuilding DEF LooksAt
  <2>3. Canonical(d.name)' = Archive /\ Canonical(c.name) = Archive
    BY <1>1, <1>5, <2>1 DEF Canonical, BuildNames, Archive
  <2>4. /\ Whole(dir.onnx[Dynamic]) /\ ParameterIdentity(dir.onnx[Dynamic].model, Archive)
        /\ CoreStructure(dir.onnx[Dynamic].model, Text("core", Dynamic), {})
        /\ "dispatched" \in locals.variants =>
             CoreStructure(dir.onnx[Dynamic].model, Text("multiversioned", Dynamic), ExactLengths)
        /\ Cardinality(DOMAIN Archive.bytes) = NumEntries
    BY <1>1, <1>2, <2>3 DEF Vouched
  <2>5. \A i \in DOMAIN dir'.oracles : SoundOracle(dir.oracles[i])'
    <3>1. \A record : SoundOracle(record) => SoundOracle(record)'
      BY <1>5, SoundFrame DEF Text
    <3>2. \A i \in DOMAIN locals.records : SoundOracle(locals.records[i])
      BY <1>2 DEF Building
    <3> QED BY <1>5, <3>1, <3>2
  <2>6. Vouched(d)'
    BY <1>1, <1>5, <1>6, <2>1, <2>3, <2>4, <2>5 DEF Vouched, Text
  <2> QED BY <2>2, <2>6
<1> HIDE DEF ok
<1> QED BY <1>1, <1>2, <1>3, <1>4, <1>6, BenchStep, SameHeld

LEMMA Sources ==
  ASSUME NEW length
  PROVE  /\ Source("dynamic", length) = Text("core", Dynamic)
         /\ Source("dispatched", length) = Text("multiversioned", Dynamic)
         /\ Source("static-oracle", length) = Text("core", length)
         /\ WidthsOf(<<"dynamic", length>>) = {Dynamic}
         /\ WidthsOf(<<"dispatched", length>>) = {Dynamic} \cup ExactLengths
         /\ WidthsOf(<<"static-oracle", length>>) = {length}
<1>1. Source("dynamic", length) = Text("core", Dynamic)
  BY Zenon DEF Source
<1>2. Source("dispatched", length) = Text("multiversioned", Dynamic)
  BY Zenon DEF Source
<1>3. Source("static-oracle", length) = Text("core", length)
  BY Zenon DEF Source
<1> DEFINE a == <<"dynamic", length>>
           b == <<"dispatched", length>>
           e == <<"static-oracle", length>>
<1>4. a[1] = "dynamic" /\ b[1] = "dispatched" /\ e[1] = "static-oracle" /\ e[2] = length
  OBVIOUS
<1> HIDE DEF a, b, e
<1>5. WidthsOf(a) = {Dynamic}
  BY <1>4, Zenon DEF WidthsOf
<1>6. WidthsOf(b) = {Dynamic} \cup ExactLengths
  BY <1>4, Zenon DEF WidthsOf
<1>7. WidthsOf(e) = {length}
  BY <1>4, Zenon DEF WidthsOf
<1> QED BY <1>1, <1>2, <1>3, <1>5, <1>6, <1>7 DEF a, b, e

\* A module that loads every parameter once.
LEMMA ModuleOf ==
  ASSUME NEW text, IsText(text), NEW model, IsFiniteSet(Keys(model)),
         EachOnce(text.refs, Keys(model))
  PROVE  Module(text).refs = [k \in Keys(model) |-> 1] /\ Module(text).widths = DOMAIN text.bodies
<1>1. text.refs = [k \in Keys(model) |-> 1]
  BY OnceEach DEF IsText
<1> QED BY <1>1 DEF Module

LEMMA ComparableModule ==
  ASSUME FileInv, Whole(dir.onnx[Dynamic]), NEW variant, NEW length,
         variant \in {"dynamic", "dispatched", "static-oracle"},
         Whole(Source(variant, length)),
         CoreStructure(dir.onnx[Dynamic].model, Text("core", Dynamic), {}),
         variant = "dispatched" =>
           CoreStructure(dir.onnx[Dynamic].model, Text("multiversioned", Dynamic), ExactLengths),
         variant = "static-oracle" =>
           \E record : SoundOracle(record) /\ record.length = length
  PROVE  Comparable(<<variant, length>>, Module(Source(variant, length)))
<1> DEFINE model == dir.onnx[Dynamic].model
<1>1. IsFiniteSet(Keys(model))
  BY WidthsType, KeysFinite DEF FileInv, IsNamed
<1>2. CASE variant = "dynamic"
  <2> DEFINE text == Text("core", Dynamic)
             name == <<"core", Dynamic>>
  <2>1. Source(variant, length) = text /\ WidthsOf(<<variant, length>>) = {Dynamic}
    BY <1>2, Sources
  <2>2. name \in TextNames /\ text = dir.texts[name] /\ name[1] = "core" /\ name[2] = Dynamic
    BY WidthsType DEF TextNames, Text
  <2> HIDE DEF name
  <2>3. IsText(text) /\ DOMAIN text.bodies = {Dynamic}
    BY <2>1, <2>2 DEF FileInv, IsFile
  <2>4. EachOnce(text.refs, Keys(model))
    BY DEF CoreStructure
  <2> HIDE DEF text, model
  <2>5. Module(text).refs = [k \in Keys(model) |-> 1] /\ Module(text).widths = {Dynamic}
    BY <1>1, <2>3, <2>4, ModuleOf
  <2> QED BY <2>1, <2>5 DEF Comparable, model
<1>3. CASE variant = "dispatched"
  <2> DEFINE text == Text("multiversioned", Dynamic)
             name == <<"multiversioned", Dynamic>>
  <2>1. Source(variant, length) = text
        /\ WidthsOf(<<variant, length>>) = {Dynamic} \cup ExactLengths
    BY <1>3, Sources
  <2>2. name \in TextNames /\ text = dir.texts[name]
    BY DEF TextNames, Text
  <2> HIDE DEF name
  <2>3. IsText(text)
    BY <2>1, <2>2 DEF FileInv, IsFile
  <2>4. EachOnce(text.refs, Keys(model)) /\ DOMAIN text.bodies = {Dynamic} \cup ExactLengths
    BY <1>3, LengthsAssumption DEF CoreStructure, check_static_clones
  <2> HIDE DEF text, model
  <2>5. /\ Module(text).refs = [k \in Keys(model) |-> 1]
        /\ Module(text).widths = {Dynamic} \cup ExactLengths
    BY <1>1, <2>3, <2>4, ModuleOf
  <2> QED BY <2>1, <2>5 DEF Comparable, model
<1>4. CASE variant = "static-oracle"
  <2> DEFINE text == Text("core", length)
             name == <<"core", length>>
  <2>1. Source(variant, length) = text /\ WidthsOf(<<variant, length>>) = {length}
    BY <1>4, Sources
  <2>2. /\ length \in Widths /\ EachOnce(text.refs, Keys(model))
        /\ DOMAIN text.bodies = {length}
    BY <1>4 DEF SoundOracle
  <2>3. name \in TextNames /\ text = dir.texts[name]
    BY <2>2 DEF TextNames, Text
  <2> HIDE DEF name
  <2>4. IsText(text)
    BY <2>1, <2>3 DEF FileInv, IsFile
  <2> HIDE DEF text, model
  <2>5. Module(text).refs = [k \in Keys(model) |-> 1] /\ Module(text).widths = {length}
    BY <1>1, <2>2, <2>4, ModuleOf
  <2> QED BY <2>1, <2>5 DEF Comparable, model
<1> QED BY <1>2, <1>3, <1>4

LEMMA HeldModules ==
  ASSUME Builder(locals), locals.program = "bench",
         NEW held, NEW t, held = [locals EXCEPT !.modules = t]
  PROVE  /\ Keeps(held) /\ held.modules = t
         /\ held.canonical = locals.canonical /\ held.records = locals.records
  BY DEF Builder, Keeps

LEMMA BenchArtifacts ==
  ASSUME FileInv, MeasuredTogether, Benching, todo[1].name = "artifacts", Artifacts
  PROVE  BenchGoal
<1>1. PICK c, d, variants : c = todo[1] /\ d = todo[2] /\ variants = locals.variants
  OBVIOUS
<1>2. Building(c) /\ Vouched(c) /\ Builder(locals) /\ locals.program = "bench"
  BY <1>1, BenchHead
<1> DEFINE cells == locals.variants \X ToSet(locals.lengths)
           modules == [m \in cells |-> Module(Source(m[1], m[2]))]
           ok == /\ \A m \in cells : Whole(Source(m[1], m[2]))
                 /\ "static-oracle" \in locals.variants =>
                      ToSet(locals.lengths) \subseteq
                        {dir.oracles[i].length : i \in DOMAIN dir.oracles}
           held == IF ok THEN [locals EXCEPT !.modules = modules] ELSE locals
<1>3. dir' = dir /\ Holding(ok, held)
  BY Zenon DEF Artifacts
<1>4. FileInv' /\ dir'.summary = dir.summary
  BY <1>3, FileFrame
<1>5. Keeps(held) /\ held.records = locals.records /\ (ok => held.modules = modules)
  <2> HIDE DEF ok, modules
  <2>1. CASE ok
    BY <1>2, <2>1, HeldModules
  <2>2. CASE ~ ok
    BY <1>2, <2>2, SameHeld
  <2> QED BY <2>1, <2>2
<1>6. /\ Whole(dir.onnx[Dynamic]) /\ ParameterIdentity(dir.onnx[Dynamic].model, Archive)
      /\ CoreStructure(dir.onnx[Dynamic].model, Text("core", Dynamic), {})
      /\ "dispatched" \in locals.variants =>
           CoreStructure(dir.onnx[Dynamic].model, Text("multiversioned", Dynamic), ExactLengths)
      /\ Cardinality(DOMAIN Archive.bytes) = NumEntries
      /\ "static-oracle" \in locals.variants =>
           \A i \in DOMAIN dir.oracles : SoundOracle(dir.oracles[i])
  BY <1>1, <1>2 DEF Vouched, Canonical, BuildNames
<1>7. ok => \A m \in cells : Comparable(m, modules[m])
  <2> SUFFICES ASSUME ok, NEW m \in cells PROVE Comparable(m, modules[m])
    OBVIOUS
  <2>1. PICK variant \in locals.variants, length \in ToSet(locals.lengths) : m = <<variant, length>>
    OBVIOUS
  <2>2. m[1] = variant /\ m[2] = length /\ modules[m] = Module(Source(variant, length))
    BY <2>1
  <2>3. variant \in {"dynamic", "dispatched", "static-oracle"}
    BY <2>1, VariantsAssumption DEF Benching
  <2>4. Whole(Source(variant, length))
    BY <2>2
  <2>5. variant = "static-oracle" => \E record : SoundOracle(record) /\ record.length = length
    <3> SUFFICES ASSUME variant = "static-oracle"
                 PROVE  \E record : SoundOracle(record) /\ record.length = length
      OBVIOUS
    <3>1. PICK i \in DOMAIN dir.oracles : dir.oracles[i].length = length
      BY <2>1
    <3>2. SoundOracle(dir.oracles[i])
      BY <1>6, <2>1, <3>1
    <3> QED BY <3>1, <3>2
  <2>6. Comparable(<<variant, length>>, Module(Source(variant, length)))
    BY <1>6, <2>1, <2>3, <2>4, <2>5, ComparableModule
  <2> QED BY <2>1, <2>2, <2>6
<1>8. DOMAIN modules = cells
  OBVIOUS
<1> HIDE DEF ok, held, modules, cells
<1>9. ASSUME ok, locals' = held, Follows(c, d, variants)
      PROVE  Building(d)' /\ Vouched(d)'
  <2>1. d.name = "measure"
    BY <1>1, <1>9 DEF Follows
  <2>2. Building(d)'
    BY <1>1, <1>2, <1>3, <1>5, <1>9, <2>1, StillBuilding DEF LooksAt
  <2>3. Canonical(d.name)' = Archive
    BY <1>3, <2>1 DEF Canonical, BuildNames, Archive
  <2>4. locals'.variants = locals.variants
    BY <1>2, <1>5, <1>9 DEF Keeps
  <2>5. \A m, module : Comparable(m, module) => Comparable(m, module)'
    BY <1>3 DEF Comparable
  <2>6. \A m \in DOMAIN locals'.modules : Comparable(m, locals.modules[m])'
    BY <1>5, <1>7, <1>8, <1>9, <2>5
  <2>7. Vouched(d)'
    BY <1>3, <1>6, <2>1, <2>3, <2>4, <2>6 DEF Vouched, Text
  <2> QED BY <2>2, <2>7
<1> QED BY <1>1, <1>3, <1>4, <1>5, <1>9, BenchStep

\* Every parameter once: as many references as parameters.
LEMMA OnceReferences ==
  ASSUME NEW keys, IsFiniteSet(keys)
  PROVE  Cardinality(References([k \in keys |-> 1])) = Cardinality(keys)
<1> DEFINE refs == [k \in keys |-> 1]
           once == {<<k, 1>> : k \in keys}
           f == [k \in keys |-> <<k, 1>>]
<1>1. References(refs) = once
  <2>1. \A k \in keys : {k} \X (1..refs[k]) = {<<k, 1>>}
    OBVIOUS
  <2>2. DOMAIN refs = keys
    OBVIOUS
  <2> HIDE DEF refs
  <2> QED BY <2>1, <2>2 DEF References
<1>2. f \in Bijection(keys, once)
  BY DEF Bijection, Injection, IsInjective, Surjection
<1> HIDE DEF f, once, refs
<1>3. Cardinality(once) = Cardinality(keys)
  BY <1>2, FS_Bijection DEF ExistsBijection
<1> QED BY <1>1, <1>3 DEF refs

LEMMA BenchMeasure ==
  ASSUME FileInv, MeasuredTogether, Benching, todo[1].name = "measure", Measure
  PROVE  BenchGoal
<1>1. /\ Vouched(todo[1]) /\ Tail(todo) = <<>> /\ locals.program = "bench"
  BY BenchHead
<1> DEFINE model == dir.onnx[Dynamic].model
           modules == locals.modules
           ok == \A c \in DOMAIN modules : Agrees(modules[c], Archive, model, c[2])
<1>2. dir' = IF ok THEN [dir EXCEPT !.summary = modules] ELSE dir
  BY DEF Measure, Writes
<1>3. Holding(ok, locals)
  BY DEF Measure, Writes
<1>4. FileInv' /\ dir'.summary = IF ok THEN modules ELSE dir.summary
  <2> HIDE DEF ok, modules
  <2>1. CASE ~ ok
    BY <1>2, <2>1, FileFrame
  <2>2. CASE ok
    <3>1. dir' = [dir EXCEPT !.summary = modules]
      BY <1>2, <2>2
    <3> QED BY <2>2, <3>1 DEF FileInv, IsFile, Whole
  <2> QED BY <2>1, <2>2
<1>5. /\ Whole(dir.onnx[Dynamic]) /\ ParameterIdentity(model, Archive)
      /\ Cardinality(DOMAIN Archive.bytes) = NumEntries
      /\ \A c \in DOMAIN modules : Comparable(c, modules[c])
  BY <1>1 DEF Vouched, Canonical, BuildNames
<1>6. IsNamed(model)
  BY <1>5, WidthsType DEF FileInv
<1>7. IsFiniteSet(Keys(model)) /\ DOMAIN Archive.bytes = Keys(model)
  BY <1>5, <1>6, KeysFinite DEF IsNamed, ParameterIdentity
<1>8. ok => Together(modules)
  <2> SUFFICES ASSUME ok PROVE Together(modules)
    OBVIOUS
  <2>1. \A c \in DOMAIN modules : modules[c].graph = model.graph
    BY DEF Agrees
  <2> DEFINE keys == Keys(model)
  <2>2. \A c \in DOMAIN modules : /\ modules[c].refs = [k \in keys |-> 1]
                                  /\ modules[c].widths = WidthsOf(c)
    BY <1>5 DEF Comparable
  <2>3. model.graph # "miscompiled"
    BY <1>6 DEF IsNamed
  <2>4. Cardinality(References([k \in keys |-> 1])) = NumEntries
    BY <1>5, <1>7, OnceReferences
  <2> HIDE DEF modules, model, keys
  <2> QED BY <2>1, <2>2, <2>3, <2>4 DEF Together
<1>9. MeasuredTogether'
  <2>1. Together(dir.summary)
    BY Measured
  <2>2. Together(dir'.summary)
    BY <1>4, <1>8, <2>1
  <2>3. MeasuredTogether' <=> Together(dir.summary)'
    BY Measured, PTL
  <2> QED BY <2>2, <2>3 DEF Together
<1>10. todo' = <<>> /\ locals' = Idle /\ passed' \in {"none", "bench"}
  <2> HIDE DEF ok
  <2> QED BY <1>1, <1>3 DEF Holding
<1> QED BY <1>4, <1>9, <1>10 DEF BenchGoal, Ended

LEMMA BenchCommand ==
  ASSUME FileInv, MeasuredTogether, Benching, Command
  PROVE  BenchGoal
<1>1. IsCommand(todo[1]) /\ Head(todo) = todo[1]
  BY BenchHead
<1>2. todo[1].name \in BuildNames \cup {"exist", "check", "recheck", "count", "manifest",
                                        "artifacts", "measure"}
  BY <1>1 DEF IsCommand
<1>3. CASE todo[1].name \in BuildNames
  BY <1>3, BenchBuild
<1>4. CASE todo[1].name = "exist"
  BY <1>1, <1>4, CommandOf, BenchExist
<1>5. CASE todo[1].name = "check"
  BY <1>1, <1>5, CommandOf, BenchCheck
<1>6. CASE todo[1].name = "recheck"
  BY <1>1, <1>6, CommandOf, BenchRecheck
<1>7. CASE todo[1].name = "count"
  BY <1>1, <1>7, CommandOf, BenchCount
<1>8. CASE todo[1].name = "manifest"
  BY <1>1, <1>8, CommandOf, BenchManifest
<1>9. CASE todo[1].name = "artifacts"
  BY <1>1, <1>9, CommandOf, BenchArtifacts
<1>10. CASE todo[1].name = "measure"
  BY <1>1, <1>10, CommandOf, BenchMeasure
<1> QED BY <1>2, <1>3, <1>4, <1>5, <1>6, <1>7, <1>8, <1>9, <1>10

-----------------------------------------------------------------------------
\* The programs are lists of such commands.
Joined(s, t, st, variants) ==
  Ordered(st, variants) /\ st[1] = s[1] /\ st[Len(st)] = t[Len(t)]

LEMMA OrderedConcat ==
  ASSUME NEW variants, NEW s, NEW t, NEW st, st = s \o t,
         Ordered(s, variants), Ordered(t, variants), Follows(s[Len(s)], t[1], variants)
  PROVE  Joined(s, t, st, variants)
<1>1. IsSeq(s) /\ IsSeq(t)
  BY DEF Ordered
<1>2. Len(s) \in Nat /\ Len(t) \in Nat /\ Len(s) > 0 /\ Len(t) > 0
  BY DEF Ordered, IsSeq
<1>3. /\ IsSeq(st) /\ Len(st) = Len(s) + Len(t)
      /\ \A i \in 1..Len(s) : st[i] = s[i]
      /\ \A i \in Len(s) + 1..Len(s) + Len(t) : st[i] = t[i - Len(s)]
  BY <1>1, ConcatIsSeq
<1>4. \A i \in 1..Len(st) : IsCommand(st[i])
  <2> TAKE i \in 1..Len(st)
  <2>1. CASE i \in 1..Len(s)
    BY <1>3, <2>1 DEF Ordered
  <2>2. CASE i \in Len(s) + 1..Len(s) + Len(t)
    <3>1. i - Len(s) \in 1..Len(t)
      BY <1>2, <2>2
    <3> QED BY <1>3, <2>2, <3>1 DEF Ordered
  <2> QED BY <1>2, <1>3, <2>1, <2>2
<1>5. \A i \in 1..Len(st) - 1 : Follows(st[i], st[i + 1], variants)
  <2> TAKE i \in 1..Len(st) - 1
  <2>1. CASE i \in 1..Len(s) - 1
    <3>1. i \in 1..Len(s) /\ i + 1 \in 1..Len(s)
      BY <1>2, <2>1
    <3> QED BY <1>3, <2>1, <3>1 DEF Ordered
  <2>2. CASE i = Len(s)
    <3>1. i \in 1..Len(s) /\ i + 1 \in Len(s) + 1..Len(s) + Len(t) /\ i + 1 - Len(s) = 1
      BY <1>2, <2>2
    <3>2. st[i] = s[Len(s)] /\ st[i + 1] = t[1]
      BY <1>3, <2>2, <3>1
    <3> QED BY <3>2
  <2>3. CASE i \in Len(s) + 1..Len(s) + Len(t) - 1
    <3>1. /\ i \in Len(s) + 1..Len(s) + Len(t) /\ i + 1 \in Len(s) + 1..Len(s) + Len(t)
          /\ i - Len(s) \in 1..Len(t) - 1 /\ (i + 1) - Len(s) = (i - Len(s)) + 1
      BY <1>2, <2>3
    <3>2. st[i] = t[i - Len(s)] /\ st[i + 1] = t[(i - Len(s)) + 1]
      BY <1>3, <3>1
    <3> QED BY <3>1, <3>2 DEF Ordered
  <2> QED BY <1>2, <1>3, <2>1, <2>2, <2>3
<1>6. Ordered(st, variants)
  BY <1>2, <1>3, <1>4, <1>5 DEF Ordered
<1>7. st[1] = s[1] /\ st[Len(st)] = t[Len(t)]
  BY <1>2, <1>3
<1> QED BY <1>6, <1>7 DEF Joined

\* One or two commands for the whole directory.
LEMMA OrderedOne ==
  ASSUME NEW name \in {"exist", "check", "recheck", "count", "manifest", "artifacts", "measure"},
         NEW variants
  PROVE  /\ Ordered(Cmds(<<name>>), variants) /\ Len(Cmds(<<name>>)) = 1
         /\ Cmds(<<name>>)[1] = Cmd(name, Dynamic)
<1> DEFINE s == Cmds(<<name>>)
<1>1. DOMAIN <<name>> = 1..1 /\ <<name>>[1] = name
  OBVIOUS
<1>2. s = [i \in 1..1 |-> Cmd(name, Dynamic)]
  BY <1>1 DEF Cmds
<1> HIDE DEF s
<1>3. IsSeq(s) /\ Len(s) = 1 /\ s[1] = Cmd(name, Dynamic)
  <2>1. s = [i \in 1..1 |-> s[i]] /\ s[1] = Cmd(name, Dynamic)
    BY <1>2
  <2> QED BY <2>1, FunctionIsSeq
<1>4. IsCommand(Cmd(name, Dynamic))
  BY DEF IsCommand, Cmd
<1> QED BY <1>3, <1>4 DEF Ordered, s

LEMMA OrderedTwo ==
  ASSUME NEW name, NEW other, NEW variants,
         \/ name = "exist" /\ other = "check"
         \/ name = "artifacts" /\ other = "measure"
  PROVE  /\ Ordered(Cmds(<<name, other>>), variants) /\ Len(Cmds(<<name, other>>)) = 2
         /\ Cmds(<<name, other>>)[1] = Cmd(name, Dynamic)
         /\ Cmds(<<name, other>>)[2] = Cmd(other, Dynamic)
<1> DEFINE s == Cmds(<<name, other>>)
<1>1. DOMAIN <<name, other>> = 1..2 /\ <<name, other>>[1] = name /\ <<name, other>>[2] = other
  OBVIOUS
<1>2. s = [i \in 1..2 |-> Cmd(<<name, other>>[i], Dynamic)]
  BY <1>1 DEF Cmds
<1>3. IsSeq(s) /\ Len(s) = 2
  <2> HIDE DEF s
  <2> QED BY <1>2, FunctionIsSeq
<1>4. s[1] = Cmd(name, Dynamic) /\ s[2] = Cmd(other, Dynamic)
  BY <1>1, <1>2
<1> HIDE DEF s
<1>5. \A i \in 1..2 : IsCommand(s[i])
  BY <1>4 DEF IsCommand, Cmd
<1>6. Follows(s[1], s[2], variants)
  <2>1. s[1].name = name /\ s[2].name = other
    BY <1>4 DEF Cmd
  <2>2. CASE name = "exist"
    BY <2>1, <2>2 DEF Follows
  <2>3. CASE name = "artifacts"
    BY <2>1, <2>3 DEF Follows
  <2> QED BY <2>2, <2>3
<1>7. Ordered(s, variants)
  BY <1>3, <1>5, <1>6 DEF Ordered
<1> QED BY <1>3, <1>4, <1>7 DEF s

OracleNames == <<"begin", "staticize", "imported", "torch", "builtin", "generic", "core", "end">>

LEMMA OracleCommands ==
  Len(build_oracle) = 8 /\ \A i \in 1..8 : build_oracle[i] = OracleNames[i]
<1> DEFINE a == <<"begin", "staticize">>
           b == OracleStages
           c == <<"end">>
<1>1. IsSeq(a) /\ Len(a) = 2 /\ IsSeq(b) /\ Len(b) = 5 /\ IsSeq(c) /\ Len(c) = 1
  <2>1. a \in Seq({"begin", "staticize"}) /\ Len(a) = 2
    OBVIOUS
  <2>2. b \in Seq({"imported", "torch", "builtin", "generic", "core"}) /\ Len(b) = 5
    BY DEF OracleStages
  <2>3. c \in Seq({"end"}) /\ Len(c) = 1
    OBVIOUS
  <2> HIDE DEF a, b, c
  <2> QED BY <2>1, <2>2, <2>3, SeqIsSeq
<1> DEFINE ab == a \o b
<1> HIDE DEF a, b, c
<1>2. /\ IsSeq(ab) /\ Len(ab) = Len(a) + Len(b)
      /\ \A i \in 1..Len(a) : ab[i] = a[i]
      /\ \A i \in Len(a) + 1..Len(a) + Len(b) : ab[i] = b[i - Len(a)]
  BY <1>1, ConcatIsSeq
<1> HIDE DEF ab
<1> DEFINE all == ab \o c
<1>3. /\ IsSeq(all) /\ Len(all) = Len(ab) + Len(c)
      /\ \A i \in 1..Len(ab) : all[i] = ab[i]
      /\ \A i \in Len(ab) + 1..Len(ab) + Len(c) : all[i] = c[i - Len(ab)]
  <2>1. IsSeq(ab) /\ IsSeq(c)
    BY <1>1, <1>2
  <2> QED BY <2>1, ConcatIsSeq
<1> HIDE DEF all
<1>4. all = build_oracle
  BY DEF all, ab, a, b, c, build_oracle
<1>5. (\A i \in 1..2 : all[i] = a[i]) /\ (\A i \in 3..7 : all[i] = b[i - 2]) /\ all[8] = c[1]
  BY <1>1, <1>2, <1>3
<1>6. \A i \in 1..2 : all[i] = OracleNames[i]
  BY <1>5 DEF a, OracleNames
<1>7. \A i \in 3..7 : all[i] = OracleNames[i]
  BY <1>5 DEF b, OracleStages, OracleNames
<1>8. all[8] = OracleNames[8]
  BY <1>5 DEF c, OracleNames
<1> QED BY <1>1, <1>2, <1>3, <1>4, <1>6, <1>7, <1>8

\* Eight commands for every length, in the order of the lengths.
LEMMA OrderedBuild ==
  ASSUME NEW lengths \in OracleLengths, NEW variants
  PROVE  /\ Ordered(BuildOracles(lengths), variants)
         /\ BuildOracles(lengths)[1].name = "begin"
         /\ BuildOracles(lengths)[Len(BuildOracles(lengths))].name = "manifest"
         /\ \A i \in 1..Len(BuildOracles(lengths)) :
              BuildOracles(lengths)[i].name \in BuildNames \cup {"manifest"}
<1> DEFINE L == Len(lengths)
           name(i) == OracleNames[((i - 1) % 8) + 1]
           width(i) == lengths[((i - 1) \div 8) + 1]
           F == [i \in 1..8 * L |-> Cmd(name(i), width(i))]
           M == Cmds(<<"manifest">>)
<1>1. /\ lengths \in Seq(1..512) /\ lengths # <<>>
      /\ \A i, j \in DOMAIN lengths : i < j => lengths[i] < lengths[j]
  BY LengthsAssumption
<1>2. L \in Nat /\ L > 0 /\ DOMAIN lengths = 1..L
  BY <1>1, LenProperties, EmptySeq
<1>3. \A j \in 1..L : lengths[j] \in Widths \ {Dynamic} /\ lengths[j] \in Nat
  <2> TAKE j \in 1..L
  <2>1. lengths[j] \in 1..512
    BY <1>1, ElementOfSeq, Zenon
  <2>2. lengths[j] \in Widths
    BY <1>2 DEF Widths, ToSet
  <2>3. \A x \in 1..512 : x \in Nat /\ x # 0
    OBVIOUS
  <2> QED BY <2>1, <2>2, <2>3, Zenon DEF Dynamic
<1>4. \A i \in 1..8 * L : ((i - 1) % 8) + 1 \in 1..8 /\ ((i - 1) \div 8) + 1 \in 1..L
  BY <1>2
<1>5. BuildOracles(lengths) = F \o M
  <2>1. \A i \in 1..8 * L : build_oracle[((i - 1) % 8) + 1] = name(i)
    BY <1>4, OracleCommands
  <2>2. Len(build_oracle) = 8
    BY OracleCommands
  <2> QED BY <2>1, <2>2 DEF BuildOracles
<1>6. \A i \in 1..8 * L : F[i] = Cmd(name(i), width(i)) /\ F[i].name = name(i) /\ F[i].width = width(i)
  BY DEF Cmd
<1>7. IsSeq(F) /\ Len(F) = 8 * L
  <2>1. F = [i \in 1..8 * L |-> F[i]] /\ 8 * L \in Nat
    BY <1>2
  <2> HIDE DEF F
  <2> QED BY <2>1, FunctionIsSeq
<1> HIDE DEF F
<1>8. \A i \in 1..8 : OracleNames[i] \in BuildNames
  BY DEF OracleNames, BuildNames
<1>9. \A i \in 1..8 * L : F[i].name \in BuildNames /\ IsCommand(F[i])
  <2> TAKE i \in 1..8 * L
  <2>1. name(i) \in BuildNames /\ width(i) \in Widths \ {Dynamic}
    BY <1>3, <1>4, <1>8
  <2> HIDE DEF name, width
  <2> QED BY <1>6, <2>1 DEF IsCommand
<1>10. \A i \in 1..8 * L - 1 : Follows(F[i], F[i + 1], variants)
  <2> TAKE i \in 1..8 * L - 1
  <2>1. i \in 1..8 * L /\ i + 1 \in 1..8 * L /\ (i + 1) - 1 = i
    BY <1>2
  <2> DEFINE r == (i - 1) % 8
             q == (i - 1) \div 8
  <2>2. r \in 0..7 /\ q \in Nat /\ i - 1 = 8 * q + r
    BY <2>1
  <2>3. CASE r < 7
    <3>1. i % 8 = r + 1 /\ i \div 8 = q
      BY <2>1, <2>2, <2>3
    <3>2. name(i) = OracleNames[r + 1] /\ name(i + 1) = OracleNames[r + 2] /\ width(i) = width(i + 1)
      BY <2>1, <2>2, <3>1
    <3> HIDE DEF r, q, name, width
    <3>3. F[i].name = OracleNames[r + 1] /\ F[i + 1] = Cmd(OracleNames[r + 2], F[i].width)
      BY <1>6, <2>1, <3>2
    <3>4. r \in 0..6
      BY <2>2, <2>3
    <3> QED BY <3>3, <3>4 DEF Follows, OracleNames
  <2>4. CASE r = 7
    <3>1. i % 8 = 0 /\ i \div 8 = q + 1
      BY <2>1, <2>2, <2>4
    <3>2. q + 1 \in 1..L /\ q + 2 \in 1..L
      <4>1. (i \div 8) + 1 \in 1..L
        BY <1>4, <2>1
      <4> QED BY <1>4, <2>1, <3>1, <4>1
    <3>3. name(i) = OracleNames[8] /\ name(i + 1) = OracleNames[1]
      BY <2>1, <2>2, <2>4, <3>1
    <3>4. width(i) = lengths[q + 1] /\ width(i + 1) = lengths[q + 2]
      BY <2>1, <2>2, <2>4, <3>1
    <3>5. lengths[q + 1] < lengths[q + 2] /\ lengths[q + 1] \in Nat /\ lengths[q + 2] \in Nat
      <4> HIDE DEF q
      <4>1. q + 1 \in DOMAIN lengths /\ q + 2 \in DOMAIN lengths /\ q + 1 < q + 2
        BY <1>2, <2>2, <3>2
      <4> QED BY <1>1, <1>3, <3>2, <4>1
    <3> HIDE DEF r, q, name, width
    <3>6. /\ F[i].name = "end" /\ F[i + 1].name = "begin"
          /\ F[i + 1].width > F[i].width
      BY <1>6, <2>1, <3>3, <3>4, <3>5 DEF OracleNames
    <3> QED BY <3>6 DEF Follows
  <2> QED BY <2>2, <2>3, <2>4
<1>11. Ordered(F, variants)
  BY <1>2, <1>7, <1>9, <1>10 DEF Ordered
<1>12. F[1].name = "begin" /\ F[8 * L].name = "end"
  <2>1. 1 \in 1..8 * L /\ 8 * L \in 1..8 * L /\ (1 - 1) % 8 = 0 /\ (8 * L - 1) % 8 = 7
    BY <1>2
  <2> QED BY <1>6, <2>1 DEF OracleNames
<1>13. Ordered(M, variants) /\ Len(M) = 1 /\ M[1] = Cmd("manifest", Dynamic)
  BY OrderedOne
<1>14. M[1].name = "manifest"
  BY <1>13 DEF Cmd
<1> HIDE DEF M
<1>15. Follows(F[Len(F)], M[1], variants)
  BY <1>7, <1>12, <1>14 DEF Follows
<1> DEFINE FM == F \o M
<1>16. Ordered(FM, variants) /\ FM[1] = F[1] /\ FM[Len(FM)] = M[1]
  <2>1. FM = F \o M
    OBVIOUS
  <2> HIDE DEF FM
  <2>2. Joined(F, M, FM, variants)
    BY <1>11, <1>13, <1>15, <2>1, OrderedConcat, Zenon
  <2> QED BY <1>13, <2>2 DEF Joined
<1>17. \A i \in 1..Len(FM) : FM[i].name \in BuildNames \cup {"manifest"}
  <2>1. IsSeq(F) /\ IsSeq(M)
    BY <1>7, <1>13 DEF Ordered
  <2>2. /\ Len(FM) = Len(F) + Len(M)
        /\ \A i \in 1..Len(F) : FM[i] = F[i]
        /\ \A i \in Len(F) + 1..Len(F) + Len(M) : FM[i] = M[i - Len(F)]
    BY <2>1, ConcatIsSeq
  <2> HIDE DEF FM
  <2>3. FM[8 * L + 1] = M[1]
    BY <1>2, <1>7, <1>13, <2>2
  <2> QED BY <1>2, <1>7, <1>9, <1>13, <1>14, <2>2, <2>3
<1> QED BY <1>5, <1>12, <1>14, <1>16, <1>17

LEMMA ConcatNone == ASSUME NEW s, IsSeq(s) PROVE s \o <<>> = s
<1>1. s \in Seq(Elements(s))
  BY IsSeqSeq
<1> QED BY <1>1, ConcatEmptySeq

\* The commands of a benchmark, with and without the two parts that depend on
\* its variants.
LEMMA OrderedBench ==
  ASSUME NEW lengths \in OracleLengths, NEW variants
  PROVE  /\ Ordered(Bench(variants, lengths), variants)
         /\ Bench(variants, lengths)[1].name = "exist"
         /\ Bench(variants, lengths)[Len(Bench(variants, lengths))].name = "measure"
<1> DEFINE a == Cmds(<<"exist", "check">>)
           b == Cmds(<<"recheck">>)
           c == Cmds(<<"count">>)
           d == BuildOracles(lengths)
           e == Cmds(<<"artifacts", "measure">>)
<1>0. \A name, width : Cmd(name, width).name = name
  BY DEF Cmd
<1>1. Ordered(a, variants) /\ a[1].name = "exist" /\ a[Len(a)].name = "check"
  BY <1>0, OrderedTwo
<1>2. Ordered(b, variants) /\ b[1].name = "recheck" /\ b[Len(b)].name = "recheck"
  BY <1>0, OrderedOne
<1>3. Ordered(c, variants) /\ c[1].name = "count" /\ c[Len(c)].name = "count"
  BY <1>0, OrderedOne
<1>4. Ordered(d, variants) /\ d[1].name = "begin" /\ d[Len(d)].name = "manifest"
  BY OrderedBuild
<1>5. Ordered(e, variants) /\ e[1].name = "artifacts" /\ e[Len(e)].name = "measure"
  BY <1>0, OrderedTwo
<1> DEFINE middle == IF "dispatched" \in variants THEN b ELSE <<>>
           tail == IF "static-oracle" \in variants THEN d ELSE <<>>
<1>6. Bench(variants, lengths) = (((a \o middle) \o c) \o tail) \o e
  BY DEF Bench
<1> HIDE DEF a, b, c, d, e
<1> DEFINE am == a \o middle
<1>7. /\ Ordered(am, variants) /\ am[1].name = "exist"
      /\ am[Len(am)].name = IF "dispatched" \in variants THEN "recheck" ELSE "check"
  <2>1. CASE "dispatched" \in variants
    <3>1. Follows(a[Len(a)], b[1], variants)
      BY <1>1, <1>2, <2>1 DEF Follows
    <3>2. am = a \o b
      BY <2>1
    <3> HIDE DEF am
    <3>3. Joined(a, b, am, variants)
      BY <1>1, <1>2, <3>1, <3>2, OrderedConcat, Zenon
    <3> QED BY <1>1, <1>2, <2>1, <3>3 DEF Joined
  <2>2. CASE "dispatched" \notin variants
    <3>1. am = a
      BY <1>1, <2>2, ConcatNone DEF Ordered
    <3> QED BY <1>1, <2>2, <3>1
  <2> QED BY <2>1, <2>2
<1> HIDE DEF am
<1> DEFINE amc == am \o c
<1>8. Ordered(amc, variants) /\ amc[1].name = "exist" /\ amc[Len(amc)].name = "count"
  <2>1. Follows(am[Len(am)], c[1], variants)
    BY <1>3, <1>7 DEF Follows
  <2>2. amc = am \o c
    OBVIOUS
  <2> HIDE DEF amc
  <2>3. Joined(am, c, amc, variants)
    BY <1>3, <1>7, <2>1, <2>2, OrderedConcat, Zenon
  <2> QED BY <1>3, <1>7, <2>3 DEF Joined
<1> HIDE DEF amc
<1> DEFINE amct == amc \o tail
<1>9. /\ Ordered(amct, variants) /\ amct[1].name = "exist"
      /\ amct[Len(amct)].name = IF "static-oracle" \in variants THEN "manifest" ELSE "count"
  <2>1. CASE "static-oracle" \in variants
    <3>1. Follows(amc[Len(amc)], d[1], variants)
      BY <1>4, <1>8, <2>1 DEF Follows
    <3>2. amct = amc \o d
      BY <2>1
    <3> HIDE DEF amct
    <3>3. Joined(amc, d, amct, variants)
      BY <1>4, <1>8, <3>1, <3>2, OrderedConcat, Zenon
    <3> QED BY <1>4, <1>8, <2>1, <3>3 DEF Joined
  <2>2. CASE "static-oracle" \notin variants
    <3>1. amct = amc
      BY <1>8, <2>2, ConcatNone DEF Ordered
    <3> QED BY <1>8, <2>2, <3>1
  <2> QED BY <2>1, <2>2
<1> HIDE DEF amct
<1> DEFINE all == amct \o e
<1>10. Ordered(all, variants) /\ all[1].name = "exist" /\ all[Len(all)].name = "measure"
  <2>1. Follows(amct[Len(amct)], e[1], variants)
    BY <1>5, <1>9 DEF Follows
  <2>2. all = amct \o e
    OBVIOUS
  <2> HIDE DEF all
  <2>3. Joined(amct, e, all, variants)
    BY <1>5, <1>9, <2>1, <2>2, OrderedConcat, Zenon
  <2> QED BY <1>5, <1>9, <2>3 DEF Joined
<1>11. Bench(variants, lengths) = all
  BY <1>6 DEF am, amc, amct
<1> QED BY <1>10, <1>11

-----------------------------------------------------------------------------
\* The invariant holds at first, and every step keeps it.
LEMMA NothingMeasured == dir.summary = <<>> => MeasuredTogether
<1> SUFFICES ASSUME dir.summary = <<>> PROVE MeasuredTogether
  OBVIOUS
<1>1. Together(<<>>)
  BY DEF Together
<1> QED BY <1>1, Measured

LEMMA FileSummary ==
  ASSUME FileInv, NEW summary, dir' = [dir EXCEPT !.summary = summary]
  PROVE  FileInv' /\ dir'.summary = summary
  BY DEF FileInv, IsFile, Whole

LEMMA Initial == ASSUME Init PROVE IInv
<1> DEFINE files == [source   |-> [model |-> Missing, config |-> Missing],
                     onnx     |-> [w \in Widths |-> Missing],
                     archives |-> <<>>,
                     texts    |-> [name \in TextNames |-> NoText],
                     modules  |-> [name \in {"dynamic", "multiversioned"} |-> Missing],
                     oracles  |-> <<>>,
                     summary  |-> <<>>]
<1>1. dir = files /\ todo = <<>> /\ locals = Idle /\ passed = "none" /\ manifest \in Committed
  BY DEF Init
<1>2. ~ Whole(Missing) /\ ~ Whole(NoText)
  BY DEF Whole, Missing, NoText
<1>3. FileInv
  BY <1>1, <1>2 DEF FileInv, IsFile
<1>4. dir.summary = <<>>
  BY <1>1
<1>5. MeasuredTogether
  BY <1>4, NothingMeasured
<1> QED BY <1>1, <1>3, <1>5 DEF IInv, OracleClaims

LEMMA Starts ==
  ASSUME IInv, NEW commands, NEW held, Start(commands, held), commands # <<>>,
         dir'.summary = <<>> /\ FileInv' =>
           (\E k \in 1..18 : Checking(k)') \/ Oracling' \/ Benching'
  PROVE  IInv'
<1>1. /\ todo' = commands /\ passed' = "none" /\ manifest' = manifest
      /\ dir' = [dir EXCEPT !.summary = <<>>]
  BY DEF Start
<1>2. FileInv' /\ dir'.summary = <<>>
  BY <1>1, FileSummary DEF IInv
<1>3. MeasuredTogether'
  <2>1. (dir.summary = <<>>)'
    BY <1>2
  <2> QED BY <2>1, NothingMeasured, PTL
<1>4. OracleClaims'
  BY <1>1 DEF OracleClaims
<1> QED BY <1>1, <1>2, <1>3, <1>4 DEF IInv

LEMMA StartsCheck == ASSUME IInv, StartCheck PROVE IInv'
<1> DEFINE held == [program |-> "check-e5", text |-> <<>>]
<1>1. Start(CheckE5, held) /\ todo' = CheckE5 /\ locals' = held
  BY DEF StartCheck, Start
<1>2. CheckAt(1)'
  BY <1>1, CheckCommands DEF CheckAt
<1>3. Chain(1)'
  BY DEF Chain
<1>4. Checking(1)'
  BY <1>1, <1>2, <1>3 DEF Checking
<1>5. CheckE5 # <<>>
  <2>1. Len(CheckE5) # Len(<<>>)
    BY CheckCommands, EmptyIsSeq
  <2> QED BY <2>1, Zenon
<1> HIDE DEF held
<1> QED BY <1>1, <1>4, <1>5, Starts

LEMMA StartsOracles == ASSUME IInv, StartOracles PROVE IInv'
<1>1. PICK lengths \in OracleLengths :
        Start(BuildOracles(lengths),
              [program |-> "oracles", text |-> <<>>, canonical |-> Missing, records |-> <<>>])
  BY DEF StartOracles
<1> DEFINE held == [program |-> "oracles", text |-> <<>>, canonical |-> Missing, records |-> <<>>]
           commands == BuildOracles(lengths)
<1>2. Start(commands, held) /\ todo' = commands /\ locals' = held
  BY <1>1 DEF Start
<1>3. /\ Ordered(commands, {}) /\ commands[1].name = "begin"
      /\ commands[Len(commands)].name = "manifest"
      /\ \A i \in 1..Len(commands) : commands[i].name \in BuildNames \cup {"manifest"}
  BY OrderedBuild
<1>4. commands # <<>>
  BY <1>3, EmptyIsSeq DEF Ordered
<1> HIDE DEF commands
<1>5. locals' = [program |-> "oracles", text |-> locals'.text,
                 canonical |-> locals'.canonical, records |-> locals'.records]
      /\ locals'.records = <<>>
  BY <1>2
<1>6. Building(todo[1])'
  BY <1>2, <1>3, <1>5, EmptyIsSeq DEF Building, BuildNames, Lowered
<1> HIDE DEF held
<1>7. Oracling'
  BY <1>2, <1>3, <1>5, <1>6 DEF Oracling
<1> QED BY <1>2, <1>4, <1>7, Starts

LEMMA StartsBench == ASSUME IInv, StartBench PROVE IInv'
<1>1. PICK lengths \in OracleLengths, variants \in Variants :
        Start(Bench(variants, lengths),
              [program |-> "bench", lengths |-> lengths, variants |-> variants,
               text |-> <<>>, canonical |-> Missing, records |-> <<>>, modules |-> <<>>])
  BY DEF StartBench
<1> DEFINE held == [program |-> "bench", lengths |-> lengths, variants |-> variants,
                    text |-> <<>>, canonical |-> Missing, records |-> <<>>, modules |-> <<>>]
           commands == Bench(variants, lengths)
<1>2. Start(commands, held) /\ todo' = commands /\ locals' = held
  BY <1>1 DEF Start
<1>3. /\ Ordered(commands, variants) /\ commands[1].name = "exist"
      /\ commands[Len(commands)].name = "measure"
  BY OrderedBench
<1>4. commands # <<>>
  BY <1>3, EmptyIsSeq DEF Ordered
<1> HIDE DEF commands
<1>5. /\ locals' = [program |-> "bench", lengths |-> locals'.lengths,
                    variants |-> locals'.variants, text |-> locals'.text,
                    canonical |-> locals'.canonical, records |-> locals'.records,
                    modules |-> locals'.modules]
      /\ locals'.records = <<>> /\ locals'.lengths = lengths /\ locals'.variants = variants
  BY <1>2
<1>6. Building(todo[1])'
  BY <1>2, <1>3, <1>5, EmptyIsSeq DEF Building, BuildNames, Lowered
<1>7. Vouched(todo[1])'
  BY <1>2, <1>3, <1>5 DEF Vouched
<1> HIDE DEF held
<1>8. Benching'
  BY <1>1, <1>2, <1>3, <1>5, <1>6, <1>7 DEF Benching
<1> QED BY <1>2, <1>4, <1>8, Starts

\* A command takes its step.
LEMMA CommandStep == ASSUME IInv, Command PROVE IInv'
<1>1. todo # <<>> /\ manifest' = manifest
  <2>1. \E ok, held : Holding(ok, held)
    BY Zenon DEF Command, Fetch, Validate, Adapt, Reload, Import, Lower, mark_entry, Compile,
       Inventory, CheckBridge, Baseline, Specialize, Recheck, Compare, Begin, staticize_model,
       End, WriteManifest, Exist, Count, Artifacts, Measure, Check, Writes, Tool
  <2>2. todo # <<>>
    BY Zenon DEF Command, Fetch, Validate, Adapt, Reload, Import, Lower, mark_entry, Compile,
       Inventory, CheckBridge, Baseline, Specialize, Recheck, Compare, Begin, staticize_model,
       End, WriteManifest, Exist, Count, Artifacts, Measure, Doing
  <2> QED BY <2>1, <2>2 DEF Holding
<1>2. FileInv /\ MeasuredTogether
      /\ ((\E k \in 1..18 : Checking(k)) \/ Oracling \/ Benching)
  BY <1>1 DEF IInv
<1>3. ASSUME NEW k \in 1..18, Checking(k)
      PROVE  IInv'
  <2>1. Passes(k) /\ FileInv' /\ dir'.summary = dir.summary
    BY <1>3, CheckCommand DEF CheckGoal
  <2>2. MeasuredTogether'
    BY <1>2, <2>1, SummaryFrame
  <2>3. OracleClaims'
    BY <2>1 DEF Passes, OracleClaims
  <2>4. k < 18 => k + 1 \in 1..18
    BY <1>3
  <2> QED BY <1>1, <2>1, <2>2, <2>3, <2>4 DEF IInv, Passes, Ended
<1>4. ASSUME Oracling
      PROVE  IInv'
  <2>1. OracleGoal
    BY <1>2, <1>4, OracleCommand
  <2>2. MeasuredTogether'
    BY <1>2, <2>1, SummaryFrame DEF OracleGoal
  <2> QED BY <1>1, <2>1, <2>2 DEF IInv, OracleGoal, Ended
<1>5. ASSUME Benching
      PROVE  IInv'
  <2>1. BenchGoal
    BY <1>2, <1>5, BenchCommand
  <2>2. OracleClaims'
    BY <2>1 DEF BenchGoal, OracleClaims
  <2> QED BY <1>1, <2>1, <2>2 DEF IInv, BenchGoal, Ended
<1> QED BY <1>2, <1>3, <1>4, <1>5

\* A command that is stopped leaves no whole file but those it found, or what a
\* tool or a copy leaves whole.
LEMMA Stopped ==
  ASSUME IInv, todo # <<>>, Remains(Head(todo))
  PROVE  FileInv' /\ dir'.summary = dir.summary
<1> DEFINE cmd == Head(todo)
<1>1. FileInv /\ ((\E k \in 1..18 : Checking(k)) \/ Oracling \/ Benching)
  BY DEF IInv
<1>2. cmd.width \in Widths
  <2>1. ASSUME NEW k \in 1..18, Checking(k)
        PROVE  cmd.width = Dynamic
    BY <2>1, CheckHead DEF Checking, Cmd
  <2>2. ASSUME IsCommand(cmd)
        PROVE  cmd.width \in Widths
    BY <2>2, WidthsType DEF IsCommand
  <2>3. Oracling \/ Benching => IsCommand(cmd)
    <3>1. Oracling => IsCommand(cmd)
      BY OrderedHead DEF Oracling
    <3> QED BY <3>1, BenchHead
  <2> QED BY <1>1, <2>1, <2>2, <2>3, WidthsType
<1>3. cmd.name \in Lowered => IsText(locals.text)
  <2> SUFFICES ASSUME cmd.name \in Lowered PROVE IsText(locals.text)
    OBVIOUS
  <2>1. ASSUME NEW k \in 1..18, Checking(k)
        PROVE  IsText(locals.text)
    <3>1. CheckNames[k] \in Lowered
      BY <2>1, CheckHead DEF Checking, Cmd
    <3>2. k \in 6..10
      BY <3>1, Positions DEF Lowered
    <3> QED BY <2>1, <3>2 DEF Checking, IsTextOf
  <2>2. ASSUME Oracling \/ Benching
        PROVE  IsText(locals.text)
    <3>1. Oracling => Building(cmd)
      BY OrderedHead DEF Oracling
    <3>2. Benching => Building(cmd)
      BY BenchHead
    <3> QED BY <2>2, <3>1, <3>2 DEF Building, IsTextOf
  <2> QED BY <1>1, <2>1, <2>2
<1>4. cmd.name = "specialize" => IsText(Text("core", Dynamic))
  <2> SUFFICES ASSUME cmd.name = "specialize" PROVE IsText(Text("core", Dynamic))
    OBVIOUS
  <2>1. ASSUME NEW k \in 1..18, Checking(k)
        PROVE  IsText(Text("core", Dynamic))
    <3>1. CheckNames[k] = "specialize"
      BY <2>1, CheckHead DEF Checking, Cmd
    <3>2. k = 15
      BY <3>1, Positions
    <3> QED BY <2>1, <3>2 DEF Checking, Chain, IsTextOf
  <2>2. ~ (Oracling \/ Benching)
    <3>1. ~ IsCommand(cmd)
      BY DEF IsCommand, BuildNames
    <3>2. Oracling => IsCommand(cmd)
      BY OrderedHead DEF Oracling
    <3> QED BY <3>1, <3>2, BenchHead
  <2> QED BY <1>1, <2>1, <2>2
<1>5. ASSUME NEW stage, NEW w, NEW text, IsText(text), TornText(stage, w, text)
      PROVE  FileInv' /\ dir'.summary = dir.summary
  <2>1. PICK t \in Torn(text) : dir' = PutText(stage, w, t)
    BY <1>5 DEF TornText
  <2>2. t.end # "whole"
    <3>1. CASE t = [text EXCEPT !.end = "cut"]
      BY <1>5, <3>1 DEF IsText
    <3>2. CASE t = [NoText EXCEPT !.end = "stub"]
      BY <3>2 DEF NoText
    <3> QED BY <3>1, <3>2 DEF Torn
  <2>3. IsFile(t, <<stage, w>>)
    BY <2>2 DEF IsFile, Whole
  <2> QED BY <1>1, <2>1, <2>3, FileText
<1>6. ASSUME NEW w \in Widths, TornOnnx(w)
      PROVE  FileInv' /\ dir'.summary = dir.summary
  <2> DEFINE torn == [end |-> "cut"]
  <2>1. ~ Whole(torn) /\ dir' = [dir EXCEPT !.onnx[w] = torn]
    BY <1>6 DEF TornOnnx, Whole
  <2> HIDE DEF torn
  <2> QED BY <1>1, <1>6, <2>1, FileOnnx
<1>7. Remains(cmd)
  OBVIOUS
<1> HIDE DEF cmd
<1>8. CASE \/ dir' = dir
           \/ \E m \in {dir.source.model, manifest.release.model},
                 c \in {dir.source.config, manifest.release.config} :
                dir' = [dir EXCEPT !.source = [model |-> m, config |-> c]]
           \/ \E archive \in {Irpa(dir.onnx[Dynamic].model), [end |-> "cut"]} :
                dir' = [dir EXCEPT !.archives = Saved("e5.irpa", archive)]
           \/ dir' = [dir EXCEPT !.modules[cmd.name] = [end |-> "cut"]]
  <2>1. \/ dir' = dir
        \/ \E source : dir' = [dir EXCEPT !.source = source]
        \/ \E archives : dir' = [dir EXCEPT !.archives = archives]
        \/ \E name, module : dir' = [dir EXCEPT !.modules[name] = module]
    BY <1>8, Zenon
  <2> QED BY <1>1, <2>1, FileFrame
<1>9. CASE cmd.name = "adapt" /\ TornOnnx(Dynamic)
  BY <1>6, <1>9, WidthsType
<1>10. CASE cmd.name = "staticize" /\ TornOnnx(cmd.width)
  BY <1>2, <1>6, <1>10 DEF cmd
<1>11. CASE cmd.name \in Lowered /\ TornText(cmd.name, cmd.width, locals.text)
  BY <1>3, <1>5, <1>11 DEF cmd
<1>12. CASE /\ cmd.name = "specialize"
            /\ TornText("multiversioned", Dynamic, SpecializedText(Text("core", Dynamic)))
  <2>1. IsText(SpecializedText(Text("core", Dynamic)))
    BY <1>4, <1>12, SpecializedIsText DEF cmd
  <2> QED BY <1>5, <1>12, <2>1
<1> QED BY <1>7, <1>8, <1>9, <1>10, <1>11, <1>12, Zenon DEF Remains

LEMMA AbortStep == ASSUME IInv, Abort PROVE IInv'
<1>1. FileInv' /\ dir'.summary = dir.summary
  BY Stopped DEF Abort
<1>2. MeasuredTogether'
  BY <1>1, SummaryFrame DEF IInv
<1> QED BY <1>1, <1>2 DEF Abort, IInv, OracleClaims

\* Nothing that the invariant is about changes.
LEMMA Unchanged ==
  ASSUME IInv, UNCHANGED <<manifest, dir, todo, locals, passed>>
  PROVE  IInv'
<1>1. FileInv' /\ dir'.summary = dir.summary
  BY FileFrame DEF IInv
<1>2. MeasuredTogether'
  BY <1>1, SummaryFrame DEF IInv
<1>3. OracleClaims'
  BY DEF IInv, OracleClaims, Text, Archive
<1>4. \A k : Chain(k) => Chain(k)'
  BY DEF Chain, Text, Archive, ImportedArchive, Compiled
<1>5. \A k : Checking(k) => Checking(k)'
  BY <1>4 DEF Checking, CheckAt
<1>6. \A c : Building(c) => Building(c)'
  BY DEF Building, SoundOracle, Canonical, Text, Archive
<1>7. Oracling => Oracling'
  BY <1>6 DEF Oracling
<1>8. \A c : Vouched(c) => Vouched(c)'
  BY DEF Vouched, Comparable, SoundOracle, Canonical, Text, Archive
<1>9. Benching => Benching'
  BY <1>6, <1>8 DEF Benching
<1> QED BY <1>1, <1>2, <1>3, <1>4, <1>5, <1>7, <1>9 DEF IInv

LEMMA ReviewStep == ASSUME IInv, Review PROVE IInv'
  BY Unchanged DEF Review

LEMMA RepinStep == ASSUME IInv, Repin PROVE IInv'
<1>1. /\ dir' = dir /\ todo = <<>> /\ todo' = <<>> /\ locals' = locals
      /\ passed' = "none" /\ manifest' \in Pinnable
  BY DEF Repin
<1>2. FileInv' /\ dir'.summary = dir.summary
  BY <1>1, FileFrame DEF IInv
<1>3. MeasuredTogether'
  BY <1>2, SummaryFrame DEF IInv
<1> QED BY <1>1, <1>2, <1>3 DEF IInv, OracleClaims

\* In every reachable state the invariant holds: what the running program has
\* found out of the files by the command it is at still holds of them.
THEOREM PipelineInvariant == Spec => []IInv
<1>1. Init => IInv
  BY Initial
<1>2. IInv /\ [Next]_vars => IInv'
  <2> SUFFICES ASSUME IInv, [Next]_vars PROVE IInv'
    OBVIOUS
  <2>1. CASE Command
    BY <2>1, CommandStep
  <2>2. CASE Abort
    BY <2>2, AbortStep
  <2>3. CASE StartCheck
    BY <2>3, StartsCheck
  <2>4. CASE StartOracles
    BY <2>4, StartsOracles
  <2>5. CASE StartBench
    BY <2>5, StartsBench
  <2>6. CASE Review
    BY <2>6, ReviewStep
  <2>7. CASE Repin
    BY <2>7, RepinStep
  <2>8. CASE UNCHANGED vars
    BY <2>8, Unchanged DEF vars
  <2> QED BY <2>1, <2>2, <2>3, <2>4, <2>5, <2>6, <2>7, <2>8 DEF Next
<1> QED BY <1>1, <1>2, PTL DEF Spec

-----------------------------------------------------------------------------
\* What check-e5 has found out when it passes.
LEMMA PassedModel ==
  ASSUME IInv, passed = "check-e5"
  PROVE  /\ Chain(19) /\ IsModel(dir.source.model)
         /\ IsNamed(Adapted(dir.source.model))
         /\ dir.source = manifest.release
<1>1. Chain(19) /\ dir.source = manifest.release
  BY DEF IInv, Chain
<1>2. IsModel(dir.source.model)
  BY <1>1, PinsAssumption DEF IInv
<1> QED BY <1>1, <1>2, NamedModel

\* A module of a text that computes the function of a model is not miscompiled.
LEMMA RightModule ==
  ASSUME NEW name, NEW text, NEW model, Compiled(name, text),
         IsNamed(model), dir.modules[name].graph = model.graph
  PROVE  dir.modules[name] = Module(text) /\ text.graph = model.graph
  BY DEF Compiled, Module, IsNamed

\* The archive whose bytes are those of the initializers is the right one.
LEMMA RightArchive ==
  ASSUME NEW model, ImportedArchive(model), ParameterIdentity(model, Archive)
  PROVE  Archive = Irpa(model)
<1> DEFINE weights == Weights(model)
           other   == [k \in Keys(model) |-> "repacked"]
<1>1. CASE Archive = Repacked(Irpa(model))
  <2>1. Archive = [end |-> "whole", bytes |-> other]
    BY <1>1 DEF Repacked, Irpa, Weights
  <2>2. \A k \in Keys(model) : weights[k] = other[k]
    <3> TAKE k \in Keys(model)
    <3> DEFINE n == CHOOSE m \in DOMAIN model.inits : irpa_key(m) = k
    <3>1. n \in DOMAIN model.inits /\ irpa_key(n) = k
      BY DEF Keys
    <3>2. weights[k] = model.inits[n].bytes
      BY DEF Weights
    <3> HIDE DEF n, other
    <3>3. other[k] = model.inits[n].bytes
      BY <2>1, <3>1 DEF ParameterIdentity
    <3> HIDE DEF weights
    <3> QED BY <3>2, <3>3
  <2>3. weights = other
    <3>1. weights = [k \in Keys(model) |-> weights[k]]
      BY DEF Weights
    <3> HIDE DEF weights
    <3> QED BY <2>2, <3>1
  <2> HIDE DEF other, weights
  <2> QED BY <2>1, <2>3 DEF Irpa, weights
<1> QED BY <1>1 DEF ImportedArchive

LEMMA ChainHolds == IInv => PassedChain
<1> SUFFICES ASSUME IInv, passed = "check-e5" PROVE PassedChain
  BY DEF PassedChain
<1> DEFINE model == Adapted(dir.source.model)
           core  == Text("core", Dynamic)
           multi == Text("multiversioned", Dynamic)
           FromModel(t) == /\ Whole(t) /\ t.graph = model.graph
                           /\ EachOnce(t.refs, Keys(model))
<1>1. IsNamed(model) /\ dir.source = manifest.release
  BY PassedModel
<1>2. /\ dir.onnx[Dynamic] = [end |-> "whole", model |-> model]
      /\ ImportedArchive(model) /\ ParameterIdentity(model, Archive)
      /\ IsTextOf(core, Dynamic) /\ Compiled("dynamic", core)
      /\ CoreStructure(model, core, {})
      /\ dir.modules["dynamic"].graph = model.graph
      /\ IsText(multi) /\ CoreStructure(model, multi, ExactLengths)
      /\ Compiled("multiversioned", multi)
      /\ dir.modules["multiversioned"].graph = model.graph
  BY PassedModel DEF Chain
<1> HIDE DEF core, multi, model
<1>3. /\ dir.modules["dynamic"] = Module(core) /\ core.graph = model.graph
      /\ dir.modules["multiversioned"] = Module(multi) /\ multi.graph = model.graph
  BY <1>1, <1>2, RightModule
<1>4. FromModel(core) /\ core.payload = "none"
  BY <1>2, <1>3 DEF IsTextOf, IsText, CoreStructure, check_no_dense_payloads, Whole
<1>5. /\ FromModel(multi) /\ multi.payload = "none"
      /\ \A width \in ExactLengths : ~ multi.bodies[width].dynamic
      /\ DOMAIN multi.bodies = {Dynamic} \cup ExactLengths
  <2>1. check_static_clones(multi, ExactLengths, Cardinality(Keys(model)))
    BY <1>2, LengthsAssumption DEF CoreStructure
  <2> QED BY <1>2, <1>3, <2>1
          DEF IsText, CoreStructure, check_no_dense_payloads, check_static_clones, Whole
<1>6. \A name \in DOMAIN dir.modules : FromModel(dir.modules[name])
  <2>1. DOMAIN dir.modules = {"dynamic", "multiversioned"}
    BY DEF IInv, FileInv
  <2>2. FromModel(Module(core)) /\ FromModel(Module(multi))
    BY <1>4, <1>5 DEF Module, Whole
  <2> QED BY <1>3, <2>1, <2>2
<1>7. Whole(Archive) /\ Archive.bytes = Weights(model)
  BY <1>2, RightArchive DEF Irpa, Whole
<1>8. dir.modules["multiversioned"].widths = {Dynamic} \cup ExactLengths
  BY <1>3, <1>5 DEF Module
<1>9. model = Adapted(manifest.release.model)
  BY <1>1 DEF model
<1> HIDE DEF FromModel
<1>10. \A stage \in {"core", "multiversioned"} :
         FromModel(Text(stage, Dynamic)) /\ Text(stage, Dynamic).payload = "none"
  BY <1>4, <1>5 DEF core, multi
<1>11. \A width \in ExactLengths : ~ Text("multiversioned", Dynamic).bodies[width].dynamic
  BY <1>5 DEF multi
<1> USE DEF FromModel
<1> QED BY <1>2, <1>6, <1>7, <1>8, <1>9, <1>10, <1>11 DEF PassedChain

\* After check-e5 all it hands on comes from the model that is pinned, whatever
\* has failed, was killed or was pinned before.
THEOREM EverythingFromThePin == Spec => []PassedChain
  BY PipelineInvariant, ChainHolds, PTL

\* The one symbol of the sequence dimensions.
LEMMA OneSymbol ==
  ASSUME NEW model, validate_dynamic_contract(model)
  PROVE  \E s : /\ IsParam(s)
                /\ {d \in {model.inputs[name].shape[2] : name \in INPUTS} : IsParam(d)} = {s}
                /\ {d \in AllDims(model) : ~ IsValue(d)} = {s}
<1> DEFINE dims    == {model.inputs[name].shape[2] : name \in INPUTS}
           symbols == {d \in dims : IsParam(d)}
<1>1. Cardinality(symbols) = 1 /\ {d \in AllDims(model) : ~ IsValue(d)} = symbols
  BY DEF validate_dynamic_contract
<1>2. IsFiniteSet(symbols)
  <2> DEFINE f == [name \in INPUTS |-> model.inputs[name].shape[2]]
  <2>1. f \in Surjection(INPUTS, dims)
    BY DEF Surjection
  <2>2. IsFiniteSet(INPUTS)
    <3>1. IsFiniteSet({"input_ids"})
      BY FS_Singleton
    <3>2. IsFiniteSet({"input_ids"} \cup {"attention_mask"})
      BY <3>1, FS_AddElement
    <3>3. IsFiniteSet(({"input_ids"} \cup {"attention_mask"}) \cup {"token_type_ids"})
      BY <3>2, FS_AddElement
    <3>4. INPUTS = ({"input_ids"} \cup {"attention_mask"}) \cup {"token_type_ids"}
      BY DEF INPUTS
    <3> QED BY <3>3, <3>4
  <2> HIDE DEF f, dims
  <2>3. IsFiniteSet(dims)
    BY <2>1, <2>2, FS_Surjection
  <2> QED BY <2>3, FS_Subset
<1>3. PICK s : symbols = {s}
  <2> HIDE DEF symbols
  <2> QED BY <1>1, <1>2, FS_Singleton
<1>4. IsParam(s)
  BY <1>3
<1> QED BY <1>1, <1>3, <1>4

LEMMA ContractHolds == IInv => PassedContract
<1> SUFFICES ASSUME IInv, passed = "check-e5" PROVE PassedContract
  BY DEF PassedContract
<1> DEFINE source == dir.source.model
           model  == Adapted(source)
           inputs  == [name \in INPUTS |-> [source.inputs[name] EXCEPT !.shape[1] = 1]]
           outputs == [name \in {OUTPUT} |-> <<1, 384>>]
<1>1. Chain(19) /\ IsModel(source)
  BY PassedModel
<1>2. /\ dir.onnx[Dynamic] = [end |-> "whole", model |-> model]
      /\ ValidMetadata(source, dir.source.config) /\ validate_dynamic_contract(model)
      /\ ParameterIdentity(model, Archive)
  BY <1>1 DEF Chain
<1>3. model.inputs = inputs /\ model.outputs = outputs /\ model.inits = source.inits
      /\ model.inner = source.inner
  <2>1. model = [source EXCEPT !.inputs = inputs, !.outputs = outputs]
    BY DEF Adapted
  <2> HIDE DEF inputs, outputs, model, source
  <2> QED BY <1>1, <2>1 DEF IsModel
<1>4. PICK s : /\ IsParam(s)
               /\ {d \in {model.inputs[name].shape[2] : name \in INPUTS} : IsParam(d)} = {s}
               /\ {d \in AllDims(model) : ~ IsValue(d)} = {s}
  BY <1>2, OneSymbol
<1>5. \A name \in INPUTS : model.inputs[name] = [elem |-> "i64", shape |-> <<1, s>>]
  <2> TAKE name \in INPUTS
  <2> DEFINE x == source.inputs[name]
  <2>1. /\ x \in [elem : STRING, shape : Seq(Nat)] /\ x.elem = "i64" /\ Len(x.shape) = 2
        /\ model.inputs[name] = [x EXCEPT !.shape[1] = 1]
    <3>1. name \in DOMAIN source.inputs /\ x.elem = "i64" /\ Len(x.shape) = 2
      BY <1>2 DEF ValidMetadata, TwoDynamicDims
    <3>2. model.inputs[name] = [x EXCEPT !.shape[1] = 1]
      <4> HIDE DEF source, model
      <4> QED BY <1>3
    <3> HIDE DEF source, model
    <3>3. x \in [elem : STRING, shape : Seq(Nat)]
      BY <1>1, <3>1 DEF IsModel
    <3> QED BY <3>1, <3>2, <3>3
  <2> DEFINE shape == model.inputs[name].shape
  <2>2. model.inputs[name] = [elem |-> "i64", shape |-> shape] /\ shape = [x.shape EXCEPT ![1] = 1]
    <3> HIDE DEF x, model
    <3> QED BY <2>1
  <2>3. IsSeq(x.shape) /\ Len(x.shape) = 2
    <3> HIDE DEF x
    <3> QED BY <2>1, SeqIsSeq
  <2>4. shape = <<1, shape[2]>> /\ DOMAIN shape = 1..2
    <3> DEFINE y == x.shape
    <3>0. y = [i \in 1..2 |-> y[i]] /\ shape = [y EXCEPT ![1] = 1]
      BY <2>2, <2>3 DEF IsSeq
    <3> HIDE DEF y, shape
    <3>1. shape = [i \in 1..2 |-> IF i = 1 THEN 1 ELSE shape[2]]
      <4>1. shape = [i \in 1..2 |-> shape[i]]
        BY <3>0
      <4>2. \A i \in 1..2 : shape[i] = IF i = 1 THEN 1 ELSE shape[2]
        BY <3>0
      <4> QED BY <4>1, <4>2
    <3>2. <<1, shape[2]>> = [i \in 1..2 |-> IF i = 1 THEN 1 ELSE shape[2]]
      OBVIOUS
    <3> QED BY <3>1, <3>2
  <2>5. ~ IsValue(shape[2])
    BY <1>2 DEF validate_dynamic_contract
  <2>6. shape[2] \in AllDims(model)
    <3> HIDE DEF model
    <3>1. shape[2] \in DimsOf(shape)
      BY <2>4 DEF DimsOf
    <3>2. name \in DOMAIN model.inputs
      BY <1>3
    <3> QED BY <3>1, <3>2 DEF AllDims
  <2>7. shape[2] = s
    <3> DEFINE d == shape[2]
    <3>1. d \in {e \in AllDims(model) : ~ IsValue(e)}
      BY <2>5, <2>6, Zenon
    <3>2. {e \in AllDims(model) : ~ IsValue(e)} = {s}
      BY <1>4
    <3> HIDE DEF d
    <3>3. d = s
      BY <3>1, <3>2, Zenon
    <3> QED BY <3>3 DEF d
  <2> QED BY <2>2, <2>4, <2>7
<1>6. model.inputs = [n \in INPUTS |-> [elem |-> "i64", shape |-> <<1, s>>]]
  <2>1. DOMAIN model.inputs = INPUTS /\ model.inputs = [n \in INPUTS |-> model.inputs[n]]
    BY <1>3
  <2> HIDE DEF model
  <2> QED BY <1>5, <2>1
<1>7. s \in AllDims(model) /\ \A d \in AllDims(model) : IsValue(d) \/ d = s
  <2>1. {e \in AllDims(model) : ~ IsValue(e)} = {s}
    BY <1>4
  <2> HIDE DEF model
  <2> QED BY <2>1, Zenon
<1>8. NonF32(model) = {PositionIds}
  <2> HIDE DEF source, model
  <2>1. NonF32(source) = {PositionIds}
    BY <1>2 DEF ValidMetadata
  <2> QED BY <1>3, <2>1 DEF NonF32
<1>9. \A n \in DOMAIN model.inits : Archive.bytes[irpa_key(n)] = model.inits[n].bytes
  BY <1>2 DEF ParameterIdentity
<1>10. dir.onnx[Dynamic].model = model
  BY <1>2
<1>11. model.outputs = [name \in {OUTPUT} |-> <<1, 384>>]
  BY <1>3
<1> HIDE DEF model
<1> QED BY <1>4, <1>6, <1>7, <1>8, <1>9, <1>10, <1>11 DEF PassedContract

\* What check-e5 accepts has the contract of the documentation.
THEOREM AcceptedIsE5 == Spec => []PassedContract
  BY PipelineInvariant, ContractHolds, PTL

\* The oracles that a build has recorded are static, and the archive they name
\* is the one that is there.
THEOREM OraclesShareTheArchive == Spec => []OracleClaims
<1>1. IInv => OracleClaims
  BY DEF IInv
<1> QED BY <1>1, PipelineInvariant, PTL

\* What one summary compares computes one function of the same parameters.
THEOREM ComparedLikeWithLike == Spec => []MeasuredTogether
<1>1. IInv => MeasuredTogether
  BY DEF IInv
<1> QED BY <1>1, PipelineInvariant, PTL

-----------------------------------------------------------------------------
(***************************************************************************)
(* The script that check-e5 begins with, step by step: for every number of *)
(* files and of kills, a single user of it is never told that a file is    *)
(* verified that is not, and never loses one that is.  Two users at once   *)
(* are told so: the run FetchTogether shows it, and the theorems assume    *)
(* one process.                                                            *)
(***************************************************************************)
Entries == {NoInode} \cup Inodes

Labels == {"idle", "check", "exists", "unlink", "request", "open", "write", "hash", "mismatch",
           "replace", "done", "failed"}

TypeInv ==
  /\ output \in [Files -> Entries]
  /\ partial \in [Files -> Entries]
  /\ blocks = [i \in Inodes |-> blocks[i]]
  /\ pc \in [Fetchers -> Labels]
  /\ file \in [Fetchers -> Files]
  /\ stream \in [Fetchers -> Entries]
  /\ response = [p \in Fetchers |-> response[p]]
  /\ offset = [p \in Fetchers |-> offset[p]]

\* No inode has two names.
NoSharing ==
  /\ \A f, g \in Files : output[f] = output[g] /\ output[f] # NoInode => f = g
  /\ \A f, g \in Files : partial[f] = partial[g] /\ partial[f] # NoInode => f = g
  /\ \A f, g \in Files : output[f] # NoInode => output[f] # partial[g]

\* An open stream is the .part of the current file, and it is closed before
\* the hash is taken that the move over the output relies on.
Streams ==
  \A p \in Fetchers :
    /\ stream[p] # NoInode => pc[p] = "write"
    /\ pc[p] = "write" => stream[p] # NoInode /\ stream[p] = Part(p)
    /\ pc[p] = "replace" => Hashes(Part(p))

FetchInv == TypeInv /\ NoSharing /\ Streams /\ VerifiedIsExpected

\* What OutputsOnlyImprove says of one step.
Improves ==
  \A f \in Files : /\ Hashes(output[f]) => Hashes(output[f])'
                   /\ output'[f] # output[f] => Hashes(output[f])'

-----------------------------------------------------------------------------
LEMMA Numbers ==
  /\ NumFiles \in Nat \ {0} /\ Files \subseteq Nat /\ 1 \in Files /\ NumFiles \in Files
  /\ NoInode \notin Inodes /\ NoInode \in Entries /\ Inodes \subseteq Entries
  BY NumFilesAssumption DEF Files, NoInode, Inodes, Entries

\* A set of the values of a function on the files is no larger than they are.
LEMMA ValuesOf ==
  ASSUME NEW m
  PROVE  /\ IsFiniteSet({m[f] : f \in Files})
         /\ Cardinality({m[f] : f \in Files}) \in 0..NumFiles
<1> DEFINE T == {m[f] : f \in Files}
           s == [f \in Files |-> m[f]]
<1>1. IsFiniteSet(Files) /\ Cardinality(Files) = NumFiles
  BY NumFilesAssumption, FS_Interval DEF Files
<1>2. s \in Surjection(Files, T)
  BY DEF Surjection
<1> HIDE DEF T, s
<1>3. IsFiniteSet(T) /\ Cardinality(T) <= Cardinality(Files)
  BY <1>1, <1>2, FS_Surjection
<1>4. Cardinality(T) \in Nat
  BY <1>3, FS_CardinalityType
<1> QED BY <1>1, <1>3, <1>4, NumFilesAssumption DEF T

\* There is an inode left for the .part that is opened.
LEMMA FreeInode ==
  ASSUME NEW p, Fetchers = {p}, TypeInv, stream[p] = NoInode
  PROVE  \E i \in Inodes : i \notin InUse
<1> DEFINE A == {output[f] : f \in Files}
           B == {partial[f] : f \in Files}
           U == A \cup B
<1>1. /\ IsFiniteSet(A) /\ Cardinality(A) \in 0..NumFiles
      /\ IsFiniteSet(B) /\ Cardinality(B) \in 0..NumFiles
  BY ValuesOf
<1> HIDE DEF A, B
<1>2. /\ IsFiniteSet(U)
      /\ Cardinality(U) = Cardinality(A) + Cardinality(B) - Cardinality(A \cap B)
  BY <1>1, FS_Union
<1>3. IsFiniteSet(A \cap B)
  BY <1>1, FS_Subset
<1>4. Cardinality(A \cap B) \in Nat /\ Cardinality(U) \in Nat
  BY <1>2, <1>3, FS_CardinalityType
<1>5. Cardinality(U) <= 2 * NumFiles
  BY <1>1, <1>2, <1>4, NumFilesAssumption
<1>6. Inodes = 1..2 * NumFiles + 1
  <2>1. Cardinality(Fetchers) = 1
    BY FS_Singleton
  <2> QED BY <2>1 DEF Inodes
<1>7. IsFiniteSet(Inodes) /\ Cardinality(Inodes) = 2 * NumFiles + 1
  BY <1>6, NumFilesAssumption, FS_Interval
<1> HIDE DEF U
<1>8. ~ (Inodes \subseteq U)
  <2> SUFFICES ASSUME Inodes \subseteq U PROVE FALSE
    OBVIOUS
  <2>1. Cardinality(Inodes) <= Cardinality(U)
    BY <1>2, FS_Subset
  <2> QED BY <2>1, <1>4, <1>5, <1>7, NumFilesAssumption
<1>9. PICK i \in Inodes : i \notin U
  BY <1>8
<1>10. i # NoInode
  BY <1>9, Numbers
<1>11. InUse = U \cup {NoInode}
  BY DEF InUse, U, A, B
<1> QED BY <1>9, <1>10, <1>11

-----------------------------------------------------------------------------
\* A step that leaves the disk alone shares nothing new and loses no output.
LEMMA DiskKept ==
  ASSUME UNCHANGED disk
  PROVE  /\ UNCHANGED <<output, partial, blocks>>
         /\ NoSharing' <=> NoSharing
         /\ \A i : Hashes(i)' <=> Hashes(i)
         /\ Improves
  BY DEF disk, NoSharing, Hashes, Improves

LEMMA InitInvariant == ASSUME NEW p, Fetchers = {p}, FetchInit PROVE FetchInv
<1>1. Inodes = 1..2 * NumFiles + 1
  <2>1. Cardinality(Fetchers) = 1
    BY FS_Singleton
  <2> QED BY <2>1 DEF Inodes
<1>2. PICK outs, parts \in SUBSET Files :
        /\ output = [f \in Files |-> IF f \in outs THEN f ELSE NoInode]
        /\ partial = [f \in Files |-> IF f \in parts THEN NumFiles + f ELSE NoInode]
  BY DEF FetchInit
<1>3. \A f \in Files : f \in Inodes /\ NumFiles + f \in Inodes /\ f # NoInode /\ NumFiles + f # NoInode
  BY <1>1, NumFilesAssumption DEF Files, NoInode
<1>4. TypeInv
  <2>1. output \in [Files -> Entries] /\ partial \in [Files -> Entries]
    BY <1>2, <1>3 DEF Entries
  <2>2. blocks = [i \in Inodes |-> blocks[i]]
    BY DEF FetchInit
  <2>3. /\ pc \in [Fetchers -> Labels] /\ file \in [Fetchers -> Files] /\ stream \in [Fetchers -> Entries]
        /\ response = [q \in Fetchers |-> response[q]] /\ offset = [q \in Fetchers |-> offset[q]]
    BY Numbers DEF FetchInit, Labels, Entries
  <2> QED BY <2>1, <2>2, <2>3 DEF TypeInv
<1>5. NoSharing
  <2>1. \A f \in Files : f \in Nat /\ f <= NumFiles /\ NumFiles \in Nat /\ f > 0
    BY NumFilesAssumption DEF Files
  <2>2. \A f \in Files : (output[f] = f \/ output[f] = 0) /\ (partial[f] = NumFiles + f \/ partial[f] = 0)
    BY <1>2 DEF NoInode
  <2>3. \A f, g \in Files : output[f] = output[g] /\ output[f] # NoInode => f = g
    BY <2>1, <2>2 DEF NoInode
  <2>4. \A f, g \in Files : partial[f] = partial[g] /\ partial[f] # NoInode => f = g
    BY <2>1, <2>2 DEF NoInode
  <2>5. \A f, g \in Files : output[f] # NoInode => output[f] # partial[g]
    <3> SUFFICES ASSUME NEW f \in Files, NEW g \in Files, output[f] # NoInode
                 PROVE  output[f] # partial[g]
      OBVIOUS
    <3>1. output[f] = f
      BY <2>2 DEF NoInode
    <3>2. partial[g] = NumFiles + g \/ partial[g] = 0
      BY <2>2
    <3> QED BY <2>1, <3>1, <3>2
  <2> QED BY <2>3, <2>4, <2>5 DEF NoSharing
<1>6. Streams /\ VerifiedIsExpected
  BY DEF FetchInit, Streams, VerifiedIsExpected, Passed
<1> QED BY <1>4, <1>5, <1>6 DEF FetchInv

LEMMA Here ==
  ASSUME NEW p, Fetchers = {p}, TypeInv
  PROVE  /\ file[p] \in Files /\ output[file[p]] \in Entries /\ Part(p) \in Entries
         /\ pc[p] \in Labels /\ stream[p] \in Entries
  BY DEF TypeInv, Part

LEMMA GotoLabel ==
  ASSUME NEW p, Fetchers = {p}, TypeInv, NEW l \in Labels, Goto(p, l)
  PROVE  pc' \in [Fetchers -> Labels] /\ pc'[p] = l
  BY DEF Goto, TypeInv

\* Going to the next file counts the one before it among those verified.
LEMMA NextFileStep ==
  ASSUME NEW p, Fetchers = {p}, TypeInv, NextFile(p)
  PROVE  /\ pc' \in [Fetchers -> Labels] /\ file' \in [Fetchers -> Files]
         /\ pc'[p] \in {"check", "done"}
         /\ Passed(p)' = 1..file[p]
<1>1. file[p] \in 1..NumFiles /\ NumFiles \in Nat
  BY Here, NumFilesAssumption DEF Files
<1>2. CASE file[p] < NumFiles
  <2>1. /\ Goto(p, "check") /\ file' = [file EXCEPT ![p] = @ + 1]
    BY <1>2 DEF NextFile
  <2>2. pc' \in [Fetchers -> Labels] /\ pc'[p] = "check"
    BY <2>1, GotoLabel DEF Labels
  <2>3. file' \in [Fetchers -> Files] /\ file'[p] = file[p] + 1
    BY <1>1, <1>2, <2>1 DEF TypeInv, Files
  <2>4. Passed(p)' = 1..file[p]
    BY <1>1, <2>2, <2>3 DEF Passed
  <2> QED BY <2>2, <2>3, <2>4
<1>3. CASE ~ (file[p] < NumFiles)
  <2>1. Goto(p, "done") /\ UNCHANGED file
    BY <1>3 DEF NextFile
  <2>2. pc' \in [Fetchers -> Labels] /\ pc'[p] = "done"
    BY <2>1, GotoLabel DEF Labels
  <2>3. Passed(p)' = 1..file[p]
    BY <1>1, <1>3, <2>2 DEF Passed, Files
  <2> QED BY <2>1, <2>2, <2>3 DEF TypeInv
<1> QED BY <1>2, <1>3

\* The files passed before the current one stay verified in a step that loses
\* no output.
LEMMA StillVerified ==
  ASSUME NEW p, Fetchers = {p}, TypeInv, VerifiedIsExpected, Improves,
         NEW k, k = file[p],
         Passed(p)' \subseteq Passed(p) \cup {k},
         k \in Passed(p)' => Hashes(output[k])'
  PROVE  VerifiedIsExpected'
<1>1. Passed(p) \subseteq Files /\ file[p] \in Files
  BY Here, NumFilesAssumption DEF Passed, Files
<1>2. \A f \in Passed(p) : Hashes(output[f])'
  BY <1>1 DEF VerifiedIsExpected, Improves
<1>3. \A f \in Passed(p)' : Hashes(output[f])'
  BY <1>2
<1>4. Fetchers' = Fetchers
  OBVIOUS
<1> QED BY <1>3, <1>4 DEF VerifiedIsExpected

\* A step from one label to another that touches neither the disk nor a
\* stream, and does not pass a file.
LEMMA QuietStep ==
  ASSUME NEW p, Fetchers = {p}, FetchInv, UNCHANGED disk,
         pc[p] # "write", pc[p] # "done", NEW l \in Labels, Goto(p, l), UNCHANGED <<file, stream, offset>>,
         response' = [q \in Fetchers |-> response'[q]],
         l # "write", l # "done", l = "replace" => Hashes(Part(p)), pc[p] \in {"idle", "failed"} => l = "failed"
  PROVE  FetchInv' /\ Improves
<1>1. pc' \in [Fetchers -> Labels] /\ pc'[p] = l
  BY GotoLabel DEF FetchInv
<1>2. /\ UNCHANGED <<output, partial, blocks>> /\ (NoSharing' <=> NoSharing)
      /\ (\A i : Hashes(i)' <=> Hashes(i)) /\ Improves
  BY DiskKept
<1>3. TypeInv'
  BY <1>1, <1>2 DEF FetchInv, TypeInv
<1>4. Part(p)' = Part(p)
  BY <1>2 DEF Part
<1>5. Streams'
  BY <1>1, <1>2, <1>4 DEF FetchInv, Streams, Hashes
<1>6. VerifiedIsExpected'
  <2>1. Passed(p)' \subseteq Passed(p)
    BY <1>1 DEF Passed
  <2>2. \A f \in Passed(p)' : Hashes(output[f])'
    BY <2>1, <1>2 DEF FetchInv, VerifiedIsExpected, Hashes
  <2> QED BY <2>2 DEF VerifiedIsExpected
<1> QED BY <1>2, <1>3, <1>5, <1>6 DEF FetchInv

LEMMA StartInvariant == ASSUME NEW p, Fetchers = {p}, FetchInv, StartRun(p) PROVE FetchInv' /\ Improves
<1>1. /\ UNCHANGED disk /\ UNCHANGED <<response, stream, offset>> /\ pc[p] \in {"idle", "failed"}
      /\ Goto(p, "check") /\ file' = [file EXCEPT ![p] = 1]
  BY DEF StartRun
<1>2. pc' \in [Fetchers -> Labels] /\ pc'[p] = "check"
  BY <1>1, GotoLabel DEF FetchInv, Labels
<1>3. file' \in [Fetchers -> Files] /\ file'[p] = 1
  BY <1>1, Numbers DEF FetchInv, TypeInv
<1>4. UNCHANGED <<output, partial, blocks>> /\ (NoSharing' <=> NoSharing) /\ Improves
  BY <1>1, DiskKept
<1>5. TypeInv'
  BY <1>1, <1>2, <1>3, <1>4 DEF FetchInv, TypeInv
<1>6. Streams'
  BY <1>1, <1>2 DEF FetchInv, Streams
<1>7. VerifiedIsExpected'
  BY <1>2, <1>3 DEF VerifiedIsExpected, Passed
<1> QED BY <1>4, <1>5, <1>6, <1>7 DEF FetchInv

LEMMA CheckOutputInvariant ==
  ASSUME NEW p, Fetchers = {p}, FetchInv, CheckOutput(p) PROVE FetchInv' /\ Improves
<1>1. UNCHANGED disk /\ UNCHANGED <<response, stream, offset>> /\ pc[p] = "check"
  BY DEF CheckOutput
<1>2. CASE ~ Hashes(output[file[p]])
  <2>1. Goto(p, "exists") /\ UNCHANGED file
    BY <1>2 DEF CheckOutput
  <2>2. response' = [q \in Fetchers |-> response'[q]]
    BY <1>1 DEF FetchInv, TypeInv
  <2> QED BY <1>1, <2>1, <2>2, QuietStep DEF Labels
<1>3. CASE Hashes(output[file[p]])
  <2>1. NextFile(p)
    BY <1>3 DEF CheckOutput
  <2>2. /\ pc' \in [Fetchers -> Labels] /\ file' \in [Fetchers -> Files]
        /\ pc'[p] \in {"check", "done"}
        /\ Passed(p)' = 1..file[p]
    BY <2>1, NextFileStep DEF FetchInv
  <2>3. /\ UNCHANGED <<output, partial, blocks>> /\ (NoSharing' <=> NoSharing) /\ Improves
    BY <1>1, DiskKept
  <2>4. TypeInv'
    BY <1>1, <2>2, <2>3 DEF FetchInv, TypeInv
  <2>5. Streams'
    BY <1>1, <2>2 DEF FetchInv, Streams
  <2>6. VerifiedIsExpected'
    <3>1. file[p] \in 1..NumFiles
      BY Here DEF FetchInv, Files
    <3>2. Passed(p) = 1..file[p] - 1
      BY <1>1 DEF Passed
    <3> PICK k : k = file[p]
      OBVIOUS
    <3>3. Passed(p)' \subseteq Passed(p) \cup {k}
      BY <2>2, <3>1, <3>2, NumFilesAssumption
    <3>4. Hashes(output[k])'
      BY <1>3, <2>3, <3>1 DEF Improves, Files
    <3> QED BY <2>3, <3>3, <3>4, StillVerified DEF FetchInv
  <2> QED BY <2>3, <2>4, <2>5, <2>6 DEF FetchInv
<1> QED BY <1>2, <1>3

LEMMA StaleInvariant ==
  ASSUME NEW p, Fetchers = {p}, FetchInv, StaleExists(p) PROVE FetchInv' /\ Improves
<1>1. UNCHANGED disk /\ UNCHANGED <<file, response, stream, offset>> /\ pc[p] = "exists"
  BY DEF StaleExists
<1>2. PICK l \in {"unlink", "request"} : Goto(p, l)
  BY DEF StaleExists
<1>3. response' = [q \in Fetchers |-> response'[q]]
  BY <1>1 DEF FetchInv, TypeInv
<1> QED BY <1>1, <1>2, <1>3, QuietStep DEF Labels

LEMMA RequestInvariant ==
  ASSUME NEW p, Fetchers = {p}, FetchInv, NEW answer, Request(p, answer) PROVE FetchInv' /\ Improves
<1>1. /\ UNCHANGED disk /\ UNCHANGED <<file, stream, offset>> /\ pc[p] = "request" /\ Goto(p, "open")
      /\ response' = [response EXCEPT ![p] = answer]
  BY DEF Request
<1>2. response' = [q \in Fetchers |-> response'[q]]
  BY <1>1 DEF FetchInv, TypeInv
<1> QED BY <1>1, <1>2, QuietStep DEF Labels

LEMMA UnreachableInvariant ==
  ASSUME NEW p, Fetchers = {p}, FetchInv, Unreachable(p) PROVE FetchInv' /\ Improves
<1>1. UNCHANGED disk /\ UNCHANGED <<file, response, stream, offset>> /\ pc[p] = "request" /\ Goto(p, "failed")
  BY DEF Unreachable
<1>2. response' = [q \in Fetchers |-> response'[q]]
  BY <1>1 DEF FetchInv, TypeInv
<1> QED BY <1>1, <1>2, QuietStep DEF Labels

\* The hash is what the move over the output relies on.
LEMMA HashInvariant ==
  ASSUME NEW p, Fetchers = {p}, FetchInv, HashPartial(p) PROVE FetchInv' /\ Improves
<1>1. UNCHANGED disk /\ UNCHANGED <<file, response, stream, offset>> /\ pc[p] = "hash"
  BY DEF HashPartial
<1>2. PICK l \in {"failed", "replace", "mismatch"} : Goto(p, l) /\ (l = "replace" => Hashes(Part(p)))
  <2>1. CASE Part(p) = NoInode
    BY <2>1 DEF HashPartial
  <2>2. CASE Part(p) # NoInode /\ Hashes(Part(p))
    BY <2>2 DEF HashPartial
  <2>3. CASE Part(p) # NoInode /\ ~ Hashes(Part(p))
    BY <2>3 DEF HashPartial
  <2> QED BY <2>1, <2>2, <2>3
<1>3. response' = [q \in Fetchers |-> response'[q]]
  BY <1>1 DEF FetchInv, TypeInv
<1> QED BY <1>1, <1>2, <1>3, QuietStep DEF Labels

-----------------------------------------------------------------------------
\* Removing the .part.
LEMMA DropStep ==
  ASSUME NEW p, Fetchers = {p}, FetchInv, pc[p] \in {"unlink", "mismatch"},
         NEW l \in {"request", "failed"}, Goto(p, l),
         partial' = [partial EXCEPT ![file[p]] = NoInode],
         UNCHANGED <<output, blocks, file, response, stream, offset>>
  PROVE  FetchInv' /\ Improves
<1>1. pc' \in [Fetchers -> Labels] /\ pc'[p] = l
  BY GotoLabel DEF FetchInv, Labels
<1>2. /\ partial' \in [Files -> Entries]
      /\ \A f \in Files : partial'[f] = partial[f] \/ partial'[f] = NoInode
  BY Numbers, Here DEF FetchInv, TypeInv
<1>3. TypeInv'
  BY <1>1, <1>2 DEF FetchInv, TypeInv
<1>4. NoSharing'
  BY <1>2 DEF FetchInv, NoSharing
<1>5. Streams'
  BY <1>1 DEF FetchInv, Streams
<1>6. Improves
  BY DEF Improves, Hashes
<1>7. VerifiedIsExpected'
  <2>1. \A f \in Passed(p)' : f \in Passed(p)
    BY <1>1 DEF Passed
  <2>2. \A f \in Passed(p)' : Hashes(output[f])'
    BY <2>1 DEF FetchInv, VerifiedIsExpected, Hashes
  <2> QED BY <2>2 DEF VerifiedIsExpected
<1> QED BY <1>3, <1>4, <1>5, <1>6, <1>7 DEF FetchInv

LEMMA UnlinkInvariant ==
  ASSUME NEW p, Fetchers = {p}, FetchInv, UnlinkStale(p) PROVE FetchInv' /\ Improves
<1>1. PICK l \in {"request", "failed"} : Goto(p, l)
  BY DEF UnlinkStale
<1> QED BY <1>1, DropStep DEF UnlinkStale

LEMMA DropInvariant ==
  ASSUME NEW p, Fetchers = {p}, FetchInv, DropPartial(p) PROVE FetchInv' /\ Improves
  BY DropStep DEF DropPartial

\* Closing the stream, by the script or by the death of the process.
LEMMA CloseStep ==
  ASSUME NEW p, Fetchers = {p}, FetchInv, pc[p] \notin {"idle", "done", "failed"},
         NEW l \in {"hash", "idle", "failed"}, Goto(p, l), l = "hash" => pc[p] = "write",
         stream' = [stream EXCEPT ![p] = NoInode],
         UNCHANGED <<disk, file, response, offset>>
  PROVE  FetchInv' /\ Improves
<1>1. pc' \in [Fetchers -> Labels] /\ pc'[p] = l
  BY GotoLabel DEF FetchInv, Labels
<1>2. /\ UNCHANGED <<output, partial, blocks>> /\ (NoSharing' <=> NoSharing) /\ Improves
      /\ \A i : Hashes(i)' <=> Hashes(i)
  BY DiskKept
<1>3. stream' \in [Fetchers -> Entries] /\ stream'[p] = NoInode
  BY Numbers DEF FetchInv, TypeInv
<1>4. TypeInv'
  BY <1>1, <1>2, <1>3 DEF FetchInv, TypeInv
<1>5. Streams'
  BY <1>1, <1>3 DEF Streams
<1>6. VerifiedIsExpected'
  <2>1. \A f \in Passed(p)' : f \in Passed(p)
    BY <1>1 DEF Passed
  <2>2. \A f \in Passed(p)' : Hashes(output[f])'
    BY <2>1, <1>2 DEF FetchInv, VerifiedIsExpected, Hashes
  <2> QED BY <2>2 DEF VerifiedIsExpected
<1> QED BY <1>2, <1>4, <1>5, <1>6 DEF FetchInv

LEMMA CloseInvariant ==
  ASSUME NEW p, Fetchers = {p}, FetchInv, Close(p) PROVE FetchInv' /\ Improves
<1>1. pc[p] = "write" /\ Goto(p, "hash") /\ stream' = [stream EXCEPT ![p] = NoInode]
  BY DEF Close
<1>2. UNCHANGED <<disk, file, response, offset>>
  BY DEF Close
<1> QED BY <1>1, <1>2, CloseStep

LEMMA CrashInvariant ==
  ASSUME NEW p, Fetchers = {p}, FetchInv, Crash(p) PROVE FetchInv' /\ Improves
<1>1. pc[p] \notin {"idle", "done", "failed"} /\ Goto(p, "idle") /\ stream' = [stream EXCEPT ![p] = NoInode]
  BY DEF Crash
<1>2. UNCHANGED <<disk, file, response, offset>>
  BY DEF Crash
<1> QED BY <1>1, <1>2, CloseStep

-----------------------------------------------------------------------------
\* Writing to an inode that is no output loses no output.
LEMMA BlocksWritten ==
  ASSUME TypeInv, NEW i \in Inodes, NEW content, \A f \in Files : output[f] # i,
         blocks' = [blocks EXCEPT ![i] = content], UNCHANGED output
  PROVE  /\ Improves
         /\ blocks' = [j \in Inodes |-> blocks'[j]]
<1>1. \A j : j # i => blocks'[j] = blocks[j]
  BY DEF TypeInv
<1>2. blocks' = [j \in Inodes |-> blocks'[j]]
  BY DEF TypeInv
<1>3. Improves
  BY <1>1 DEF Improves, Hashes
<1> QED BY <1>2, <1>3

LEMMA OpenInvariant ==
  ASSUME NEW p, Fetchers = {p}, FetchInv, Open(p) PROVE FetchInv' /\ Improves
<1>1. /\ pc[p] = "open" /\ Goto(p, "write") /\ UNCHANGED <<output, file, response>>
      /\ offset' = [offset EXCEPT ![p] = 0]
  BY DEF Open
<1>2. stream[p] = NoInode /\ file[p] \in Files /\ Part(p) \in Entries
  BY <1>1, Here DEF FetchInv, Streams
<1> DEFINE free  == CHOOSE i \in Inodes \ InUse : TRUE
           inode == IF Part(p) # NoInode THEN Part(p) ELSE free
<1>3. free \in Inodes /\ free \notin InUse
  <2>1. \E i \in Inodes \ InUse : TRUE
    BY <1>2, FreeInode DEF FetchInv
  <2> QED BY <2>1
<1>4. /\ partial' = [partial EXCEPT ![file[p]] = inode]
      /\ blocks' = [blocks EXCEPT ![inode] = <<>>]
      /\ stream' = [stream EXCEPT ![p] = inode]
  BY DEF Open
<1> HIDE DEF free
<1>5. /\ inode \in Inodes
      /\ \A f \in Files : output[f] # inode
      /\ \A f \in Files : f # file[p] => partial[f] # inode
  <2>1. CASE Part(p) # NoInode
    BY <2>1, <1>2 DEF FetchInv, NoSharing, Part, Entries
  <2>2. CASE Part(p) = NoInode
    <3>1. \A f \in Files : output[f] \in InUse /\ partial[f] \in InUse
      BY DEF InUse
    <3> QED BY <2>2, <1>3, <3>1
  <2> QED BY <2>1, <2>2
<1>6. inode # NoInode /\ inode \in Entries
  BY <1>5, Numbers
<1> HIDE DEF inode
<1>7. Improves /\ blocks' = [j \in Inodes |-> blocks'[j]]
  BY <1>1, <1>4, <1>5, BlocksWritten DEF FetchInv
<1>8. pc' \in [Fetchers -> Labels] /\ pc'[p] = "write"
  BY <1>1, GotoLabel DEF FetchInv, Labels
<1>9. /\ partial' \in [Files -> Entries] /\ partial'[file[p]] = inode
      /\ \A f \in Files : f # file[p] => partial'[f] = partial[f]
      /\ stream' \in [Fetchers -> Entries] /\ stream'[p] = inode
  BY <1>2, <1>4, <1>6 DEF FetchInv, TypeInv
<1>10. TypeInv'
  BY <1>1, <1>7, <1>8, <1>9 DEF FetchInv, TypeInv
<1>11. NoSharing'
  BY <1>1, <1>2, <1>5, <1>6, <1>9 DEF FetchInv, NoSharing
<1>12. Streams'
  BY <1>1, <1>6, <1>8, <1>9 DEF Streams, Part
<1>13. VerifiedIsExpected'
  <2>1. Passed(p)' = Passed(p)
    BY <1>1, <1>8 DEF Passed
  <2>2. PICK k : k = file[p]
    OBVIOUS
  <2>3. Passed(p) = 1..k - 1 /\ k \in Nat
    BY <1>1, <1>2, <2>2, Numbers DEF Passed
  <2>4. k \notin Passed(p)'
    BY <2>1, <2>3
  <2> QED BY <1>7, <2>1, <2>2, <2>4, StillVerified DEF FetchInv
<1> QED BY <1>7, <1>10, <1>11, <1>12, <1>13 DEF FetchInv

LEMMA WriteInvariant ==
  ASSUME NEW p, Fetchers = {p}, FetchInv, Write(p) PROVE FetchInv' /\ Improves
<1>1. pc[p] = "write" /\ UNCHANGED <<output, partial, file>>
  BY DEF Write
<1>2. /\ stream[p] # NoInode /\ stream[p] = Part(p) /\ file[p] \in Files
      /\ stream[p] \in Inodes
  BY <1>1, Here DEF FetchInv, Streams, Entries
<1>3. CASE Head(response[p]) = "reset"
  <2>1. /\ Goto(p, "failed") /\ stream' = [stream EXCEPT ![p] = NoInode]
        /\ UNCHANGED <<blocks, response, offset>>
    BY <1>3 DEF Write
  <2>2. UNCHANGED <<disk, file, response, offset>>
    BY <1>1, <2>1 DEF disk
  <2> QED BY <1>1, <2>1, <2>2, CloseStep
<1>4. CASE Head(response[p]) # "reset"
  <2>1. /\ blocks' = [blocks EXCEPT ![stream[p]] = WriteAt(@, offset[p], Head(response[p]))]
        /\ offset' = [offset EXCEPT ![p] = @ + 1]
        /\ response' = [response EXCEPT ![p] = Tail(@)]
        /\ UNCHANGED <<pc, stream>>
    BY <1>4 DEF Write
  <2>2. \A f \in Files : output[f] # stream[p]
    BY <1>2 DEF FetchInv, NoSharing, Part
  <2> DEFINE content == WriteAt(blocks[stream[p]], offset[p], Head(response[p]))
  <2>3. blocks' = [blocks EXCEPT ![stream[p]] = content]
    BY <2>1
  <2> HIDE DEF content
  <2>4. Improves /\ blocks' = [j \in Inodes |-> blocks'[j]]
    BY <1>1, <1>2, <2>2, <2>3, BlocksWritten DEF FetchInv
  <2>5. TypeInv'
    BY <1>1, <2>1, <2>4 DEF FetchInv, TypeInv
  <2>6. NoSharing'
    BY <1>1 DEF FetchInv, NoSharing
  <2>7. Streams'
    BY <1>1, <2>1 DEF FetchInv, Streams, Part
  <2>8. VerifiedIsExpected'
    <3>1. Passed(p)' = Passed(p)
      BY <1>1, <2>1 DEF Passed
    <3>2. PICK k : k = file[p]
      OBVIOUS
    <3>3. Passed(p) = 1..k - 1 /\ k \in Nat
      BY <1>1, <1>2, <3>2, Numbers DEF Passed
    <3>4. k \notin Passed(p)'
      BY <3>1, <3>3
    <3> QED BY <2>4, <3>1, <3>2, <3>4, StillVerified DEF FetchInv
  <2> QED BY <2>4, <2>5, <2>6, <2>7, <2>8 DEF FetchInv
<1> QED BY <1>3, <1>4

\* The move puts the inode that was hashed in the output's place.
LEMMA ReplaceInvariant ==
  ASSUME NEW p, Fetchers = {p}, FetchInv, Replace(p) PROVE FetchInv' /\ Improves
<1>1. pc[p] = "replace" /\ UNCHANGED <<blocks, response, stream, offset>>
  BY DEF Replace
<1>2. Hashes(Part(p)) /\ stream[p] = NoInode /\ file[p] \in Files
  BY <1>1, Here DEF FetchInv, Streams
<1>3. Part(p) # NoInode /\ Part(p) \in Entries
  BY <1>2, Here DEF Hashes, FetchInv
<1>4. /\ output' = [output EXCEPT ![file[p]] = Part(p)]
      /\ partial' = [partial EXCEPT ![file[p]] = NoInode]
      /\ NextFile(p)
  BY <1>3 DEF Replace
<1>5. PICK k, i : k = file[p] /\ i = Part(p)
  OBVIOUS
<1>6. /\ output' \in [Files -> Entries] /\ output'[k] = i
      /\ \A f \in Files : f # k => output'[f] = output[f]
      /\ partial' \in [Files -> Entries] /\ partial'[k] = NoInode
      /\ \A f \in Files : f # k => partial'[f] = partial[f]
  BY <1>2, <1>3, <1>4, <1>5, Numbers DEF FetchInv, TypeInv
<1>7. /\ pc' \in [Fetchers -> Labels] /\ file' \in [Fetchers -> Files]
      /\ pc'[p] \in {"check", "done"}
      /\ Passed(p)' = 1..file[p]
  BY <1>4, NextFileStep DEF FetchInv
<1>8. TypeInv'
  BY <1>1, <1>6, <1>7 DEF FetchInv, TypeInv
<1>9. i = partial[k] /\ i # NoInode /\ k \in Files
  BY <1>2, <1>3, <1>5 DEF Part
<1>10. NoSharing'
  BY <1>6, <1>9 DEF FetchInv, NoSharing
<1>11. Streams'
  BY <1>1, <1>2, <1>7 DEF Streams
<1>12. Improves
  <2>1. \A j : Hashes(j)' <=> Hashes(j)
    BY <1>1 DEF Hashes
  <2>2. Hashes(i)
    BY <1>2, <1>5
  <2>3. ASSUME NEW f \in Files
        PROVE  (Hashes(output[f]) => Hashes(output[f])') /\ (output'[f] # output[f] => Hashes(output[f])')
    <3>1. CASE f = k
      BY <3>1, <1>1, <1>6, <2>2 DEF Hashes
    <3>2. CASE f # k
      BY <3>2, <1>1, <1>6 DEF Hashes
    <3> QED BY <3>1, <3>2
  <2> QED BY <2>3 DEF Improves
<1>13. VerifiedIsExpected'
  <2>1. Passed(p) = 1..k - 1 /\ k \in Nat
    BY <1>1, <1>2, <1>5, Numbers DEF Passed
  <2>2. Passed(p)' \subseteq Passed(p) \cup {k}
    BY <1>5, <1>7, <2>1
  <2>3. Hashes(output[k])'
    BY <1>1, <1>2, <1>5, <1>6 DEF Hashes
  <2> QED BY <1>5, <1>12, <2>2, <2>3, StillVerified DEF FetchInv
<1> QED BY <1>8, <1>10, <1>11, <1>12, <1>13 DEF FetchInv

-----------------------------------------------------------------------------
LEMMA NextInvariant ==
  ASSUME NEW p, Fetchers = {p}, FetchInv, [FetchNext]_fetchVars PROVE FetchInv' /\ (FetchNext => Improves)
<1>1. CASE FetchNext
  <2>1. Step(p) \/ Crash(p)
    BY <1>1 DEF FetchNext
  <2> QED BY <2>1, StartInvariant, CheckOutputInvariant, StaleInvariant, UnlinkInvariant,
             RequestInvariant, UnreachableInvariant, OpenInvariant, WriteInvariant, CloseInvariant,
             HashInvariant, DropInvariant, ReplaceInvariant, CrashInvariant DEF Step
<1>2. CASE UNCHANGED fetchVars /\ ~ FetchNext
  <2>1. UNCHANGED <<output, partial, blocks, pc, file, response, stream, offset>>
    BY <1>2 DEF fetchVars
  <2>2. TypeInv' /\ NoSharing'
    BY <2>1 DEF FetchInv, TypeInv, NoSharing
  <2>3. Streams'
    BY <2>1 DEF FetchInv, Streams, Part, Hashes
  <2>4. VerifiedIsExpected'
    BY <2>1 DEF FetchInv, VerifiedIsExpected, Passed, Hashes
  <2> QED BY <1>2, <2>2, <2>3, <2>4 DEF FetchInv
<1> QED BY <1>1, <1>2

\* The files of one user of the script, who starts it again as often as he
\* likes, whatever the server answers and wherever the process is killed.
THEOREM FetchInvariant == ASSUME NEW p, Fetchers = {p} PROVE FetchSpec => []FetchInv
<1>1. FetchInit => FetchInv
  BY InitInvariant
<1>2. FetchInv /\ [FetchNext]_fetchVars => FetchInv'
  BY NextInvariant
<1> QED BY <1>1, <1>2, PTL DEF FetchSpec

\* A file reported as verified is the pinned one.
THEOREM Verified == ASSUME NEW p, Fetchers = {p} PROVE FetchSpec => []VerifiedIsExpected
<1>1. FetchInv => VerifiedIsExpected
  BY DEF FetchInv
<1> QED BY <1>1, FetchInvariant, PTL

\* No run of the script takes the pinned file away or puts another in its
\* place.
THEOREM NeverWorse == ASSUME NEW p, Fetchers = {p} PROVE FetchSpec => OutputsOnlyImprove
<1>1. FetchInv /\ [FetchNext]_fetchVars => [Improves]_fetchVars
  BY NextInvariant
<1>2. [][Improves]_fetchVars => OutputsOnlyImprove
  BY PTL DEF OutputsOnlyImprove, Improves
<1> QED BY <1>1, <1>2, FetchInvariant, PTL DEF FetchSpec

=============================================================================
