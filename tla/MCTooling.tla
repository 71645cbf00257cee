----------------------------- MODULE MCTooling -----------------------------
(***************************************************************************)
(* Small instances of the parts that share nothing with the coordinator or *)
(* with each other: a behaviour is one of one part, while the others stay  *)
(* where they begin.                                                       *)
(***************************************************************************)
EXTENDS EnvironmentSafety, InstallSafety, DownloadSafety, FormatterSafety, PublishSafety,
        ExpressionSafety, ResolutionSafety, CodecSafety, MessageSafety, NameSafety, RootSafety, TLC

CONSTANT Parts   \* those of the parts below that this run looks at

VARIABLE part

(* How often configurations start and each accident of theirs happens.      *)
EnvBudget(timeouts, kills, orphans, fails, edits) ==
    [configures |-> 2, timeouts |-> timeouts, kills |-> kills, orphans |-> orphans,
     fails |-> fails, edits |-> edits]
EnvScenario(l, h, m, budget) == [live |-> l, health |-> h, marked |-> m, budget |-> budget]
StalePrevious ==
    {EnvScenario(Old, "partial", {Old}, b) :
        b \in {EnvBudget(1, 1, 0, 0, 0), EnvBudget(0, 1, 0, 1, 0), EnvBudget(0, 0, 1, 0, 0),
               EnvBudget(0, 0, 0, 0, 1)}}
OtherPrevious ==
    {EnvScenario(None, "partial", {}, EnvBudget(0, 1, 0, 1, 0)),
     EnvScenario(Old, "partial", {}, EnvBudget(0, 0, 0, 0, 1)),
     EnvScenario(Old, "usable", {Old}, EnvBudget(0, 0, 0, 0, 1))}
BeforeConfiguring == StalePrevious \cup OtherPrevious

InstBudget(installs, kills, fails, edits) ==
    [installs |-> installs, kills |-> kills, fails |-> fails, edits |-> edits]
Installs ==
    [installed : {Installed, None},
     budget : {InstBudget(3, 2, 0, 0), InstBudget(2, 1, 2, 0), InstBudget(3, 0, 3, 0),
               InstBudget(2, 1, 0, 1), InstBudget(2, 0, 1, 1)}]
TwoArtifacts == <<"plugin", "checksums">>

(* Every operator over the values at the ends and around zero of each kind, *)
(* and the ones that short-circuit, shift or divide over one another.       *)
LeafValues ==
    UNION {{Value(k, n) : n \in {Lower(k), -1, 0, 1, 2, Upper(k)} \cap (Lower(k) .. Upper(k))} :
              k \in IntegerKinds}
        \cup {Boolean(FALSE), Boolean(TRUE)}
LeafTrees == {Leaf(v) : v \in LeafValues}
FewLeaves == {Leaf(Value("i32", 1)), Leaf(Value("i32", -2)), Leaf(Value("u64", 3)),
              Leaf(Boolean(FALSE))}
FewOperators == {"-", "/", "<<", "==", "&&", "||"}
Expressions ==
    {Unary(op, x) : op \in {"!", "~", "+", "-", "bool", "abs"} \cup IntegerKinds, x \in LeafTrees}
    \cup {Binary(op, x, y) :
             op \in {"&&", "||", "<<", ">>", "&", "|", "^", "/", "%", "+", "-", "*", "min", "max"}
                      \cup Comparisons,
             x \in LeafTrees, y \in LeafTrees}
    \cup {Binary(op, x, Binary(inner, y, Unary(low, z))) :
             op \in FewOperators, inner \in FewOperators, low \in {"~", "-", "!"},
             x \in FewLeaves, y \in FewLeaves, z \in FewLeaves}

(* A package, a message in it and one in that, perhaps one of the same name *)
(* at the root, and constants of the same names in them; and a package with *)
(* one around and one below it, whose constants have only their full names. *)
PackageP == <<"p">>
PackageQ == <<"p", "q">>
MessageM == <<"p", "M">>
MessageN == <<"p", "M", "N">>
Schemata ==
    {[packages |-> {PackageP, << >>},
      messages |-> (MessageM :> PackageP @@ MessageN :> PackageP)
                       @@ (IF shadowed THEN <<"M">> :> << >> ELSE << >>),
      uses |-> (Constant(PackageP, "A") :> a @@ Constant(PackageP, "B") :> b
                    @@ Constant(MessageM, "A") :> c @@ Constant(MessageN, "B") :> d)] :
        shadowed \in BOOLEAN,
        a \in {<< >>, <<<<"B">>>>, <<<<"M", "A">>>>},
        b \in {<< >>, <<<<"p", "A">>>>},
        c \in {<< >>, <<<<"B">>>>, <<<<"p", "A">>>>, <<<<"M", "N", "B">>>>, <<<<"A">>>>},
        d \in {<< >>, <<<<"A">>>>, <<<<"p", "A">>, <<"M", "A">>>>, <<<<"p", "B">>, <<"B">>>>,
               <<<<"p", "M", "A">>, <<"p", "B">>>>}}
    \cup {[packages |-> {PackageP, PackageQ, << >>}, messages |-> MessageM :> PackageP,
           uses |-> (Constant(<< >>, "C") :> << >> @@ Constant(PackageQ, "A") :> a
                         @@ Constant(PackageP, "A") :> << >> @@ Constant(MessageM, "B") :> b)] :
              a \in {<< >>, <<<<"p", "A">>>>, <<<<"C">>>>, <<<<"p", "M", "B">>>>},
              b \in {<<<<"C">>>>, <<<<"q", "A">>>>, <<<<"p", "q", "A">>>>, <<<<"A">>>>}}

(* Messages with every kind of field, and records that fit, that do not and *)
(* that are cut short.                                                      *)
Plain(k) ==
    [kind |-> k, repeated |-> FALSE, packed |-> FALSE, presence |-> FALSE, oneof |-> None,
     count |-> None, required |-> FALSE, value |-> "varint"]
Optional(k) == [Plain(k) EXCEPT !.presence = TRUE]
Required(k) == [Optional(k) EXCEPT !.required = TRUE]
Repeated(k) == [Plain(k) EXCEPT !.repeated = TRUE]
Packed(k) == [Repeated(k) EXCEPT !.packed = TRUE]
ArrayOf(k, n) == [Packed(k) EXCEPT !.count = n]
InOneof(k) == [Plain(k) EXCEPT !.oneof = "o"]
MapTo(v) == [Plain("map") EXCEPT !.value = v]
Num(n, x) == Rec(n, "VARINT", x)
Word(n, x) == Rec(n, "I32", x)
Text(n, x) == Rec(n, "LEN", Load("text", <<x>>))
Ints(n, xs) == Rec(n, "LEN", Load("packed", xs))
Words(n, xs) == Rec(n, "LEN", Load("fixed", xs))
Msg(n, recs) == Rec(n, "LEN", Load("fields", recs))
Group(n, recs) == Rec(n, "GROUP", Load("fields", recs))
OpenGroup(n, recs) == Rec(n, "GROUP", Load("open", recs))
Cut == Rec(0, "CUT", 0)
CodecScenario(s, keep, recs) == [schema |-> s, keep |-> keep, records |-> recs]
EnumFields == <<Optional("enum"), Packed("enum"), Repeated("message")>>
OneofFields == <<InOneof("varint"), InOneof("message"), Plain("varint"), InOneof("enum")>>
MapFields == <<MapTo("enum"), Plain("message"), MapTo("message")>>
StrictFields == <<Required("varint"), ArrayOf("fixed", 2), Optional("string"), Plain("message")>>
Messages ==
    {CodecScenario(EnumFields, TRUE,
         {Num(1, 1), Num(1, 2), Ints(2, <<1, 2, 0>>), Num(2, 0),
          Msg(3, <<Num(1, 2), Ints(2, <<1>>)>>),
          Msg(3, <<Msg(3, << >>)>>), Cut, Text(1, "x")}),
     CodecScenario(EnumFields, FALSE,
         {Num(1, 1), Num(1, 2), Ints(2, <<1, 2>>), Msg(3, <<Num(1, 2), Ints(2, <<1>>)>>),
          Group(5, <<Num(1, 1)>>)}),
     CodecScenario(OneofFields, TRUE,
         {Num(1, 0), Msg(2, <<Num(3, 1)>>), Msg(2, <<Msg(2, <<Num(1, 1)>>)>>),
          Msg(2, <<Num(3, 0), Num(4, 1)>>), Num(3, 1), Num(3, 0), Num(4, 2), Num(4, 1),
          Msg(2, <<Cut>>)}),
     CodecScenario(MapFields, TRUE,
         {Msg(1, <<Num(1, 1), Num(2, 1)>>), Msg(1, <<Num(2, 2), Num(1, 1)>>),
          Msg(1, <<Num(2, 2), Num(2, 0)>>), Msg(1, <<Num(1, 1)>>),
          Msg(2, <<Msg(3, <<Num(1, 1)>>)>>), Msg(3, <<Msg(2, <<Msg(1, << >>)>>)>>),
          Msg(3, <<Msg(2, <<Cut>>)>>), Group(7, <<Group(8, << >>)>>), OpenGroup(7, <<Num(1, 1)>>)}),
     CodecScenario(StrictFields, TRUE,
         {Num(1, 0), Num(1, 1), Words(2, <<5, 6>>), Word(2, 7), Text(3, "x"), Text(3, "bad"),
          Msg(4, <<Num(1, 1), Word(2, 1)>>), Msg(4, <<Word(2, 1)>>), Num(9, 1)})}

(* Types with every kind of field, a box where a type contains itself, and  *)
(* two messages of different contexts, one of which holds unknown fields.   *)
Of(kind) == [kind |-> kind, oneof |-> None, presence |-> FALSE, boxed |-> FALSE, type |-> None]
Presented(kind) == [Of(kind) EXCEPT !.presence = TRUE]
Case(kind) == [Of(kind) EXCEPT !.oneof = "o"]
Boxed(f) == [f EXCEPT !.type = "Node", !.boxed = TRUE]
LeafOf(f) == [f EXCEPT !.type = "Leaf"]
Put(path, n, value) == [path |-> path, step |-> <<n, value>>]
ObjectScenario(calls, node, leaf, unknown, x, y) ==
    [calls |-> calls, types |-> [Node |-> node, Leaf |-> leaf], unknown |-> unknown,
     bound |-> [x |-> "c1", y |-> "c2"], made |-> [x |-> x, y |-> y]]
ObjectFirsts ==
    LET top == << >>
        inside == <<<<2, 0>>>>
    IN {ObjectScenario(2, <<Presented("text"), Boxed(Of("message"))>>, << >>, "",
            <<Put(top, 1, "a")>>, <<Put(top, 2, 0), Put(inside, 1, "a")>>),
        ObjectScenario(3, <<Boxed(Of("message"))>>, << >>, "", << >>, <<Put(top, 1, 0)>>),
        ObjectScenario(2, <<Case("text"), Boxed(Case("message")), Case("enum")>>, << >>, "",
            <<Put(top, 1, "a")>>, <<Put(top, 2, 0), Put(inside, 1, "a")>>),
        ObjectScenario(2, <<Of("list"), LeafOf(Of("list")), Of("fixed")>>, <<Of("text")>>, "u",
            <<Put(top, 3, "bytes")>>,
            <<Put(top, 1, "a"), Put(top, 2, 0), Put(<<<<2, 1>>>>, 1, "a")>>),
        ObjectScenario(2, <<LeafOf(Case("message")), Presented("enum"), LeafOf(Of("message"))>>,
            <<Presented("scalar")>>, "", <<Put(top, 2, 1)>>,
            <<Put(top, 1, 0), Put(<<<<1, 0>>>>, 1, 1), Put(top, 3, 0)>>)}

(* A field a of each kind with two more, alone or in a oneof, that are      *)
(* named as helpers, keywords, template parameters, members that every      *)
(* class has, or as a constant; and messages named as such a member.        *)
DeclaredAs(kind, presence) ==
    [id |-> "a", name |-> <<"a">>, kind |-> kind, oneof |-> None, presence |-> presence]
FieldA ==
    {DeclaredAs(k, FALSE) : k \in {"list", "map", "message", "scalar"}}
        \cup {DeclaredAs(k, TRUE) : k \in {"fixed", "array", "text", "enum"}}
Other(id, name, kind) == [DeclaredAs(kind, FALSE) EXCEPT !.id = id, !.name = name]
Others ==
    <<Other("set_a", <<"set", "a">>, "enum"), Other("a_raw", <<"a", "raw">>, "text"),
      Other("has_a", <<"has", "a">>, "message"), Other("class", <<"class">>, "enum"),
      Other("context", <<"context">>, "text"), Other("T", <<"T">>, "scalar"),
      Other("E_MIN", <<"E", "MIN">>, "list"), Other("pick_case", <<"pick", "case">>, "scalar"),
      Other("a_", <<"a", "">>, "message"), Other("none", <<"none">>, "scalar")>>
Pairs == UNION {{<<Others[i], Others[j]>> : i \in 1 .. j - 1} : j \in DOMAIN Others}
ClassOf(own, fields, oneofs, more) ==
    [own |-> own, fields |-> fields, oneofs |-> oneofs,
     enums |-> IF more THEN <<[id |-> "E", name |-> <<"E">>, arraysize |-> TRUE]>> ELSE << >>,
     nested |-> IF more THEN <<[id |-> "Config", name |-> <<"Config">>],
                               [id |-> "NestedConfig", name |-> <<"NestedConfig">>]>> ELSE << >>,
     constants |-> IF more THEN <<[id |-> "MAX", name |-> <<"E", "MAX">>],
                                  [id |-> "Value", name |-> <<"Value">>]>> ELSE << >>]
Pick == [id |-> "pick", name |-> <<"pick">>, pascal |-> "Pick"]
InPick(f) == IF f.kind = "list" THEN f ELSE [f EXCEPT !.oneof = "pick"]
NamedSchemata ==
    {ClassOf(<<"M">>, <<a, p[1], p[2]>>, << >>, TRUE) : a \in FieldA, p \in Pairs}
        \cup {ClassOf(<<"M">>, <<a, InPick(p[1]), InPick(p[2])>>, <<Pick>>, FALSE) :
                 a \in FieldA, p \in Pairs}
        \cup {ClassOf(own, fields, << >>, FALSE) :
                 own \in {<<"M">>, <<"Context">>, <<"FieldNumber">>, <<"parse">>},
                 fields \in {<< >>, <<DeclaredAs("scalar", FALSE)>>}}
Alphabetical ==
    <<"", "Config", "Context", "E", "FieldNumber", "M", "MAX", "MIN", "NestedConfig", "PickCase",
      "PickStorage", "Reader", "T", "Value", "Writer", "a", "a_", "a_raw", "alias", "case", "class",
      "constant", "context", "context-storage", "copy", "ctx", "destroy", "field", "fields",
      "function", "has", "has_a", "implementation", "in", "merge", "nested-enum", "nested-message", "none",
      "oneof",
      "oneof-api", "oneof-case-type", "oneof-storage", "oneof-value", "pick", "pick_case",
      "presence", "private", "protocyte", "raw", "reset", "set", "set_a", "storage", "template",
      "type", "unknown", "unknown-storage">>
KeywordsHere == {<<"class">>}

(* Two roots side by side and one inside the first; a build that moves a    *)
(* target between them or nests its own roots, and another build.           *)
RootA == <<"a">>
RootN == <<"a", "n">>
RootB == <<"b">>
TheRoots == {RootA, RootN, RootB}
ByIdentity == RootA :> 1 @@ RootN :> 2 @@ RootB :> 3
TreeLayouts ==
    [b1 |-> {NoLayout, RootA :> {"t"}, RootA :> {"u"}, RootB :> {"t"},
             RootA :> {"u"} @@ RootB :> {"t"}, RootA :> {"u"} @@ RootN :> {"t"}},
     b2 |-> {RootN :> {"v"}, RootB :> {"v"}}]
RootsBudget(configures, generates, resets, kills, deletions) ==
    [configures |-> configures, generates |-> generates, resets |-> resets, kills |-> kills,
     deletions |-> deletions]
RootBudgets ==
    {RootsBudget(2, 1, 0, 0, 0), RootsBudget(1, 1, 1, 0, 0), RootsBudget(2, 0, 1, 1, 0),
     RootsBudget(2, 0, 0, 1, 1), RootsBudget(1, 0, 2, 0, 0)}

(* The first states of the part that moves; every other part has one.       *)
Firsts(p, S) == IF p = part THEN S ELSE {CHOOSE x \in S : TRUE}
ToolingInit ==
    /\ part \in Parts
    /\ \E s \in Firsts("environment", EnvScenarios) : EnvInit(s)
    /\ \E s \in Firsts("install", InstallScenarios) : InstallInit(s)
    /\ DownloadInit /\ FormatInit /\ PublishInit
    /\ CodecInit(Firsts("codec", CodecScenarios))
    /\ ObjectInit(Firsts("message", ObjectScenarios))
    /\ NameInit(Firsts("names", NamedMessages))
    /\ RootInit(Firsts("roots", RootScenarios))
    /\ ResolutionInit(Firsts("resolution", Schemas))
    /\ ExprInit(IF part = "expression" THEN ConstantTrees ELSE {Leaf(Boolean(FALSE))})
OnlyMoves(p) ==
    /\ part = p /\ UNCHANGED part
    /\ IF p = "environment" THEN TRUE ELSE UNCHANGED envVars
    /\ IF p = "install" THEN TRUE ELSE UNCHANGED instVars
    /\ IF p = "download" THEN TRUE ELSE UNCHANGED dlVars
    /\ IF p = "format" THEN TRUE ELSE UNCHANGED fmVars
    /\ IF p = "publish" THEN TRUE ELSE UNCHANGED pubVars
    /\ IF p = "expression" THEN TRUE ELSE UNCHANGED exprVars
    /\ IF p = "resolution" THEN TRUE ELSE UNCHANGED resVars
    /\ IF p = "codec" THEN TRUE ELSE UNCHANGED codecVars
    /\ IF p = "message" THEN TRUE ELSE UNCHANGED objVars
    /\ IF p = "names" THEN TRUE ELSE UNCHANGED nameVars
    /\ IF p = "roots" THEN TRUE ELSE UNCHANGED rootVars
ToolingNext ==
    \/ part = "environment" /\ EnvNext /\ OnlyMoves("environment")
    \/ part = "install" /\ InstallNext /\ OnlyMoves("install")
    \/ part = "download" /\ DownloadNext /\ OnlyMoves("download")
    \/ part = "format" /\ FormatNext /\ OnlyMoves("format")
    \/ part = "publish" /\ PublishNext /\ OnlyMoves("publish")
    \/ part = "expression" /\ ExprNext /\ OnlyMoves("expression")
    \/ part = "resolution" /\ ResolutionNext /\ OnlyMoves("resolution")
    \/ part = "codec" /\ CodecNext /\ OnlyMoves("codec")
    \/ part = "message" /\ ObjectNext /\ OnlyMoves("message")
    \/ part = "names" /\ NameNext /\ OnlyMoves("names")
    \/ part = "roots" /\ RootNext /\ OnlyMoves("roots")
(* The fairness of each part, asked only of the part that moves.            *)
ToolingFairness ==
    /\ \A p \in Configures :
          /\ WF_envVars(part = "environment" /\ HelperStep(p))
          /\ WF_envVars(part = "environment" /\ ConfigureStep(p))
    /\ WF_instVars(part = "install" /\ InstallStep) /\ WF_instVars(part = "install" /\ StepBlocked)
    /\ WF_dlVars(part = "download" /\ WorkerRuns) /\ WF_dlVars(part = "download" /\ ReaderStep)
    /\ WF_dlVars(part = "download" /\ DeadlinePasses)
    /\ WF_fmVars(part = "format" /\ SupervisorStep) /\ WF_fmVars(part = "format" /\ CallerStep)
    /\ WF_fmVars(part = "format" /\ Expire) /\ WF_fmVars(part = "format" /\ Feed)
    /\ \A o \in Outputs : WF_fmVars(part = "format" /\ DrainStep(o))
    /\ WF_resVars(part = "resolution" /\ ResolutionNext)
toolingVars ==
    <<part, envVars, instVars, dlVars, fmVars, pubVars, exprVars, resVars, codecVars,
      objVars, nameVars, rootVars>>
ToolingSpec == ToolingInit /\ [][ToolingNext]_toolingVars /\ ToolingFairness

(* Every variable of every part holds a value of the kind its code gives it *)
ToolingTypeOK ==
    /\ EnvTypeOK /\ InstallTypeOK /\ DownloadTypeOK /\ FormatTypeOK /\ PublishTypeOK /\ RootTypeOK

(* Whatever has begun ends: a configuration with its roll-backs, an         *)
(* installation with its recovery, a download and its thread, a formatter   *)
(* run and its threads, and the resolution of constants.                    *)
EveryPartEnds ==
    /\ ConfigureEnds /\ InstallEnds /\ DownloadEnds /\ WorkerEnds
    /\ FormatterEnds /\ ThreadsEnd /\ ResolutionEnds
============================================================================
