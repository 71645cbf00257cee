--------------------------- MODULE NameAllocation ---------------------------
(***************************************************************************)
(* The C++ names of a message class: names.py gives every request the first *)
(* spelling that fits its scope, and model.py asks for the members of a     *)
(* class in batches.  A name is the sequence of its parts between           *)
(* underscores, so <<"set", "a">> is set_a and <<"a", "">> is a_.           *)
(***************************************************************************)
EXTENDS Absent, Integers, Sequences
LOCAL INSTANCE SequencesExt
LOCAL INSTANCE TLC
LOCAL INSTANCE FiniteSetsExt

CONSTANTS
    NamedMessages,   \* messages as the schema declares them
    TokenOrder,      \* the parts of names and owners, in the order of their characters
    Keywords,        \* some keywords of C++
    MaxCandidates    \* bound: spellings tried for a request

VARIABLES
    message,      \* the message whose class is named
    names,        \* the uses in the scope of the class, and all that was emitted
    naming        \* the batch that is next, "done", "refused" or "incomplete"

nameVars == <<message, names, naming>>

---------------------------------------------------------------------------
(* Spellings *)

Portable(name) ==
    /\ \A i \in 1 .. Len(name) - 1 : name[i] # ""
    /\ name # <<"">> /\ name \notin Keywords
EndsOpen(name) == name[Len(name)] = ""
(* An injective spelling: keywords get an underscore, and what is reserved, *)
(* or looks like a keyword with one, is encoded.                            *)
CppIdentifier(raw) ==
    IF raw \in Keywords THEN Append(raw, "")
    ELSE IF ~Portable(raw) \/ (EndsOpen(raw) /\ Front(raw) \in Keywords)
    THEN <<"protocyte", "escaped">> \o SelectSeq(raw, LAMBDA t : t # "")
    ELSE raw
(* Safe when a suffix is added.                                             *)
EmittedDerivable(name) == IF EndsOpen(name) THEN Append(Front(name), "protocyte") ELSE name
Derivable(raw) == EmittedDerivable(CppIdentifier(raw))

(* The last part that is not empty; a base without one is protocyte_name.   *)
LastFull(name) == Max({0} \cup {i \in DOMAIN name : name[i] # ""})
Base(name) ==
    IF LastFull(name) = 0 THEN <<"protocyte", "name">> ELSE SubSeq(name, 1, LastFull(name))
Candidate(r, k) ==
    LET digest == Base(r.preferred) \o <<"protocyte">> \o r.owner
    IN CASE k = 1 -> r.preferred
         [] k = 2 -> IF EndsOpen(r.preferred) THEN EmittedDerivable(r.preferred)
                     ELSE Append(r.preferred, "")
         [] k = 3 -> digest
         [] OTHER -> Append(digest, ToString(k - 2))

(* A member is its stem with something before or after it; helpers of an    *)
(* enum keep the last underscore last.                                      *)
Named(key, signature) ==
    [key |-> key, signature |-> signature, before |-> << >>, after |-> << >>, suffix |-> FALSE]
Function(key, before, after, signature) ==
    [Named(key, signature) EXCEPT !.before = before, !.after = after]
Suffixed(key, suffix, signature) ==
    [Named(key, signature) EXCEPT !.after = suffix, !.suffix = TRUE]
Render(member, stem) ==
    IF member.suffix /\ EndsOpen(stem) THEN Front(stem) \o member.after \o <<"">>
    ELSE member.before \o stem \o member.after

---------------------------------------------------------------------------
(* Scopes *)

(* Only functions whose parameters or constness differ share a name.        *)
Overloads(a, b) == None \notin {a.signature, b.signature} /\ a.signature # b.signature
Use(space, owner, key, name, signature) ==
    [space |-> space, owner |-> owner, key |-> key, name |-> name, signature |-> signature]
Rendered(space, r, stem) ==
    [i \in DOMAIN r.members |->
        Use(space, r.owner, r.members[i].key, Render(r.members[i], stem), r.members[i].signature)]
CanAddAll(uses, new) ==
    \A i \in DOMAIN new :
        /\ Portable(new[i].name)
        /\ \A u \in uses : u.name = new[i].name => Overloads(u, new[i])
        /\ \A j \in 1 .. i - 1 : new[j].name = new[i].name => Overloads(new[j], new[i])

Request(priority, owner, preferred, members) ==
    [priority |-> priority, owner |-> owner, preferred |-> preferred, members |-> members]
Position(t) == CHOOSE i \in DOMAIN TokenOrder : TokenOrder[i] = t
Precedes(x, y) ==
    \E i \in DOMAIN y :
        /\ \A j \in 1 .. i - 1 : j <= Len(x) /\ x[j] = y[j]
        /\ i > Len(x) \/ Position(x[i]) < Position(y[i])
(* Faulty: requests of one priority are taken in the order of declaration.  *)
EarlierAsDeclared(a, b) == a.priority < b.priority
Earlier(a, b) ==
    \/ a.priority < b.priority
    \/ a.priority = b.priority /\ Precedes(a.preferred, b.preferred)
    \/ a.priority = b.priority /\ a.preferred = b.preferred /\ Precedes(a.owner, b.owner)
FirstFit(uses, space, r) ==
    LET Fits(k) == CanAddAll(uses, Rendered(space, r, Candidate(r, k)))
        k == CHOOSE i \in 1 .. MaxCandidates : Fits(i) /\ \A j \in 1 .. i - 1 : ~Fits(j)
    IN Rendered(space, r, Candidate(r, k))
Allocate(uses, space, requests) ==
    FoldLeft(LAMBDA all, r : all \cup ToSet(FirstFit(all, space, r)),
             uses, SortSeq(requests, Earlier))
StemOf(uses, owner, key) == (CHOOSE u \in uses : u.owner = owner /\ u.key = key).name

---------------------------------------------------------------------------
(* The members of a class *)

PublicFunctions ==
    <<<<<<"create">>, "fn/1/static">>, <<<<"context">>, "fn/0/const">>,
      <<<<"unknown", "fields">>, "fn/0/const">>, <<<<"unknown", "field", "count">>, "fn/0/const">>,
      <<<<"unknown", "field", "bytes">>, "fn/0/const">>,
      <<<<"clear", "unknown", "fields">>, "fn/0">>,
      <<<<"mutable", "unknown", "fields">>, "fn/0">>, <<<<"copy", "from">>, "fn/1">>,
      <<<<"clone">>, "fn/0/const">>, <<<<"parse">>, "fn/2/static">>,
      <<<<"merge", "from">>, "fn/1">>, <<<<"merge", "fields", "from">>, "fn/1">>,
      <<<<"serialize">>, "fn/1/const">>, <<<<"encoded", "size">>, "fn/0/const">>,
      <<<<"validate">>, "fn/0/const">>>>
Reserved(m) ==
    <<Use(<<"class">>, <<"class">>, "injected", m.own, None),
      Use(<<"class">>, <<"class">>, "context_alias", <<"Context">>, None)>>
    \o (IF m.fields = << >> THEN << >>
        ELSE <<Use(<<"class">>, <<"class">>, "field_number_type", <<"FieldNumber">>, None)>>)
    \o [i \in DOMAIN PublicFunctions |->
          Use(<<"class">>, <<"class", "public", ToString(i)>>, "public", PublicFunctions[i][1],
              PublicFunctions[i][2])]

EnumMembers(e) ==
    <<Named("alias", None), Suffixed("min", <<"MIN">>, None), Suffixed("max", <<"MAX">>, None)>>
    \o (IF e.arraysize THEN <<Suffixed("arraysize", <<"ARRAYSIZE">>, None)>> ELSE << >>)
    \o <<Suffixed("is_valid", <<"is", "valid">>, "fn/1"), Suffixed("name", <<"name">>, "fn/1"),
         Suffixed("parse", <<"parse">>, "fn/2"), Suffixed("descriptor", <<"descriptor">>, "fn/0")>>

Has == Function("has", <<"has">>, << >>, "fn/0/const")
Ensures == Function("ensure", <<"ensure">>, << >>, "fn/0")
Mutable == Function("mutable", <<"mutable">>, << >>, "fn/0")
Setter == Function("setter", <<"set">>, << >>, "fn/1")
Raw == <<Function("raw_accessor", << >>, <<"raw">>, "fn/0/const"),
         Function("raw_setter", <<"set">>, <<"raw">>, "fn/1")>>
ResizeOver == Function("resize_overwrite", <<"resize">>, <<"for", "overwrite">>, "fn/1")
OfKind(f) ==
    CASE f.kind \in {"list", "map"} -> <<Mutable>>
      [] f.kind = "message" -> <<Has, Ensures>>
      [] f.kind = "fixed" -> <<Has, Mutable, ResizeOver, Setter>>
      [] f.kind = "array" -> <<Function("size", << >>, <<"size">>, "fn/0/const"),
                               Function("max_size", << >>, <<"max", "size">>, "fn/0/const"),
                               Function("resize", <<"resize">>, << >>, "fn/1"), ResizeOver,
                               Mutable, Setter>>
      [] f.kind = "text" -> <<Mutable, Setter>>
      [] f.kind = "enum" -> Raw \o <<Setter>>
      [] f.kind = "scalar" -> <<Setter>>
InOneofOfKind(f) ==
    CASE f.kind = "message" -> <<Has, Ensures>>
      [] f.kind = "enum" -> <<Has>> \o Raw \o <<Setter>>
      [] OTHER -> <<Has, Setter>>
Optionally(f) == f.presence /\ f.kind \in {"array", "text", "enum", "scalar"}
PublicMembers(f) ==
    <<Named("accessor", "fn/0/const")>>
    \o (IF f.oneof # None THEN InOneofOfKind(f)
        ELSE <<Function("clear", <<"clear">>, << >>, "fn/0")>> \o OfKind(f)
             \o (IF Optionally(f) THEN <<Has>> ELSE << >>))

MemberRequests(m) ==
    [i \in DOMAIN m.enums |->
        Request(20, <<"nested-enum", m.enums[i].id>>, CppIdentifier(m.enums[i].name),
                EnumMembers(m.enums[i]))]
    \o [i \in DOMAIN m.nested |->
        Request(20, <<"nested-message", m.nested[i].id>>, CppIdentifier(m.nested[i].name),
                <<Named("alias", None)>>)]
    \o [i \in DOMAIN m.constants |->
        Request(30, <<"constant", m.constants[i].id>>, CppIdentifier(m.constants[i].name),
                <<Named("declaration", None)>>)]
    \o [i \in DOMAIN m.fields |->
        Request(10, <<"field", m.fields[i].id>>, Derivable(m.fields[i].name),
                PublicMembers(m.fields[i]))]
FieldStem(uses, f) == StemOf(uses, <<"field", f.id>>, "accessor")

(* The template parameter of an alias does not hide the alias.              *)
AliasParameters(m, uses) ==
    LET Of(n) ==
            LET alias == StemOf(uses, <<"nested-message", n.id>>, "alias") IN
            Allocate({Use(<<"alias", n.id>>, <<"alias">>, "of", alias, None)}, <<"alias", n.id>>,
                     <<Request(100, <<"alias", n.id>>, <<"NestedConfig">>,
                               <<Named("alias_config", None)>>)>>)
    IN UNION {Of(m.nested[i]) : i \in DOMAIN m.nested}

FieldsOf(m, o) == SelectSeq(m.fields, LAMBDA f : f.oneof = o.id)
OneofRequests(m) ==
    FlattenSeq([i \in DOMAIN m.oneofs |->
        LET o == m.oneofs[i] IN
        <<Request(100, <<"oneof-case-type", o.id>>, <<o.pascal \o "Case">>,
                  <<Named("case_type", None)>>),
          Request(100, <<"oneof-api", o.id>>, Derivable(o.name),
                  <<Function("case_accessor", << >>, <<"case">>, "fn/0/const"),
                    Function("clear", <<"clear">>, << >>, "fn/0")>>)>>])
CaseValues(m, uses) ==
    LET Of(o) ==
            Allocate({Use(<<"case", o.id>>, <<"none">>, "none", <<"none">>, None)},
                     <<"case", o.id>>,
                     [i \in DOMAIN FieldsOf(m, o) |->
                        Request(100, <<"oneof-value", FieldsOf(m, o)[i].id>>,
                                FieldStem(uses, FieldsOf(m, o)[i]), <<Named("oneof_case", None)>>)])
    IN UNION {Of(m.oneofs[i]) : i \in DOMAIN m.oneofs}

PrivateFunctions(m) ==
    <<<<"copy", "from", "in", "place", "">>, <<"reset", "for", "reuse", "">>,
      <<"merge", "field", "from", "">>>>
    \o (IF m.oneofs = << >> THEN << >> ELSE <<<<"destroy", "at", "">>>>)
Private(owner, preferred, key, signature) ==
    Request(100, <<"private">> \o owner, preferred, <<Named(key, signature)>>)
PrivateRequests(m, uses) ==
    LET Storage(f) ==
            <<Private(<<"field", f.id, "storage">>, Append(FieldStem(uses, f), ""), "storage",
                      None)>>
            \o (IF f.kind \in {"list", "map", "message"} \/ ~f.presence THEN << >>
                ELSE <<Private(<<"field", f.id, "presence">>,
                               <<"has">> \o Append(FieldStem(uses, f), ""),
                               "presence_storage", None)>>)
        OfOneof(o) ==
            <<Private(<<"oneof", o.id, "case">>, Derivable(o.name) \o <<"case", "">>,
                      "case_storage", None),
              Private(<<"oneof", o.id, "type">>, <<o.pascal \o "Storage">>, "storage_type", None),
              Private(<<"oneof", o.id, "storage">>, Append(Derivable(o.name), ""), "storage",
                      None)>>
        single == SelectSeq(m.fields, LAMBDA f : f.oneof = None)
        functions == PrivateFunctions(m)
    IN <<Private(<<"context-storage">>, <<"ctx", "">>, "context_storage", None),
         Private(<<"unknown-storage">>, <<"unknown", "fields", "">>, "unknown_storage", None)>>
       \o [i \in DOMAIN functions |->
             Private(<<"function", functions[i][1]>>, functions[i], "function", functions[i][1])]
       \o FlattenSeq([i \in DOMAIN single |-> Storage(single[i])])
       \o FlattenSeq([i \in DOMAIN m.oneofs |-> OfOneof(m.oneofs[i])])
UnionMembers(m, uses) ==
    LET Of(o) ==
            Allocate({}, <<"union", o.id>>,
                     [i \in DOMAIN FieldsOf(m, o) |->
                        Request(100, <<"oneof-storage", FieldsOf(m, o)[i].id>>,
                                Append(FieldStem(uses, FieldsOf(m, o)[i]), ""),
                                <<Named("oneof_storage", None)>>)])
    IN UNION {Of(m.oneofs[i]) : i \in DOMAIN m.oneofs}

(* The variables of the code of a field, a group that moves together.       *)
CodeName(key, before, after) == Function(key, before, after, None)
Variables ==
    <<CodeName("ensured", <<"ensured">>, << >>), CodeName("entry", << >>, <<"entry">>),
      CodeName("value", << >>, <<"value">>), CodeName("packed_values", <<"packed">>, <<"values">>),
      CodeName("packed_unknown_fields", <<"packed">>, <<"unknown", "fields">>),
      CodeName("packed_reserve", <<"packed", "reserve">>, << >>),
      CodeName("merged_unknown_fields", <<"merged">>, <<"unknown", "fields">>),
      CodeName("committed", << >>, <<"committed">>), CodeName("parse_entry", <<"parse">>, <<"entry">>),
      CodeName("staged_entry", <<"staged">>, <<"entry">>),
      CodeName("decoded_raw", <<"decoded">>, <<"raw">>),
      CodeName("decoded", <<"decoded">>, << >>), CodeName("accepted", << >>, <<"accepted">>),
      CodeName("packed_size", <<"packed", "size">>, << >>),
      CodeName("packed_value", <<"packed", "value">>, << >>),
      CodeName("field_size", <<"field", "size">>, << >>)>>
FieldVariables(m, uses) ==
    Allocate({}, <<"code">>, [i \in DOMAIN m.fields |->
        Request(100, <<"implementation", m.fields[i].id>>,
                EmittedDerivable(FieldStem(uses, m.fields[i])), Variables)])
(* The key and the value of a map have scopes of their own.                 *)
MapVariables(m) ==
    UNION {Allocate({}, <<"code", f.id, part>>,
                    <<Request(100, <<part, f.id>>, <<part>>,
                              Append(Variables, Function("storage", << >>, <<"">>, None)))>>) :
             part \in {"key", "value"}, f \in {x \in ToSet(m.fields) : x.kind = "map"}}

TemplateParameters == <<"Config", "Reader", "Writer", "Value", "T">>
TemplateRequests ==
    [i \in DOMAIN TemplateParameters |->
        Request(100, <<"template", TemplateParameters[i]>>, <<TemplateParameters[i]>>,
                <<Named("parameter", None)>>)]

(* What the generator will ask of the message, of its nested types, of its  *)
(* fields and of its oneofs.                                                *)
Keys(members) == {members[i].key : i \in DOMAIN members}
Needed(m) ==
    (({<<"private", "context-storage">>} \X {"context_storage"})
       \cup ({<<"private", "unknown-storage">>} \X {"unknown_storage"})
       \cup {<<<<"private", "function", PrivateFunctions(m)[i][1]>>, "function">> :
                i \in DOMAIN PrivateFunctions(m)})
    \cup UNION {{<<"nested-enum", e.id>>} \X Keys(EnumMembers(e)) : e \in ToSet(m.enums)}
    \cup UNION {{<<<<"nested-message", n.id>>, "alias">>, <<<<"alias", n.id>>, "alias_config">>} :
                  n \in ToSet(m.nested)}
    \cup UNION {{<<"field", f.id>>} \X Keys(PublicMembers(f)) : f \in ToSet(m.fields)}
    \cup UNION {{<<"implementation", f.id>>} \X Keys(Variables) : f \in ToSet(m.fields)}
    \cup UNION {IF f.oneof # None
                THEN {<<<<"oneof-value", f.id>>, "oneof_case">>,
                      <<<<"oneof-storage", f.id>>, "oneof_storage">>}
                ELSE {<<<<"private", "field", f.id, "storage">>, "storage">>} :
                f \in ToSet(m.fields)}
    \cup {<<<<"private", "field", f.id, "presence">>, "presence_storage">> :
            f \in {x \in ToSet(m.fields) : /\ x.oneof = None /\ x.presence
                                           /\ x.kind \notin {"list", "map", "message"}}}
    \cup UNION {{<<<<"oneof-case-type", o.id>>, "case_type">>,
                 <<<<"oneof-api", o.id>>, "case_accessor">>,
                 <<<<"oneof-api", o.id>>, "clear">>,
                 <<<<"private", "oneof", o.id, "case">>, "case_storage">>,
                 <<<<"private", "oneof", o.id, "type">>, "storage_type">>,
                 <<<<"private", "oneof", o.id, "storage">>, "storage">>} : o \in ToSet(m.oneofs)}

---------------------------------------------------------------------------
(* The batches, in their order.                                             *)

InClass(all) == {u \in all : u.space = <<"class">>}
MembersNamed(m, all) == all \cup Allocate(InClass(all), <<"class">>, MemberRequests(m))
AliasesNamed(m, all) == all \cup AliasParameters(m, all)
OneofsNamed(m, all) ==
    all \cup Allocate(InClass(all), <<"class">>, OneofRequests(m)) \cup CaseValues(m, all)
PrivateNamed(m, all) ==
    all \cup Allocate(InClass(all), <<"class">>, PrivateRequests(m, all)) \cup UnionMembers(m, all)
CodeNamed(m, all) == all \cup FieldVariables(m, all) \cup MapVariables(m)
TemplatesNamed(all) == all \cup Allocate(InClass(all), <<"class">>, TemplateRequests)

Batch(from, to, all) == naming = from /\ names' = all /\ naming' = to /\ UNCHANGED message
NameInit(S) == message \in S /\ names = {} /\ naming = "reserve"
(* A reservation that does not fit raises an error, and nothing handles it. *)
Reserve ==
    /\ naming = "reserve" /\ UNCHANGED message
    /\ IF CanAddAll({}, Reserved(message))
       THEN names' = ToSet(Reserved(message)) /\ naming' = "members"
       ELSE UNCHANGED names /\ naming' = "refused"
NameMembers == Batch("members", "aliases", MembersNamed(message, names))
NameAliases == Batch("aliases", "oneofs", AliasesNamed(message, names))
NameOneofs == Batch("oneofs", "private", OneofsNamed(message, names))
NamePrivate == Batch("private", "code", PrivateNamed(message, names))
NameCode == Batch("code", "templates", CodeNamed(message, names))
NameTemplates ==
    Batch("templates",
          IF Needed(message) \subseteq {<<u.owner, u.key>> : u \in TemplatesNamed(names)}
          THEN "done" ELSE "incomplete", TemplatesNamed(names))
NameNext ==
    \/ Reserve \/ NameMembers \/ NameAliases \/ NameOneofs \/ NamePrivate \/ NameCode
    \/ NameTemplates
=============================================================================
