---------------------------- MODULE MessageCodec ----------------------------
(***************************************************************************)
(* The C++ that cpp.py generates for a message, over the runtime of        *)
(* runtime.hpp: parse, merge_from, validate, serialize and encoded_size.   *)
(* The wire is a sequence of records, a field number, a wire type and a    *)
(* payload each; bytes inside a record are its size only.  A field that is *)
(* singular holds a sequence of at most one value.                         *)
(***************************************************************************)
EXTENDS Absent, Integers, Sequences, FiniteSets
LOCAL INSTANCE SequencesExt

CONSTANTS
    CodecScenarios,    \* of a schema, whether unknown fields are kept, and records to read
    MaxGiven,          \* bound: the records a message is given before it is written
    RecursionLimit,    \* max_recursion_depth
    MaxElements,       \* max_repeated_elements
    MaxEntries,        \* max_map_entries
    MaxTotal,          \* max_total_bytes
    MaxUnknown         \* max_unknown_field_bytes

VARIABLES
    codec,      \* one of CodecScenarios
    held,       \* the message in memory
    given,      \* the records it was given since it was last reset
    sent,       \* what it was last serialized to, or None
    measured,   \* the size it announced for that
    nesting,    \* recursion_depth of its context
    parsing     \* how the last call ended: "ok", "parse failed" or "merge failed"

codecVars == <<codec, held, given, sent, measured, nesting, parsing>>

EnumValues == {0, 1}   \* of a closed enum
Rec(number, wire, payload) == [number |-> number, wire |-> wire, payload |-> payload]
Load(form, items) == [form |-> form, items |-> items]

---------------------------------------------------------------------------
(* Sizes: a tag has one byte, and so has a varint below 2.                  *)

VarintSize(n) == IF n < 2 THEN 1 ELSE 2
Sum(numbers) == FoldLeft(LAMBDA n, m : n + m, 0, numbers)
ScalarSize(kind, value) == IF kind = "fixed" THEN 4 ELSE VarintSize(value)
Delimited(payload) == 1 + VarintSize(payload) + payload
RECURSIVE RecSize(_)
PayloadSize(load) ==
    CASE load.form = "fields" -> Sum([i \in DOMAIN load.items |-> RecSize(load.items[i])])
      [] load.form = "fixed" -> 4 * Len(load.items)
      [] load.form = "packed" -> Sum([i \in DOMAIN load.items |-> VarintSize(load.items[i])])
      [] OTHER -> Len(load.items)
RecSize(rec) ==
    CASE rec.wire = "VARINT" -> 1 + VarintSize(rec.payload)
      [] rec.wire = "I32" -> 5
      [] rec.wire = "LEN" -> Delimited(PayloadSize(rec.payload))
      [] rec.wire = "GROUP" -> 2 + PayloadSize(rec.payload)
      [] OTHER -> 1
WireSize(recs) == Sum([i \in DOMAIN recs |-> RecSize(recs[i])])

---------------------------------------------------------------------------
(* Messages *)

WireOf(kind) ==
    CASE kind \in {"string", "message",
                   "map"} -> "LEN" [] kind = "fixed" -> "I32" [] OTHER -> "VARINT"
Packable(f) == f.repeated /\ WireOf(f.kind) # "LEN"
Numbers(s) == SetToSortSeq(DOMAIN s, <)
Blank(s) == [fields |-> [n \in DOMAIN s |-> << >>], unknown |-> << >>]
(* A value without presence is there if it is not the default.              *)
Stored(f, value) ==
    LET default == IF f.kind = "string" THEN value = << >> ELSE value = 0 IN
    IF default /\ ~f.presence /\ f.oneof = None THEN << >> ELSE <<value>>
(* The value of a oneof takes the place of the one it had.                  *)
Commit(s, m, n, values) ==
    [m EXCEPT !.fields =
        [k \in DOMAIN s |-> IF k = n THEN values
                            ELSE IF s[n].oneof # None /\ s[k].oneof = s[n].oneof THEN << >>
                            ELSE m.fields[k]]]
Known(kind, value) == kind = "enum" => value \in EnumValues

---------------------------------------------------------------------------
(* Reading *)

Proceed(m, c) == [ok |-> TRUE, message |-> m, ctx |-> c]
Stop(m, c) == [ok |-> FALSE, message |-> m, ctx |-> c]

(* skip_field and read_unknown_field                                        *)
RECURSIVE Skip(_, _)
SkipAll(recs, c) ==
    FoldLeft(LAMBDA r, rec : IF r.ok THEN Skip(rec, r.ctx) ELSE r, [ok |-> TRUE, ctx |-> c], recs)
Skip(rec, c) ==
    IF rec.wire # "GROUP" THEN [ok |-> rec.wire # "CUT", ctx |-> c]
    ELSE IF c.depth >= RecursionLimit THEN [ok |-> FALSE, ctx |-> c]
    ELSE LET r == SkipAll(rec.payload.items, [c EXCEPT !.depth = @ + 1]) IN
         [ok |-> r.ok /\ rec.payload.form = "fields", ctx |-> [r.ctx EXCEPT !.depth = @ - 1]]
AddUnknown(m, recs, c) ==
    IF ~c.keep THEN Proceed(m, c)
    ELSE IF WireSize(m.unknown) + WireSize(recs) > MaxUnknown THEN Stop(m, c)
    ELSE Proceed([m EXCEPT !.unknown = @ \o recs], c)
ReadUnknown(m, rec, c) ==
    LET r == Skip(rec, c) IN IF r.ok THEN AddUnknown(m, <<rec>>, r.ctx) ELSE Stop(m, r.ctx)

RECURSIVE MergeFields(_, _, _, _)
(* Faulty: an error leaves the recursion depth behind.                      *)
ReadPartialLeaking(s, m, load, c) ==
    IF load.form # "fields" \/ c.depth >= RecursionLimit THEN Stop(m, c)
    ELSE LET r == MergeFields(s, m, load.items, [c EXCEPT !.depth = @ + 1]) IN
         IF r.ok THEN [r EXCEPT !.ctx.depth = @ - 1] ELSE r
(* read_message_partial                                                     *)
ReadPartial(s, m, load, c) ==
    IF load.form # "fields" \/ c.depth >= RecursionLimit THEN Stop(m, c)
    ELSE LET r == MergeFields(s, m, load.items, [c EXCEPT !.depth = @ + 1]) IN
         [r EXCEPT !.ctx.depth = @ - 1]
ReadString(load) == load.form = "text" /\ load.items # <<"bad">>

(* All values are read before any is added; the unknown ones of a closed    *)
(* enum become records of their own.                                        *)
MergePacked(s, m, n, load, c) ==
    LET f == s[n]
        values == load.items
        known == SelectSeq(values, LAMBDA value : Known(f.kind, value))
        strange == SelectSeq(values, LAMBDA value : ~Known(f.kind, value))
        d == [c EXCEPT !.elements = @ + Len(values)]
        r == AddUnknown(m, [i \in DOMAIN strange |-> Rec(n, "VARINT", strange[i])], d)
    IN IF load.form # (IF f.kind = "fixed" THEN "fixed" ELSE "packed") THEN Stop(m, c)
       ELSE IF d.elements > MaxElements THEN Stop(m, c)
       ELSE IF f.count # None /\ Len(m.fields[n] \o known) > f.count THEN Stop(m, d)
       ELSE IF strange # << >> /\ ~r.ok THEN Stop(m, d)
       ELSE Proceed(Commit(s, r.message, n, m.fields[n] \o known), d)

(* One value of a repeated field                                            *)
MergeElement(s, m, n, payload, c) ==
    LET f == s[n]
        d == [c EXCEPT !.elements = @ + 1]
        Push(value, e) ==
            IF f.count # None /\ Len(m.fields[n]) >= f.count THEN Stop(m, e)
            ELSE Proceed(Commit(s, m, n, Append(m.fields[n], value)), e)
        r == ReadPartial(s, Blank(s), payload, d)
    IN IF d.elements > MaxElements THEN Stop(m, c)
       ELSE IF f.kind = "message" THEN IF r.ok THEN Push(r.message, r.ctx) ELSE Stop(m, r.ctx)
       ELSE IF f.kind = "string" THEN IF ReadString(payload) THEN Push(payload.items,
                                                                       d) ELSE Stop(m, d)
       ELSE IF ~Known(f.kind, payload) THEN AddUnknown(m, <<Rec(n, "VARINT", payload)>>, d)
       ELSE Push(payload, d)

MergeValue(s, m, n, payload, c) ==
    LET f == s[n] IN
    IF f.kind = "string"
    THEN IF ReadString(payload) THEN Proceed(Commit(s, m, n, Stored(f, payload.items)), c)
         ELSE Stop(m, c)
    ELSE IF ~Known(f.kind, payload) THEN AddUnknown(m, <<Rec(n, "VARINT", payload)>>, c)
    ELSE Proceed(Commit(s, m, n, Stored(f, payload)), c)
PartlyRead(s, m, n, payload, c) ==
    ReadPartial(s, IF m.fields[n] = << >> THEN Blank(s) ELSE m.fields[n][1], payload, c)
(* Faulty: a message is read in place.                                      *)
MergeMessageInPlace(s, m, n, r) == [r EXCEPT !.message = Commit(s, m, n, <<r.message>>)]
(* A message is read into a copy of the one the field has.                  *)
MergeMessage(s, m, n, r) ==
    IF r.ok THEN Proceed(Commit(s, m, n, <<r.message>>), r.ctx) ELSE Stop(m, r.ctx)
MergeSingle(s, m, n, payload, c) ==
    IF s[n].kind = "message" THEN MergeMessage(s, m, n, PartlyRead(s, m, n, payload, c))
    ELSE MergeValue(s, m, n, payload, c)

(* An entry of a map is a message of a key and a value; the last of each    *)
(* counts, and one whose value a closed enum does not know is unknown.      *)
NoEntry(s, f) ==
    [ok |-> TRUE, key |-> 0, value |-> IF f.value = "message" THEN Blank(s) ELSE 0,
     strange |-> FALSE]
ReadEntryField(s, f, entry, rec) ==
    LET r == ReadPartial(s, entry.value, rec.payload, entry.ctx)
        skipped == Skip(rec, entry.ctx)
    IN IF rec.number = 1 /\ rec.wire = "VARINT" THEN [entry EXCEPT !.key = rec.payload]
       ELSE IF rec.number = 2 /\ rec.wire = WireOf(f.value)
       THEN IF f.value = "message"
            THEN [entry EXCEPT !.ok = r.ok, !.ctx = r.ctx, !.value = r.message]
            ELSE IF Known(f.value, rec.payload)
            THEN [entry EXCEPT !.value = rec.payload, !.strange = FALSE]
            ELSE [entry EXCEPT !.strange = TRUE]
       ELSE [entry EXCEPT !.ok = skipped.ok, !.ctx = skipped.ctx]
MergeEntry(s, m, n, payload, c) ==
    LET f == s[n]
        d == [c EXCEPT !.entries = @ + 1]
        first == NoEntry(s, f) @@ [ctx |-> [d EXCEPT !.depth = @ + 1]]
        entry == FoldLeft(LAMBDA e, rec : IF e.ok THEN ReadEntryField(s, f, e, rec) ELSE e,
                          first, payload.items)
        left == [entry.ctx EXCEPT !.depth = @ - 1]
    IN IF d.entries > MaxEntries \/ c.depth >= RecursionLimit \/ payload.form # "fields"
       THEN Stop(m, c)
       ELSE IF ~entry.ok THEN Stop(m, left)
       ELSE IF entry.strange THEN AddUnknown(m, <<Rec(n, "LEN", payload)>>, left)
       ELSE Proceed(Commit(s, m, n, (entry.key :> entry.value) @@ m.fields[n]), left)

MergeField(s, m, rec, c) ==
    IF rec.wire = "CUT" THEN Stop(m, c)
    ELSE IF rec.number \notin DOMAIN s THEN ReadUnknown(m, rec, c)
    ELSE LET f == s[rec.number] IN
         IF rec.wire = "LEN" /\ Packable(f) THEN MergePacked(s, m, rec.number, rec.payload, c)
         ELSE IF rec.wire # WireOf(f.kind) THEN ReadUnknown(m, rec, c)
         ELSE IF f.kind = "map" THEN MergeEntry(s, m, rec.number, rec.payload, c)
         ELSE IF f.repeated THEN MergeElement(s, m, rec.number, rec.payload, c)
         ELSE MergeSingle(s, m, rec.number, rec.payload, c)
(* The limit on the bytes of a call is met at its outermost records.        *)
MergeFields(s, m, recs, c) ==
    FoldLeft(LAMBDA r, rec :
                 IF ~r.ok THEN r
                 ELSE IF c.depth = 0 /\ RecSize(rec) > r.ctx.left THEN Stop(r.message, r.ctx)
                 ELSE MergeField(s, r.message, rec,
                                 IF c.depth = 0 THEN [r.ctx EXCEPT !.left = @ - RecSize(rec)]
                                 ELSE r.ctx),
             Proceed(m, c), recs)

---------------------------------------------------------------------------
(* Writing *)

RECURSIVE Valid(_, _)
Valid(s, m) ==
    \A n \in DOMAIN s :
        LET f == s[n]
            values == m.fields[n]
        IN /\ f.required => values # << >>
           /\ f.count # None => Len(values) \in {0, f.count}
           /\ (f.kind = "message" \/ (f.kind = "map" /\ f.value = "message"))
                => \A i \in DOMAIN values : Valid(s, values[i])

RECURSIVE Serialize(_, _)
WriteValue(s, n, kind, value) ==
    Rec(n, WireOf(kind), CASE kind = "message" -> Load("fields", Serialize(s, value))
                           [] kind = "string" -> Load("text", value)
                           [] OTHER -> value)
WriteField(s, n, values) ==
    LET f == s[n] IN
    IF f.kind = "map"
    THEN LET keys == SetToSeq(DOMAIN values) IN
         [i \in DOMAIN keys |->
             Rec(n, "LEN", Load("fields", <<WriteValue(s, 1, "varint", keys[i]),
                                            WriteValue(s, 2, f.value, values[keys[i]])>>))]
    ELSE IF f.packed /\ values # << >>
    THEN <<Rec(n, "LEN", Load(IF f.kind = "fixed" THEN "fixed" ELSE "packed", values))>>
    ELSE [i \in DOMAIN values |-> WriteValue(s, n, f.kind, values[i])]
(* Faulty: what is unknown is not written.                                  *)
SerializeKnown(s, m) ==
    FlattenSeq([i \in DOMAIN Numbers(s) |-> WriteField(s, Numbers(s)[i], m.fields[Numbers(s)[i]])])
Serialize(s, m) ==
    FlattenSeq([i \in DOMAIN Numbers(s) |-> WriteField(s, Numbers(s)[i], m.fields[Numbers(s)[i]])])
        \o m.unknown

(* encoded_size adds up the fields without writing them.                    *)
RECURSIVE EncodedSize(_, _)
ValueSize(s, kind, value) ==
    CASE kind = "message" -> Delimited(EncodedSize(s, value))
      [] kind = "string" -> Delimited(Len(value))
      [] OTHER -> 1 + ScalarSize(kind, value)
FieldSize(s, f, values) ==
    IF f.kind = "map"
    THEN LET Entry(k) == ValueSize(s, "varint", k) + ValueSize(s, f.value, values[k])
             keys == SetToSeq(DOMAIN values)
         IN Sum([i \in DOMAIN keys |-> Delimited(Entry(keys[i]))])
    ELSE IF f.packed
    THEN IF values = << >> THEN 0
         ELSE Delimited(Sum([i \in DOMAIN values |-> ScalarSize(f.kind, values[i])]))
    ELSE Sum([i \in DOMAIN values |-> ValueSize(s, f.kind, values[i])])
EncodedSize(s, m) ==
    Sum([i \in DOMAIN Numbers(s) |-> FieldSize(s, s[Numbers(s)[i]], m.fields[Numbers(s)[i]])])
        + WireSize(m.unknown)

---------------------------------------------------------------------------
(* Calls *)

Context == [depth |-> nesting, elements |-> 0, entries |-> 0, left |-> MaxTotal,
            keep |-> codec.keep]
Inputs == UNION {[1 .. k -> codec.records] : k \in 0 .. MaxGiven - 1}
(* parse: a message that cannot be read whole, or is not valid, is reset.   *)
Parse ==
    /\ sent = None /\ (given = << >> \/ parsing = "merge failed")
    /\ \E recs \in Inputs :
          LET r == MergeFields(codec.schema, Blank(codec.schema), recs, Context)
              ok == r.ok /\ Valid(codec.schema, r.message)
          IN /\ given' = recs /\ nesting' = r.ctx.depth
             /\ held' = IF ok THEN r.message ELSE Blank(codec.schema)
             /\ parsing' = IF ok THEN "ok" ELSE "parse failed"
    /\ UNCHANGED <<codec, sent, measured>>
(* merge_from adds to the message, whether or not it can go on to the end.  *)
Merge ==
    /\ sent = None /\ parsing = "ok" /\ Len(given) < MaxGiven
    /\ \E rec \in codec.records :
          LET r == MergeFields(codec.schema, held, <<rec>>, Context) IN
          /\ given' = Append(given, rec) /\ nesting' = r.ctx.depth
          /\ held' = r.message
          /\ parsing' = IF r.ok /\ Valid(codec.schema, r.message) THEN "ok" ELSE "merge failed"
    /\ UNCHANGED <<codec, sent, measured>>
(* serialize and encoded_size refuse a message that is not valid.           *)
WriteMessage ==
    /\ sent = None /\ Valid(codec.schema, held)
    /\ sent' = Serialize(codec.schema, held)
    /\ measured' = EncodedSize(codec.schema, held)
    /\ UNCHANGED <<codec, held, given, nesting, parsing>>

CodecInit(scenarios) ==
    /\ codec \in scenarios /\ held = Blank(codec.schema) /\ given = << >>
    /\ sent = None /\ measured = 0 /\ nesting = 0 /\ parsing = "ok"
CodecNext == Parse \/ Merge \/ WriteMessage
============================================================================
