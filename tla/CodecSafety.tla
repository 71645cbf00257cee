---------------------------- MODULE CodecSafety ----------------------------
(* What a sequence of records means for each field, whatever the order in   *)
(* which they are read, and what the generated code promises of it.         *)
EXTENDS MessageCodec
LOCAL INSTANCE SequencesExt

AsField(s, rec) ==
    /\ rec.number \in DOMAIN s
    /\ \/ rec.wire = WireOf(s[rec.number].kind)
       \/ rec.wire = "LEN" /\ Packable(s[rec.number])
(* A record that holds a value which no field can take.                     *)
StrangeEntry(f, rec) ==
    LET values == SelectSeq(rec.payload.items,
                            LAMBDA x : x.number = 2 /\ x.wire = WireOf(f.value)) IN
    values # << >> /\ f.value = "enum" /\ values[Len(values)].payload \notin EnumValues
StrangeValue(s, rec) ==
    LET f == s[rec.number] IN
    IF f.kind = "map" THEN StrangeEntry(f, rec)
    ELSE f.kind = "enum" /\ rec.wire = "VARINT" /\ rec.payload \notin EnumValues
Ours(s, recs) == SelectSeq(recs, LAMBDA rec : AsField(s, rec) /\ ~StrangeValue(s, rec))
LastOf(seq, default) == IF seq = << >> THEN default ELSE seq[Len(seq)]

RECURSIVE Denotes(_, _, _)
Values(s, n, rec) ==
    IF rec.wire # "LEN" THEN <<rec.payload>>
    ELSE IF Packable(s[n]) THEN SelectSeq(rec.payload.items, LAMBDA v : Known(s[n].kind, v))
    ELSE <<rec.payload.items>>
Pieces(recs) == FlattenSeq([i \in DOMAIN recs |-> recs[i].payload.items])
(* The records of a field that count: of a oneof only those after the last  *)
(* record of another of its fields.                                         *)
Relevant(s, n, recs) ==
    LET ours == Ours(s, recs)
        rivals == {i \in DOMAIN ours : /\ ours[i].number # n /\ s[n].oneof # None
                                       /\ s[ours[i].number].oneof = s[n].oneof}
        start == IF rivals = {} THEN 1 ELSE 1 + CHOOSE i \in rivals : \A j \in rivals : j <= i
    IN SelectSeq(SubSeq(ours, start, Len(ours)), LAMBDA rec : rec.number = n)
EntryKey(rec) ==
    LET keys == SelectSeq(rec.payload.items, LAMBDA x : x.number = 1 /\ x.wire = "VARINT") IN
    IF keys = << >> THEN 0 ELSE keys[Len(keys)].payload
EntryValue(s, f, rec, keep) ==
    LET values == SelectSeq(rec.payload.items, LAMBDA x : x.number = 2 /\ x.wire = WireOf(f.value))
        known == SelectSeq(values, LAMBDA x : f.value # "enum" \/ x.payload \in EnumValues)
    IN IF f.value = "message" THEN Denotes(s, Pieces(known), keep)
       ELSE IF known = << >> THEN 0 ELSE known[Len(known)].payload
FieldOf(s, n, recs, keep) ==
    LET f == s[n]
        mine == Relevant(s, n, recs)
    IN IF f.kind = "map"
       THEN LET Latest(k) == LastOf(SelectSeq(mine, LAMBDA rec : EntryKey(rec) = k), None)
                keys == {EntryKey(mine[i]) : i \in DOMAIN mine}
            IN [k \in keys |-> EntryValue(s, f, Latest(k), keep)]
       ELSE IF f.repeated /\ f.kind = "message"
       THEN [i \in DOMAIN mine |-> Denotes(s, mine[i].payload.items, keep)]
       ELSE IF f.repeated THEN FlattenSeq([i \in DOMAIN mine |-> Values(s, n, mine[i])])
       ELSE IF mine = << >> THEN << >>
       ELSE IF f.kind = "message" THEN <<Denotes(s, Pieces(mine), keep)>>
       ELSE Stored(f, Values(s, n, mine[Len(mine)])[1])
(* A packed field leaves a record for each value that is unknown.           *)
Leftover(s, rec) ==
    IF ~AsField(s, rec) \/ StrangeValue(s, rec) THEN <<rec>>
    ELSE IF rec.wire = "LEN" /\ Packable(s[rec.number])
    THEN LET strange == SelectSeq(rec.payload.items, LAMBDA v : ~Known(s[rec.number].kind, v)) IN
         [i \in DOMAIN strange |-> Rec(rec.number, "VARINT", strange[i])]
    ELSE << >>
Denotes(s, recs, keep) ==
    [fields |-> [n \in DOMAIN s |-> FieldOf(s, n, recs, keep)],
     unknown |-> IF keep THEN FlattenSeq([i \in DOMAIN recs |-> Leftover(s, recs[i])]) ELSE << >>]

(* How many values of repeated fields a message has, nested ones included.  *)
RECURSIVE Elements(_, _)
Elements(s, m) ==
    LET Nested(values) ==
            LET keys == SetToSeq(DOMAIN values) IN
            FoldLeft(+, 0, [i \in DOMAIN keys |-> Elements(s, values[keys[i]])])
        Of(n) == (IF s[n].repeated THEN Len(m.fields[n]) ELSE 0)
                 + IF s[n].kind = "message" \/ (s[n].kind = "map" /\ s[n].value = "message")
                   THEN Nested(m.fields[n]) ELSE 0
    IN FoldLeft(+, 0, [i \in DOMAIN Numbers(s) |-> Of(Numbers(s)[i])])

(* A message that was read has in each field what all the records say: the  *)
(* last value, the parts of a message together, every element in order, the *)
(* last entry of each key, one field of a oneof, and what is unknown.  A    *)
(* merge that fails leaves what whole records said: there is a number of    *)
(* records it took, and nothing of the one it failed on.                    *)
ReadsMeaning ==
    /\ parsing = "ok" => held = Denotes(codec.schema, given, codec.keep)
    /\ parsing = "merge failed" =>
          \E k \in 0 .. Len(given) :
              /\ \A i \in 1 .. k : given[i].wire # "CUT"
              /\ held = Denotes(codec.schema, SubSeq(given, 1, k), codec.keep)

(* What is written means the message it was written from, and is as long as *)
(* its size was announced to be.                                            *)
WireAgrees ==
    [][sent' # sent => /\ Denotes(codec.schema, sent', codec.keep) = held'
                       /\ measured' = WireSize(sent')]_codecVars

(* Every call, failed or not, gives back the recursion depth it took, and   *)
(* adds no more elements than it may, all nested messages together.         *)
LimitsKept ==
    [][/\ nesting' = 0
       /\ Elements(codec.schema, held') <= Elements(codec.schema, held) + MaxElements]_codecVars
============================================================================
