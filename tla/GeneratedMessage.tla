-------------------------- MODULE GeneratedMessage --------------------------
(***************************************************************************)
(* The objects that cpp.py generates for messages: accessors, ensure,      *)
(* oneofs, move, copy_from and clone, over contexts whose allocations may  *)
(* fail.  Every call is given fuel, the allocations that still succeed.    *)
(***************************************************************************)
EXTENDS Absent, Integers, Sequences
LOCAL INSTANCE SequencesExt

CONSTANTS
    Objects,              \* the names of whole messages
    ObjectScenarios,      \* of types, contexts, unknown fields, earlier calls and how many follow
    Fuels,                \* bound: allocations that succeed in one call
    MaxNesting            \* bound: steps from a message to one in it

VARIABLES
    types,   \* the fields of each message type, in their order
    heap,    \* each whole message, or None before its construction
    call     \* the last call, its operands, whether it succeeded, and how many may follow

objVars == <<types, heap, call>>

(* A fixed array of bytes takes one size, a closed enum its enumerators.    *)
Admits(f, value) ==
    /\ f.kind = "enum" => value \in {0, 1}
    /\ f.kind = "fixed" => value # "short"
Cost(f, value) == IF f.kind = "text" /\ value # "" THEN 1 ELSE 0

Ok(it, fuel) == [ok |-> TRUE, it |-> it, fuel |-> fuel]
Err(it, fuel) == [ok |-> FALSE, it |-> it, fuel |-> fuel]

---------------------------------------------------------------------------
(* Construction, destruction and clearing.  A cell holds the value of a     *)
(* field, the presence flag and the context its storage is from; in a oneof *)
(* only the cell of the case is alive.                                      *)

EmptyOf(f) ==
    CASE f.kind \in {"scalar", "enum"} -> 0
      [] f.kind = "text" -> ""
      [] f.kind = "list" -> << >>
      [] f.kind \in {"message", "fixed"} -> None
Owning(f) == f.kind \in {"text", "list"} \/ (f.kind = "message" /\ f.boxed)
Cell(f, c, value, has) == [ctx |-> IF Owning(f) THEN c ELSE None, value |-> value, has |-> has]
Constructed(type, c) ==
    [type |-> type, ctx |-> c, unknown |-> Cell([kind |-> "text"], c, "", FALSE),
     cells |-> [n \in DOMAIN types[type] |->
        IF types[type][n].oneof = None
        THEN Cell(types[type][n], c, EmptyOf(types[type][n]), FALSE) ELSE None],
     case |-> [o \in {types[type][n].oneof : n \in DOMAIN types[type]} \ {None} |-> 0]]
Field(m, n) == types[m.type][n]
NumbersIn(m, o) == {n \in DOMAIN m.cells : Field(m, n).oneof = o}

(* Faulty: the message keeps the context it had.                            *)
ResetForReuseUnbound(m, c) == Constructed(m.type, m.ctx)
(* reset_for_reuse: destroyed, and constructed again with this context.     *)
ResetForReuse(m, c) == Constructed(m.type, c)
ClearOneof(m, o) ==
    [m EXCEPT !.cells = [n \in DOMAIN @ |-> IF n \in NumbersIn(m, o) THEN None ELSE @[n]],
              !.case[o] = 0]
Clear(m, n) ==
    [m EXCEPT !.cells[n].value = EmptyOf(Field(m, n)), !.cells[n].has = FALSE]
(* A cell of a oneof is constructed when no other is alive, and then named. *)
Place(m, n, cell) ==
    LET o == Field(m, n).oneof IN
    IF o = None THEN [m EXCEPT !.cells[n] = cell]
    ELSE [ClearOneof(m, o) EXCEPT !.cells[n] = cell, !.case[o] = n]

---------------------------------------------------------------------------
(* Accessors *)

(* set_: a text is assigned to a temporary first and then moved.            *)
SetValue(m, n, value, fuel) ==
    LET f == Field(m, n) IN
    IF ~Admits(f, value) \/ Cost(f, value) > fuel THEN Err(m, fuel)
    ELSE Ok(Place(m, n, Cell(f, m.ctx, value, f.presence)), fuel - Cost(f, value))

(* ensure_: a box allocates its message from its own context; the case of a *)
(* oneof is given up before that.                                           *)
Ensure(m, n, fuel) ==
    LET f == Field(m, n)
        o == f.oneof
        here == o # None => m.case[o] = n
        c == IF f.boxed /\ o = None THEN m.cells[n].ctx ELSE m.ctx
    IN IF here /\ m.cells[n].value # None THEN Ok(m, fuel)
       ELSE IF f.boxed /\ fuel = 0 THEN Err(IF here THEN m ELSE ClearOneof(m, o), fuel)
       ELSE Ok(Place(m, n, Cell(f, c, Constructed(f.type, c), FALSE)),
               IF f.boxed THEN fuel - 1 ELSE fuel)

(* mutable_ makes a text present before anything is assigned to it, and     *)
(* fixed bytes zero.                                                        *)
Opened(m, n) ==
    CASE Field(m, n).kind = "text" /\ Field(m, n).presence -> [m EXCEPT !.cells[n].has = TRUE]
      [] Field(m,
               n).kind = "fixed" /\ m.cells[n].value = None -> [m EXCEPT !.cells[n].value = "zeros"]
      [] OTHER -> m
(* resize_for_overwrite, which leaves new bytes as they are in memory.      *)
Resized(m, n, fits) ==
    IF ~fits THEN Err(m, 0)
    ELSE Ok([m EXCEPT !.cells[n].value = IF @ = None THEN "raw" ELSE @], 0)

(* An element is added to a mutable_ list, which may have room for it.      *)
AddElement(m, n, value, fuel, room) ==
    LET f == Field(m, n)
        cost == (IF room THEN 0 ELSE 1) + IF f.type = None /\ value # "" THEN 1 ELSE 0
        element == IF f.type = None THEN value ELSE Constructed(f.type, m.ctx)
    IN IF cost > fuel THEN Err(m, fuel)
       ELSE Ok([m EXCEPT !.cells[n].value = Append(@, element)], fuel - cost)

---------------------------------------------------------------------------
(* Moving and copying *)

(* Faulty: the presence flags stay those of the destination.                *)
MovedIntoUnflagged(m, other) ==
    [other EXCEPT !.cells = [n \in DOMAIN @ |->
        IF None \in {@[n], m.cells[n]} THEN @[n] ELSE [@[n] EXCEPT !.has = m.cells[n].has]]]
MovedInto(m, other) ==
    [m EXCEPT !.ctx = other.ctx, !.unknown = other.unknown, !.cells = other.cells,
              !.case = other.case]
(* What is left of the source: scalars and flags, and no case.              *)
MovedFrom(m) ==
    [m EXCEPT
        !.unknown.value = "", !.case = [o \in DOMAIN @ |-> 0],
        !.cells = [n \in DOMAIN @ |->
            IF Field(m, n).oneof # None THEN None
            ELSE IF Field(m, n).kind \in {"scalar", "enum"} THEN @[n]
            ELSE [@[n] EXCEPT !.value = EmptyOf(Field(m, n))]]]

RECURSIVE CopyInPlace(_, _, _)
(* copy_from with a staging message of its own, which the caller may lend.  *)
Staged(m, source, fuel) == CopyInPlace(ResetForReuse(m, m.ctx), source, fuel)
(* Faulty: what was copied so far is taken over.                            *)
TakenOverAnyway(m, r) == [r EXCEPT !.it = MovedInto(m, r.it)]
TakenOver(m, r) == IF r.ok THEN Ok(MovedInto(m, r.it), r.fuel) ELSE Err(m, r.fuel)
CopyFrom(m, source, fuel) == TakenOver(m, Staged(m, source, fuel))

CopyElement(f, c, value, fuel) ==
    IF f.type # None THEN CopyFrom(Constructed(f.type, c), value, fuel)
    ELSE IF value # "" /\ fuel = 0 THEN Err(value, fuel)
    ELSE Ok(value, IF value = "" THEN fuel ELSE fuel - 1)
Pushed(items, e) == [e EXCEPT !.it = IF e.ok THEN Append(items, @) ELSE items]
(* A container is copied into another one, which then takes its place.      *)
Exchanged(m, n, all) ==
    IF all.ok THEN Ok([m EXCEPT !.cells[n].value = all.it], all.fuel) ELSE Err(m, all.fuel)
CopyList(m, n, items, fuel) ==
    LET AddCopy(r, value) ==
            IF r.ok THEN Pushed(r.it,
                                CopyElement(Field(m, n), m.cells[n].ctx, value, r.fuel)) ELSE r
    IN IF items = << >> THEN Ok(Clear(m, n), fuel)
       ELSE IF fuel = 0 THEN Err(m, fuel)
       ELSE Exchanged(m, n, FoldLeft(AddCopy, Ok(<< >>, fuel - 1), items))
(* The message is ensured first, and then copied into.                      *)
Within(m, n, r) == [r EXCEPT !.it = [m EXCEPT !.cells[n].value = r.it]]
CopyMessage(n, ensured, source) ==
    IF ~ensured.ok THEN ensured
    ELSE Within(ensured.it, n, CopyFrom(ensured.it.cells[n].value, source, ensured.fuel))
HasValue(f, cell) ==
    /\ f.kind \in {"message", "fixed"} => cell.value # None
    /\ f.presence => cell.has
CopyField(m, n, source, fuel) ==
    LET f == Field(m, n)
        cell == source.cells[n]
    IN IF f.oneof # None /\ source.case[f.oneof] # n
       THEN Ok(IF source.case[f.oneof] = 0 THEN ClearOneof(m, f.oneof) ELSE m, fuel)
       ELSE IF f.kind = "list" THEN CopyList(m, n, cell.value, fuel)
       ELSE IF ~HasValue(f, cell) THEN Ok(Clear(m, n), fuel)
       ELSE IF f.kind = "message" THEN CopyMessage(n, Ensure(m, n, fuel), cell.value)
       ELSE SetValue(m, n, cell.value, fuel)
CopyUnknown(r, source) ==
    IF ~r.ok \/ source.unknown.value = "" THEN r
    ELSE IF r.fuel = 0 THEN Err(r.it, r.fuel)
    ELSE Ok([r.it EXCEPT !.unknown.value = source.unknown.value], r.fuel - 1)
(* copy_from_in_place: the fields in their order, the oneofs after them, and *)
(* what is unknown, until one fails.                                        *)
FieldOrder(m) ==
    LET numbers == [n \in DOMAIN m.cells |-> n] IN
    SelectSeq(numbers, LAMBDA n : Field(m, n).oneof = None)
        \o SelectSeq(numbers, LAMBDA n : Field(m, n).oneof # None)
CopyInPlace(m, source, fuel) ==
    CopyUnknown(FoldLeft(LAMBDA r, n : IF r.ok THEN CopyField(r.it, n, source, r.fuel) ELSE r,
                         Ok(m, fuel), FieldOrder(m)), source)

---------------------------------------------------------------------------
(* Calls.  A message is reached from a whole one by fields and, in lists,   *)
(* positions.                                                               *)

RECURSIVE Inner(_), Part(_, _), WithPart(_, _, _)
Links(m) ==
    {<<n, 0>> : n \in {k \in DOMAIN m.cells : /\ Field(m, k).kind = "message"
                                              /\ m.cells[k] # None /\ m.cells[k].value # None}}
    \cup UNION {{<<n, i>> : i \in DOMAIN m.cells[n].value} :
                  n \in {k \in DOMAIN m.cells : Field(m, k).kind = "list"
                                                  /\ Field(m, k).type # None}}
Below(m, s) == IF s[2] = 0 THEN m.cells[s[1]].value ELSE m.cells[s[1]].value[s[2]]
Inner(m) == {<< >>} \cup UNION {{<<s>> \o p : p \in Inner(Below(m, s))} : s \in Links(m)}
Part(m, path) == IF path = << >> THEN m ELSE Part(Below(m, Head(path)), Tail(path))
WithPart(m, path, new) ==
    IF path = << >> THEN new
    ELSE LET s == Head(path)
             inner == WithPart(Below(m, s), Tail(path), new)
         IN IF s[2] = 0 THEN [m EXCEPT !.cells[s[1]].value = inner]
            ELSE [m EXCEPT !.cells[s[1]].value[s[2]] = inner]
Whole == {v \in Objects : heap[v] # None}
Reachable == UNION {{[root |-> v, path |-> p] : p \in Inner(heap[v])} : v \in Whole}
MessageAt(p) == Part(heap[p.root], p.path)
AtWhole(v) == [root |-> v, path |-> << >>]
Replaced(p, new) == [heap EXCEPT ![p.root] = WithPart(@, p.path, new)]

Call(op, to, from, staging, ok) ==
    /\ call.left > 0
    /\ call' = [op |-> op, to |-> to, from |-> from, staging |-> staging, ok |-> ok,
                left |-> call.left - 1]
    /\ UNCHANGED types
Changed(op, p, r) == heap' = Replaced(p, r.it) /\ Call(op, p, None, None, r.ok)

Assignable(f) ==
    CASE f.kind = "scalar" -> {1}
      [] f.kind = "enum" -> {1, 2}
      [] f.kind = "text" -> {"", "a"}
      [] f.kind = "fixed" -> {"bytes", "short"}
      [] OTHER -> {}
SetField == \E p \in Reachable, fuel \in {0, 1} : \E n \in DOMAIN MessageAt(p).cells :
    \E value \in Assignable(Field(MessageAt(p), n)) : Changed("set", p,
                                                              SetValue(MessageAt(p), n, value,
                                                                       fuel))
EnsureField == \E p \in Reachable, fuel \in {0, 1} : \E n \in DOMAIN MessageAt(p).cells :
    /\ Field(MessageAt(p), n).kind = "message" /\ Len(p.path) < MaxNesting
    /\ Changed("ensure", p, Ensure(MessageAt(p), n, fuel))
AddToList == \E p \in Reachable, fuel \in 0 .. 2, room \in BOOLEAN :
    \E n \in DOMAIN MessageAt(p).cells :
    /\ Field(MessageAt(p),
             n).kind = "list" /\ MessageAt(p).cells[n].value = << >> /\ Len(p.path) < MaxNesting
    /\ Changed("add", p, AddElement(MessageAt(p), n, "a", fuel, room))
ClearField == \E p \in Reachable : \E n \in DOMAIN MessageAt(p).cells :
    /\ Field(MessageAt(p), n).oneof = None /\ MessageAt(p).cells[n] # Clear(MessageAt(p),
                                                                            n).cells[n]
    /\ Changed("clear", p, Ok(Clear(MessageAt(p), n), 0))
ClearCase == \E p \in Reachable : \E o \in DOMAIN MessageAt(p).case :
    /\ MessageAt(p).case[o] # 0 /\ Changed("clear", p, Ok(ClearOneof(MessageAt(p), o), 0))
MutableField == \E p \in Reachable : \E n \in DOMAIN MessageAt(p).cells :
    /\ Opened(MessageAt(p), n) # MessageAt(p)
    /\ Changed("mutable", p, Ok(Opened(MessageAt(p), n), 0))
ResizeField == \E p \in Reachable, fits \in BOOLEAN : \E n \in DOMAIN MessageAt(p).cells :
    /\ Field(MessageAt(p), n).kind = "fixed" /\ Changed("resize", p, Resized(MessageAt(p), n, fits))

(* copy_from, also of a message that is part of the destination or that it  *)
(* is part of.                                                              *)
Ended(op, p, q, r) == heap' = Replaced(p, r.it) /\ Call(op, p, q, None, r.ok)
Copy == \E p, q \in Reachable, fuel \in Fuels :
    /\ MessageAt(p).type = MessageAt(q).type
    /\ Ended("copy", p, q, IF p = q THEN Ok(MessageAt(p), fuel)
                           ELSE CopyFrom(MessageAt(p), MessageAt(q), fuel))
(* copy_from with the caller's staging message, of any context; one that is *)
(* an operand itself is refused.                                            *)
EndedThrough(p, q, v, r) ==
    /\ heap' = IF r.ok
               THEN [Replaced(p, MovedInto(MessageAt(p), r.it)) EXCEPT ![v] = MovedFrom(r.it)]
               ELSE [heap EXCEPT ![v] = ResetForReuse(@, MessageAt(p).ctx)]
    /\ Call("copy", p, q, v, r.ok)
CopyThrough == \E p, q \in Reachable, v \in Whole :
    /\ MessageAt(p).type = MessageAt(q).type /\ heap[v].type = MessageAt(p).type /\ p # q
    /\ \/ AtWhole(v) \in {p, q} /\ UNCHANGED heap /\ Call("copy", p, q, v, FALSE)
       \/ /\ v \notin {p.root, q.root}
          /\ \E fuel \in Fuels :
                EndedThrough(p, q, v, CopyInPlace(ResetForReuse(heap[v], MessageAt(p).ctx),
                                                  MessageAt(q), fuel))
(* clone(output) resets the output, which keeps its context, first.         *)
Cloned(m, r) == IF r.ok THEN r ELSE [r EXCEPT !.it = ResetForReuse(m, m.ctx)]
Clone == \E p, q \in Reachable, fuel \in Fuels :
    /\ MessageAt(p).type = MessageAt(q).type /\ p.root # q.root
    /\ Ended("clone", p, q, Cloned(MessageAt(p), Staged(MessageAt(p), MessageAt(q), fuel)))
(* Move construction and assignment of whole messages, and destruction.     *)
MoveWhole == \E v \in Objects, w \in Whole :
    /\ v # w /\ (v \in Whole => heap[v].type = heap[w].type)
    /\ heap' = [heap EXCEPT ![v] = IF v \in Whole THEN MovedInto(@, heap[w]) ELSE heap[w],
                            ![w] = MovedFrom(@)]
    /\ Call("move", AtWhole(v), None, None, TRUE)
Destroy == \E v \in Whole :
    heap' = [heap EXCEPT ![v] = None] /\ Call("destroy", AtWhole(v), None, None, TRUE)

(* Messages are found after some calls to them.                             *)
Made(m, step) ==
    LET f == Field(m, step[1]) IN
    CASE f.kind = "message" -> Ensure(m, step[1], 1).it
      [] f.kind = "list" -> AddElement(m, step[1], step[2], 2, FALSE).it
      [] OTHER -> SetValue(m, step[1], step[2], 1).it
AfterCalls(m, steps) ==
    FoldLeft(LAMBDA it, s : WithPart(it, s.path, Made(Part(it, s.path), s.step)), m, steps)
ObjectInit(S) == \E s \in S :
    /\ types = s.types
    /\ heap = [v \in Objects |->
          IF v \notin DOMAIN s.bound THEN None
          ELSE AfterCalls([Constructed("Node", s.bound[v]) EXCEPT !.unknown.value = s.unknown],
                          s.made[v])]
    /\ call = [op |-> "none", to |-> None, from |-> None, staging |-> None, ok |-> TRUE,
               left |-> s.calls]
ObjectNext ==
    \/ SetField \/ EnsureField \/ AddToList \/ ClearField \/ ClearCase \/ MutableField
    \/ ResizeField
    \/ Copy \/ CopyThrough \/ Clone \/ MoveWhole \/ Destroy
============================================================================
