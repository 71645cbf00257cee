--------------------------- MODULE MessageSafety ---------------------------
(* What the user of a generated message may rely on, allocation by          *)
(* allocation.                                                              *)
EXTENDS GeneratedMessage

(* What accessors show of a message: not whose memory it is in.             *)
RECURSIVE Shown(_)
Shown(m) ==
    [case |-> m.case, unknown |-> m.unknown.value,
     fields |-> [n \in DOMAIN m.cells |->
        LET f == Field(m, n)
            cell == m.cells[n]
        IN IF cell = None THEN << >>
           ELSE IF f.kind = "message"
                THEN IF cell.value = None THEN << >> ELSE <<Shown(cell.value)>>
           ELSE IF f.kind = "list" /\ f.type # None
                THEN [i \in DOMAIN cell.value |-> Shown(cell.value[i])]
           ELSE <<cell.value, f.presence /\ cell.has>>]]

(* A copy that succeeds shows what its source showed, all of it and nothing *)
(* else, also when one is part of the other; what is no operand is as it    *)
(* was.                                                                     *)
CopiesAll ==
    [][call'.left < call.left /\ call'.ok /\ call'.op \in {"copy", "clone"} =>
        /\ Shown(MessageAt(call.to))' = Shown(MessageAt(call'.from))
        /\ \A v \in Objects \ {call'.to.root, call'.staging} :
              heap[v] # None => Shown(heap[v])' = Shown(heap[v])]_objVars

(* A call that fails leaves its destination, its source and everything else *)
(* as they were; only a clone leaves an empty output of the output's        *)
(* context, a staging message is empty, and a oneof whose new message could *)
(* not be allocated has lost its previous case.                             *)
FailureKeeps ==
    [][call'.left < call.left /\ ~call'.ok =>
        LET before == MessageAt(call'.to)
            after == MessageAt(call.to)'
        IN /\ \/ after = before
              \/ call'.op = "clone" /\ after = Constructed(before.type, before.ctx)
              \/ call'.op = "ensure" /\ \E o \in DOMAIN before.case : after = ClearOneof(before, o)
           /\ heap'[call'.to.root] = Replaced(call'.to, after)[call'.to.root]
           /\ \A v \in Objects \ {call'.to.root} :
                 \/ heap'[v] = heap[v]
                 \/ v = call'.staging /\ heap'[v] = Constructed(before.type, before.ctx)]_objVars

(* All that a message holds is from its own context, however it was copied, *)
(* cloned, moved or failed; a oneof has the one member that its case names; *)
(* and a field that is not present has nothing that an accessor shows.      *)
ObjectsSound ==
    \A p \in Reachable :
        LET m == MessageAt(p) IN
        /\ m.unknown.ctx = m.ctx
        /\ \A n \in DOMAIN m.cells :
              LET f == Field(m, n)
                  cell == m.cells[n]
              IN /\ f.oneof # None => (cell # None <=> m.case[f.oneof] = n)
                 /\ cell # None =>
                       /\ Owning(f) => cell.ctx = m.ctx
                       /\ f.presence /\ ~cell.has => cell.value = EmptyOf(f)
                       /\ f.kind = "message" /\ f.oneof # None => cell.value # None
        /\ \A s \in Links(m) : Below(m, s).ctx = m.ctx
============================================================================
