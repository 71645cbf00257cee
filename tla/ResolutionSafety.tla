-------------------------- MODULE ResolutionSafety --------------------------
(* What the resolution of constants promises, whatever the order in which  *)
(* they are declared.                                                       *)
EXTENDS ConstantResolution, FiniteSets

(* The scopes a message names without saying so, and the constant of the    *)
(* innermost one.                                                           *)
Around(message) ==
    {schema.messages[message]}
    \cup {m \in DOMAIN schema.messages : \E n \in 0 .. Len(message) : m = SubSeq(message, 1, n)}
Innermost(c, name) ==
    LET found == {d \in Constants : d.scope \in Around(c.scope) /\ d.name = name} IN
    IF found = {} THEN None
    ELSE CHOOSE d \in found : \A e \in found : Len(e.scope) <= Len(d.scope)
(* A qualified name is that of a constant from the root or, of a message,   *)
(* from the package of the one that uses it, unless the root has a message  *)
(* of that name.                                                            *)
Qualified(c, path) ==
    LET Has(d, full) == d.scope \o <<d.name>> = full
        root == {d \in Constants : Has(d, path)}
        relative == {d \in Constants : /\ d.scope \in DOMAIN schema.messages
                                       /\ Has(d, schema.messages[c.scope] \o path)}
    IN IF root # {} THEN CHOOSE d \in root : TRUE
       ELSE IF relative # {} /\ Initial(path) \notin DOMAIN schema.messages
            THEN CHOOSE d \in relative : TRUE ELSE None
Meant(c, path) ==
    IF c.scope \in schema.packages
    THEN LET scope == IF Len(path) = 1 THEN c.scope ELSE Initial(path)
             found == {d \in Constants : d.scope = scope /\ d.name = Final(path)}
         IN IF found = {} \/ scope \notin schema.packages THEN None
            ELSE CHOOSE d \in found : TRUE
    ELSE IF Len(path) = 1 THEN Innermost(c, path[1]) ELSE Qualified(c, path)
Needs(c) == {Meant(c, schema.uses[c][i]) : i \in DOMAIN schema.uses[c]}

(* A chain of more constants than allowed: a cycle has chains of any length *)
Chains == [1 .. MaxDepth + 1 -> Constants]
TooDeep == \E chain \in Chains : \A i \in 1 .. MaxDepth : chain[i + 1] \in Needs(chain[i])
SomeUnknown == \E c \in Constants : None \in Needs(c)

(* The constants of a schema are resolved if and only if every name means a *)
(* constant and no chain of them is too long; a schema that is refused has  *)
(* the fault it is refused for.                                             *)
VerdictExact ==
    /\ verdict = "resolved" => ~SomeUnknown /\ ~TooDeep
    /\ verdict = "unknown" => SomeUnknown
    /\ verdict \in {"cycle", "deep"} => TooDeep

(* A constant is evaluated after every one it needs, and none of those      *)
(* under evaluation is needed by what is done.                              *)
NeededFirst ==
    \A c \in DOMAIN done :
        /\ Needs(c) \subseteq DOMAIN done
        /\ \A d \in Needs(c) : done[d] < done[c]

(* A resolution that has begun comes to a verdict.                          *)
ResolutionEnds == (stack # << >> \/ done # << >>) ~> verdict # None

(* The verdict and the values do not depend on what is declared first.      *)
ResolutionExact == VerdictExact /\ NeededFirst
============================================================================
