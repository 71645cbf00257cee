------------------------- MODULE ConstantResolution -------------------------
(***************************************************************************)
(* How model.py resolves the constants of a schema: it evaluates them one  *)
(* after the other, each by parsing its expression, which resolves every   *)
(* constant it names on the way, once and for all.  What an expression is  *)
(* worth is ConstantExpressions'; here it is the sequence of the names it  *)
(* holds.  A name, a package and a message are paths of identifiers.       *)
(***************************************************************************)
EXTENDS Absent, Integers, Sequences

CONSTANTS
    Schemas,    \* of packages, messages (with their package) and constants (with the names they use)
    MaxDepth    \* _MAX_CONSTANT_DEPENDENCY_DEPTH

(* A schema as protoc hands it over: what is around a message, up to its    *)
(* package, are messages, and nothing is a package and a message.           *)
WellFormed(s) ==
    LET messages == DOMAIN s.messages
    IN /\ s.packages \cup messages \subseteq Seq(STRING) /\ s.packages \cap messages = {}
       /\ \A m \in messages :
             LET package == s.messages[m]
             IN /\ package \in s.packages
                /\ Len(package) < Len(m) /\ SubSeq(m, 1, Len(package)) = package
                /\ \A n \in 0 .. Len(m) : SubSeq(m, 1, n) \in messages <=> n > Len(package)
       /\ \A c \in DOMAIN s.uses :
             /\ c \in [scope : s.packages \cup messages, name : STRING]
             /\ s.uses[c] \in Seq(Seq(STRING) \ {<< >>})
ASSUME ResolutionAssumption ==
    /\ MaxDepth \in Nat \ {0}
    /\ \A s \in Schemas : WellFormed(s) /\ None \notin DOMAIN s.uses
    /\ None \notin {"resolved", "unknown", "cycle", "deep"}

VARIABLES
    schema,     \* one of Schemas
    done,       \* the depth of each resolved constant
    stack,      \* the constants being resolved: the next name of each, and its deepest dependency
    verdict     \* how the resolution ended, or None

resVars == <<schema, done, stack, verdict>>

Constant(scope, name) == [scope |-> scope, name |-> name]
Constants == DOMAIN schema.uses
Initial(path) == SubSeq(path, 1, Len(path) - 1)
Final(path) == path[Len(path)]
Deeper(m, n) == IF n > m THEN n ELSE m
Declared(scopes, scope, name) ==
    IF scope \in scopes /\ Constant(scope, name) \in Constants THEN Constant(scope, name) ELSE None

---------------------------------------------------------------------------
(* Scopes *)

(* The constant a simple name has in a message, in one around it or in      *)
(* their package.                                                           *)
Climb(package, scope, name) ==
    LET found[n \in 0 .. Len(scope)] ==
            IF SubSeq(scope, 1, n) \notin DOMAIN schema.messages
            THEN Declared(schema.packages, package, name)
            ELSE LET own == Declared(DOMAIN schema.messages, SubSeq(scope, 1, n), name) IN
                 IF own # None THEN own ELSE found[n - 1]
    IN found[Len(scope)]
(* A message that exists is not looked for again below the package of the   *)
(* one that names it.                                                       *)
FindMessageConstant(package, scope, name) ==
    IF scope \in DOMAIN schema.messages THEN Declared(DOMAIN schema.messages, scope, name)
    ELSE Declared(DOMAIN schema.messages, package \o scope, name)
FindConstant(message, path) ==
    LET package == schema.messages[message] IN
    IF Len(path) = 1 THEN Climb(package, message, path[1])
    ELSE LET ofPackage == Declared(schema.packages, Initial(path), Final(path)) IN
         IF ofPackage # None THEN ofPackage
         ELSE FindMessageConstant(package, Initial(path), Final(path))
LookupPackageConstant(package, path) ==
    Declared(schema.packages, IF Len(path) = 1 THEN package ELSE Initial(path), Final(path))
Lookup(c, path) ==
    IF c.scope \in DOMAIN schema.messages THEN FindConstant(c.scope, path)
    ELSE LookupPackageConstant(c.scope, path)

---------------------------------------------------------------------------
(* Resolution *)

Active == {stack[i].constant : i \in DOMAIN stack}
Top == stack[Len(stack)]
Resolve(c) == Append(stack, [constant |-> c, next |-> 1, deepest |-> 0])
(* Faulty: the depth of a dependency is not recorded.                       *)
AdvanceUnrecorded(frames, depth) == [frames EXCEPT ![Len(frames)].next = @ + 1]
(* The name at which the last frame stands is resolved, with this depth.    *)
Advance(frames, depth) ==
    [frames EXCEPT ![Len(frames)].next = @ + 1, ![Len(frames)].deepest = Deeper(@, depth)]
RefuseSchema(v) == verdict' = v /\ stack' = << >> /\ UNCHANGED <<schema, done>>

ConstantsOf(scopes) == {c \in Constants \ DOMAIN done : c.scope \in scopes}
(* The constants of packages come before those of messages; otherwise the   *)
(* order is that of declarations, any one here.                             *)
BeginConstant ==
    /\ verdict = None /\ stack = << >>
    /\ \E c \in IF ConstantsOf(schema.packages) # {} THEN ConstantsOf(schema.packages)
               ELSE ConstantsOf(DOMAIN schema.messages) :
          stack' = Resolve(c)
    /\ UNCHANGED <<schema, done, verdict>>
ResolveName ==
    /\ verdict = None /\ stack # << >> /\ Top.next <= Len(schema.uses[Top.constant])
    /\ LET c == Lookup(Top.constant, schema.uses[Top.constant][Top.next]) IN
       IF c = None THEN RefuseSchema("unknown")
       ELSE IF c \in Active THEN RefuseSchema("cycle")
       ELSE IF c \in DOMAIN done
            THEN stack' = Advance(stack, done[c]) /\ UNCHANGED <<schema, done, verdict>>
       ELSE IF Len(stack) >= MaxDepth THEN RefuseSchema("deep")
       ELSE stack' = Resolve(c) /\ UNCHANGED <<schema, done, verdict>>
FinishConstant ==
    /\ verdict = None /\ stack # << >> /\ Top.next > Len(schema.uses[Top.constant])
    /\ LET depth == Top.deepest + 1
           rest == Initial(stack)
       IN IF depth > MaxDepth THEN RefuseSchema("deep")
          ELSE /\ done' = [c \in DOMAIN done \cup {Top.constant} |->
                              IF c = Top.constant THEN depth ELSE done[c]]
               /\ stack' = IF rest = << >> THEN rest ELSE Advance(rest, depth)
               /\ UNCHANGED <<schema, verdict>>
AllResolved ==
    /\ verdict = None /\ stack = << >> /\ DOMAIN done = Constants
    /\ verdict' = "resolved" /\ UNCHANGED <<schema, done, stack>>

ResolutionInit(schemas) ==
    schema \in schemas /\ done = << >> /\ stack = << >> /\ verdict = None
ResolutionNext == BeginConstant \/ ResolveName \/ FinishConstant \/ AllResolved
============================================================================
