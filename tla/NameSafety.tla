----------------------------- MODULE NameSafety -----------------------------
(* What a message class may rely on of its allocated names.                 *)
EXTENDS NameAllocation
LOCAL INSTANCE SequencesExt

(* The same message, declared the other way round.                          *)
Reordered(m) ==
    [m EXCEPT !.fields = Reverse(@), !.oneofs = Reverse(@), !.enums = Reverse(@),
              !.nested = Reverse(@), !.constants = Reverse(@)]
AllNamed(m) ==
    TemplatesNamed(CodeNamed(m, PrivateNamed(m, OneofsNamed(m, AliasesNamed(m,
        MembersNamed(m, ToSet(Reserved(m))))))))

(* A class compiles: in each scope whatever shares a name overloads, and    *)
(* every name is a portable identifier.  Every name the generator asks for  *)
(* later is there.  Names do not depend on the order of declarations.  Only *)
(* a message that is named as a fixed member of its class is refused.       *)
NamesSound ==
    /\ \A u, v \in names :
          u # v /\ u.space = v.space /\ u.name = v.name => Overloads(u, v)
    /\ \A u \in names : Portable(u.name)
    /\ naming # "incomplete"
    /\ naming = "done" => names = AllNamed(Reordered(message))
    /\ naming = "refused" =>
          \E i \in 2 .. Len(Reserved(message)) : Reserved(message)[i].name = message.own
=============================================================================
