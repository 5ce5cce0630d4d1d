------------------------------ MODULE StunWalk ------------------------------
(***************************************************************************)
(* The walk over the attributes of a STUN reply, looking for               *)
(* XOR-MAPPED-ADDRESS, as both of the repository's STUN queries do it.     *)
(*                                                                         *)
(* In a reply every attribute begins at a multiple of four bytes: a value  *)
(* of another length is followed by padding.  A query that does not skip   *)
(* the padding goes on reading inside it, and what it takes for the next   *)
(* header is arbitrary.  Whether it skips it is the parameter skips.       *)
(***************************************************************************)
EXTENDS Naturals, Sequences, SequencesExt

CONSTANTS
  Lengths,       \* value lengths of the attributes that are not looked for
  MaxAttributes  \* bound: attributes of a reply

ASSUME LengthsAreNatural == Lengths \subseteq Nat /\ MaxAttributes \in Nat

VARIABLES
  todo,     \* the attributes not passed yet
  aligned,  \* the pointer is at the start of Head(todo), or at the end
  found     \* "nothing", "mapped" (what the server sent) or "junk"

walkVars == <<todo, aligned, found>>

Mapped == [type |-> "XOR_MAPPED_ADDRESS", length |-> 8]
Attribute == {Mapped} \union [type : {"OTHER"}, length : Lengths]
Attributes == SeqOf(Attribute, MaxAttributes)

Padding(n) == (4 - (n % 4)) % 4

WalkTypeOK ==
  /\ todo \in Seq(Attribute)
  /\ aligned \in BOOLEAN
  /\ found \in {"nothing", "mapped", "junk"}

\* At the first attribute of s.
StartWalk(s) == todo' = s /\ aligned' = TRUE /\ UNCHANGED found

NoWalk == todo = <<>> /\ aligned = TRUE /\ found = "nothing"

AtEnd == aligned /\ todo = <<>>

Match ==
  /\ aligned /\ todo # <<>>
  /\ Head(todo) = Mapped
  /\ found' = "mapped"
  /\ UNCHANGED <<todo, aligned>>

SkipAttribute(skips) ==
  /\ aligned /\ todo # <<>>
  /\ Head(todo) # Mapped
  /\ todo' = Tail(todo)
  /\ aligned' = (skips \/ Padding(Head(todo).length) = 0)
  /\ UNCHANGED found

\* Off the start of Head(todo), what is taken for headers may look like the
\* attribute looked for, or lead the pointer on, in one step or several and past
\* Head(todo) in any case, to another attribute or over the end.
Stray ==
  /\ ~aligned
  /\ \/ /\ found' = "junk"
        /\ UNCHANGED <<todo, aligned>>
     \/ /\ \E s \in {<<>>} \union {SubSeq(todo, n, Len(todo)) : n \in 2 .. Len(todo)} :
             todo' = s
        /\ aligned' = TRUE
        /\ UNCHANGED found

WalkStep(skips) == Match \/ SkipAttribute(skips) \/ Stray

HasMapped(s) == Contains(s, Mapped)

\* Padding never stands between the pointer and the attribute looked for.
Walkable(skips, s) == skips \/ \A i \in DOMAIN s : Padding(s[i].length) = 0
=============================================================================
