---------------------------- MODULE MessageSpec ----------------------------
(***************************************************************************)
(* What a protobuf message promises its user, without has bits, pointers or *)
(* bytes: a message is a partial function from fields to values.  A field   *)
(* that is absent reads as its default, a message read from the wire has    *)
(* the fields its sender gave it and no others, whatever the object held    *)
(* before, and a oneof has at most one field.                               *)
(***************************************************************************)
EXTENDS Naturals, Sequences

CONSTANTS Obj,         \* message objects of one type
          Absent       \* the value of a field in no message

VARIABLES kind,        \* the fields and the kind of each
          single,      \* TRUE if the fields are the cases of a oneof
          view         \* the fields of each object, and how many it keeps unread

vars == <<kind, single, view>>

Nothing == [fields |-> [f \in {} |-> Absent], unknown |-> 0]

Fields(m) == DOMAIN m.fields

With(m, f, v) ==
  [m EXCEPT !.fields = [g \in {f} \union (IF single THEN {} ELSE Fields(m)) |->
                          IF g = f THEN v ELSE @[g]]]

Without(m, f) == [m EXCEPT !.fields = [g \in DOMAIN @ \ {f} |-> @[g]]]

\* A later value of a field replaces an earlier one; messages are merged and
\* lists appended.
Joined(f, u, v) == IF kind[f] = "sub" THEN u \union v
                   ELSE IF kind[f] = "list" THEN u \o v
                   ELSE v

Merged(m, n) ==
  [fields |-> IF single /\ Fields(m) # Fields(n) /\ Fields(n) # {} THEN n.fields
              ELSE [f \in Fields(m) \union Fields(n) |->
                      IF f \notin Fields(n) THEN m.fields[f]
                      ELSE IF f \notin Fields(m) THEN n.fields[f]
                      ELSE Joined(f, m.fields[f], n.fields[f])],
   unknown |-> m.unknown + n.unknown]

\* A message cut off while it was read: some of its fields, one of them perhaps
\* with another value.
CutOff(m, n) ==
  /\ Fields(m) \subseteq Fields(n)
  /\ \E g \in Fields(n) \union {Absent} :
       \A f \in Fields(m) \ {g} : m.fields[f] = n.fields[f]
  /\ m.unknown <= n.unknown

\* One call takes the views u of all objects to w.
Change(u, w, o) ==
  LET Becomes(m) == w = [u EXCEPT ![o] = m] IN
  \/ Becomes(Nothing)
  \/ \E f \in DOMAIN kind :
       \/ Becomes(Without(u[o], f))
       \/ f \in Fields(w[o]) /\ Becomes(With(u[o], f, w[o].fields[f]))

Combine(u, w, o, p) ==
  LET Becomes(m) == w = [u EXCEPT ![o] = m] IN
  \/ Becomes(u[p])
  \/ Becomes([u[p] EXCEPT !.unknown = @ + 1])
  \/ Becomes(Merged(u[o], u[p]))
  \/ w = [u EXCEPT ![o] = u[p], ![p] = u[o]]
  \/ Becomes(w[o]) /\ CutOff(w[o], u[p])

Init == /\ single \in BOOLEAN
        /\ view = [o \in Obj |-> Nothing]

Next == /\ UNCHANGED <<kind, single>>
        /\ LET u == view
               w == view'
           IN \/ \E o \in Obj : Change(u, w, o)
              \/ \E o \in Obj : \E p \in Obj \ {o} : Combine(u, w, o, p)

Spec == Init /\ [][Next]_vars
=============================================================================
