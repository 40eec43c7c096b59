--------------------------- MODULE AddressOwnership ---------------------------
(***************************************************************************)
(* What Routing Activation promises: a source address belongs to one       *)
(* connection at a time, at most Limit of them belong to someone, and an   *)
(* owner that stays keeps its address unless it leaves an Alive Check      *)
(* unanswered.  Locks, timers, tasks and transports do not appear.         *)
(***************************************************************************)
EXTENDS Integers, FiniteSets

CONSTANTS
    Users,    \* connections
    Addr,     \* source addresses
    Nobody,   \* owner of a free address
    Limit     \* addresses that may be owned at once

VARIABLES
    owner,    \* the connection each address belongs to
    left,     \* connections that have left, or were made to
    check     \* the Alive Check that one connection makes of another

vars == <<owner, left, check>>

Init ==
    /\ owner = [a \in Addr |-> Nobody]
    /\ left = {}
    /\ check = [p \in Users \X Users |-> "none"]

-----------------------------------------------------------------------------
Owns(u) == \E a \in Addr : owner[a] = u

\* No check concerns somebody who has left.
Without(E, Q) == [p \in Users \X Users |->
                     IF p[1] \in E \cup Q \/ p[2] \in E THEN "none" ELSE check[p]]

Released(E) == [a \in Addr |-> IF owner[a] \in E THEN Nobody ELSE owner[a]]

\* c asks an owner whether it is alive ...
Ask(c, e) ==
    /\ c # e
    /\ Owns(e)
    /\ check[<<c, e>>] = "none"
    /\ check' = [check EXCEPT ![<<c, e>>] = "open"]
    /\ UNCHANGED <<owner, left>>

\* ... and owners answer ...
Answer ==
    /\ \E P \in SUBSET {p \in Users \X Users : check[p] = "open"} :
          check' = [p \in Users \X Users |->
                       IF p \in P THEN "answered" ELSE check[p]]
    /\ UNCHANGED <<owner, left>>

\* ... or c wants to know no longer.
Drop(c) ==
    /\ check' = Without({}, {c})
    /\ UNCHANGED <<owner, left>>

\* A free address is taken within the limit, by somebody who has none.
Claim(c, a) ==
    /\ owner[a] = Nobody
    /\ c \notin left
    /\ ~Owns(c)
    /\ Cardinality({b \in Addr : owner[b] # Nobody}) < Limit
    /\ owner' = [owner EXCEPT ![a] = c]
    /\ check' = Without({}, {c})
    /\ UNCHANGED left

\* An address changes hands: its owner has not answered, and has to leave.
TakeOver(c, a) ==
    /\ owner[a] # Nobody
    /\ check[<<c, owner[a]>>] = "open"
    /\ c \notin left
    /\ ~Owns(c)
    /\ owner' = [owner EXCEPT ![a] = c]
    /\ left' = left \cup {owner[a]}
    /\ check' = Without({owner[a]}, {c})

\* Owners that have not answered c are made to leave.
Evict(c, E) ==
    /\ \A e \in E : check[<<c, e>>] = "open"
    /\ owner' = Released(E)
    /\ left' = left \cup E
    /\ check' = Without(E, {c})

\* A connection ends; its identity may be used by a later one.
Leave(u) ==
    /\ owner' = Released({u})
    /\ left' = left \cup {u}
    /\ check' = Without({u}, {})

Return(u) ==
    /\ u \in left
    /\ left' = left \ {u}
    /\ UNCHANGED <<owner, check>>

Next ==
    \/ Answer
    \/ \E c \in Users :
          \/ Drop(c) \/ Leave(c) \/ Return(c)
          \/ \E e \in Users : Ask(c, e)
          \/ \E a \in Addr : Claim(c, a) \/ TakeOver(c, a)
          \/ \E E \in SUBSET Users : Evict(c, E)

Spec == Init /\ [][Next]_vars

=============================================================================
