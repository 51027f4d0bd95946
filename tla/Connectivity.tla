---------------------------- MODULE Connectivity ----------------------------
(***************************************************************************)
(* What the session service promises its clients, one atomic step per      *)
(* operation: a device has one link or none, a link has an address no      *)
(* other link has, a link that ended never comes back.                     *)
(***************************************************************************)
CONSTANTS Device, Cell, Address, SessionId, NoLink

VARIABLES
    link,   \* the link of a device
    used    \* the session ids ever given to a link

Init ==
    /\ link = [d \in Device |-> NoLink]
    /\ used = {}

\* The new link takes over from the old one, if there is one; its address is
\* one no other device uses.
Connect(d) ==
    \E id \in SessionId \ used :
        /\ used' = used \cup {id}
        /\ \E c \in Cell, ip \in Address :
              /\ link' = [link EXCEPT ![d] = [id |-> id, cell |-> c, ip |-> ip]]
              /\ \A e \in Device \ {d} : link[e] # NoLink => link[e].ip # ip

\* Only the cell of a link may change.
Move(d) ==
    /\ UNCHANGED used
    /\ link[d] # NoLink
    /\ \E c \in Cell \ {link[d].cell} : link' = [link EXCEPT ![d] = [@ EXCEPT !.cell = c]]

Disconnect(d) ==
    /\ UNCHANGED used
    /\ link[d] # NoLink
    /\ link' = [link EXCEPT ![d] = NoLink]

Next == \E d \in Device : Connect(d) \/ Move(d) \/ Disconnect(d)

Spec == Init /\ [][Next]_<<link, used>>
=============================================================================
