--------------------------- MODULE FileOwnership ---------------------------
(***************************************************************************)
(* What the server promises about one uploaded file, whatever the order in *)
(* which requests run: at most one request has it open; it grows only      *)
(* under the request that has it open; it appears and disappears only      *)
(* while nobody has it open; and a file whose handle is lost is never      *)
(* opened, written or removed again.                                       *)
(***************************************************************************)
EXTENDS Naturals

CONSTANTS
    Files,
    Clients,    \* those who open files
    Free,       \* nobody has the file open
    Lost        \* its handle was dropped without being closed

VARIABLES
    owner,      \* who has each file open: a client, Free or Lost
    present,    \* the files that exist
    size        \* their sizes

Init ==
    /\ owner = [f \in Files |-> Free]
    /\ present = {}
    /\ size = [f \in Files |-> 0]

Hand(f, from, to) ==
    /\ f \in present /\ owner[f] = from
    /\ owner' = [owner EXCEPT ![f] = to]
    /\ UNCHANGED <<present, size>>

Open(c, f) == Hand(f, Free, c)
Close(c, f) == Hand(f, c, Free)
Lose(f) == \E c \in Clients \cup {Free} : Hand(f, c, Lost)

Grow(c, f) ==
    /\ f \in present /\ owner[f] = c
    /\ size' = [size EXCEPT ![f] = @ + 1]
    /\ UNCHANGED <<owner, present>>

Create(f) ==
    /\ f \notin present /\ owner[f] = Free
    /\ present' = present \cup {f}
    /\ UNCHANGED <<owner, size>>

Remove(f) ==
    /\ f \in present /\ owner[f] = Free
    /\ present' = present \ {f}
    /\ size' = [size EXCEPT ![f] = 0]
    /\ UNCHANGED owner

Next == \E f \in Files :
    \/ Create(f) \/ Remove(f) \/ Lose(f)
    \/ \E c \in Clients : Open(c, f) \/ Close(c, f) \/ Grow(c, f)

Spec == Init /\ [][Next]_<<owner, present, size>>

=============================================================================
