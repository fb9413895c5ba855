----------------------------- MODULE UtAbstract -----------------------------
(***************************************************************************)
(* What the semi-reliable UDP transceiver promises, end to end.            *)
(*                                                                         *)
(* A sender accepts messages and reports each as sent or dropped; fragments *)
(* reach the receiver any number of times and in any order, and the        *)
(* receiver delivers what it re-assembles.  "Semi-reliable" is this:       *)
(*   - nothing arrives that was not accepted;                              *)
(*   - a message is delivered only when all its fragments have arrived,    *)
(*     and not again as long as the receiver remembers it;                 *)
(*   - a message that wants acknowledgments is reported as sent only when  *)
(*     all its fragments have arrived, and it was delivered unless the     *)
(*     receiver lost fragments it had acknowledged.                        *)
(***************************************************************************)
EXTENDS Naturals

CONSTANTS
    Message,    \* the messages
    Size        \* the largest number of fragments, a positive number

VARIABLES
    status,     \* what the sender knows of a message
    wanted,     \* what a message is made of: fragment count, reliability
    arrived,    \* fragments that ever reached the receiver
    delivered,  \* messages delivered at least once
    remembered, \* messages the receiver knows it has delivered
    lost        \* messages some fragments of which the receiver forgot

avars == <<status, wanted, arrived, delivered, remembered, lost>>

Contract == [count: 1 .. Size, reliable: BOOLEAN]
NoContract == [count |-> 0, reliable |-> FALSE]

AInit ==
    /\ status = [m \in Message |-> "none"]
    /\ wanted = [m \in Message |-> NoContract]
    /\ arrived = [m \in Message |-> {}]
    /\ delivered = {} /\ remembered = {} /\ lost = {}

Accept(m) ==
    /\ status[m] = "none"
    /\ status' = [status EXCEPT ![m] = "pending"]
    /\ \E c \in Contract : wanted' = [wanted EXCEPT ![m] = c]
    /\ UNCHANGED <<arrived, delivered, remembered, lost>>

\* A message of one fragment that wants no acknowledgment is delivered each
\* time it comes, without being remembered.
Arrive(m, f) ==
    LET got    == arrived[m] \cup {f}
        single == wanted[m].count = 1 /\ ~wanted[m].reliable
    IN  /\ status[m] # "none" /\ f < wanted[m].count
        /\ arrived' = [arrived EXCEPT ![m] = got]
        /\ \/ UNCHANGED <<delivered, remembered>>
           \/ /\ got = 0 .. wanted[m].count - 1 /\ m \notin remembered
              /\ delivered' = delivered \cup {m}
              /\ remembered' = IF single THEN remembered ELSE remembered \cup {m}
        /\ UNCHANGED <<status, wanted, lost>>

\* The receiver forgets messages, delivered or not.
Forget ==
    /\ \E kept \in SUBSET remembered : remembered' = kept
    /\ \E gone \in SUBSET {m \in Message : arrived[m] # {}} : lost' = lost \cup gone
    /\ UNCHANGED <<status, wanted, arrived, delivered>>

Confirm(m) ==
    /\ status[m] = "pending"
    /\ wanted[m].reliable => /\ arrived[m] = 0 .. wanted[m].count - 1
                             /\ m \in delivered \cup lost
    /\ status' = [status EXCEPT ![m] = "sent"]
    /\ UNCHANGED <<wanted, arrived, delivered, remembered, lost>>

Discard(m) ==
    /\ status[m] = "pending"
    /\ status' = [status EXCEPT ![m] = "dropped"]
    /\ UNCHANGED <<wanted, arrived, delivered, remembered, lost>>

ANext ==
    \/ \E m \in Message : Accept(m) \/ Confirm(m) \/ Discard(m)
    \/ \E m \in Message, f \in 0 .. Size - 1 : Arrive(m, f)
    \/ Forget

ASpec == AInit /\ [][ANext]_avars
=============================================================================
