-------------------------------- MODULE Feed --------------------------------
(***************************************************************************)
(* What a client may rely on, however many nodes and goroutines lie        *)
(* between it and the senders: messages may be lost, and channels may      *)
(* overtake each other, but it never gets a message that is not for it,    *)
(* never one twice, and never two messages of one sender on one channel in *)
(* the wrong order.                                                        *)
(***************************************************************************)
EXTENDS Naturals, Sequences

CONSTANTS Client, Sender, NoUser, UserOf

VARIABLES sent,   \* how many messages each sender has sent
          heard   \* the messages each client has got, in their order

Init ==
    /\ sent = [s \in Sender |-> 0]
    /\ heard = [c \in Client |-> <<>>]

Send(s) ==
    /\ sent' = [sent EXCEPT ![s] = @ + 1]
    /\ UNCHANGED heard

\* A message, the last one client c has heard then, reaches it.
Hear(c) ==
    LET m == heard'[c][Len(heard'[c])] IN
    /\ heard'[c] # heard[c]
    /\ heard' = [heard EXCEPT ![c] = Append(@, m)]
    /\ m.n \in 1..sent[m.from]
    /\ m.to \in {NoUser, UserOf[c]}
    /\ \A i \in DOMAIN heard[c] :
         heard[c][i].from = m.from /\ heard[c][i].kind = m.kind
             => heard[c][i].n < m.n
    /\ UNCHANGED sent

Next == (\E s \in Sender : Send(s)) \/ (\E c \in Client : Hear(c))

Spec == Init /\ [][Next]_<<sent, heard>>
=============================================================================
