------------------------------ MODULE Channel -------------------------------
(***************************************************************************)
(* What the message system promises its users: posted messages are taken   *)
(* in order, each by one receiver; a message may be withdrawn until it is  *)
(* taken; a poster that waits for its message comes back only after the    *)
(* message was handled or withdrawn.  MessageQueue implements this.        *)
(***************************************************************************)
EXTENDS Naturals, Sequences

CONSTANTS Poster,    \* tasks that post
          Receiver,  \* tasks that receive
          Message,   \* the messages
          None       \* no message

VARIABLES backlog,   \* the messages posted and not taken; None where one was withdrawn
          inHand,    \* the message each receiver works on
          awaited,   \* the message each waiting poster waits for
          settled    \* the messages handled or withdrawn

channelVars == <<backlog, inHand, awaited, settled>>

ChannelInit ==
    /\ backlog = <<>>
    /\ inHand = [r \in Receiver |-> None]
    /\ awaited = [p \in Poster |-> None]
    /\ settled = {}

PostMessage(p, m) ==
    /\ awaited[p] = None
    /\ m \notin settled
    /\ \A i \in DOMAIN backlog : backlog[i] # m
    /\ \A r \in Receiver : inHand[r] # m
    /\ backlog' = Append(backlog, m)
    /\ awaited' \in {awaited, [awaited EXCEPT ![p] = m]}
    /\ UNCHANGED <<inHand, settled>>

Recall(i) ==
    /\ backlog[i] # None
    /\ settled' = settled \cup {backlog[i]}
    /\ backlog' = [backlog EXCEPT ![i] = None]
    /\ UNCHANGED <<inHand, awaited>>

TakeMessage(r) ==
    /\ backlog # <<>>
    /\ inHand[r] = None
    /\ inHand' = [inHand EXCEPT ![r] = Head(backlog)]
    /\ backlog' = Tail(backlog)
    /\ UNCHANGED <<awaited, settled>>

Settle(r) ==
    /\ inHand[r] # None
    /\ settled' = settled \cup {inHand[r]}
    /\ inHand' = [inHand EXCEPT ![r] = None]
    /\ UNCHANGED <<backlog, awaited>>

PosterReturn(p) ==
    /\ awaited[p] \in settled
    /\ awaited' = [awaited EXCEPT ![p] = None]
    /\ UNCHANGED <<backlog, inHand, settled>>

ChannelNext ==
    \/ \E p \in Poster : PosterReturn(p) \/ \E m \in Message : PostMessage(p, m)
    \/ \E r \in Receiver : TakeMessage(r) \/ Settle(r)
    \/ \E i \in DOMAIN backlog : Recall(i)

ChannelSpec == ChannelInit /\ [][ChannelNext]_channelVars
=============================================================================
