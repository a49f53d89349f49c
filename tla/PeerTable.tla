----------------------------- MODULE PeerTable -----------------------------
(***************************************************************************)
(* Who is connected: the peers of the server's Connection thread, the      *)
(* clients of the Server thread, and the ends of the game that connect to  *)
(* them, each at an address of its own. The two threads of the server talk *)
(* through the event queue and the command queue of the Connection, and    *)
(* peer ids are given again as soon as they are free.                      *)
(*                                                                         *)
(* A datagram carries its sender's address and the peer id in its header.  *)
(* The network loses, repeats and reorders datagrams, so one that was sent *)
(* may be received at any time, any number of times; what is reliable is   *)
(* sent again by its end as well, with the same header. The address in a   *)
(* data event is a ghost: the code has only the peer id there.             *)
(***************************************************************************)
EXTENDS Integers, Sequences, FiniteSets, FiniteSetsExt, Functions, SequencesExt

CONSTANTS
    Addresses,
    LastId,         \* peer ids for clients are 2 .. LastId, 65535 in the code
    MaxJoins,       \* bound: peers created by the server
    MaxData         \* bound: data events put

PEER_ID_INEXISTENT == 0

ASSUME PeerConstants ==
    /\ LastId \in Nat /\ LastId >= 2
    /\ {MaxJoins, MaxData} \subseteq Nat

Ids == 2 .. LastId

VARIABLES
    \* the server's Connection thread
    m_peers,            \* the address of each peer
    m_event_queue,      \* to the Server thread
    m_command_queue,    \* ids to delete, from the Server thread
    \* the Server thread
    m_clients,          \* the address each client is at, by peer id
    m_peer_change_queue,
    pc,                 \* "step", "changes", "receive", "sync" or "process"
    received,           \* the data event that Receive returned, as <<e>>
    \* the other ends
    m_peer_id,          \* of each address, INEXISTENT until it is told
    life,               \* of each address: "new", "alive" or "gone"
    \* the network
    net,                \* datagrams sent to the server
    ids_sent,           \* SET_PEER_ID packets to the addresses
    \* bounds
    njoins, ndata

connVars == <<m_peers, m_event_queue>>
serverVars == <<m_clients, m_peer_change_queue, pc, received>>
endVars == <<m_peer_id, life>>
vars == <<connVars, m_command_queue, serverVars, endVars, net, ids_sent,
          njoins, ndata>>

\* Events of the Connection thread. The address in a data event is history.
Nothing == [id \in {} |-> 0]
Added(id, a) == [type |-> "added", id |-> id, address |-> a]
Removed(id, a) == [type |-> "removed", id |-> id, address |-> a]
Data(id, a) == [type |-> "data", id |-> id, address |-> a]

Set(f, id, a) == [i \in DOMAIN f \cup {id} |-> IF i = id THEN a ELSE f[i]]
Unset(f, id) == Restrict(f, DOMAIN f \ {id})

Init ==
    /\ m_peers = Nothing
    /\ m_event_queue = <<>>
    /\ m_command_queue = <<>>
    /\ m_clients = Nothing
    /\ m_peer_change_queue = <<>>
    /\ pc = "step"
    /\ received = <<>>
    /\ m_peer_id = [a \in Addresses |-> PEER_ID_INEXISTENT]
    /\ life = [a \in Addresses |-> "new"]
    /\ net = {}
    /\ ids_sent = {}
    /\ njoins = 0
    /\ ndata = 0

-----------------------------------------------------------------------------
(* The server's Connection thread. *)

\* Mutant: an id is not looked up in m_peers before it is given.
AnyId == Ids

FreeIds == Ids \ DOMAIN m_peers

\* Mutant: the Server thread is not told.
ForgetPeer(peers, events, id) ==
    /\ m_peers' = Unset(peers, id)
    /\ m_event_queue' = events

\* deletePeer, for a timeout, a DISCO or a command.
DeletePeer(peers, events, id) ==
    /\ m_peers' = Unset(peers, id)
    /\ m_event_queue' = Append(events, Removed(id, peers[id]))

(***************************************************************************)
(* receive() on a datagram. One with no peer id belongs to the peer that   *)
(* has its address, and makes a new peer if there is none, which is told   *)
(* its id. What the datagram carries may be a repetition, and then its     *)
(* channel drops it.                                                       *)
(***************************************************************************)
ReceiveDatagram(d) ==
    /\ LET a     == d.address
           same  == {i \in DOMAIN m_peers : m_peers[i] = a}
           isNew == d.id = PEER_ID_INEXISTENT /\ same = {} /\ FreeIds # {}
           id    == IF d.id # PEER_ID_INEXISTENT THEN d.id
                    ELSE IF same # {} THEN Min(same)
                    ELSE IF isNew THEN Min(FreeIds)
                    ELSE PEER_ID_INEXISTENT
           peers == IF isNew THEN Set(m_peers, id, a) ELSE m_peers
           added == IF isNew THEN Append(m_event_queue, Added(id, a))
                             ELSE m_event_queue
       IN  /\ isNew => njoins < MaxJoins
           /\ njoins' = IF isNew THEN njoins + 1 ELSE njoins
           /\ ids_sent' = IF isNew THEN ids_sent \cup {<<a, id>>} ELSE ids_sent
           /\ \/ /\ id \in DOMAIN peers /\ peers[id] = a
                 /\ d.type = "disco"
                 /\ DeletePeer(peers, added, id)
                 /\ UNCHANGED ndata
              \/ /\ id \in DOMAIN peers /\ peers[id] = a
                 /\ d.type = "data" /\ ndata < MaxData
                 /\ ndata' = ndata + 1
                 /\ m_peers' = peers
                 /\ m_event_queue' = Append(added, Data(id, a))
              \/ /\ id \in DOMAIN peers /\ peers[id] = a => d.type = "data"
                 /\ m_peers' = peers
                 /\ m_event_queue' = added
                 /\ UNCHANGED ndata
    /\ UNCHANGED <<m_command_queue, serverVars, endVars, net>>

\* runTimeouts removes a peer that was silent for long.
TimeoutPeer(id) ==
    /\ id \in DOMAIN m_peers
    /\ DeletePeer(m_peers, m_event_queue, id)
    /\ UNCHANGED <<m_command_queue, serverVars, endVars, net, ids_sent, njoins,
                   ndata>>

\* processCommand on a CONNCMD_DELETE_PEER.
ProcessCommand ==
    /\ m_command_queue # <<>>
    /\ m_command_queue' = Tail(m_command_queue)
    /\ IF Head(m_command_queue) \in DOMAIN m_peers
       THEN DeletePeer(m_peers, m_event_queue, Head(m_command_queue))
       ELSE UNCHANGED connVars
    /\ UNCHANGED <<serverVars, endVars, net, ids_sent, njoins, ndata>>

-----------------------------------------------------------------------------
(* The Server thread. *)

\* Mutant: a client whose peer left stays.
KeepRemoved(clients, c) ==
    IF c.type = "added" THEN Set(clients, c.id, c.address) ELSE clients

\* handlePeerChange. DeleteClient does nothing for a client that is not there.
HandlePeerChange(clients, c) ==
    IF c.type = "added" THEN Set(clients, c.id, c.address)
                        ELSE Unset(clients, c.id)

(***************************************************************************)
(* One round of the loop of handlePeerChanges, which locks what it changes *)
(* for each change on its own; and its end, in AsyncRunStep or in Receive: *)
(* "so that the client list gets synced with the peer list".               *)
(***************************************************************************)
HandlePeerChanges ==
    /\ pc \in {"changes", "sync"}
    /\ m_peer_change_queue # <<>>
    /\ m_clients' = HandlePeerChange(m_clients, Head(m_peer_change_queue))
    /\ m_peer_change_queue' = Tail(m_peer_change_queue)
    /\ UNCHANGED <<connVars, m_command_queue, pc, received, endVars, net,
                   ids_sent, njoins, ndata>>

\* Mutant: data is processed first, the changes wait for AsyncRunStep.
ChangesHandledLater ==
    /\ \/ pc = "changes" /\ m_peer_change_queue = <<>> /\ pc' = "receive"
       \/ pc = "sync" /\ pc' = "process"
    /\ UNCHANGED <<connVars, m_command_queue, m_clients, m_peer_change_queue,
                   received, endVars, net, ids_sent, njoins, ndata>>

ChangesHandled ==
    /\ pc \in {"changes", "sync"}
    /\ m_peer_change_queue = <<>>
    /\ pc' = IF pc = "changes" THEN "receive" ELSE "process"
    /\ UNCHANGED <<connVars, m_command_queue, m_clients, m_peer_change_queue,
                   received, endVars, net, ids_sent, njoins, ndata>>

\* AsyncRunStep, which returns early if no time has passed.
AsyncRunStep ==
    /\ pc = "step"
    /\ pc' \in {"changes", "receive"}
    /\ UNCHANGED <<connVars, m_command_queue, m_clients, m_peer_change_queue,
                   received, endVars, net, ids_sent, njoins, ndata>>

(***************************************************************************)
(* Connection::Receive takes events until one is data: peerAdded and       *)
(* deletingPeer queue theirs. With no event it throws, and the thread goes *)
(* on to the next step.                                                    *)
(***************************************************************************)
ReceiveEvent ==
    /\ pc = "receive"
    /\ \/ /\ m_event_queue = <<>>
          /\ pc' = "step"
          /\ UNCHANGED <<m_event_queue, m_peer_change_queue, received>>
       \/ /\ m_event_queue # <<>>
          /\ m_event_queue' = Tail(m_event_queue)
          /\ IF Head(m_event_queue).type = "data"
             THEN /\ received' = <<Head(m_event_queue)>>
                  /\ pc' = "sync"
                  /\ UNCHANGED m_peer_change_queue
             ELSE /\ m_peer_change_queue' =
                         Append(m_peer_change_queue, Head(m_event_queue))
                  /\ UNCHANGED <<received, pc>>
    /\ UNCHANGED <<m_peers, m_command_queue, m_clients, endVars, net, ids_sent,
                   njoins, ndata>>

(***************************************************************************)
(* DenyAccess, and the command that follows it for a banned peer. With     *)
(* many clients, the peer and the client go at once.                       *)
(***************************************************************************)
DenyAccess(id, ban) ==
    \/ /\ m_command_queue' = m_command_queue \o ban
       /\ UNCHANGED m_clients
    \/ /\ m_command_queue' = m_command_queue \o <<id>> \o ban
       /\ m_clients' = Unset(m_clients, id)

(***************************************************************************)
(* ProcessData: nothing if the peer is gone or the client is not there;    *)
(* access may be denied to the client, and a banned peer is deleted.       *)
(***************************************************************************)
ProcessData ==
    /\ pc = "process"
    /\ pc' = "step"
    /\ received' = <<>>
    /\ LET id == Head(received).id
       IN  \/ UNCHANGED <<m_command_queue, m_clients>>
          \/ /\ id \in DOMAIN m_peers
             /\ id \in DOMAIN m_clients
             /\ DenyAccess(id, <<>>)
          \/ /\ id \in DOMAIN m_peers
             /\ DenyAccess(id, <<id>>)
    /\ UNCHANGED <<connVars, m_peer_change_queue, endVars, net, ids_sent,
                   njoins, ndata>>

-----------------------------------------------------------------------------
(* The other ends. *)

\* connect, and everything that is sent afterwards.
SendDatagram(a) ==
    /\ life[a] \in {"new", "alive"}
    /\ life' = [life EXCEPT ![a] = "alive"]
    /\ net' = net \cup {[address |-> a, id |-> m_peer_id[a], type |-> "data"]}
    /\ UNCHANGED <<connVars, m_command_queue, serverVars, m_peer_id, ids_sent,
                   njoins, ndata>>

\* processPacket on a CONTROLTYPE_SET_PEER_ID.
ReceiveSetPeerId(s) ==
    /\ life[s[1]] = "alive"
    /\ m_peer_id[s[1]] = PEER_ID_INEXISTENT
    /\ m_peer_id' = [m_peer_id EXCEPT ![s[1]] = s[2]]
    /\ UNCHANGED <<connVars, m_command_queue, serverVars, life, net, ids_sent,
                   njoins, ndata>>

\* The game ends, and tells the server if its thread gets to it.
Disconnect(a) ==
    /\ life[a] = "alive"
    /\ life' = [life EXCEPT ![a] = "gone"]
    /\ net' \in {net, net \cup {[address |-> a, id |-> m_peer_id[a],
                                 type |-> "disco"]}}
    /\ UNCHANGED <<connVars, m_command_queue, serverVars, m_peer_id, ids_sent,
                   njoins, ndata>>

-----------------------------------------------------------------------------
Next ==
    \/ \E d \in net : ReceiveDatagram(d)
    \/ \E id \in Ids : TimeoutPeer(id)
    \/ ProcessCommand
    \/ AsyncRunStep
    \/ HandlePeerChanges
    \/ ChangesHandled
    \/ ReceiveEvent
    \/ ProcessData
    \/ \E a \in Addresses : SendDatagram(a) \/ Disconnect(a)
    \/ \E s \in ids_sent : ReceiveSetPeerId(s)

Spec == Init /\ [][Next]_vars

(***************************************************************************)
(* Both threads of the server keep looping, time passes between the steps  *)
(* of the Server thread, and a peer whose end is gone times out. Nothing   *)
(* is assumed of the ends and the network.                                 *)
(***************************************************************************)
Fairness ==
    /\ WF_vars(ProcessCommand)
    /\ SF_vars(AsyncRunStep /\ pc' = "changes")
    /\ WF_vars(\/ AsyncRunStep \/ HandlePeerChanges \/ ChangesHandled
               \/ ReceiveEvent \/ ProcessData)
    /\ \A id \in Ids : WF_vars(id \in DOMAIN m_peers
                                /\ life[m_peers[id]] = "gone"
                                /\ TimeoutPeer(id))

FairSpec == Spec /\ Fairness

-----------------------------------------------------------------------------
(* Properties. *)

\* The events that the Server thread is not done with, oldest first, and the
\* places of those that change what it knows of id.
Events == m_peer_change_queue \o received \o m_event_queue
Changes(id) == {i \in DOMAIN Events : /\ Events[i].id = id
                                      /\ Events[i].type # "data"}

(***************************************************************************)
(* The list of clients follows the list of peers: once the Server thread   *)
(* has handled what is queued, every client is a peer of the Connection at *)
(* its own address, whatever ids were given again; and every peer is a     *)
(* client, unless its access was denied and it is about to be deleted.     *)
(***************************************************************************)
ClientsFollowPeers ==
    \A id \in Ids :
        LET last == Events[Max(Changes(id))]
            is   == IF Changes(id) = {} THEN id \in DOMAIN m_clients
                                       ELSE last.type = "added"
            at   == IF Changes(id) = {} THEN m_clients[id] ELSE last.address
        IN  /\ is => id \in DOMAIN m_peers /\ m_peers[id] = at
            /\ id \in DOMAIN m_peers /\ ~is =>
                   \E i \in DOMAIN m_command_queue : m_command_queue[i] = id

(***************************************************************************)
(* A peer that is added is not a client already ("The client shouldn't     *)
(* already exist", handlePeerChange asserts it), nor was it added twice in *)
(* a row.                                                                  *)
(***************************************************************************)
AddedIsNew ==
    \A id \in Ids : \A i \in Changes(id) :
        LET before == {j \in Changes(id) : j < i}
        IN  Events[i].type = "added" =>
                IF before = {} THEN id \notin DOMAIN m_clients
                               ELSE Events[Max(before)].type = "removed"

(***************************************************************************)
(* The data that ProcessData looks at came from the client it takes it     *)
(* for: although the address of the peer may be another one already, the   *)
(* client with the peer id of the event is at the address that sent it.    *)
(***************************************************************************)
DataIsFromItsClient ==
    pc = "process" =>
        LET e == Head(received)
        IN  e.id \in DOMAIN m_clients => m_clients[e.id] = e.address

(***************************************************************************)
(* When a game is gone, the server does not keep its client, whatever old  *)
(* datagrams of it come in later.                                          *)
(***************************************************************************)
GoneIsForgotten ==
    \A a \in Addresses :
        life[a] = "gone" ~> a \notin Range(m_clients) \cup Range(m_peers)
=============================================================================
