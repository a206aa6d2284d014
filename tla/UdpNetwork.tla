----------------------------- MODULE UdpNetwork -----------------------------
(***************************************************************************)
(* The datagrams between master and minions (class UDPSocket, socket.cpp). *)
(* sendto and recvfrom are called once and their results are not looked    *)
(* at: a datagram may be lost, delayed, reordered or delivered twice, and  *)
(* the sender never learns.                                                *)
(***************************************************************************)
EXTENDS Integers

CONSTANTS Lossy,      \* the types of message that may be lost
          MaxDups     \* bound: datagrams delivered twice

ASSUME NetworkAssumption == MaxDups \in Nat

VARIABLES net,        \* datagrams in flight
          dups,       \* datagrams delivered twice so far
          lost        \* ghost: the uids of datagrams that were lost

netVars == <<net, dups, lost>>

NetInit == net = {} /\ dups = 0 /\ lost = {}

Send(d) == net' = net \cup {d} /\ UNCHANGED <<dups, lost>>

(* The receiver takes d and sends the datagrams of replies.                *)
Deliver(d, replies) ==
  /\ \/ net' = (net \ {d}) \cup replies /\ UNCHANGED dups
     \/ /\ dups < MaxDups
        /\ net' = net \cup replies
        /\ dups' = dups + 1
  /\ UNCHANGED lost

(* The datagrams of D never arrive.                                        *)
Vanish(D) == /\ net' = net \ D
             /\ lost' = lost \cup {d.uid : d \in D}
             /\ UNCHANGED dups

Drop(d) == d.type \in Lossy /\ Vanish({d})
=============================================================================
