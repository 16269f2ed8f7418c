---------------------------- MODULE ReleaseFeed ----------------------------
(***************************************************************************)
(* What publication promises to the routers: a release, once offered, is   *)
(* offered unchanged for ever, and the feed names one of the releases      *)
(* offered, or for a while none.                                           *)
(***************************************************************************)
CONSTANTS Identity, Manifest, None

VARIABLES offered,  \* the manifest of each release, None while there is none
          named     \* the manifest in the feed, or None

Init == offered = [i \in Identity |-> None] /\ named = None

Offer(i) ==
  /\ offered[i] = None
  /\ \E m \in Manifest : m.id = i /\ offered' = [offered EXCEPT ![i] = m]
  /\ UNCHANGED named

Name(i) ==
  /\ offered[i] # None
  /\ named' = offered[i]
  /\ UNCHANGED offered

Withdraw == named' = None /\ UNCHANGED offered

Next == Withdraw \/ \E i \in Identity : Offer(i) \/ Name(i)

Spec == Init /\ [][Next]_<<offered, named>>
=============================================================================
