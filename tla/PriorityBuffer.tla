--------------------------- MODULE PriorityBuffer ---------------------------
(***************************************************************************)
(* What a MessageQueue promises sendMsg and the connection writers: a      *)
(* bounded set of messages that hands out the most urgent current one,     *)
(* loses a current message only when it is over its limit, and then the    *)
(* least urgent and oldest first, keeping exactly MaxSize of them.         *)
(***************************************************************************)
EXTENDS Integers, FiniteSets

CONSTANTS Prios, Ages, MaxSize, PruneAbove

VARIABLES
  clock,      (* time, in ticks                                             *)
  held,       (* the messages held                                          *)
  arrivals,   (* messages accepted so far                                   *)
  delivered   (* <<>> or the message handed out last                        *)

bufferVars == <<clock, held, arrivals, delivered>>

Current(H) == {e \in H : e.outdatedAt >= clock}

(* a leaves before b. *)
Precedes(a, b) == \/ a.prio < b.prio
                  \/ a.prio = b.prio /\ a.arrival < b.arrival

(* b is worth keeping rather than a: more urgent, or as urgent and newer. *)
Outweighs(b, a) == \/ b.prio < a.prio
                   \/ b.prio = a.prio /\ b.arrival > a.arrival

(* H may shrink to K: to all that is current, or to the MaxSize best of it. *)
Trims(H, K) ==
  /\ K \subseteq Current(H)
  /\ IF Cardinality(Current(H)) <= MaxSize
     THEN K = Current(H)
     ELSE /\ Cardinality(K) = MaxSize
          /\ \A a \in Current(H) \ K, b \in K : Outweighs(b, a)

(* H may shrink to K by losing outdated messages only. *)
Expires(H, K) == K \subseteq H /\ Current(H) \subseteq K

Init ==
  /\ clock = 0
  /\ held = {}
  /\ arrivals = 0
  /\ delivered = <<>>

Accept ==
  /\ \E prio \in Prios, age \in Ages :
       LET e == [prio |-> prio, outdatedAt |-> clock + age, arrival |-> arrivals]
           H == held \cup {e}
       IN  /\ held' = H \/ Trims(H, held')
           /\ Cardinality(held') <= PruneAbove
  /\ arrivals' = arrivals + 1
  /\ UNCHANGED <<clock, delivered>>

Deliver ==
  /\ \E e \in Current(held) :
       /\ \A x \in Current(held) \ {e} : Precedes(e, x)
       /\ delivered' = <<e>>
       /\ e \notin held'
       /\ Expires(held \ {e}, held')
  /\ UNCHANGED <<clock, arrivals>>

DeliverNothing ==
  /\ Current(held) = {}
  /\ delivered' = <<>>
  /\ held' = {}
  /\ UNCHANGED <<clock, arrivals>>

Shrink ==
  /\ Expires(held, held') \/ Trims(held, held')
  /\ UNCHANGED <<clock, arrivals, delivered>>

Advance ==
  /\ clock' = clock + 1
  /\ UNCHANGED <<held, arrivals, delivered>>

Next == Accept \/ Deliver \/ DeliverNothing \/ Shrink \/ Advance

Spec == Init /\ [][Next]_bufferVars
=============================================================================
