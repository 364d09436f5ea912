----------------------------- MODULE PacketFate -----------------------------
(***************************************************************************)
(* What submit_packet promises to the caller, with workers, cancellation,  *)
(* rules and suppression left out: a packet is refused only by a full      *)
(* queue, an accepted packet is taken in submission order, and once it is  *)
(* taken its analysis runs at most once.  Nothing else ever happens to it: *)
(* no step forgets an accepted packet.                                     *)
(***************************************************************************)
EXTENDS Naturals, Sequences

CONSTANTS Packets,    (* the packets a sensor may submit               *)
          QueueCap    (* how many may wait                             *)

VARIABLES fate,       (* what became of each packet                    *)
          waiting     (* accepted packets no worker has taken, in order *)

fateVars == <<fate, waiting>>

Fates == {"unsent", "rejected", "accepted", "analysed"}

FateInit == /\ fate = [p \in Packets |-> "unsent"]
            /\ waiting = <<>>

Accept(p) == /\ fate[p] = "unsent"
             /\ Len(waiting) < QueueCap
             /\ fate' = [fate EXCEPT ![p] = "accepted"]
             /\ waiting' = Append(waiting, p)

Reject(p) == /\ fate[p] = "unsent"
             /\ Len(waiting) >= QueueCap
             /\ fate' = [fate EXCEPT ![p] = "rejected"]
             /\ UNCHANGED waiting

Take == /\ waiting # <<>>
        /\ waiting' = Tail(waiting)
        /\ UNCHANGED fate

(* Only a packet that has left the line is analysed, and only once. *)
Finish(p) == /\ fate[p] = "accepted"
             /\ \A i \in DOMAIN waiting : waiting[i] # p
             /\ fate' = [fate EXCEPT ![p] = "analysed"]
             /\ UNCHANGED waiting

FateNext == \/ \E p \in Packets : Accept(p) \/ Reject(p) \/ Finish(p)
            \/ Take

FateSpec == FateInit /\ [][FateNext]_fateVars
=============================================================================
