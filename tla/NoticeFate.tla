----------------------------- MODULE NoticeFate -----------------------------
(***************************************************************************)
(* What send_notification promises of the notices of an alert, one for     *)
(* each channel, with callers, queue, worker threads and their backoffs    *)
(* left out: the notices are opened in the order of the channels, each is  *)
(* tried within one budget, and it ends once: sent by a channel that can   *)
(* be reached, given up when the budget is used, or dropped before that.   *)
(* What has ended is never tried again.                                    *)
(***************************************************************************)
EXTENDS Naturals

CONSTANTS Notices,     (* the notices there may be                         *)
          Earlier,     (* the notices that are opened before each          *)
          Reachable,   (* those a channel can deliver                      *)
          Budget       (* tries each may take                              *)

VARIABLES fate,        (* what became of each notice                       *)
          tries        (* how often it was tried                           *)

noticeVars == <<fate, tries>>

NoticeInit == /\ fate = [n \in Notices |-> "none"]
              /\ tries = [n \in Notices |-> 0]

Open(n) == /\ fate[n] = "none"
           /\ \A m \in Earlier[n] : fate[m] # "none"
           /\ fate' = [fate EXCEPT ![n] = "open"]
           /\ UNCHANGED tries

Try(n) == /\ fate[n] = "open"
          /\ tries[n] < Budget
          /\ tries' = [tries EXCEPT ![n] = @ + 1]

Arrive(n) == /\ Try(n)
             /\ n \in Reachable
             /\ fate' = [fate EXCEPT ![n] = "sent"]

(* The last try that fails gives the notice up. *)
Miss(n) == /\ Try(n)
           /\ fate' = IF tries[n] + 1 = Budget THEN [fate EXCEPT ![n] = "failed"] ELSE fate

(* Only a notice that has another try to come is dropped. *)
Drop(n) == /\ fate[n] = "open"
           /\ tries[n] < Budget
           /\ fate' = [fate EXCEPT ![n] = "dropped"]
           /\ UNCHANGED tries

NoticeNext == \E n \in Notices : Open(n) \/ Arrive(n) \/ Miss(n) \/ Drop(n)

NoticeSpec == NoticeInit /\ [][NoticeNext]_noticeVars
=============================================================================
