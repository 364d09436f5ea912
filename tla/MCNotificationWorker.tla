------------------------ MODULE MCNotificationWorker ------------------------
(* Instances of the notification worker: two alerts of one source and rule, and
   two channels, the second of which is not enabled. *)
EXTENDS NotificationWorker, TLC

CONSTANTS k, slack, teams

MCKeyOf == [a \in Alerts |-> k]
MCChannels == <<slack, teams>>
===============================================================================
