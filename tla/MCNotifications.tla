--------------------------- MODULE MCNotifications ---------------------------
(* Ids of two bits, so that the counter wraps onto ids that are held; a      *)
(* history that overflows; two reports or calls on their way.                *)
EXTENDS Notifications
=============================================================================
