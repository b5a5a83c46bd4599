----------------------------- MODULE RefreshMark ------------------------------
(* What becomes of the mark that a user's refresh leaves on a device; Inventory *)
(* says who sets it and who takes it back.                                      *)

VARIABLES
  flag,              \* device.metadata.inventoryPending is set
  asked, overlapped  \* history: a refresh set no collection has followed; whether
                     \* somebody was about to take the mark back when it was set

(* agent.rs:529, inventory.service.ts:221: the mark of a refresh is taken back *)
(* by several calls that do not ask whose it is.  In its ten minutes a refresh *)
(* is lost only when it was set while one of them was under way.               *)
RefreshKept == asked => flag \/ overlapped
===============================================================================
