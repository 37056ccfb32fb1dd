---------------------------- MODULE MCLifecycle ----------------------------
(* Lifecycle with small configurations: clock units for milliseconds. *)
EXTENDS Lifecycle

Base == [delay |-> 1, max_delay |-> 2, window |-> 3, max_attempts |-> 1, reset_after |-> 0,
         start_timeout |-> 2, heartbeat |-> 2, kill_timeout |-> 1, action |-> "restart"]

MCConfigs ==
  {Base,
   [Base EXCEPT !.delay = 0, !.max_attempts = 2, !.window = 2, !.reset_after = 2, !.action = "skip"],
   [Base EXCEPT !.start_timeout = -1, !.heartbeat = 0, !.max_attempts = 0, !.action = "reboot"]}
=============================================================================
