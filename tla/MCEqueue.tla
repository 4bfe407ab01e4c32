----------------------------- MODULE MCEqueue -----------------------------
(***************************************************************************)
(* One event queue with a user event, a timer and an HR timer, each added  *)
(* with the flags the sceKernel calls give it or with those that only      *)
(* posix_kevent can give it, and waiters one of which polls as well.       *)
(***************************************************************************)
EXTENDS Equeue, TLC

CONSTANTS UserEvent, TimerEvent, HrTimerEvent

MCFilter == (UserEvent :> "User") @@ (TimerEvent :> "Timer")
            @@ (HrTimerEvent :> "HrTimer")
MCAdds == (UserEvent :> {{}, {"Clear"}}) @@ (TimerEvent :> {{}, {"OneShot"}})
          @@ (HrTimerEvent :> {{}, {"OneShot"}})
=============================================================================
