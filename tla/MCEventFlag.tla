----------------------------- MODULE MCEventFlag -----------------------------
EXTENDS EventFlag

CONSTANTS t1, t2, t3, a, b

MCRequest(bits, wait, clear, timed) ==
  [bits |-> bits, wait_mode |-> wait, clear_mode |-> clear, timed |-> timed]

(* Both modes of waiting, the three of clearing, with and without a        *)
(* timeout.                                                                *)
MCRequests == {MCRequest({a, b}, "And", "All", FALSE),
               MCRequest({a, b}, "Or", "Bits", FALSE),
               MCRequest({a}, "And", "Bits", TRUE),
               MCRequest({b}, "Or", "None", TRUE)}
MCSetMasks == {{a}, {b}, {}}
MCClearMasks == {{a}, {}}
=============================================================================
