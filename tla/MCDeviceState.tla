---------------------------- MODULE MCDeviceState ---------------------------
(* Instances of DeviceState for TLC.                                        *)
EXTENDS DeviceState

\* Everything at once; everything but what the code is known not to survive, an
\* early return of a condition wait and a failing open after fencing; and
\* three environments with one source of waiters for the empty queue at a time.
AllEnvironments ==
    {AllEvents,
     AllEvents \ {"openfail", "spurious"},
     AllEvents \ {"fenced", "spurious"},
     {"connlost", "fenced", "timeout", "openfail", "noport", "nothread"},
     {"locklost", "fenced", "timeout", "openfail", "noport", "nothread"},
     {"remove", "nothread"}}

=============================================================================
