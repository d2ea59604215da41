-------------------------------- MODULE Uptime --------------------------------
(***************************************************************************)
(* The built-in sysUpTime (src/src/SNMP_Embedded.cpp, src/src/SNMPTrap.cpp): *)
(* a GET computes it from the clock, a notification reads a mirror that    *)
(* only loop() refreshes.  Both are modelled for a sketch that gives its   *)
(* traps no uptime callback of its own.                                    *)
(***************************************************************************)
EXTENDS Integers

CONSTANT MaxMillis   \* bound: the milliseconds of one behaviour

VARIABLES
  now,       \* millis(), or the clock given to setUptimeSource()
  mirror,    \* SNMPAgent::_snmp_builtin_uptime_var
  looping,   \* loop() is running; outside it, the sketch's own code
  got,       \* the last sysUpTime a GET was answered with, and when
  stamped    \* the last timestamp put in a notification, and when

vars == <<now, mirror, looping, got, stamped>>

Never == [at |-> -1, value |-> 0]

\* mirror starts as the zero of its definition; setup() runs before any loop()
Init ==
  /\ now = 0
  /\ mirror = 0
  /\ looping = FALSE
  /\ got = Never
  /\ stamped = Never

\* hundredths of a second, as TimeTicks are
uptimeCs == now \div 10

LoopStarts ==
  /\ ~looping
  /\ looping' = TRUE
  /\ mirror' = uptimeCs
  /\ UNCHANGED <<now, got, stamped>>

\* a GET of sysUpTime.0, served within loop()
Get ==
  /\ looping
  /\ got' = [at |-> now, value |-> uptimeCs]
  /\ UNCHANGED <<now, mirror, looping, stamped>>

\* A notification is built: by the sketch before, between or (in its ack
\* callback) within calls of loop(), or by a retry within loop().
SendTrap ==
  /\ stamped' = [at |-> now, value |-> mirror]
  /\ UNCHANGED <<now, mirror, looping, got>>

LoopEnds ==
  /\ looping
  /\ looping' = FALSE
  /\ UNCHANGED <<now, mirror, got, stamped>>

\* time passes in the sketch's code and in loop() alike
Tick ==
  /\ now < MaxMillis
  /\ now' = now + 1
  /\ UNCHANGED <<mirror, looping, got, stamped>>

Next == LoopStarts \/ Get \/ SendTrap \/ LoopEnds \/ Tick

Spec == Init /\ [][Next]_vars

\* SNMP_Embedded.cpp 18-19: "a GET and a trap sent back-to-back can never
\* disagree".  Here back-to-back is in the same millisecond.
GetAndTrapAgree == got.at = stamped.at => got.value = stamped.value
=============================================================================
