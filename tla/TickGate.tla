------------------------------ MODULE TickGate ------------------------------
(***************************************************************************)
(* The gates of PUMP_UPDATE_BIDASK in src/src/pump_manager.cpp:            *)
(*                                                                         *)
(*     call_time = GetTickCount();                                         *)
(*     if (abs(call_time - prev_call) > Limit) { ...; prev_call = call_time }*)
(*                                                                         *)
(* with Limit = 2000 (the whole handler), 1000000 (deleting the working    *)
(* sets) and 100000 (the refresh).  GetTickCount counts milliseconds since *)
(* boot modulo 2^32; both variables are ints, so the count jumps from      *)
(* 2^31 - 1 to -2^31, the subtraction wraps (the build's two's complement; *)
(* for the language it is an overflow), and abs(-2^31) is -2^31.           *)
(***************************************************************************)
EXTENDS Integers

CONSTANTS
  Half,   \* 2^31
  Limit,  \* the gate's number of milliseconds
  Gap     \* price ticks reach the gate at most this far apart

ASSUME GateAssumption ==
  /\ Half \in Nat /\ Limit \in Nat /\ Gap \in Nat \ {0}
  /\ Limit + Gap < Half

Ints == -Half .. Half - 1

\* The int that has the low bits of n, which is less than one turn outside.
Wrap(n) ==
  IF n >= Half THEN n - 2 * Half ELSE IF n < -Half THEN n + 2 * Half ELSE n

Abs(n) == IF n < 0 THEN Wrap(-n) ELSE n

VARIABLES
  call_time,  \* GetTickCount at the last tick, as an int
  prev_call,  \* GetTickCount when the gate last opened; 0 at the start
  elapsed,    \* true milliseconds between the two
  opened      \* has the gate opened at all

gateVars == <<call_time, prev_call, elapsed, opened>>

\* The machine has been up for any time; 0 counts as if the gate had opened
\* when the count last was 0.
GateStart ==
  /\ call_time \in Ints
  /\ prev_call = 0
  /\ elapsed = IF call_time >= 0 THEN call_time ELSE call_time + 2 * Half
  /\ opened = FALSE

IsOpen(now) == Abs(Wrap(now - prev_call)) > Limit

-----------------------------------------------------------------------------
(* Mutants of definitions below; no specification uses them.                 *)

\* The difference is taken in a wider type, where it does not wrap back.
PassWide(d) ==
  /\ Wrap(call_time + d) - prev_call \notin -Limit .. Limit
  /\ call_time' = Wrap(call_time + d)
  /\ prev_call' = call_time'
  /\ elapsed' = 0
  /\ opened' = TRUE

\* A comparison of the two counts that forgets that they wrap.
SkipBackwards(d) ==
  /\ \/ ~IsOpen(Wrap(call_time + d))
     \/ Wrap(call_time + d) < prev_call
  /\ call_time' = Wrap(call_time + d)
  /\ elapsed' = elapsed + d
  /\ UNCHANGED <<prev_call, opened>>

-----------------------------------------------------------------------------
\* A tick, d milliseconds after the one before, finds the gate open.
Pass(d) ==
  /\ IsOpen(Wrap(call_time + d))
  /\ call_time' = Wrap(call_time + d)
  /\ prev_call' = call_time'
  /\ elapsed' = 0
  /\ opened' = TRUE

\* It finds the gate closed.
Skip(d) ==
  /\ ~IsOpen(Wrap(call_time + d))
  /\ call_time' = Wrap(call_time + d)
  /\ elapsed' = elapsed + d
  /\ UNCHANGED <<prev_call, opened>>

GateNext == \E d \in 1 .. Gap : Pass(d) \/ Skip(d)

GateSpec == GateStart /\ [][GateNext]_gateVars

-----------------------------------------------------------------------------
\* Once it has opened, the gate is never found closed after more than Limit
\* milliseconds, wherever the 32 bit count wraps: it opens again at most
\* Limit + Gap after it last did.
Prompt == opened => elapsed <= Limit

\* The gate never opens twice within its limit: between two openings pass more
\* than Limit milliseconds, wherever the count wraps.
Spaced ==
  [][\A d \in 1 .. Gap : (opened /\ Pass(d)) => elapsed + d > Limit]_gateVars
=============================================================================
