---------------------------- MODULE SqlEscalation ----------------------------
(***************************************************************************)
(* _escalate_sql_injection_to_confirmed of dast/checks.py: for one query   *)
(* parameter that gave a first signal, oracles.timing_oracle times every   *)
(* dialect's sleep payload until one is confirmed, and _extract_one_byte   *)
(* then reads one character of the database's version by bisection.  Times *)
(* are in units of half a second.                                          *)
(***************************************************************************)
EXTENDS TimingStatistics

CONSTANTS
  Dialects,       \* how many payload builders there are, in order 1..Dialects
  Extractable,    \* the dialects with a version expression
  Delay,          \* injected_delay
  Samples,        \* samples per phase
  Timeout,        \* the session's request timeout
  Lo, Hi,         \* the printable range the bisection searches
  Latencies,      \* the target's usual response times
  Stall, MaxStalls, \* bound: how long and how often the target stalls
  Servers         \* what may stand behind the parameter, see TypeOfServer

ASSUME EscalationAssumption ==
  /\ {Dialects, Delay, Samples, Timeout, Lo, Hi, Stall, MaxStalls} \subseteq Nat
  /\ Samples > 0 /\ Lo <= Hi /\ Latencies \subseteq Nat /\ Extractable \subseteq 1..Dialects

\* What a series can tell apart: fewer than half of its samples stall, the
\* usual response times vary by less than what counts as a delay, and the
\* median is one of the samples.
ASSUME SeriesAssumption ==
  /\ Samples % 2 = 1 /\ 2 * MaxStalls < Samples
  /\ \A x, y \in Latencies : 2 * (x - y) < 3 * Delay

\* A server that evaluates payloads of one dialect (0: of none), the sleep
\* `times` times per query (once per row, say); code is the character the
\* extraction is after.
TypeOfServer == [dialect : 0..Dialects, times : Nat, code : Nat]
ASSUME ServerAssumption == Servers \subseteq TypeOfServer

VARIABLES
  server,
  dialect,        \* the builder being tried
  baseline, injected,   \* the times measured so far
  stalls,         \* stalls spent in this call
  lo, hi,
  step,           \* "time" | "base" | "bisect" | "done"
  confirmed,      \* the dialect that was confirmed, 0 if none was
  byte,           \* the extracted character, 0 for None
  dropped         \* history: an extraction request raised

escVars == <<server, dialect, baseline, injected, stalls, lo, hi, step, confirmed, byte, dropped>>

EscInit ==
  /\ server \in Servers
  /\ dialect = 1 /\ baseline = <<>> /\ injected = <<>> /\ stalls = 0
  /\ lo = Lo /\ hi = Hi /\ step = "time" /\ confirmed = 0 /\ byte = 0 /\ dropped = FALSE

-----------------------------------------------------------------------------
\* The baseline is stable: pstdev < max(500 ms, a quarter of the delay).
Steady(s) ==
  LET limit == IF Delay > 4 THEN Delay ELSE 4            \* four times the bound
  IN  16 * Spread(s) < Len(s) * Len(s) * limit * limit

\* timing_oracle's verdict; margin = 1.5.
TimingConfirmed ==
  /\ Delay > 0
  /\ Steady(baseline)
  /\ 2 * (Median(injected) - Median(baseline)) >= 3 * Delay

\* How long one request takes: the client gives up at its timeout, and the
\* caller swallows the exception, so the time counts.
Took(t) == IF t < Timeout THEN t ELSE Timeout

\* One timed request of the phase that asks for a delay of d.
Elapsed(d) ==
  \E lat \in Latencies, late \in {0} \cup (IF stalls < MaxStalls THEN {Stall} ELSE {}) :
    LET slept == IF server.dialect = dialect THEN server.times * d ELSE 0
        t == Took(lat + late + slept)
    IN  /\ stalls' = IF late = 0 THEN stalls ELSE stalls + 1
        /\ IF d = 0 THEN baseline' = Append(baseline, t) /\ UNCHANGED injected
                    ELSE injected' = Append(injected, t) /\ UNCHANGED baseline

SampleBaseline == step = "time" /\ Len(baseline) < Samples /\ Elapsed(0)

SampleInjected ==
  /\ step = "time" /\ Len(baseline) = Samples /\ Len(injected) < Samples
  /\ Elapsed(Delay)

\* The dialect is confirmed, or the next one is tried.
Judge ==
  /\ step = "time" /\ Len(injected) = Samples
  /\ baseline' = <<>> /\ injected' = <<>>
  /\ IF TimingConfirmed
     THEN /\ confirmed' = dialect
          /\ step' = IF dialect \in Extractable THEN "base" ELSE "done"
          /\ UNCHANGED dialect
     ELSE /\ dialect' = dialect + 1
          /\ step' = IF dialect = Dialects THEN "done" ELSE "time"
          /\ UNCHANGED confirmed

-----------------------------------------------------------------------------
\* Whether the server's answer to a condition differs from the page of a
\* condition that is always false.
Holds(cond) == server.dialect = confirmed /\ cond

Raises == step' = "done" /\ dropped' = TRUE /\ UNCHANGED <<lo, hi, byte>>

\* The page of the always-false condition, for comparison.
FetchFalsePage ==
  /\ step = "base"
  /\ \/ Raises
     \/ step' = "bisect" /\ UNCHANGED <<lo, hi, byte, dropped>>

Bisect ==
  /\ step = "bisect" /\ lo < hi
  /\ \/ Raises
     \/ LET mid == (lo + hi) \div 2
        IN  /\ IF Holds(server.code > mid) THEN lo' = mid + 1 /\ UNCHANGED hi
                                           ELSE hi' = mid /\ UNCHANGED lo
            /\ UNCHANGED <<step, byte, dropped>>

\* Mutant: the character is reported without the equality request.
ConfirmByte_unasked ==
  /\ step = "bisect" /\ lo = hi
  /\ byte' = lo
  /\ step' = "done" /\ UNCHANGED <<lo, hi, dropped>>

ConfirmByte ==
  /\ step = "bisect" /\ lo = hi
  /\ \/ Raises
     \/ /\ byte' = IF Holds(server.code = lo) THEN lo ELSE 0
        /\ step' = "done" /\ UNCHANGED <<lo, hi, dropped>>

EscNext ==
  \/ (SampleBaseline \/ SampleInjected)
       /\ UNCHANGED <<server, dialect, lo, hi, step, confirmed, byte, dropped>>
  \/ Judge /\ UNCHANGED <<server, stalls, lo, hi, byte, dropped>>
  \/ (FetchFalsePage \/ Bisect \/ ConfirmByte)
       /\ UNCHANGED <<server, dialect, baseline, injected, stalls, confirmed>>

EscSpec == EscInit /\ [][EscNext]_escVars

-----------------------------------------------------------------------------
(***************************************************************************)
(* A dialect is confirmed only for a server that slept because it was      *)
(* asked to: however latency varies, and though a request may stall for as *)
(* long as the client waits, one stalled request is not taken for a delay  *)
(* (oracles.py:81-144).  And an extracted character is the one the         *)
(* database holds, found whenever it is in the searched range and every    *)
(* request is answered (checks.py:931-952).                                *)
(***************************************************************************)
EscalationIsReal ==
  /\ confirmed # 0 => server.dialect = confirmed /\ server.times > 0
  /\ byte # 0 => byte = server.code
  /\ step = "done" /\ confirmed \in Extractable /\ ~dropped /\ server.code \in Lo..Hi
       => byte = server.code

=============================================================================
