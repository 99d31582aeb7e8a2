------------------------------- MODULE Udelay -------------------------------
(***************************************************************************)
(* udelay (common/utils.c), the busy wait under every timeout of the SD    *)
(* driver: it polls the free-running HW_TIMER, a counter that wraps, while *)
(* interrupts may hold the loop up between two reads.                      *)
(***************************************************************************)
EXTENDS Integers

CONSTANTS
    Wrap,    \* values of HW_TIMER (2^32)
    Delays,  \* arguments; d * 19 does not overflow for any caller
    Gaps     \* bounds on the ticks between two reads of the timer

ASSUME TimerAssumption ==
    /\ Wrap \in Nat /\ Wrap > 2 /\ Delays \subseteq Nat /\ Gaps \subseteq Nat
    /\ \A d \in Delays : (d * 19) \div 10 < Wrap

VARIABLES
    dpc, ticks, now, then,   \* udelay and its locals
    timer,                  \* HW_TIMER
    gap, maxgap,            \* ticks since the last read; their bound
    elapsed                 \* history: ticks since the first read, up to 2 * Wrap

udelayVars == <<dpc, ticks, now, then, timer, gap, maxgap, elapsed>>
Count == 0 .. Wrap - 1

(* Types, and the loop's variables within the timer's range.               *)
UdelayTypeOK ==
    /\ dpc \in {"idle", "now", "wrap", "reread", "poll", "done"}
    /\ ticks \in 2 .. Wrap - 1 /\ now \in Count /\ then \in Count
    /\ timer \in Count /\ gap \in 0 .. maxgap /\ maxgap \in Gaps
    /\ elapsed \in 0 .. 2 * Wrap

UdelayInit ==
    /\ dpc = "idle" /\ ticks = 2 /\ now = 0 /\ then = 0
    /\ timer \in Count /\ gap = 0 /\ maxgap \in Gaps /\ elapsed = 0

(* d * 19 / 10, at least 2.                                                *)
Ticks(d) == IF (d * 19) \div 10 < 2 THEN 2 ELSE (d * 19) \div 10

Start(d) ==
    /\ dpc \in {"idle", "done"}
    /\ ticks' = Ticks(d) /\ gap' = 0 /\ dpc' = "now"
    /\ UNCHANGED <<now, then, timer, maxgap, elapsed>>

NoWrapCheck ==
    /\ dpc = "now"
    /\ now' = timer /\ then' = (timer + ticks) % Wrap
    /\ dpc' = "poll"
    /\ gap' = 0 /\ elapsed' = 0
    /\ UNCHANGED <<ticks, timer, maxgap>>

(* now and then; `then < now' when the end lies behind the wrap.           *)
ReadNow ==
    /\ dpc = "now"
    /\ now' = timer /\ then' = (timer + ticks) % Wrap
    /\ dpc' = IF then' < now' THEN "wrap" ELSE "poll"
    /\ gap' = 0 /\ elapsed' = 0
    /\ UNCHANGED <<ticks, timer, maxgap>>

WaitBelowThen ==
    /\ dpc = "wrap"
    /\ dpc' = IF timer >= then THEN "wrap" ELSE "reread"
    /\ gap' = 0
    /\ UNCHANGED <<ticks, now, then, timer, maxgap, elapsed>>

(* while(read32(HW_TIMER) >= now); and the read after it.                  *)
WaitWrap ==
    /\ dpc = "wrap"
    /\ dpc' = IF timer >= now THEN "wrap" ELSE "reread"
    /\ gap' = 0
    /\ UNCHANGED <<ticks, now, then, timer, maxgap, elapsed>>

Reread ==
    /\ dpc = "reread"
    /\ now' = timer /\ dpc' = "poll" /\ gap' = 0
    /\ UNCHANGED <<ticks, then, timer, maxgap, elapsed>>

(* while(now < then) now = read32(HW_TIMER);                               *)
Poll ==
    /\ dpc = "poll"
    /\ IF now < then THEN now' = timer /\ gap' = 0 /\ UNCHANGED dpc
       ELSE dpc' = "done" /\ UNCHANGED <<now, gap>>
    /\ UNCHANGED <<ticks, then, timer, maxgap, elapsed>>

(* The timer (external).                                                   *)
Tick ==
    /\ dpc # "idle" /\ gap < maxgap
    /\ timer' = (timer + 1) % Wrap /\ gap' = gap + 1
    /\ elapsed' = IF elapsed = 2 * Wrap THEN elapsed ELSE elapsed + 1
    /\ UNCHANGED <<dpc, ticks, now, then, maxgap>>

Code == (\E d \in Delays : Start(d)) \/ ReadNow \/ WaitWrap \/ Reread \/ Poll
UdelayNext == Code \/ Tick

UdelaySpec == UdelayInit /\ [][UdelayNext]_udelayVars

(* The timer runs and the processor gets back to the loop.                 *)
FairUdelaySpec ==
    /\ UdelaySpec /\ WF_udelayVars(Tick)
    /\ WF_udelayVars(ReadNow \/ WaitWrap \/ Reread \/ Poll)
-----------------------------------------------------------------------------
(* udelay never returns early, wherever the timer stands when it is called *)
(* and however long an interrupt holds the loop up; when the loop reads    *)
(* every value of the timer, its end is seen within two ticks, across the  *)
(* wrap too.                                                               *)
Punctual ==
    /\ dpc = "done" /\ gap = 0 => elapsed >= ticks
    /\ maxgap <= 1 /\ dpc = "poll" /\ now >= then => elapsed - gap <= ticks + 2

(* When the loop reads every value of the timer, every call returns.  (An  *)
(* interrupt can carry the timer over an end just below the wrap.)         *)
DelayEnds == maxgap = 1 /\ dpc = "now" ~> dpc = "done"
=============================================================================
