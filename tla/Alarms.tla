------------------------------- MODULE Alarms -------------------------------
(***************************************************************************)
(* What the timer of snownet promises: a timeout of n ticks is answered    *)
(* once, at the n-th tick from now, and timeouts due at the same tick are  *)
(* answered in the order in which they were asked for.                     *)
(***************************************************************************)
EXTENDS Naturals, Sequences

CONSTANTS
    Event,         \* the timeouts that may be asked for, each once
    Ticks,         \* number of values of the tick counter, which wraps
    Delay          \* the delays asked for

VARIABLES
    tick,          \* the current tick
    agenda,        \* agenda[x]: what is due at tick x, oldest request first
    firing,        \* what is due now and not yet answered
    asked,         \* the timeouts asked for so far
    answered       \* those answered

alarmVars == <<tick, agenda, firing, asked, answered>>

AlarmsInit ==
    /\ tick = 0
    /\ agenda = [x \in 0..Ticks-1 |-> <<>>]
    /\ firing = <<>>
    /\ asked = {} /\ answered = {}

Ask(e, delay) ==
    /\ e \notin asked
    /\ asked' = asked \cup {e}
    /\ IF delay = 0
       THEN answered' = answered \cup {e} /\ UNCHANGED agenda
       ELSE /\ agenda' = [agenda EXCEPT ![(tick + delay) % Ticks] = Append(@, e)]
            /\ UNCHANGED answered
    /\ UNCHANGED <<tick, firing>>

(* Time goes on only when everything due has been answered.                *)
Advance ==
    /\ firing = <<>>
    /\ tick' = (tick + 1) % Ticks
    /\ firing' = agenda[tick']
    /\ agenda' = [agenda EXCEPT ![tick'] = <<>>]
    /\ UNCHANGED <<asked, answered>>

Answer ==
    /\ firing # <<>>
    /\ answered' = answered \cup {Head(firing)}
    /\ firing' = Tail(firing)
    /\ UNCHANGED <<tick, agenda, asked>>

AlarmsNext ==
    \/ \E e \in Event, delay \in Delay : Ask(e, delay)
    \/ Advance
    \/ Answer

AlarmsSpec == AlarmsInit /\ [][AlarmsNext]_alarmVars
=============================================================================
