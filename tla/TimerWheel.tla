----------------------------- MODULE TimerWheel -----------------------------
(***************************************************************************)
(* snownet-src/snownet_timer.cc: the timer wheel.                          *)
(*                                                                         *)
(* A timeout is filed by its expiry: in `near', one list per tick, if it   *)
(* expires in the current block of TIME_NEAR ticks, and otherwise in the   *)
(* list of the innermost of four levels whose block it shares with the     *)
(* present.  At every tick at most one list of a level is filed again and  *)
(* the list of the tick is delivered, with the wheel unlocked meanwhile.   *)
(*                                                                         *)
(* What is done under the lock is one action.  The tick counter wraps (32  *)
(* bits in the code).  The clock is seen as the number of ticks it is      *)
(* found ahead at each reading; a reading that is not ahead moves nothing. *)
(***************************************************************************)
EXTENDS Integers, Sequences

CONSTANTS
    TIME_NEAR,     \* ticks of a block, 256 in the code
    TIME_LEVEL,    \* lists of a level, 64 in the code
    Event,         \* the timeouts services ask for, each once
    Delay,         \* delays asked for, below half the counter's range (an int)
    MaxStep        \* bound: ticks the clock is found ahead

(* Ticks that one list of level i stands for; level 4 is the whole range.  *)
Span ==
    LET L == TIME_LEVEL
    IN  [i \in 0..4 |-> TIME_NEAR * (IF i = 0 THEN 1 ELSE IF i = 1 THEN L
                        ELSE IF i = 2 THEN L * L ELSE IF i = 3 THEN L * L * L
                        ELSE L * L * L * L)]
Ticks == Span[4]
Level == 0..3

ASSUME WheelAssumption ==
    /\ TIME_NEAR \in Nat \ {0} /\ TIME_LEVEL \in Nat \ {0, 1}
    /\ Delay \subseteq 0..Ticks-Span[3]-1
    /\ MaxStep \in Nat

VARIABLES
    time,          \* T->time
    near,          \* near[k]: a list of timeouts
    t,             \* t[i][k]: likewise, for level i
    expire,        \* expire[e]: the node's expiry
    pending,       \* history: asked for and not yet being delivered
    current,       \* the list being delivered
    answered,      \* those whose message has been pushed
    diff,          \* ticks left to do in this snownet_updatetime
    pc             \* where the timer thread is

wheel == <<near, t>>
vars == <<time, wheel, expire, pending, current, answered, diff, pc>>

TypeOK ==
    /\ time \in 0..Ticks-1
    /\ near \in [0..TIME_NEAR-1 -> Seq(Event)]
    /\ t \in [Level -> [0..TIME_LEVEL-1 -> Seq(Event)]]
    /\ expire \in [Event -> 0..Ticks-1]
    /\ pending \subseteq Event /\ answered \subseteq Event
    /\ current \in Seq(Event)
    /\ diff \in 0..MaxStep
    /\ pc \in {"idle", "before", "deliver", "after"}

(* timer_create_timer: everything is zero.                                 *)
Init ==
    /\ time = 0
    /\ near = [k \in 0..TIME_NEAR-1 |-> <<>>]
    /\ t = [i \in Level |-> [k \in 0..TIME_LEVEL-1 |-> <<>>]]
    /\ expire = [e \in Event |-> 0]
    /\ pending = {} /\ answered = {}
    /\ current = <<>>
    /\ diff = 0
    /\ pc = "idle"
-----------------------------------------------------------------------------
SameBlock(x, now, span) == x \div span = now \div span

LevelOfNarrow(x, now) ==                            \* mutant of LevelOf
    CHOOSE i \in Level :
        /\ i = 3 \/ SameBlock(x, now, Span[i])
        /\ \A j \in Level : j < i => ~SameBlock(x, now, Span[j])

(* The level of a timeout that does not expire in the current near block   *)
LevelOf(x, now) ==
    CHOOSE i \in Level :
        /\ i = 3 \/ SameBlock(x, now, Span[i + 1])
        /\ \A j \in Level : j < i => ~SameBlock(x, now, Span[j + 1])

IsNear(x, now) == SameBlock(x, now, TIME_NEAR)
NearIndex(x) == x % TIME_NEAR
Index(i, x) == (x \div Span[i]) % TIME_LEVEL

(* Those that add_node links to near[k], and to t[i][k]                    *)
ToNear(k, x, now) == {e \in Event : IsNear(x[e], now) /\ NearIndex(x[e]) = k}
ToLevel(i, k, x, now) ==
    {e \in Event : ~IsNear(x[e], now) /\ LevelOf(x[e], now) = i /\ Index(i, x[e]) = k}

(* The elements of a list that are in S, in their order                    *)
Among(list, S) ==
    LET kept[i \in 0..Len(list)] ==
            IF i = 0 THEN <<>>
            ELSE IF list[i] \in S THEN Append(kept[i-1], list[i]) ELSE kept[i-1]
    IN  kept[Len(list)]

FiledFirst(w, list, x, now) ==                       \* mutant of Filed
    [near |-> [k \in 0..TIME_NEAR-1 |-> Among(list, ToNear(k, x, now)) \o w.near[k]],
     t |-> [i \in Level |-> [k \in 0..TIME_LEVEL-1 |->
                Among(list, ToLevel(i, k, x, now)) \o w.t[i][k]]]]

(* add_node of each node of a list in turn: to the wheel w at tick now     *)
Filed(w, list, x, now) ==
    [near |-> [k \in 0..TIME_NEAR-1 |-> w.near[k] \o Among(list, ToNear(k, x, now))],
     t |-> [i \in Level |-> [k \in 0..TIME_LEVEL-1 |->
                w.t[i][k] \o Among(list, ToLevel(i, k, x, now))]]]

Wheel == [near |-> near, t |-> t]

(* move_list(level, idx)                                                   *)
Refiled(i, k, now) ==
    Filed([Wheel EXCEPT !.t[i][k] = <<>>], t[i][k], expire, now)

ShiftedUnwrapped(ct) ==                              \* mutant of Shifted
    IF \E i \in Level : ct % Span[i] = 0 /\ Index(i, ct) # 0
    THEN LET i == CHOOSE i \in Level : ct % Span[i] = 0 /\ Index(i, ct) # 0
         IN  Refiled(i, Index(i, ct), ct)
    ELSE Wheel

(* timer_shift to tick ct: at the start of a block, the list of the level  *)
(* whose block is the outermost to begin                                   *)
Shifted(ct) ==
    IF ct = 0 THEN Refiled(3, 0, ct)
    ELSE IF \E i \in Level : ct % Span[i] = 0 /\ Index(i, ct) # 0
    THEN LET i == CHOOSE i \in Level : ct % Span[i] = 0 /\ Index(i, ct) # 0
         IN  Refiled(i, Index(i, ct), ct)
    ELSE Wheel
-----------------------------------------------------------------------------
(* snownet_timeout: a delay of 0 or less is answered at once, any other is *)
(* added under the lock.                                                   *)
Timeout(e, delay) ==
    /\ e \notin pending \cup answered /\ \A k \in DOMAIN current : current[k] # e
    /\ IF delay = 0
       THEN /\ answered' = answered \cup {e}
            /\ UNCHANGED <<wheel, expire, pending>>
       ELSE LET x == [expire EXCEPT ![e] = (time + delay) % Ticks]
                w == Filed(Wheel, <<e>>, x, time)
            IN  /\ expire' = x
                /\ near' = w.near /\ t' = w.t
                /\ pending' = pending \cup {e}
                /\ UNCHANGED answered
    /\ UNCHANGED <<time, current, diff, pc>>

(* snownet_updatetime: the clock has gone step ticks ahead of its previous *)
(* reading, or backward.                                                   *)
Updatetime(step) ==
    /\ pc = "idle"
    /\ diff' = IF step > 0 THEN step ELSE 0
    /\ pc' = IF step > 0 THEN "before" ELSE "idle"
    /\ UNCHANGED <<time, wheel, expire, pending, current, answered>>

Elements(list) == {list[k] : k \in DOMAIN list}

(* The list of tick ct is taken out of the wheel, which is unlocked.       *)
Take(w, ct) ==
    /\ current' = w.near[NearIndex(ct)]
    /\ near' = [w.near EXCEPT ![NearIndex(ct)] = <<>>]
    /\ t' = w.t
    /\ pending' = pending \ Elements(current')
    /\ pc' = "deliver"
    /\ UNCHANGED diff

EndTick(w) ==
    /\ near' = w.near /\ t' = w.t
    /\ diff' = diff - 1
    /\ pc' = IF diff = 1 THEN "idle" ELSE "before"
    /\ UNCHANGED <<pending, current>>

(* timer_update begins: time goes on and the list of the new tick is       *)
(* delivered.  The list of the old tick would be first; it is empty, by    *)
(* the last conjunct of FiledByExpiry.                                     *)
Tick ==
    /\ pc = "before"
    /\ near[NearIndex(time)] = <<>>
    /\ time' = (time + 1) % Ticks
    /\ LET w == Shifted(time')
       IN  IF w.near[NearIndex(time')] # <<>> THEN Take(w, time') ELSE EndTick(w)
    /\ UNCHANGED <<expire, answered>>

(* dispatch_list: one message is pushed; nobody minds if it cannot be.     *)
Deliver ==
    /\ pc = "deliver"
    /\ answered' = answered \cup {Head(current)}
    /\ current' = Tail(current)
    /\ pc' = IF Len(current) = 1 THEN "after" ELSE "deliver"
    /\ UNCHANGED <<time, wheel, expire, pending, diff>>

(* The wheel is locked again: was anything added for this tick?            *)
After ==
    /\ pc = "after"
    /\ IF near[NearIndex(time)] # <<>> THEN Take(Wheel, time) ELSE EndTick(Wheel)
    /\ UNCHANGED <<time, expire, answered>>
-----------------------------------------------------------------------------
Next ==
    \/ \E e \in Event, delay \in Delay : Timeout(e, delay)
    \/ \E step \in -1..MaxStep : Updatetime(step)
    \/ Tick \/ Deliver \/ After

Spec == Init /\ [][Next]_vars

(* The timer thread goes on, and the clock with it.                        *)
FairSpec ==
    /\ Spec
    /\ WF_vars(Tick) /\ WF_vars(Deliver) /\ WF_vars(After)
    /\ WF_vars(\E step \in 1..MaxStep : Updatetime(step))
-----------------------------------------------------------------------------
(* Where the wheel should hold a timeout that expires at x                 *)
PlaceOf(x) ==
    IF IsNear(x, time) THEN near[NearIndex(x)]
    ELSE t[LevelOf(x, time)][Index(LevelOf(x, time), x)]

Lists == {near[k] : k \in DOMAIN near} \cup
         UNION {{t[i][k] : k \in DOMAIN t[i]} : i \in Level}

(* Through every cascade and the wrap of the counter, a timeout is in the  *)
(* list that its expiry and the present time say, and in no other, and the *)
(* list of the present tick holds nothing when the next tick comes; the    *)
(* state keeps its types.                                                  *)
FiledByExpiry ==
    /\ TypeOK
    /\ \A e \in pending : e \in Elements(PlaceOf(expire[e]))
    /\ \A list \in Lists : \A k \in DOMAIN list :
        list[k] \in pending /\ list = PlaceOf(expire[list[k]])
    /\ \A e \in pending : expire[e] # time

(* What is due at each tick: those of its place that expire at it          *)
Agenda ==
    [x \in 0..Ticks-1 |->
        IF \A e \in Event : expire[e] # x THEN <<>>
        ELSE Among(PlaceOf(x), {e \in Event : expire[e] = x})]

A == INSTANCE Alarms WITH
        tick   <- time,
        agenda <- Agenda,
        firing <- current,
        asked  <- pending \cup Elements(current) \cup answered

(* The wheel is an alarm clock: each timeout is answered once, at its      *)
(* tick, and those of one tick in the order of their requests, though they *)
(* came to its list by different ways.                                     *)
ImplementsAlarms == A!AlarmsSpec

(* No timeout is left in a list that no tick comes to.                     *)
EveryTimeoutFires == \A e \in Event : e \in pending ~> e \in answered
=============================================================================
