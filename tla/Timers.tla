------------------------------- MODULE Timers -------------------------------
(***************************************************************************)
(* The delays of stage 1 and of stage 2 and the timeout of the status      *)
(* poll, over the CP0 counter.  now is the time in ticks since the counter *)
(* was zeroed, of which the counter shows now % Modulus.  Time passes      *)
(* between two readings of the counter: a step of a loop takes one of      *)
(* LoopGaps, what a program does between two calls one of IdleGaps.        *)
(***************************************************************************)
EXTENDS Integers

CONSTANTS Modulus,              \* 2^32
          UsecNum, TickNum,     \* UsecNum microseconds are TickNum ticks
          TicksPerUsec,         \* stage 1: timer_freq / 1000000
          Usecs,                \* arguments of udelay
          TIMEOUT,              \* of spi_nand_poll, in microseconds
          LoopGaps, IdleGaps,
          LastCall,             \* bound: no call begins later
          LastTick              \* bound: stage 1 is not followed further

(* The counter moves on between two readings of a loop, and less than once *)
(* around.                                                                 *)
ASSUME GapAssumption ==
  /\ Modulus \in Nat \ {0}
  /\ LoopGaps \subseteq 1 .. Modulus /\ IdleGaps \subseteq Nat \ {0}

ASSUME RateAssumption ==
  /\ UsecNum \in Nat \ {0} /\ TickNum \in Nat \ {0}
  /\ TicksPerUsec \in Nat /\ TIMEOUT \in Nat
  /\ LastCall \in Nat /\ LastTick \in Nat
  /\ Usecs \subseteq Nat /\ \A u \in Usecs : u * TicksPerUsec < Modulus

VARIABLES
  pc, stage, now,
  t_expire,             \* stage 1: the counter's value at the end
  ticks_hi, ticks_lo,   \* stage 2: the counter extended
  tmo,                  \* udelay: the end; spi_nand_poll: the start
  usec, result,         \* the call's argument, what the last call returned
  start, first          \* history: now and Ticks at the call's first reading

ticks   == <<ticks_hi, ticks_lo>>
history == <<start, first>>
vars    == <<pc, stage, now, t_expire, ticks, tmo, usec, result, history>>

Counter(t) == t % Modulus
Ticks == ticks_hi * Modulus + ticks_lo

Passes(gaps) == \E g \in gaps : now' = now + g

Begin == /\ pc = "idle" /\ Passes(IdleGaps) /\ now' <= LastCall
         /\ start' = now'

-----------------------------------------------------------------------------
(* Stage 1: udelay. *)

(* Mutated: the delay is counted from zero. *)
ExpireFromZero(c, delay) == delay
Expire(c, delay) == c + delay

Udelay1(u) ==
  /\ stage = 1 /\ Begin
  /\ LET c     == Counter(now')
         left  == Modulus - 1 - c
         delay == u * TicksPerUsec
     IN  IF left < delay
         THEN t_expire' = delay - left     /\ pc' = "while_greater"
         ELSE t_expire' = Expire(c, delay) /\ pc' = "while_less"
  /\ usec' = u /\ result' = "none" /\ first' = 0
  /\ UNCHANGED <<stage, ticks, tmo>>

(* A reading may fall beside the counts the loop waits for, turn after     *)
(* turn; LastTick bounds how long that is followed.                        *)
Wait1 ==
  /\ pc \in {"while_greater", "while_less"}
  /\ Passes(LoopGaps) /\ now' <= LastTick
  /\ LET again == IF pc = "while_greater" THEN Counter(now') > t_expire
                  ELSE Counter(now') < t_expire
     IN  IF again THEN UNCHANGED <<pc, result>>
         ELSE pc' = "idle" /\ result' = "delayed"
  /\ UNCHANGED <<stage, t_expire, ticks, tmo, usec, history>>

EnterStage2 ==
  /\ stage = 1 /\ pc = "idle"
  /\ stage' = 2
  /\ ticks_hi' = 0 /\ ticks_lo' = 0 /\ result' = "none"
  /\ UNCHANGED <<pc, now, t_expire, tmo, usec, history>>

-----------------------------------------------------------------------------
(* Stage 2: get_ticks, udelay, and spi_nand_poll with its timeout. *)

(* Mutated: once around exactly is taken for no time at all; a wrap is not *)
(* noticed.                                                                *)
WrappedLess(new) == new < ticks_lo
NotWrapped(new)  == FALSE
Wrapped(new)     == new <= ticks_lo

GetTicks ==
  /\ ticks_lo' = Counter(now')
  /\ ticks_hi' = IF Wrapped(ticks_lo') THEN ticks_hi + 1 ELSE ticks_hi

(* tick_to_usec *)
Usec(t) == (t * UsecNum) \div TickNum

Call2 == /\ stage = 2 /\ Begin /\ GetTicks
         /\ first' = Ticks' /\ result' = "none"
         /\ UNCHANGED <<stage, t_expire>>

End(u) == Usec(Ticks') + u

Udelay2(u) ==
  /\ Call2
  /\ tmo' = End(u) /\ usec' = u
  /\ pc' = "delay"

Wait2 ==
  /\ pc = "delay" /\ Passes(LoopGaps) /\ GetTicks
  /\ IF Usec(Ticks') < tmo THEN UNCHANGED <<pc, result>>
     ELSE pc' = "idle" /\ result' = "delayed"
  /\ UNCHANGED <<stage, t_expire, tmo, usec, history>>

CallPoll ==
  /\ Call2
  /\ tmo' = Usec(Ticks') /\ usec' = 0
  /\ pc' = "poll"

PollReady ==
  /\ pc = "poll"
  /\ pc' = "idle" /\ result' = "ready"
  /\ UNCHANGED <<stage, now, t_expire, ticks, tmo, usec, history>>

(* Mutated: the timeout is compared with the time since reset. *)
ExpiredSinceReset == Usec(Ticks') > TIMEOUT
Expired == Usec(Ticks') - tmo > TIMEOUT

PollAgain ==
  /\ pc = "poll" /\ Passes(LoopGaps) /\ GetTicks
  /\ IF Expired THEN pc' = "idle" /\ result' = "timedout"
     ELSE UNCHANGED <<pc, result>>
  /\ UNCHANGED <<stage, t_expire, tmo, usec, history>>

-----------------------------------------------------------------------------
(* Stage 1 zeroes the counter first of all. *)
Init ==
  /\ pc = "idle" /\ stage = 1 /\ now = 0
  /\ t_expire = 0 /\ ticks_hi = 0 /\ ticks_lo = 0 /\ tmo = 0
  /\ usec = 0 /\ result = "none" /\ start = 0 /\ first = 0

Next == \/ \E u \in Usecs : Udelay1(u) \/ Udelay2(u)
        \/ EnterStage2 \/ CallPoll \/ PollReady
        \/ Wait1 \/ Wait2 \/ PollAgain

Spec == Init /\ [][Next]_vars

-----------------------------------------------------------------------------
TypeOK ==
  /\ pc \in {"idle", "while_greater", "while_less", "delay", "poll"}
  /\ stage \in {1, 2} /\ now \in Nat
  /\ t_expire \in 0 .. Modulus - 1
  /\ ticks_hi \in Nat /\ ticks_lo \in 0 .. Modulus - 1
  /\ tmo \in Nat /\ usec \in Nat
  /\ result \in {"none", "delayed", "ready", "timedout"}
  /\ start \in Nat /\ first \in Nat

(* The extended counter measures the time since the call began, whenever   *)
(* it began and however long ago the counter was read before that.         *)
ElapsedIsRight ==
  pc \in {"delay", "poll"} => Ticks - first = now - start

(* Stage 1: a delay lasts as long as asked if the counter does not wrap    *)
(* meanwhile, which it does seconds after the reset only.                  *)
DelayLasts1 ==
  stage = 1 /\ result = "delayed" /\ start \div Modulus = now \div Modulus
    => now - start >= usec * TicksPerUsec

(* Stage 2: a delay is less than a microsecond short, wraps included.      *)
DelayLasts2 ==
  stage = 2 /\ result = "delayed"
    => (now - start) * UsecNum > (usec - 1) * TickNum

(* No delay is cut short, in either stage. *)
DelaysLast == DelayLasts1 /\ DelayLasts2

(* The poll does not give up before TIMEOUT microseconds have gone by.     *)
NoEarlyTimeout ==
  result = "timedout" => (now - start) * UsecNum > TIMEOUT * TickNum

(* A delay or a poll of a chip that never gets ready goes on only while    *)
(* its time is not up, wraps included: neither can hang.                   *)
WaitsNoLonger ==
  /\ pc = "delay" => (now - start) * UsecNum <= usec * TickNum
  /\ pc = "poll"  => (now - start) * UsecNum < (TIMEOUT + 1) * TickNum
=============================================================================
