------------------------------ MODULE Buttons -------------------------------
(***************************************************************************)
(* The buttons (input.c): a GameCube pad, of which presses are told apart  *)
(* from buttons held, and three buttons of the console, that take the      *)
(* names of pad buttons.  Reset is a level; Power and Eject raise a flag   *)
(* each, and an interrupt.  A step is an access to a register: the user    *)
(* presses and releases between any two of them.  The sticks, which nobody *)
(* reads, are left out.                                                    *)
(***************************************************************************)
EXTENDS Integers

CONSTANTS
    PadButtons,    \* buttons of the pad
    MaxOwed        \* bound: presses that a read may still return, of one button

ASSUME ButtonsAssumption == MaxOwed \in Nat

ResetDelay == 5
GPIO_POWER == "RIGHT"
GPIO_RESET == "A"
GPIO_EJECT == "START"
Gpio == {GPIO_POWER, GPIO_EJECT}

VARIABLES
    pad, reset, down,        \* what the user holds: of the pad, Reset, of Power and Eject
    raised, irq,             \* GPIO flags, and their interrupt
    stage, caller,           \* where the code is, for input_init or for gpio_read
    btns_held, reset_delay,  \* what it keeps between two reads
    btns_down, res, button,  \* of one read: the pad's presses, gpio_read's, the flag it found
    new, owed, \* presses that a read may still return: of the pad, of Power and Eject (history)
    press,     \* the last press of Power or Eject: waiting for a read, taken by one, or over (history)
    seen,      \* Reset was down when the read looked (history)
    since      \* reads since the one that returned Reset, up to ResetDelay (history)

hands == <<pad, reset, down>>
wires == <<raised, irq>>
kept == <<btns_held, reset_delay>>
reading == <<btns_down, res, button>>
told == <<new, owed, press, seen, since>>
buttonVars == <<hands, wires, stage, caller, kept, reading, told>>

Bit(holds) == IF holds THEN 1 ELSE 0

\* The program starts with anything held, and with flags that were raised before.
ButtonsInit ==
    /\ pad \in SUBSET PadButtons /\ reset \in BOOLEAN /\ down \in SUBSET Gpio
    /\ raised \in SUBSET Gpio /\ irq \in BOOLEAN
    /\ stage = "off" /\ caller = "init" /\ btns_held = {} /\ reset_delay = ResetDelay
    /\ btns_down = {} /\ res = {} /\ button = "none"
    /\ new = [b \in PadButtons |-> Bit(b \in pad)] /\ owed = [b \in Gpio |-> Bit(b \in raised \cup down)]
    /\ press = [b \in Gpio |-> IF b \in raised THEN "waiting" ELSE "over"] /\ seen = FALSE /\ since = 0

-----------------------------------------------------------------------------
(* The user and the console (external). *)

PressPad == \E b \in PadButtons \ pad :
    /\ new[b] < MaxOwed /\ pad' = pad \cup {b} /\ new' = [new EXCEPT ![b] = @ + 1]
    /\ UNCHANGED <<reset, down, wires, owed, press, seen, since>>
Press == \E b \in Gpio \ down :
    /\ owed[b] < MaxOwed /\ down' = down \cup {b} /\ raised' = raised \cup {b} /\ irq' = TRUE
    /\ owed' = [owed EXCEPT ![b] = @ + 1] /\ press' = [press EXCEPT ![b] = "waiting"]
    /\ UNCHANGED <<pad, reset, new, seen, since>>
Release ==
    /\ \/ \E b \in pad : pad' = pad \ {b} /\ UNCHANGED <<reset, down>>
       \/ \E b \in down : down' = down \ {b} /\ UNCHANGED <<pad, reset>>
       \/ reset' = ~reset /\ UNCHANGED <<pad, down>>
    /\ UNCHANGED <<wires, told>>
\* A button that is down may raise its flag once more, a flag its interrupt.
RaiseAgain ==
    /\ \/ \E b \in down : raised' = raised \cup {b} /\ irq' = TRUE
       \/ raised # {} /\ irq' = TRUE /\ UNCHANGED raised
    /\ UNCHANGED <<hands, told>>
Outside == (PressPad \/ Press \/ Release \/ RaiseAgain) /\ UNCHANGED <<stage, caller, kept, reading>>

-----------------------------------------------------------------------------
(* The code. *)

input_init ==
    /\ stage = "off" /\ stage' = "irq" /\ btns_held' = {}
    /\ UNCHANGED <<hands, wires, caller, reset_delay, reading, told>>

\* Presses that have been seen, or not, are over, but for `left' of them.
Capped(presses, left) == IF presses > left THEN left ELSE presses

\* input_read: pad_read, then gpio_read.
NewPresses == pad \ btns_held
pad_read ==
    /\ stage = "idle" /\ stage' = "reset" /\ btns_held' = pad /\ btns_down' = NewPresses
    /\ new' = [b \in PadButtons |-> Capped(new[b], Bit(b \in pad))]
    /\ UNCHANGED <<hands, wires, caller, reset_delay, res, button, owed, press, seen, since>>
ResetSeen == reset /\ reset_delay = 0
Counted(delay) == IF delay > 0 THEN delay - 1 ELSE 0
Rearmed == IF ResetSeen THEN ResetDelay ELSE reset_delay
gpio_read ==
    /\ stage = "reset" /\ stage' = "irq" /\ caller' = "read" /\ seen' = reset
    /\ res' = IF ResetSeen THEN {GPIO_RESET} ELSE {}
    /\ reset_delay' = Counted(Rearmed)
    /\ UNCHANGED <<hands, wires, btns_held, btns_down, button, new, owed, press, since>>

\* Both look for the interrupt, and for Power first.  input_init starts again until there
\* is no interrupt, and waits for Power to be released, but not for Eject.
Irq ==
    /\ stage = "irq"
    /\ stage' = IF irq THEN "flags" ELSE IF caller = "init" THEN "idle" ELSE "return"
    /\ UNCHANGED <<hands, wires, caller, kept, reading, told>>
WaitedForPower(b) == b = GPIO_POWER                                           \* mistake
WaitedFor(b) == b = GPIO_POWER \/ caller = "read"
Takes(b) ==
    /\ button' = b /\ res' = IF caller = "read" THEN res \cup {b} ELSE res
    /\ stage' = IF WaitedFor(b) THEN "spin" ELSE "ack"
ReadFlags ==
    /\ stage \in {"flags", "eject"}
    /\ LET power == stage = "flags" /\ GPIO_POWER \in raised
           again == stage = "flags" /\ caller = "init"    \* reads them once more for Eject
           eject == GPIO_EJECT \in raised
       IN  \/ power /\ Takes(GPIO_POWER)
           \/ ~power /\ again /\ stage' = "eject" /\ UNCHANGED <<res, button>>
           \/ ~power /\ ~again /\ eject /\ Takes(GPIO_EJECT)
           \/ ~power /\ ~again /\ ~eject /\ stage' = "ack_irq" /\ button' = "none" /\ UNCHANGED res
    /\ UNCHANGED <<hands, wires, caller, kept, btns_down, told>>
Spin ==
    /\ stage = "spin" /\ button \notin down /\ stage' = "ack"
    /\ UNCHANGED <<hands, wires, caller, kept, reading, told>>
AckedNothing == {}                                                            \* mistake
AckedAll == Gpio                                                              \* mistake
Acked == {button}
Ack ==
    /\ stage = "ack" /\ stage' = "ack_irq" /\ raised' = raised \ Acked
    /\ press' = [b \in Gpio |-> IF b \notin Acked THEN press[b]
                                ELSE IF caller = "read" /\ press[b] = "waiting" THEN "taken" ELSE "over"]
    /\ owed' = [b \in Gpio |-> IF b \in Acked THEN Capped(owed[b], Bit(b \in down) + Bit(caller = "read")) ELSE owed[b]]
    /\ UNCHANGED <<hands, irq, caller, kept, reading, new, seen, since>>
AckIrq ==
    /\ stage = "ack_irq" /\ stage' = (IF caller = "init" THEN "irq" ELSE "return") /\ irq' = FALSE
    /\ UNCHANGED <<hands, raised, caller, kept, reading, told>>

\* input_read returns btns_down | res.
Return ==
    /\ stage = "return" /\ stage' = "idle"
    /\ new' = [b \in PadButtons |-> new[b] - Bit(b \in btns_down)] /\ owed' = [b \in Gpio |-> owed[b] - Bit(b \in res)]
    /\ press' = [b \in Gpio |-> IF b \in res /\ press[b] = "taken" THEN "over" ELSE press[b]]
    /\ since' = IF GPIO_RESET \in res THEN 1 ELSE IF since < ResetDelay THEN since + 1 ELSE since
    /\ btns_down' = {} /\ res' = {} /\ button' = "none"
    /\ UNCHANGED <<hands, wires, caller, kept, seen>>

ButtonsNext ==
    \/ Outside \/ input_init \/ pad_read \/ gpio_read \/ Irq \/ ReadFlags \/ Spin \/ Ack \/ AckIrq \/ Return
ButtonsSpec == ButtonsInit /\ [][ButtonsNext]_buttonVars

-----------------------------------------------------------------------------
\* No ghost presses: a button of the pad, Power or Eject is returned no more often than it
\* was pressed, however long it is held and whenever it is let go.  No lost ones: a press of
\* Power or Eject that comes after input_init is returned by the read that acknowledges
\* it, and until then its flag stays.  Reset is returned by the fifth read that finds it
\* held, or a later one, but by none before.
PressesRight ==
    /\ (\A b \in PadButtons : new[b] >= 0) /\ (\A b \in Gpio : owed[b] >= 0)
    /\ \A b \in Gpio : (press[b] = "waiting" => b \in raised) /\ (stage = "idle" => press[b] # "taken")
    /\ stage = "return" => (GPIO_RESET \in res <=> seen /\ since = ResetDelay)
-----------------------------------------------------------------------------
(* The invariant that the proofs use. *)

Looked == caller = "read" /\ stage \in {"irq", "flags", "spin", "ack", "ack_irq", "return"}

ButtonsTypeOK ==
    /\ pad \in SUBSET PadButtons /\ reset \in BOOLEAN /\ down \in SUBSET Gpio
    /\ raised \in SUBSET Gpio /\ irq \in BOOLEAN
    /\ stage \in {"off", "idle", "reset", "irq", "flags", "eject", "spin", "ack", "ack_irq", "return"}
    /\ caller \in {"init", "read"} /\ btns_held \in SUBSET PadButtons /\ reset_delay \in 0 .. ResetDelay
    /\ btns_down \in SUBSET PadButtons /\ res \in SUBSET (Gpio \cup {GPIO_RESET}) /\ button \in Gpio \cup {"none"}
    /\ new \in [PadButtons -> Nat] /\ owed \in [Gpio -> Nat] /\ press \in [Gpio -> {"waiting", "taken", "over"}]
    /\ seen \in BOOLEAN /\ since \in 0 .. ResetDelay

\* What a read has found so far.
ReadingTrue ==
    /\ stage = "off" => caller = "init" /\ btns_held = {}
    /\ stage = "return" => caller = "read"
    /\ stage = "eject" => caller = "init"
    /\ ~Looked => res = {}
    /\ stage \in {"irq", "flags"} => res \subseteq {GPIO_RESET}
    /\ stage \in {"spin", "ack"} => button \in Gpio /\ (caller = "read" => button \in res)
    /\ res \subseteq {GPIO_RESET, button}
    /\ ~Looked => stage = "reset" \/ btns_down = {}
    /\ btns_down \subseteq btns_held

\* What is returned from here on has been pressed: a button that is found again after its
\* flag was acknowledged was pressed again, since it was waited for.
Due(b) ==
    IF b \notin res THEN Bit(b \in raised \cup down)
    ELSE IF stage = "spin" THEN 1
    ELSE IF stage = "ack" THEN 1 + Bit(b \in down)
    ELSE 1 + Bit(b \in raised \cup down)
PressesCounted ==
    /\ \A b \in PadButtons : new[b] >= Bit(b \in btns_down \cup (pad \ btns_held))
    /\ \A b \in Gpio : owed[b] >= Due(b)

\* Where the last press of Power or Eject is.
PressKept ==
    \A b \in Gpio :
        /\ press[b] = "waiting" => b \in raised
        /\ press[b] = "taken" => stage \in {"ack_irq", "return"} /\ b \in res

\* The delay counts the reads since the one that returned Reset.
DelayTrue ==
    /\ ~Looked => reset_delay = ResetDelay - since
    /\ Looked => /\ GPIO_RESET \in res <=> seen /\ since = ResetDelay
                 /\ reset_delay = IF GPIO_RESET \in res THEN ResetDelay - 1 ELSE Counted(ResetDelay - since)

ButtonsInv == ButtonsTypeOK /\ ReadingTrue /\ PressesCounted /\ PressKept /\ DelayTrue
=============================================================================
