-------------------------------- MODULE Gate --------------------------------
(***************************************************************************)
(* What the bridge promises of the asks it is sent, without its threads,   *)
(* clocks and relay: the Flipper is shown one ask at a time, the first     *)
(* press made while an ask is shown is the verdict on that ask and on no   *)
(* other, an ask without a press is denied, and a verdict is final.        *)
(* Bridge.tla is shown to implement it.                                    *)
(***************************************************************************)
CONSTANTS Asks,
          Remote  \* there is a relay, where presses are made too

VARIABLES phase,  \* how far each ask has come, its verdict in the end
          press   \* the press on the shown ask, "none" before it

gateVars == <<phase, press>>

Presses  == {"allow", "deny"}
Final    == Presses \cup {"passthrough", "lost"}

Shown == {a \in Asks : phase[a] = "shown"}

GateTypeOK == /\ phase \in [Asks -> Final \cup {"new", "asked", "shown"}]
              /\ press \in Presses \cup {"none"}

Init == phase = [a \in Asks |-> "new"] /\ press = "none"

Ask(a) == /\ phase[a] = "new"
          /\ phase' = [phase EXCEPT ![a] = "asked"]
          /\ UNCHANGED press

Show(a) == /\ phase[a] = "asked" /\ Shown = {}
           /\ phase' = [phase EXCEPT ![a] = "shown"]
           /\ UNCHANGED press

\* No Flipper to ask.
Pass(a) == /\ phase[a] = "asked"
           /\ phase' = [phase EXCEPT ![a] = "passthrough"]
           /\ UNCHANGED press

Press(ans) == /\ Shown # {} /\ press = "none"
              /\ press' = ans
              /\ UNCHANGED phase

Settle(a, verdict) == /\ phase[a] = "shown"
                      /\ phase' = [phase EXCEPT ![a] = verdict]
                      /\ press' = "none"

\* The press is the verdict ...
Decide(a) == press # "none" /\ Settle(a, press)

\* ... also when it arrives from the relay as the bridge stops waiting, ...
Collect(a) == Remote /\ press = "none" /\ \E ans \in Presses : Settle(a, ans)

\* ... and no press at all is a deny.
Expire(a) == press = "none" /\ Settle(a, "deny")

\* A call to the relay fails in a way the bridge does not expect: the ask has no
\* verdict, and a press on it goes with it.
Drop(a) == /\ Remote /\ phase[a] \in {"asked", "shown"}
           /\ phase' = [phase EXCEPT ![a] = "lost"]
           /\ press' = IF phase[a] = "shown" THEN "none" ELSE press

\* The bridge dies with everything it was doing.
Lose == /\ phase' = [a \in Asks |-> IF phase[a] \in {"asked", "shown"} THEN "lost" ELSE phase[a]]
        /\ press' = "none"

Next == \/ \E a \in Asks : \/ Ask(a) \/ Show(a) \/ Pass(a)
                           \/ Decide(a) \/ Collect(a) \/ Expire(a) \/ Drop(a)
        \/ \E ans \in Presses : Press(ans)
        \/ Lose

Spec == Init /\ [][Next]_gateVars
=============================================================================
