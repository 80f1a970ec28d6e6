------------------------------ MODULE Subscription ------------------------------
(***************************************************************************)
(* What a websocket client promises whoever makes one, as the listener of  *)
(* the log: until it is closed it is connected, or trying to be; once it   *)
(* is closed, what it has in progress comes to an end, and nothing is      *)
(* received any more.                                                      *)
(***************************************************************************)
VARIABLE phase

Steps == {<<"trying", "connected">>, <<"connected", "trying">>,
          <<"trying", "closed">>, <<"trying", "over">>, <<"connected", "closed">>,
          <<"closed", "over">>}

Init == phase = "trying"
Next == <<phase, phase'>> \in Steps

Spec == Init /\ [][Next]_phase /\ (phase = "closed" ~> phase = "over")
===============================================================================
