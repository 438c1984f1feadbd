---------------------------- MODULE MCScheduler ----------------------------
(***************************************************************************)
(* Small instances of Scheduler for TLC.                                   *)
(***************************************************************************)
EXTENDS Scheduler

TwoZones == {0, 1}

(* One expression that is due every other hour, and one that raises.  One  *)
(* zone is an hour behind the other; the calendar reaches beyond the last  *)
(* moment of the clock.                                                    *)
GoodAndBad == {"good", "bad"}

GoodAndBadCalendar ==
    [c \in GoodAndBad |->
       [z \in TwoZones |->
          IF c = "bad" THEN {} ELSE {t \in 1..(MaxTime + 2) : t % 2 # z}]]
=============================================================================
