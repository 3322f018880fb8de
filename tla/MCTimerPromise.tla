---------------------------- MODULE MCTimerPromise ----------------------------
(* TimerPromise with two timers: one whose turn makes an explicit promise, *)
(* and one whose turn makes a soft one.                                    *)
EXTENDS TimerPromise

CONSTANTS tea, nap

Both == {tea, nap}
Tea == {tea}
Nap == {nap}
=============================================================================
