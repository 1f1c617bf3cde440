---------------------------- MODULE MCAllocation ----------------------------
(* Two channels and four satellites, of which one in the middle is dead, as   *)
(* 12 or 17 in the code; a week of three seconds, in which a lock can be      *)
(* recent, old or of the week before.                                         *)
EXTENDS Allocation

MCDead == {2}
MCFirstPrn == [c \in 0 .. 1 |-> IF c = 0 THEN 1 ELSE 3]

\* now and now_age are read by the first loop; after it all that matters of now is
\* whether it has been moved beyond the lock of a channel still to be passed, and of
\* turned_off whether such a channel is in it.
MCView ==
  LET ahead == IF pc = "restart" THEN 0 .. 1 ELSE ch .. 1 IN
  <<channelVars, allocate_flag, clockVars, lockVars, next_satellite, pc, ch, disturbed,
    IF pc = "restart" THEN <<now, now_age>>
    ELSE IF pc = "wait" THEN {}
    ELSE {c \in ahead : now >= SECONDS_IN_WEEK + last_lock[c]},
    {c \in turned_off \cap ahead : state[c] = "OFF"}>>
=============================================================================
