-------------------------- MODULE MCEngineTransport --------------------------
(* Small instances of EngineTransport for TLC: the messages of two         *)
(* assignments, the clocks of one game, the cache between two slots.       *)
EXTENDS EngineTransport

MCEngines == {"white", "black"}
MCOther == {<<0, "other slot">>}
MCPreparers == ((1 .. 2) \X MCEngines) \cup MCOther

TC(category, initialTime, increment, moveTime, movesToGo) ==
    [category |-> category, initialTime |-> initialTime, increment |-> increment,
     moveTime |-> moveTime, movesToGo |-> movesToGo]
MCTimeControls ==
    {TC("INCREMENT", 2, 1, 0, 0), TC("MOVETIME", 0, 0, 2, 0),
     TC("MOVESTOGO", 3, 0, 0, 1), TC("MOVENODES", 0, 0, 0, 0)}

MCInstances ==
    {[assignments |-> 2, plies |-> 1, timeControls |-> {TC("INCREMENT", 1, 0, 0, 0)},
      elapsed |-> {0, 1}, infos |-> 1, others |-> FALSE, mishaps |-> 0],
     [assignments |-> 1, plies |-> 2, timeControls |-> {TC("INCREMENT", 1, 0, 0, 0)},
      elapsed |-> {0, 1}, infos |-> 1, others |-> FALSE, mishaps |-> 0],
     [assignments |-> 1, plies |-> 3, timeControls |-> MCTimeControls,
      elapsed |-> {0, 1, 2}, infos |-> 0, others |-> FALSE, mishaps |-> 0],
     [assignments |-> 1, plies |-> 0, timeControls |-> {TC("MOVENODES", 0, 0, 0, 0)},
      elapsed |-> {0}, infos |-> 0, others |-> TRUE, mishaps |-> 2]}
=============================================================================
