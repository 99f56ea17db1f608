---------------------------- MODULE MCWidgetSets ----------------------------
(* Two widget sets beside one change of the settings: a schedule with a     *)
(* cron line that APScheduler refuses in its middle, a Redis server with a  *)
(* valid and an invalid row limit, a syslog server.                         *)
EXTENDS WidgetSets

MCWanted == [auto \in Autos |-> IF auto = "odd" THEN <<"a", "@daily", "b">> ELSE << >>]

MCBodies ==
    {<<<<"auto_refresh", "odd">>, <<"redis_host", "new">>, <<"row_limit", 0>>>>,
     <<<<"redis_host", "new">>, <<"row_limit", 5>>>>,
     <<<<"syslog", "s1">>>>,
     <<<<"auto_refresh", "disabled">>, <<"syslog", "off">>>>}
=============================================================================
