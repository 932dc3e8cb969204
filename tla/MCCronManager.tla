--------------------------- MODULE MCCronManager ---------------------------
(* Small schedules for CronManager. *)
EXTENDS CronManager, TLC

CONSTANTS once, loop, again, event, x, y, z

\* again registers the id of loop once more.
Ids   == [j \in Job |-> CASE j = once -> x [] j = event -> z [] OTHER -> y]
Modes == [j \in Job |-> CASE j = once -> "once" [] j = again -> "cron"
                         [] j = event -> "event" [] OTHER -> "loop"]

\* Two iterations each; and one for the re-registered job.
Caps    == [j \in Job |-> IF j = again THEN 1 ELSE 2]
Retries == [j \in Job |-> IF j = again THEN 0 ELSE 1]
=============================================================================
