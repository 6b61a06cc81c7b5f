----------------------------- MODULE MCTickers -----------------------------
(***************************************************************************)
(* Goroutines driven by tickers, for TLC: a behaviour is one of the        *)
(* service that part names, and the others stay as they began.             *)
(*   watchdog  the watchdog over the Andon Cord, one scope beside the      *)
(*             global one, no hierarchy                                    *)
(*   jobs      one cron job, its scheduler and executor                    *)
(*   search    one search for the next run in a small calendar             *)
(***************************************************************************)
EXTENDS Watchdog, Cron, CronSearch, TLC

CONSTANTS a, i1, i2, p1, j1

VARIABLE part

Flat == (a :> <<>>) @@ (Global :> <<>>)

\* Two months, the second longer by a day in leap years.
MonthDaysDef == <<2, 1>>
SchedulesDef ==
    [minutes : {{0}, {1, 2}, {2}}, hours : {{0}, {1}, {0, 1}},
     days : {{1}, {2}, {1, 2}}, months : {{1}, {2}, {1, 2}},
     weekdays : {{0}, {1}, {0, 1}}]
AftersDef == 0 .. 13 * 6 - 1

\* The scheduler when it is not looked at: up, and without jobs.
CronRests ==
    /\ clock = 0 /\ running = TRUE /\ seat = "idle" /\ troubles = MaxTroubles
    /\ job = [j \in Jobs |-> NoRow]
    /\ exec = <<>> /\ fired = <<>> /\ busy = NoEvent /\ batch = {}
    /\ at = [d \in Dispatchers |-> "idle"]
    /\ item = [d \in Dispatchers |-> NoItem]
    /\ draft = [k \in Callers |-> NoDraft]
    /\ excused = {} /\ mixed = {}

SearchRests ==
    /\ sched = CHOOSE s \in Schedules : TRUE
    /\ after = 0 /\ minute = 1 /\ result = NoMinute

TickersInit ==
    /\ WInit
    /\ \/ part = "watchdog" /\ CronRests /\ SearchRests
       \/ part = "jobs" /\ CronInit /\ SearchRests
       \/ part = "search" /\ CronRests /\ SearchInit

WatchdogStep ==
    part = "watchdog" /\ WNext /\ UNCHANGED <<part, cronVars, searchVars>>

JobsStep ==
    part = "jobs" /\ CronNext /\ UNCHANGED <<part, allVars, searchVars>>

SearchStep ==
    part = "search" /\ SearchNext /\ UNCHANGED <<part, allVars, cronVars>>

\* No fair action of a service is enabled where it rests or has not begun, so
\* that the fairness of one asks nothing of the others.
TickersSpec ==
    /\ TickersInit
    /\ [][WatchdogStep \/ JobsStep \/ SearchStep]_
         <<part, allVars, cronVars, searchVars>>
    /\ WFairness /\ CronFairness
=============================================================================
