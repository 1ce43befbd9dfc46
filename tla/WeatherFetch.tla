---------------------------- MODULE WeatherFetch ----------------------------
(***************************************************************************)
(* The forecasts that BasicWeatherService.fetchAndSave stores: every night *)
(* at 23:55 by the scheduler, and at the start of the server by            *)
(* WeatherInitializer when last night's are missing.                       *)
(*                                                                         *)
(* A fetch goes through all regions in batches; each batch is asked for    *)
(* concurrently, awaited, and stored in a transaction of its own, so a crash leaves  *)
(* the batches before it.  Days are numbered; the one before the first is  *)
(* in the table too.                                                       *)
(***************************************************************************)
EXTENDS Integers, FiniteSets

CONSTANTS Regions,      \* rows of weather_locations.xlsx
          BatchSize,    \* 100 in the code
          MaxDay,       \* bound: days in a behaviour
          MaxStarts     \* bound: starts of the server

ASSUME WeatherAssumption ==
    IsFiniteSet(Regions) /\ BatchSize \in Nat \ {0} /\ MaxDay \in Nat \ {0} /\ MaxStarts \in Nat

VARIABLES day, late,    \* today; is it after 23:55
          up, since,    \* the server is running; when it was started
          runners,      \* ApplicationRunners it has still to call
          due,          \* the scheduler is to begin the nightly fetch
          job,          \* the fetch of each thread
          locations,    \* table weather_locations
          rows,         \* table weathers: how many times each forecast is there
          starts,       \* starts so far
          asked,        \* ghost: regions that have been asked for, for each day
          failed,       \* ghost: <<day, region>> without a usable answer
          cut,          \* ghost: days whose last fetch did not reach its end
          checked       \* ghost: day of the check of this run of the server, and
                        \*        whether it was made and found regions

clock == <<day, late>>
server == <<up, since, runners, starts>>
ghosts == <<asked, failed, cut, checked>>
vars == <<clock, server, due, job, locations, rows, ghosts>>

---------------------------------------------------------------------------
(* Types *)

Threads == {"main", "scheduler"}
Days == 0..MaxDay
Idle == [pc |-> "idle"]
Fetch == [pc : {"next", "wait"}, day : Days, total : SUBSET Regions,
          left : SUBSET Regions,        \* not in a batch yet
          batch : SUBSET Regions]       \* asked for

TypeOK ==
    /\ day \in 1..MaxDay /\ late \in BOOLEAN
    /\ up \in BOOLEAN /\ due \in BOOLEAN
    /\ since \in [day : 1..MaxDay, late : BOOLEAN]
    /\ runners \subseteq {"locations", "weather"}
    /\ job \in [Threads -> {Idle} \cup Fetch]
    /\ locations \in {{}, Regions}
    /\ rows \in [Days -> [Regions -> Nat]]
    /\ starts \in 0..MaxStarts
    /\ asked \in [Days -> SUBSET Regions]
    /\ failed \subseteq Days \X Regions
    /\ cut \subseteq Days
    /\ checked \in [day : Days, regions : BOOLEAN]

Busy(t) == job[t].pc # "idle"

---------------------------------------------------------------------------
(* The clock *)

\* 23:55.  A fetch that still runs from the night before is not started again.
Strike ==
    /\ ~late
    /\ late' = TRUE
    /\ due' = (due \/ (up /\ ~Busy("scheduler")))
    /\ UNCHANGED <<day, server, job, locations, rows, ghosts>>

\* A server that is up at 23:55 has reached its weather runner by midnight.
Midnight ==
    /\ late /\ day < MaxDay
    /\ "weather" \in runners => since = [day |-> day, late |-> TRUE]
    /\ day' = day + 1 /\ late' = FALSE
    /\ UNCHANGED <<server, due, job, locations, rows, ghosts>>

---------------------------------------------------------------------------
(* Start and stop *)

Start ==
    /\ ~up /\ starts < MaxStarts
    /\ up' = TRUE
    /\ since' = [day |-> day, late |-> late]
    /\ runners' = {"locations", "weather"}
    /\ starts' = starts + 1
    /\ UNCHANGED <<clock, due, job, locations, rows, ghosts>>

\* Runners are called one at a time; these two state no order.
Calls(runner) == up /\ runner \in runners /\ ~Busy("main")

SheetLessOne == Regions \ {CHOOSE r \in Regions : TRUE}   \* Mutant: skips a row too many.
Sheet == Regions

\* The regions are stored all at once; a failure is caught and logged.
RunLocations ==
    /\ Calls("locations")
    /\ locations' \in IF locations = {} THEN {{}, Sheet} ELSE {locations}
    /\ runners' = runners \ {"locations"}
    /\ UNCHANGED <<clock, up, since, starts, due, job, rows, ghosts>>

BeginFetch(t, d) ==
    /\ job' = [job EXCEPT ![t] = [pc |-> "next", day |-> d, total |-> locations,
                                  left |-> locations, batch |-> {}]]
    /\ cut' = cut \ {d}

InitialDay == day - 1

\* Mutants: any forecast will do; no check.
ExistsAny(d) == \E e \in Days, r \in Regions : rows[e][r] > 0
ExistsNever(d) == FALSE
ExistsByForecastedAt(d) == \E r \in Regions : rows[d][r] > 0

RunWeather ==
    /\ Calls("weather")
    /\ runners' = runners \ {"weather"}
    /\ checked' = [day |-> day, regions |-> locations # {}]
    /\ IF ExistsByForecastedAt(InitialDay)
          THEN UNCHANGED <<job, cut>>
          ELSE BeginFetch("main", InitialDay)
    /\ UNCHANGED <<clock, up, since, starts, due, locations, rows, asked, failed>>

BeginNight ==
    /\ up /\ due /\ ~Busy("scheduler")
    /\ due' = FALSE
    /\ BeginFetch("scheduler", day)     \* LocalDate.now()
    /\ UNCHANGED <<clock, server, locations, rows, asked, failed, checked>>

Stop ==
    /\ up' = FALSE
    /\ runners' = {}
    /\ due' = FALSE
    /\ job' = [t \in Threads |-> Idle]
    /\ cut' = cut \cup {job[t].day : t \in {u \in Threads : Busy(u)}}
    /\ checked' = [checked EXCEPT !.regions = FALSE]
    /\ UNCHANGED <<clock, since, starts, locations, rows, asked, failed>>

Crash == up /\ Stop

---------------------------------------------------------------------------
(* fetchAndSave *)

\* The batches follow the order of findAll, which is not specified.
TakeBatch(t) ==
    /\ job[t].pc = "next" /\ job[t].left # {}
    /\ \E batch \in SUBSET job[t].left :
          /\ \/ Cardinality(batch) = BatchSize
             \/ batch = job[t].left /\ Cardinality(batch) < BatchSize
          /\ job' = [job EXCEPT ![t].pc = "wait", ![t].left = @ \ batch, ![t].batch = batch]
          /\ asked' = [asked EXCEPT ![job[t].day] = @ \cup batch]
    /\ UNCHANGED <<clock, server, due, locations, rows, failed, cut, checked>>

\* The service has no forecast of a night that is still to come.
Published(d) == d < day \/ (d = day /\ late)

\* The regions of the batch whose call gave a forecast of the night.  An error,
\* an empty answer and one that cannot be parsed count for nothing.
Forecasts(t) == {got \in SUBSET job[t].batch : got # {} => Published(job[t].day)}

\* All calls of the batch have ended; what they gave is stored.
Save(t) ==
    /\ job[t].pc = "wait"
    /\ \E got \in Forecasts(t) :
          /\ rows' = [rows EXCEPT ![job[t].day] =
                          [r \in Regions |-> IF r \in got THEN @[r] + 1 ELSE @[r]]]
          /\ failed' = failed \cup ({job[t].day} \X (job[t].batch \ got))
    /\ job' = [job EXCEPT ![t].pc = "next", ![t].batch = {}]
    /\ UNCHANGED <<clock, server, due, locations, asked, cut, checked>>

\* The database refuses findAll or saveAll.  The exception ends the nightly
\* fetch; at the start it ends the server.
Refuse(t) ==
    /\ job[t].pc = "wait" \/ (job[t].pc = "next" /\ job[t].left = job[t].total)
    /\ IF t = "main"
          THEN Stop
          ELSE /\ job' = [job EXCEPT ![t] = Idle]
               /\ cut' = cut \cup {job[t].day}
               /\ UNCHANGED <<clock, server, due, locations, rows, asked, failed, checked>>

\* Mutant: only whole batches are fetched.
DoneTooEarly(t) == Cardinality(job[t].left) < BatchSize
Done(t) == job[t].left = {}

EndFetch(t) ==
    /\ job[t].pc = "next" /\ Done(t)
    /\ job' = [job EXCEPT ![t] = Idle]
    /\ UNCHANGED <<clock, server, due, locations, rows, ghosts>>

FetchStep(t) == TakeBatch(t) \/ Save(t) \/ Refuse(t) \/ EndFetch(t)

---------------------------------------------------------------------------

Init ==
    /\ day = 1 /\ late = FALSE
    /\ up = FALSE /\ since = [day |-> 1, late |-> FALSE] /\ runners = {}
    /\ due = FALSE
    /\ job = [t \in Threads |-> Idle]
    /\ locations = {}
    /\ rows = [d \in Days |-> [r \in Regions |-> 0]]
    /\ starts = 0
    /\ asked = [d \in Days |-> {}]
    /\ failed = {} /\ cut = {}
    /\ checked = [day |-> 0, regions |-> FALSE]

Next ==
    \/ Strike \/ Midnight
    \/ Start \/ Crash \/ RunLocations \/ RunWeather \/ BeginNight
    \/ \E t \in Threads : FetchStep(t)

Spec == Init /\ [][Next]_vars

---------------------------------------------------------------------------
(* Properties *)

\* No forecast is stored twice: getWeatherInfo, which maps the rows of a region
\* by their time, throws at the second.  The nightly fetch, a fetch at the start
\* and restarts never go through the same region for the same night twice, once
\* it is stored.
NoDoubleForecast == \A d \in Days, r \in Regions : rows[d][r] <= 1

\* A night whose fetch began to ask and was not cut short is there for every
\* region there is, but for those the service had no usable answer for: the
\* loop leaves no batch out.
CompleteUnlessCut ==
    \A d \in Days \ cut :
        \/ \E t \in Threads : Busy(t) /\ job[t].day = d
        \/ asked[d] = {}
        \/ \A r \in Regions : rows[d][r] > 0 \/ <<d, r>> \in failed

\* A fetch of the night is on that has still to come to the region.
StillToAsk(d, r) == \E t \in Threads : Busy(t) /\ job[t].day = d /\ r \in job[t].left

\* Once a running server has made its check and there are regions, each of them
\* has been asked for last night's forecast or will be - with one exception,
\* which is all that the check misses: a fetch of last night was cut short after
\* it had stored something, and existsByForecastedAt takes that for the night.
RestartRecovers ==
    checked.regions =>
        LET d == checked.day - 1
        IN  \/ \A r \in Regions : r \in asked[d] \/ StillToAsk(d, r)
            \/ d \in cut /\ \E r \in Regions : rows[d][r] > 0
=============================================================================
