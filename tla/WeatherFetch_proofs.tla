------------------------ MODULE WeatherFetch_proofs ------------------------
(***************************************************************************)
(* Proofs about WeatherFetch, for any regions, any size of a batch and any *)
(* number of days and starts.                                              *)
(***************************************************************************)
EXTENDS WeatherFetch, TLAPS

---------------------------------------------------------------------------
(* The inductive invariant *)

\* A server that is down does nothing, and the scheduler begins its fetch of a
\* night before it is given another.
Calm ==
    /\ ~up => ~due /\ runners = {} /\ \A t \in Threads : ~Busy(t)
    /\ Busy("scheduler") => ~due

\* A server that was started after 23:55 leaves that night to its own check.
LateStart ==
    /\ since.day <= day
    /\ up /\ since = [day |-> day, late |-> TRUE] => late /\ ~due /\ ~Busy("scheduler")

\* The check at the start fetches a night that is over, the scheduler never one
\* that the check may fetch: the two are never at the same night.
NightsApart ==
    /\ Busy("main") => job["main"].day < day
    /\ Busy("scheduler") => job["scheduler"].day <= day
    /\ Busy("scheduler") /\ "weather" \in runners => job["scheduler"].day = day
    /\ Busy("main") /\ Busy("scheduler") => job["main"].day # job["scheduler"].day

\* Nothing is stored of a night before the service has published it, nor
\* while its fetch is still to begin.
NothingEarly ==
    /\ \A d \in Days : d > day => \A r \in Regions : rows[d][r] = 0
    /\ due \/ ~late => \A r \in Regions : rows[day][r] = 0

\* A fetch goes on with regions of which the night is not stored, in two
\* disjoint parts; of the regions it began with it has asked for all that are
\* not left, and what it has been through is stored or failed.
Progress(t) ==
    LET j == job[t]
    IN  /\ j.left \cup j.batch \subseteq j.total
        /\ j.left \cap j.batch = {}
        /\ j.pc = "next" => j.batch = {}
        /\ j.total \in {{}, Regions} /\ j.total \subseteq locations
        /\ j.total = {} => asked[j.day] = {}
        /\ \A r \in j.left \cup j.batch : rows[j.day][r] = 0
        /\ \A r \in j.total : r \in j.left \/ r \in asked[j.day]
        /\ \A r \in j.total :
              r \in j.left \cup j.batch \/ rows[j.day][r] > 0 \/ <<j.day, r>> \in failed
Progresses == \A t \in Threads : Busy(t) => Progress(t)

\* A night of which something is stored has been asked for everywhere, unless
\* its fetch goes on or was cut short.  Only regions that are stored are asked
\* for.
AskedAll ==
    /\ \A d \in Days, r \in Regions : rows[d][r] > 0 =>
          \/ d \in cut
          \/ \E t \in Threads : Busy(t) /\ job[t].day = d /\ job[t].total = Regions
          \/ asked[d] = Regions
    /\ \A d \in Days : asked[d] # {} => locations = Regions

\* After its check a run of the server fetches no night before the one the
\* check was made on.
CheckedFirst ==
    checked.regions =>
        /\ 1 <= checked.day /\ checked.day <= day
        /\ Busy("scheduler") => job["scheduler"].day >= checked.day

FetchInv ==
    /\ TypeOK
    /\ Calm /\ LateStart /\ NightsApart
    /\ NothingEarly /\ Progresses /\ AskedAll /\ CheckedFirst
    /\ NoDoubleForecast /\ CompleteUnlessCut /\ RestartRecovers

---------------------------------------------------------------------------
(* Types and effects *)

\* An idle thread holds the idle record, a busy one a fetch.
LEMMA JobRecord ==
    ASSUME TypeOK, NEW t \in Threads
    PROVE  /\ ~Busy(t) => job[t] = Idle
           /\ Busy(t) => /\ job[t] \in Fetch /\ job[t].pc \in {"next", "wait"} /\ job[t].day \in Days
                         /\ job[t].total \subseteq Regions /\ job[t].left \subseteq Regions
                         /\ job[t].batch \subseteq Regions
<1>1. job[t] = Idle \/ job[t] \in Fetch
  BY DEF TypeOK
<1>2. job[t] \in Fetch => job[t].pc # "idle"
  BY DEF Fetch
<1>3. job[t] = Idle => ~Busy(t)
  BY DEF Idle, Busy
<1>. QED  BY <1>1, <1>2, <1>3 DEF Busy, Fetch

\* One thread is put into another state.
LEMMA JobSet ==
    ASSUME TypeOK, NEW t \in Threads, NEW x \in {Idle} \cup Fetch, job' = [job EXCEPT ![t] = x]
    PROVE  /\ job' \in [Threads -> {Idle} \cup Fetch]
           /\ job'[t] = x
           /\ \A u \in Threads \ {t} : job'[u] = job[u] /\ (Busy(u)' <=> Busy(u))
BY DEF TypeOK, Busy

\* Days are integers, and so is the day before the current one.
LEMMA DayTypes ==
    ASSUME TypeOK
    PROVE  day \in Int /\ day \in Days /\ day - 1 \in Days /\ \A d \in Days : d \in Int
BY WeatherAssumption DEF TypeOK, Days

\* What a fetch is when it begins.
NewFetch(d) == [pc |-> "next", day |-> d, total |-> locations, left |-> locations, batch |-> {}]

\* A fetch of a night of which nothing is stored and that nobody else is at.
LEMMA BeginEffect ==
    ASSUME FetchInv, NEW t \in Threads, NEW d \in Days, BeginFetch(t, d), ~Busy(t),
           \A r \in Regions : rows[d][r] = 0,
           \A u \in Threads \ {t} : Busy(u) => job[u].day # d,
           UNCHANGED <<locations, rows, asked, failed>>
    PROVE  /\ job' \in [Threads -> {Idle} \cup Fetch]
           /\ Busy(t)' /\ job'[t] = NewFetch(d)
           /\ \A u \in Threads \ {t} : job'[u] = job[u] /\ (Busy(u)' <=> Busy(u))
           /\ cut' = cut \ {d}
           /\ Progresses' /\ AskedAll' /\ CompleteUnlessCut'
<1>. USE DEF FetchInv
<1>1. locations \in {{}, Regions} /\ asked \in [Days -> SUBSET Regions]
  BY DEF TypeOK
<1>2. NewFetch(d) \in Fetch
  BY <1>1 DEF NewFetch, Fetch
<1>3. job' = [job EXCEPT ![t] = NewFetch(d)] /\ cut' = cut \ {d}
  BY DEF BeginFetch, NewFetch
<1>4. /\ job' \in [Threads -> {Idle} \cup Fetch] /\ job'[t] = NewFetch(d)
      /\ \A u \in Threads \ {t} : job'[u] = job[u] /\ (Busy(u)' <=> Busy(u))
  BY <1>2, <1>3, JobSet
<1>5. Busy(t)' /\ job'[t].pc = "next" /\ job'[t].day = d /\ job'[t].total = locations
      /\ job'[t].left = locations /\ job'[t].batch = {}
  BY <1>4 DEF Busy, NewFetch
<1>6. Progresses'
  <2>1. Progress(t)'
    <3>1. \A r \in locations : rows[d][r] = 0
      BY <1>1
    <3>2. locations = {} => asked[d] = {}
      BY <1>1 DEF AskedAll
    <3>. QED  BY <1>1, <1>5, <3>1, <3>2 DEF Progress
  <2>2. ASSUME NEW u \in Threads, u # t, Busy(u)
        PROVE  Progress(u)'
    BY <1>4, <2>2 DEF Progress, Progresses
  <2>. QED  BY <1>4, <2>1, <2>2 DEF Progresses
<1>7. AskedAll'
  <2>1. ASSUME NEW e \in Days, NEW r \in Regions, rows[e][r] > 0
        PROVE  \/ e \in cut'
               \/ \E u \in Threads : Busy(u)' /\ job'[u].day = e /\ job'[u].total = Regions
               \/ asked[e] = Regions
    <3>1. e # d
      BY <2>1
    <3>2. CASE \E u \in Threads : Busy(u) /\ job[u].day = e /\ job[u].total = Regions
      <4>1. PICK u \in Threads : Busy(u) /\ job[u].day = e /\ job[u].total = Regions
        BY <3>2
      <4>. QED  BY <1>4, <4>1
    <3>. QED  BY <1>3, <2>1, <3>1, <3>2 DEF AskedAll
  <2>. QED  BY <2>1 DEF AskedAll
<1>8. CompleteUnlessCut'
  <2>1. ASSUME NEW e \in Days \ cut', e # d
        PROVE  \/ \E u \in Threads : Busy(u)' /\ job'[u].day = e
               \/ asked'[e] = {}
               \/ \A r \in Regions : rows'[e][r] > 0 \/ <<e, r>> \in failed'
    <3>1. CASE \E u \in Threads : Busy(u) /\ job[u].day = e
      <4>1. PICK u \in Threads : Busy(u) /\ job[u].day = e
        BY <3>1
      <4>. QED  BY <1>4, <4>1
    <3>. QED  BY <1>3, <2>1, <3>1 DEF CompleteUnlessCut
  <2>2. \E u \in Threads : Busy(u)' /\ job'[u].day = d
    BY <1>5
  <2>. QED  BY <2>1, <2>2 DEF CompleteUnlessCut
<1>. QED  BY <1>3, <1>4, <1>5, <1>6, <1>7, <1>8

\* What the conjuncts about the table say of a step that leaves it alone.
LEMMA TableKept ==
    ASSUME FetchInv, UNCHANGED <<rows, asked, failed, cut, checked, job>>,
           locations \subseteq locations', locations' \subseteq Regions
    PROVE  Progresses' /\ AskedAll' /\ NoDoubleForecast' /\ CompleteUnlessCut' /\ RestartRecovers'
<1>1. \A t \in Threads : Busy(t)' <=> Busy(t)
  BY DEF Busy
<1>2. Progresses'
  BY <1>1 DEF FetchInv, Progresses, Progress
<1>3. CompleteUnlessCut'
  BY <1>1 DEF FetchInv, CompleteUnlessCut
<1>4. AskedAll'
  BY <1>1 DEF FetchInv, AskedAll
<1>5. NoDoubleForecast' /\ RestartRecovers'
  BY <1>1 DEF FetchInv, NoDoubleForecast, RestartRecovers, StillToAsk
<1>. QED  BY <1>2, <1>3, <1>4, <1>5

---------------------------------------------------------------------------
(* The invariant is inductive *)

\* The invariant holds before the first start.
LEMMA InitInv == Init => FetchInv
<1>. SUFFICES ASSUME Init PROVE FetchInv
  OBVIOUS
<1>. USE WeatherAssumption
<1>1. \A t \in Threads : job[t] = Idle /\ ~Busy(t)
  BY DEF Init, Busy, Idle
<1>2. /\ \A d \in Days, r \in Regions : rows[d][r] = 0
      /\ \A d \in Days : asked[d] = {}
      /\ 1 \in Days /\ 0 \in Days
  BY DEF Init, Days
<1>3. day = 1 /\ late = FALSE /\ up = FALSE /\ since = [day |-> 1, late |-> FALSE] /\ runners = {}
      /\ due = FALSE /\ failed = {} /\ cut = {} /\ checked = [day |-> 0, regions |-> FALSE]
  BY DEF Init
<1>4. TypeOK
  <2>1. job \in [Threads -> {Idle} \cup Fetch]
    BY DEF Init
  <2>2. rows \in [Days -> [Regions -> Nat]] /\ asked \in [Days -> SUBSET Regions]
    BY DEF Init
  <2>3. since \in [day : 1..MaxDay, late : BOOLEAN] /\ checked \in [day : Days, regions : BOOLEAN]
    BY <1>2, <1>3
  <2>4. day \in 1..MaxDay /\ starts \in 0..MaxStarts /\ locations = {}
    BY DEF Init
  <2>. QED  BY <1>3, <2>1, <2>2, <2>3, <2>4 DEF TypeOK
<1>5. Calm /\ LateStart /\ NightsApart
  BY <1>1, <1>3 DEF Calm, LateStart, NightsApart, Threads
<1>6. NothingEarly /\ Progresses /\ AskedAll /\ CheckedFirst
  BY <1>1, <1>2, <1>3 DEF NothingEarly, Progresses, AskedAll, CheckedFirst
<1>7. NoDoubleForecast /\ CompleteUnlessCut /\ RestartRecovers
  BY <1>2, <1>3 DEF NoDoubleForecast, CompleteUnlessCut, RestartRecovers
<1>. QED  BY <1>4, <1>5, <1>6, <1>7 DEF FetchInv

\* 23:55 keeps it.
LEMMA StrikeInv == ASSUME FetchInv, Strike PROVE FetchInv'
<1>. USE DEF FetchInv
<1>1. /\ ~late /\ late' = TRUE /\ due' = (due \/ (up /\ ~Busy("scheduler")))
      /\ UNCHANGED <<day, up, since, runners, starts, job, locations, rows, asked, failed, cut, checked>>
  BY DEF Strike, server, ghosts
<1>2. \A t \in Threads : Busy(t)' <=> Busy(t)
  BY <1>1 DEF Busy
<1>3. "scheduler" \in Threads /\ "main" \in Threads
  BY DEF Threads
<1>4. TypeOK'
  BY <1>1 DEF TypeOK
<1>5. Calm' /\ LateStart' /\ NightsApart' /\ CheckedFirst'
  BY <1>1, <1>2, <1>3 DEF Calm, LateStart, NightsApart, CheckedFirst
<1>6. NothingEarly'
  BY <1>1 DEF NothingEarly
<1>7. locations \subseteq locations' /\ locations' \subseteq Regions
  BY <1>1 DEF TypeOK
<1>. QED  BY <1>1, <1>4, <1>5, <1>6, <1>7, TableKept

\* At midnight the only server with its check still to come is one that was
\* started after 23:55.
LEMMA MidnightInv == ASSUME FetchInv, Midnight PROVE FetchInv'
<1>. USE DEF FetchInv
<1>1. /\ late /\ day < MaxDay /\ day' = day + 1 /\ late' = FALSE
      /\ "weather" \in runners => since = [day |-> day, late |-> TRUE]
      /\ UNCHANGED <<up, since, runners, starts, due, job, locations, rows, asked, failed, cut, checked>>
  BY DEF Midnight, server, ghosts
<1>2. \A t \in Threads : Busy(t)' <=> Busy(t)
  BY <1>1 DEF Busy
<1>3. "scheduler" \in Threads /\ "main" \in Threads
  BY DEF Threads
<1>4. day \in Int /\ day' \in 1..MaxDay /\ day' \in Days /\ \A d \in Days : d \in Int
  BY <1>1, WeatherAssumption DEF TypeOK, Days
<1>5. TypeOK'
  BY <1>1, <1>4 DEF TypeOK
<1>6. since.day \in Int /\ since.day <= day
  BY DEF TypeOK, LateStart
<1>7. Calm'
  BY <1>1, <1>2, <1>3 DEF Calm
<1>8. LateStart'
  <2>1. since.day # day'
    BY <1>1, <1>4, <1>6
  <2>2. since' # [day |-> day', late |-> TRUE]
    BY <1>1, <2>1
  <2>. QED  BY <1>1, <1>4, <1>6, <2>2 DEF LateStart
<1>9. NightsApart'
  <2>1. "weather" \in runners => ~Busy("scheduler")
    BY <1>1 DEF Calm, LateStart
  <2>2. \A t \in Threads : Busy(t) => job[t].day \in Int
    BY <1>4, JobRecord
  <2>. QED  BY <1>1, <1>2, <1>3, <1>4, <2>1, <2>2 DEF NightsApart
<1>10. NothingEarly'
  <2>1. \A d \in Days : d >= day' => \A r \in Regions : rows[d][r] = 0
    BY <1>1, <1>4 DEF NothingEarly
  <2>2. \A d \in Days : d > day' => d >= day'
    BY <1>4
  <2>3. day' >= day'
    BY <1>4
  <2>. QED  BY <1>1, <1>4, <2>1, <2>2, <2>3 DEF NothingEarly
<1>11. CheckedFirst'
  <2>1. checked.day \in Int
    BY <1>4 DEF TypeOK
  <2>. QED  BY <1>1, <1>2, <1>3, <1>4, <2>1 DEF CheckedFirst
<1>12. locations \subseteq locations' /\ locations' \subseteq Regions
  BY <1>1 DEF TypeOK
<1>. QED  BY <1>1, <1>5, <1>7, <1>8, <1>9, <1>10, <1>11, <1>12, TableKept

\* A start of the program keeps it.
LEMMA StartInv == ASSUME FetchInv, Start PROVE FetchInv'
<1>. USE DEF FetchInv
<1>1. /\ ~up /\ starts < MaxStarts /\ up' = TRUE
      /\ since' = [day |-> day, late |-> late] /\ runners' = {"locations", "weather"}
      /\ starts' = starts + 1
      /\ UNCHANGED <<day, late, due, job, locations, rows, asked, failed, cut, checked>>
  BY DEF Start, clock, ghosts
<1>2. ~due /\ \A t \in Threads : ~Busy(t) /\ ~Busy(t)'
  BY <1>1 DEF Calm, Busy
<1>3. "scheduler" \in Threads /\ "main" \in Threads
  BY DEF Threads
<1>4. TypeOK'
  <2>1. since' \in [day : 1..MaxDay, late : BOOLEAN]
    BY <1>1 DEF TypeOK
  <2>2. starts' \in 0..MaxStarts
    BY <1>1, WeatherAssumption DEF TypeOK
  <2>. QED  BY <1>1, <2>1, <2>2 DEF TypeOK
<1>5. since'.day = day /\ since'.late = late
  BY <1>1
<1>6. LateStart'
  <2>1. since'.day <= day
    BY <1>5, DayTypes
  <2>2. since' = [day |-> day, late |-> TRUE] => since'.late = TRUE
    OBVIOUS
  <2>. QED  BY <1>1, <1>2, <1>3, <1>5, <2>1, <2>2 DEF LateStart
<1>7. Calm' /\ NightsApart' /\ NothingEarly' /\ CheckedFirst'
  BY <1>1, <1>2, <1>3 DEF Calm, NightsApart, NothingEarly, CheckedFirst
<1>8. locations \subseteq locations' /\ locations' \subseteq Regions
  BY <1>1 DEF TypeOK
<1>. QED  BY <1>1, <1>4, <1>6, <1>7, <1>8, TableKept

\* The initializer of the locations keeps it.
LEMMA RunLocationsInv == ASSUME FetchInv, RunLocations PROVE FetchInv'
<1>. USE DEF FetchInv
<1>1. /\ up /\ runners' = runners \ {"locations"}
      /\ locations' \in {{}, Regions} /\ locations \subseteq locations'
      /\ UNCHANGED <<day, late, up, since, starts, due, job, rows, asked, failed, cut, checked>>
  BY DEF RunLocations, Calls, Sheet, TypeOK, clock, ghosts
<1>2. \A t \in Threads : Busy(t)' <=> Busy(t)
  BY <1>1 DEF Busy
<1>3. "scheduler" \in Threads /\ "main" \in Threads
  BY DEF Threads
<1>4. TypeOK'
  BY <1>1 DEF TypeOK
<1>5. Calm' /\ LateStart' /\ NightsApart' /\ NothingEarly' /\ CheckedFirst'
  BY <1>1, <1>2, <1>3 DEF Calm, LateStart, NightsApart, NothingEarly, CheckedFirst
<1>. QED  BY <1>1, <1>4, <1>5, TableKept

\* The check at the start fetches last night when nothing of it is stored;
\* otherwise a fetch has asked for all regions, or it was cut short.
LEMMA RunWeatherInv == ASSUME FetchInv, RunWeather PROVE FetchInv'
<1>. USE DEF FetchInv
<1>1. PICK d \in Days : d = day - 1
  BY DayTypes
<1>2. /\ up /\ "weather" \in runners /\ ~Busy("main") /\ runners' = runners \ {"weather"}
      /\ checked' = [day |-> day, regions |-> locations # {}]
      /\ UNCHANGED <<day, late, up, since, starts, due, locations, rows, asked, failed>>
  BY DEF RunWeather, Calls, clock
<1>3. /\ day \in Int /\ d \in Int /\ d \in Days /\ day \in Days /\ d < day /\ day >= 1
      /\ checked'.day = day /\ (checked'.regions <=> locations # {})
      /\ locations \in {{}, Regions} /\ rows \in [Days -> [Regions -> Nat]]
  <2>1. /\ day \in 1..MaxDay
        /\ locations \in {{}, Regions} /\ rows \in [Days -> [Regions -> Nat]]
    BY DEF TypeOK
  <2>2. checked'.day = day /\ (checked'.regions <=> locations # {})
    BY <1>2
  <2>. QED  BY <1>1, <2>1, <2>2, WeatherAssumption DEF Days
<1>4. checked' \in [day : Days, regions : BOOLEAN]
  BY <1>2, <1>3
<1>5. "scheduler" \in Threads /\ "main" \in Threads /\ \A t \in Threads : t = "main" \/ t = "scheduler"
  BY DEF Threads
<1>6. Busy("scheduler") => job["scheduler"].day = day
  BY <1>2 DEF NightsApart
<1>7. checked'.day - 1 = d
  BY <1>1, <1>2
<1>8. CASE \E r \in Regions : rows[d][r] > 0
  <2>1. UNCHANGED <<job, cut>>
    BY <1>1, <1>2, <1>8 DEF RunWeather, ExistsByForecastedAt, InitialDay
  <2>2. \A t \in Threads : Busy(t)' <=> Busy(t)
    BY <2>1 DEF Busy
  <2>3. TypeOK'
    BY <1>2, <1>4, <2>1 DEF TypeOK
  <2>4. Calm' /\ LateStart' /\ NightsApart' /\ NothingEarly'
    BY <1>2, <1>5, <2>1, <2>2 DEF Calm, LateStart, NightsApart, NothingEarly
  <2>5. Progresses' /\ AskedAll' /\ CompleteUnlessCut' /\ NoDoubleForecast'
    BY <1>2, <2>1, <2>2 DEF Progresses, Progress, AskedAll, CompleteUnlessCut, NoDoubleForecast
  <2>6. CheckedFirst'
    BY <1>3, <1>6, <2>1, <2>2, <1>5, <1>2 DEF CheckedFirst
  <2>7. d \in cut \/ asked[d] = Regions
    <3>1. ~\E t \in Threads : Busy(t) /\ job[t].day = d
      BY <1>2, <1>3, <1>5, <1>6
    <3>. QED  BY <1>3, <1>8, <3>1 DEF AskedAll
  <2>8. RestartRecovers'
    BY <1>2, <1>7, <1>8, <2>1, <2>7 DEF RestartRecovers
  <2>. QED  BY <2>3, <2>4, <2>5, <2>6, <2>8
<1>9. CASE \A r \in Regions : rows[d][r] = 0
  <2>1. BeginFetch("main", d)
    BY <1>1, <1>2, <1>9 DEF RunWeather, ExistsByForecastedAt, InitialDay
  <2>2. \A u \in Threads \ {"main"} : Busy(u) => job[u].day # d
    BY <1>2, <1>3, <1>5, <1>6
  <2>3. /\ job' \in [Threads -> {Idle} \cup Fetch]
        /\ Busy("main")' /\ job'["main"] = NewFetch(d)
        /\ \A u \in Threads \ {"main"} : job'[u] = job[u] /\ (Busy(u)' <=> Busy(u))
        /\ cut' = cut \ {d}
        /\ Progresses' /\ AskedAll' /\ CompleteUnlessCut'
    BY <1>2, <1>3, <1>5, <1>9, <2>1, <2>2, BeginEffect
  <2>4. TypeOK'
    BY <1>2, <1>4, <2>3 DEF TypeOK
  <2>5. Calm' /\ LateStart' /\ NothingEarly'
    BY <1>2, <1>5, <2>3 DEF Calm, LateStart, NothingEarly
  <2>6. job'["main"].day = d /\ job'["main"].left = locations
    BY <2>3 DEF NewFetch
  <2>7. NightsApart' /\ CheckedFirst'
    BY <1>2, <1>3, <1>5, <1>6, <2>3, <2>6 DEF NightsApart, CheckedFirst
  <2>8. NoDoubleForecast'
    BY <1>2 DEF NoDoubleForecast
  <2>9. RestartRecovers'
    <3>1. ASSUME locations = Regions, NEW r \in Regions PROVE StillToAsk(d, r)'
      BY <1>5, <2>3, <2>6, <3>1 DEF StillToAsk
    <3>. QED  BY <1>2, <1>3, <1>7, <3>1 DEF RestartRecovers
  <2>. QED  BY <2>3, <2>4, <2>5, <2>7, <2>8, <2>9
<1>. QED
  <2>1. \A r \in Regions : rows[d][r] \in Nat
    BY <1>3
  <2>. QED  BY <1>8, <1>9, <2>1

\* The scheduler begins with today, of which nothing can be stored yet.
LEMMA BeginNightInv == ASSUME FetchInv, BeginNight PROVE FetchInv'
<1>. USE DEF FetchInv
<1>1. /\ up /\ due /\ ~Busy("scheduler") /\ due' = FALSE /\ BeginFetch("scheduler", day)
      /\ UNCHANGED <<day, late, up, since, runners, starts, locations, rows, asked, failed, checked>>
  BY DEF BeginNight, clock, server
<1>2. "scheduler" \in Threads /\ "main" \in Threads /\ \A t \in Threads : t = "main" \/ t = "scheduler"
  BY DEF Threads
<1>3. /\ day \in Days /\ day \in Int
      /\ \A r \in Regions : rows[day][r] = 0
      /\ \A u \in Threads \ {"scheduler"} : Busy(u) => job[u].day # day
  BY <1>1, <1>2, DayTypes DEF NothingEarly, NightsApart
<1>4. /\ job' \in [Threads -> {Idle} \cup Fetch]
      /\ Busy("scheduler")' /\ job'["scheduler"] = NewFetch(day)
      /\ \A u \in Threads \ {"scheduler"} : job'[u] = job[u] /\ (Busy(u)' <=> Busy(u))
      /\ cut' = cut \ {day}
      /\ Progresses' /\ AskedAll' /\ CompleteUnlessCut'
  BY <1>1, <1>2, <1>3, BeginEffect
<1>5. TypeOK'
  BY <1>1, <1>4 DEF TypeOK
<1>6. Calm' /\ NothingEarly'
  BY <1>1, <1>2, <1>4 DEF Calm, NothingEarly
<1>7. LateStart'
  BY <1>1 DEF LateStart
<1>8. job'["scheduler"].day = day
  BY <1>4 DEF NewFetch
<1>9. NightsApart' /\ CheckedFirst'
  BY <1>1, <1>2, <1>3, <1>4, <1>8 DEF NightsApart, CheckedFirst
<1>10. NoDoubleForecast'
  BY <1>1 DEF NoDoubleForecast
<1>11. RestartRecovers'
  <2>1. ASSUME checked.regions PROVE RestartRecovers'
    <3>1. /\ checked.day \in Int /\ checked.day \in Days /\ checked.day >= 1 /\ checked.day <= day
          /\ \A e \in Days : e \in Int
      BY <2>1, DayTypes DEF TypeOK, CheckedFirst
    <3>2. PICK d \in Days : d = checked.day - 1
      BY <3>1, WeatherAssumption DEF Days
    <3>3. d # day
      BY <1>3, <3>1, <3>2
    <3>4. ASSUME NEW r \in Regions, StillToAsk(d, r) PROVE StillToAsk(d, r)'
      <4>1. PICK t \in Threads : Busy(t) /\ job[t].day = d /\ r \in job[t].left
        BY <3>4 DEF StillToAsk
      <4>2. t # "scheduler"
        BY <1>1, <4>1
      <4>. QED  BY <1>4, <4>1, <4>2 DEF StillToAsk
    <3>5. \/ \A r \in Regions : r \in asked[d] \/ StillToAsk(d, r)
          \/ d \in cut /\ \E r \in Regions : rows[d][r] > 0
      BY <2>1, <3>2 DEF RestartRecovers
    <3>6. \/ \A r \in Regions : r \in asked'[d] \/ StillToAsk(d, r)'
          \/ d \in cut' /\ \E r \in Regions : rows'[d][r] > 0
      BY <1>1, <1>4, <3>3, <3>4, <3>5
    <3>7. checked'.day - 1 = d
      BY <1>1, <3>2
    <3>. QED  BY <3>6, <3>7 DEF RestartRecovers
  <2>. QED  BY <1>1, <2>1 DEF RestartRecovers
<1>. QED  BY <1>4, <1>5, <1>6, <1>7, <1>9, <1>10, <1>11

\* A stop leaves every night whose fetch it ends marked.
LEMMA StopInv == ASSUME FetchInv, Stop PROVE FetchInv'
<1>. USE DEF FetchInv
<1>1. /\ up' = FALSE /\ runners' = {} /\ due' = FALSE
      /\ job' = [t \in Threads |-> Idle]
      /\ cut' = cut \cup {job[t].day : t \in {u \in Threads : Busy(u)}}
      /\ checked' = [checked EXCEPT !.regions = FALSE]
      /\ UNCHANGED <<day, late, since, starts, locations, rows, asked, failed>>
  BY DEF Stop, clock
<1>2. \A t \in Threads : job'[t] = Idle /\ ~Busy(t)'
  BY <1>1 DEF Busy, Idle
<1>3. "scheduler" \in Threads /\ "main" \in Threads
  BY DEF Threads
<1>4. cut \subseteq cut' /\ \A t \in Threads : Busy(t) => job[t].day \in cut'
  BY <1>1
<1>5. checked' \in [day : Days, regions : BOOLEAN] /\ ~checked'.regions
  BY <1>1 DEF TypeOK
<1>6. TypeOK'
  <2>1. cut' \subseteq Days
    <3>1. \A t \in Threads : Busy(t) => job[t].day \in Days
      BY JobRecord
    <3>. QED  BY <1>1, <3>1 DEF TypeOK
  <2>2. job' \in [Threads -> {Idle} \cup Fetch]
    BY <1>1
  <2>. QED  BY <1>1, <1>5, <2>1, <2>2 DEF TypeOK
<1>7. Calm' /\ LateStart' /\ NightsApart' /\ CheckedFirst'
  BY <1>1, <1>2, <1>3, <1>5 DEF Calm, LateStart, NightsApart, CheckedFirst
<1>8. NothingEarly' /\ Progresses' /\ NoDoubleForecast' /\ RestartRecovers'
  BY <1>1, <1>2, <1>5 DEF NothingEarly, Progresses, NoDoubleForecast, RestartRecovers
<1>9. AskedAll'
  BY <1>1, <1>4 DEF AskedAll
<1>10. CompleteUnlessCut'
  <2>1. ASSUME NEW d \in Days, d \notin cut'
        PROVE  asked[d] = {} \/ \A r \in Regions : rows[d][r] > 0 \/ <<d, r>> \in failed
    <3>1. d \in Days \ cut /\ ~\E t \in Threads : Busy(t) /\ job[t].day = d
      BY <1>4, <2>1
    <3>. QED  BY <3>1 DEF CompleteUnlessCut
  <2>. QED  BY <1>1, <2>1 DEF CompleteUnlessCut
<1>. QED  BY <1>6, <1>7, <1>8, <1>10, <1>9

\* A step of a fetch leaves the clock, the server and the night it is at.
LEMMA StepKeeps ==
    ASSUME FetchInv, NEW t \in Threads, Busy(t),
           Busy(t)' => job'[t].day = job[t].day,
           \A u \in Threads \ {t} : job'[u] = job[u] /\ (Busy(u)' <=> Busy(u)),
           UNCHANGED <<clock, server, due, checked>>
    PROVE  Calm' /\ LateStart' /\ NightsApart' /\ CheckedFirst'
<1>. USE DEF FetchInv
<1>1. UNCHANGED <<day, late, up, since, runners, starts, due>>
  BY DEF clock, server
<1>2. "scheduler" \in Threads /\ "main" \in Threads
  BY DEF Threads
<1>3. \A u \in Threads : Busy(u)' => Busy(u) /\ job'[u].day = job[u].day
  OBVIOUS
<1>4. Calm' /\ LateStart'
  BY <1>1, <1>2, <1>3 DEF Calm, LateStart
<1>5. NightsApart' /\ CheckedFirst'
  BY <1>1, <1>2, <1>3 DEF NightsApart, CheckedFirst
<1>. QED  BY <1>4, <1>5

\* What RestartRecovers says stays true when no region that is left is lost,
\* nothing stored or asked for is, and no fetch of the night is begun.
LEMMA RecoversKept ==
    ASSUME RestartRecovers, checked' = checked, cut \subseteq cut',
           \A d \in Days : checked.regions /\ d = checked.day - 1 =>
              /\ asked[d] \subseteq asked'[d]
              /\ \A r \in Regions : rows[d][r] > 0 => rows'[d][r] > 0
              /\ \A r \in Regions : StillToAsk(d, r) => r \in asked'[d] \/ StillToAsk(d, r)',
           TypeOK, CheckedFirst
    PROVE  RestartRecovers'
<1>1. SUFFICES ASSUME checked.regions PROVE RestartRecovers'
  BY DEF RestartRecovers
<1>2. PICK d \in Days : d = checked.day - 1
  <2>1. checked.day \in Days /\ checked.day >= 1
    BY <1>1 DEF TypeOK, CheckedFirst
  <2>. QED  BY <2>1, WeatherAssumption DEF Days
<1>3. \/ \A r \in Regions : r \in asked[d] \/ StillToAsk(d, r)
      \/ d \in cut /\ \E r \in Regions : rows[d][r] > 0
  BY <1>1, <1>2 DEF RestartRecovers
<1>4. /\ asked[d] \subseteq asked'[d]
      /\ \A r \in Regions : rows[d][r] > 0 => rows'[d][r] > 0
      /\ \A r \in Regions : StillToAsk(d, r) => r \in asked'[d] \/ StillToAsk(d, r)'
  BY <1>1, <1>2
<1>5. \/ \A r \in Regions : r \in asked'[d] \/ StillToAsk(d, r)'
      \/ d \in cut' /\ \E r \in Regions : rows'[d][r] > 0
  BY <1>3, <1>4
<1>6. checked'.day - 1 = d
  BY <1>2
<1>. QED  BY <1>5, <1>6 DEF RestartRecovers

\* A fetch that asks for its next batch keeps it.
LEMMA TakeBatchInv ==
    ASSUME FetchInv, NEW t \in Threads, TakeBatch(t)
    PROVE  FetchInv'
<1>. USE DEF FetchInv
<1>1. /\ job[t].pc = "next" /\ Busy(t)
      /\ UNCHANGED <<clock, server, due>>
      /\ UNCHANGED <<locations, rows, failed, cut, checked>>
  BY DEF TakeBatch, Busy
<1>2. PICK batch \in SUBSET job[t].left :
         /\ job' = [job EXCEPT ![t].pc = "wait", ![t].left = @ \ batch, ![t].batch = batch]
         /\ asked' = [asked EXCEPT ![job[t].day] = @ \cup batch]
  BY DEF TakeBatch
<1>3. /\ job[t] \in Fetch /\ job[t].left \subseteq Regions /\ job[t].day \in Days
      /\ asked \in [Days -> SUBSET Regions] /\ locations \in {{}, Regions}
  BY <1>1, JobRecord DEF TypeOK
<1>. DEFINE x == [job[t] EXCEPT !.pc = "wait", !.left = @ \ batch, !.batch = batch]
<1>4. x \in Fetch
  BY <1>3 DEF Fetch
<1>5. /\ x.pc = "wait" /\ x.day = job[t].day /\ x.total = job[t].total
      /\ x.left = job[t].left \ batch /\ x.batch = batch
  BY <1>3 DEF Fetch
<1>6. job' = [job EXCEPT ![t] = x]
  BY <1>2
<1>. HIDE DEF x
<1>7. /\ job' \in [Threads -> {Idle} \cup Fetch] /\ job'[t] = x
      /\ \A u \in Threads \ {t} : job'[u] = job[u] /\ (Busy(u)' <=> Busy(u))
  BY <1>4, <1>6, JobSet
<1>8. /\ asked' \in [Days -> SUBSET Regions]
      /\ asked'[job[t].day] = asked[job[t].day] \cup batch
      /\ \A e \in Days : asked[e] \subseteq asked'[e] /\ asked'[e] \subseteq Regions
      /\ \A e \in Days : e # job[t].day => asked'[e] = asked[e]
  BY <1>2, <1>3
<1>9. Busy(t)' /\ Progress(t) /\ \A u \in Threads \ {t} : Busy(u) => job[u].day # job[t].day
  BY <1>1, <1>5, <1>7 DEF Busy, Progresses, NightsApart, Threads
<1>10. \A u \in Threads : Busy(u) => /\ Busy(u)' /\ job'[u].day = job[u].day
                                      /\ job'[u].total = job[u].total
  BY <1>5, <1>7, <1>9
<1>11. TypeOK'
  BY <1>1, <1>7, <1>8 DEF TypeOK, clock, server
<1>12. Calm' /\ LateStart' /\ NightsApart' /\ CheckedFirst'
  BY <1>1, <1>5, <1>7, StepKeeps
<1>13. NothingEarly' /\ NoDoubleForecast'
  BY <1>1 DEF NothingEarly, NoDoubleForecast, clock
<1>14. Progresses'
  <2>1. x.left \cup x.batch = job[t].left \cup job[t].batch /\ x.left \cap x.batch = {}
    BY <1>1, <1>5, <1>9 DEF Progress
  <2>2. x.total = {} => asked'[x.day] = {}
    BY <1>5, <1>8, <1>9 DEF Progress
  <2>3. \A r \in x.total : r \in x.left \/ r \in asked'[x.day]
    BY <1>5, <1>8, <1>9 DEF Progress
  <2>4. Progress(t)'
    BY <1>1, <1>5, <1>7, <1>9, <2>1, <2>2, <2>3 DEF Progress
  <2>5. ASSUME NEW u \in Threads, u # t, Busy(u) PROVE Progress(u)'
    <3>1. job'[u] = job[u] /\ job[u].day \in Days /\ job[u].day # job[t].day /\ Progress(u)
      BY <1>7, <1>9, <2>5, JobRecord DEF Progresses
    <3>2. asked'[job[u].day] = asked[job[u].day]
      BY <1>8, <3>1
    <3>. QED  BY <1>1, <3>1, <3>2 DEF Progress
  <2>. QED  BY <1>7, <2>4, <2>5 DEF Progresses
<1>15. AskedAll'
  <2>1. batch # {} => locations = Regions
    BY <1>3, <1>9 DEF Progress
  <2>2. \A e \in Days : asked'[e] # {} => locations = Regions
    BY <1>3, <1>8, <2>1 DEF AskedAll
  <2>3. ASSUME NEW e \in Days, NEW r \in Regions, rows[e][r] > 0
        PROVE  \/ e \in cut
               \/ \E u \in Threads : Busy(u)' /\ job'[u].day = e /\ job'[u].total = Regions
               \/ asked'[e] = Regions
    <3>1. CASE \E u \in Threads : Busy(u) /\ job[u].day = e /\ job[u].total = Regions
      BY <1>10, <3>1
    <3>2. CASE asked[e] = Regions
      BY <1>8, <3>2
    <3>. QED  BY <2>3, <3>1, <3>2 DEF AskedAll
  <2>. QED  BY <1>1, <2>2, <2>3 DEF AskedAll
<1>16. CompleteUnlessCut'
  <2>1. ASSUME NEW e \in Days \ cut
        PROVE  \/ \E u \in Threads : Busy(u)' /\ job'[u].day = e
               \/ asked'[e] = {}
               \/ \A r \in Regions : rows[e][r] > 0 \/ <<e, r>> \in failed
    <3>1. CASE \E u \in Threads : Busy(u) /\ job[u].day = e
      BY <1>10, <3>1
    <3>2. CASE ~\E u \in Threads : Busy(u) /\ job[u].day = e
      <4>1. e # job[t].day
        BY <1>1, <3>2
      <4>. QED  BY <1>8, <3>2, <4>1 DEF CompleteUnlessCut
    <3>. QED  BY <3>1, <3>2
  <2>. QED  BY <1>1, <2>1 DEF CompleteUnlessCut
<1>17. RestartRecovers'
  <2>1. ASSUME NEW e \in Days, NEW r \in Regions, StillToAsk(e, r)
        PROVE  r \in asked'[e] \/ StillToAsk(e, r)'
    <3>1. PICK u \in Threads : Busy(u) /\ job[u].day = e /\ r \in job[u].left
      BY <2>1 DEF StillToAsk
    <3>2. CASE u = t /\ r \in batch
      BY <1>8, <3>1, <3>2
    <3>3. CASE u = t /\ r \notin batch
      BY <1>5, <1>7, <1>9, <3>1, <3>3 DEF StillToAsk
    <3>4. CASE u # t
      BY <1>7, <3>1, <3>4 DEF StillToAsk
    <3>. QED  BY <3>2, <3>3, <3>4
  <2>. QED  BY <1>1, <1>8, <2>1, RecoversKept
<1>. QED  BY <1>11, <1>12, <1>13, <1>14, <1>15, <1>16, <1>17

\* What is stored is new, of a night that is published, and of regions that
\* no other fetch is at for that night.
LEMMA SaveInv ==
    ASSUME FetchInv, NEW t \in Threads, Save(t)
    PROVE  FetchInv'
<1>. USE DEF FetchInv
<1>. DEFINE d == job[t].day
            old == job[t]
<1>1. /\ job[t].pc = "wait" /\ Busy(t)
      /\ UNCHANGED <<clock, server, due>>
      /\ UNCHANGED <<locations, asked, cut, checked>>
      /\ job' = [job EXCEPT ![t].pc = "next", ![t].batch = {}]
  BY DEF Save, Busy
<1>2. PICK got \in Forecasts(t) :
         /\ rows' = [rows EXCEPT ![d] = [r \in Regions |-> IF r \in got THEN @[r] + 1 ELSE @[r]]]
         /\ failed' = failed \cup ({d} \X (old.batch \ got))
  BY DEF Save
<1>3. /\ old \in Fetch /\ d \in Days /\ d \in Int /\ day \in Int
      /\ old.batch \subseteq Regions /\ old.left \subseteq Regions
      /\ rows \in [Days -> [Regions -> Nat]]
  BY <1>1, JobRecord, DayTypes DEF TypeOK
<1>4. got \subseteq old.batch /\ (got # {} => d < day \/ (d = day /\ late))
  BY DEF Forecasts, Published
<1>5. /\ \A r \in Regions : rows'[d][r] = IF r \in got THEN rows[d][r] + 1 ELSE rows[d][r]
      /\ \A e \in Days : e # d => rows'[e] = rows[e]
      /\ rows' \in [Days -> [Regions -> Nat]]
  <2>. DEFINE new == [r \in Regions |-> IF r \in got THEN rows[d][r] + 1 ELSE rows[d][r]]
  <2>1. new \in [Regions -> Nat] /\ rows' = [rows EXCEPT ![d] = new]
    BY <1>2, <1>3
  <2>2. \A r \in Regions : new[r] = IF r \in got THEN rows[d][r] + 1 ELSE rows[d][r]
    OBVIOUS
  <2>. HIDE DEF new
  <2>. QED  BY <1>3, <2>1, <2>2
<1>6. failed' \subseteq Days \X Regions /\ failed \subseteq failed'
      /\ \A r \in old.batch : r \notin got => <<d, r>> \in failed'
  BY <1>2, <1>3 DEF TypeOK
<1>. DEFINE x == [old EXCEPT !.pc = "next", !.batch = {}]
<1>7. x \in Fetch
  BY <1>3 DEF Fetch
<1>8. x.pc = "next" /\ x.day = d /\ x.total = old.total /\ x.left = old.left /\ x.batch = {}
  BY <1>3 DEF Fetch
<1>9. job' = [job EXCEPT ![t] = x]
  BY <1>1
<1>. HIDE DEF x
<1>10. /\ job' \in [Threads -> {Idle} \cup Fetch] /\ job'[t] = x
       /\ \A u \in Threads \ {t} : job'[u] = job[u] /\ (Busy(u)' <=> Busy(u))
  BY <1>7, <1>9, JobSet
<1>11. Busy(t)'
  BY <1>8, <1>10 DEF Busy
<1>12. Progress(t) /\ \A r \in got : r \in Regions /\ rows[d][r] = 0 /\ r \notin old.left
  BY <1>1, <1>3, <1>4 DEF Progresses, Progress
<1>13. \A u \in Threads \ {t} : Busy(u) => job[u].day # d
  BY <1>1 DEF NightsApart, Threads
<1>14. TypeOK'
  BY <1>1, <1>5, <1>6, <1>10 DEF TypeOK, clock, server
<1>15. Calm' /\ LateStart' /\ NightsApart' /\ CheckedFirst'
  BY <1>1, <1>8, <1>10, StepKeeps
<1>16. NothingEarly'
  <2>1. UNCHANGED <<day, late, due>> /\ day \in Days
    BY <1>1, DayTypes DEF clock
  <2>2. got # {} => (d = day => late /\ ~due)
    <3>1. d = day => t = "scheduler"
      BY <1>1, <1>3 DEF NightsApart, Threads
    <3>. QED  BY <1>1, <1>4, <3>1, <1>3 DEF Calm
  <2>3. ASSUME NEW e \in Days, \A r \in Regions : rows[e][r] = 0, e # d \/ got = {}
        PROVE  \A r \in Regions : rows'[e][r] = 0
    BY <1>5, <2>3
  <2>4. \A e \in Days : e > day => e # d \/ got = {}
    BY <1>3, <1>4
  <2>5. due \/ ~late => day # d \/ got = {}
    BY <2>2
  <2>. QED  BY <2>1, <2>3, <2>4, <2>5 DEF NothingEarly
<1>17. Progresses'
  <2>1. Progress(t)'
    <3>1. \A r \in old.left : rows'[d][r] = 0
      BY <1>3, <1>5, <1>12 DEF Progress
    <3>2. ASSUME NEW r \in old.total
          PROVE  r \in old.left \/ rows'[d][r] > 0 \/ <<d, r>> \in failed'
      <4>1. r \in Regions /\ rows[d][r] \in Nat
        BY <1>3 DEF Fetch
      <4>2. r \in old.left \/ r \in old.batch \/ rows[d][r] > 0 \/ <<d, r>> \in failed
        BY <1>12, <3>2 DEF Progress
      <4>. QED  BY <1>5, <1>6, <4>1, <4>2
    <3>. QED  BY <1>1, <1>8, <1>10, <1>12, <3>1, <3>2 DEF Progress
  <2>2. ASSUME NEW u \in Threads, u # t, Busy(u) PROVE Progress(u)'
    <3>1. job'[u] = job[u] /\ job[u].day \in Days /\ job[u].day # d /\ Progress(u)
      BY <1>10, <1>13, <2>2, JobRecord DEF Progresses
    <3>2. rows'[job[u].day] = rows[job[u].day]
      BY <1>5, <3>1
    <3>. HIDE DEF d, old
    <3>. QED  BY <1>1, <1>6, <3>1, <3>2 DEF Progress
  <2>. QED  BY <1>10, <2>1, <2>2 DEF Progresses
<1>18. \A u \in Threads : Busy(u) => /\ Busy(u)' /\ job'[u].day = job[u].day
                                      /\ job'[u].total = job[u].total /\ job'[u].left = job[u].left
  BY <1>8, <1>10, <1>11
<1>19. AskedAll'
  <2>1. got # {} => old.total = Regions
    BY <1>3, <1>4, <1>12 DEF Progress
  <2>2. ASSUME NEW e \in Days, NEW r \in Regions, rows'[e][r] > 0
        PROVE  \/ e \in cut
               \/ \E u \in Threads : Busy(u)' /\ job'[u].day = e /\ job'[u].total = Regions
               \/ asked[e] = Regions
    <3>1. CASE e = d /\ got # {}
      BY <1>1, <1>18, <2>1, <3>1
    <3>2. CASE e # d \/ got = {}
      <4>1. rows[e][r] > 0
        BY <1>5, <2>2, <3>2
      <4>. QED  BY <1>18, <4>1 DEF AskedAll
    <3>. QED  BY <3>1, <3>2
  <2>. QED  BY <1>1, <2>2 DEF AskedAll
<1>20. NoDoubleForecast'
  <2>1. ASSUME NEW e \in Days, NEW r \in Regions
        PROVE  rows'[e][r] <= 1
    BY <1>5, <1>12 DEF NoDoubleForecast
  <2>. QED  BY <2>1 DEF NoDoubleForecast
<1>21. CompleteUnlessCut'
  <2>1. ASSUME NEW e \in Days \ cut
        PROVE  \/ \E u \in Threads : Busy(u)' /\ job'[u].day = e
               \/ asked[e] = {}
               \/ \A r \in Regions : rows'[e][r] > 0 \/ <<e, r>> \in failed'
    <3>1. CASE \E u \in Threads : Busy(u) /\ job[u].day = e
      BY <1>18, <3>1
    <3>2. CASE ~\E u \in Threads : Busy(u) /\ job[u].day = e
      <4>1. e # d
        BY <1>1, <3>2
      <4>2. rows'[e] = rows[e] /\ failed \subseteq failed'
        BY <1>5, <1>6, <4>1
      <4>3. asked[e] = {} \/ \A r \in Regions : rows[e][r] > 0 \/ <<e, r>> \in failed
        BY <3>2 DEF CompleteUnlessCut
      <4>. QED  BY <4>2, <4>3
    <3>. QED  BY <3>1, <3>2
  <2>. QED  BY <1>1, <2>1 DEF CompleteUnlessCut
<1>22. RestartRecovers'
  <2>1. \A e \in Days, r \in Regions : rows[e][r] > 0 => rows'[e][r] > 0
    BY <1>3, <1>5
  <2>2. \A e, r : StillToAsk(e, r) => StillToAsk(e, r)'
    BY <1>18 DEF StillToAsk
  <2>. QED  BY <1>1, <2>1, <2>2, RecoversKept
<1>. QED  BY <1>14, <1>15, <1>16, <1>17, <1>19, <1>20, <1>21, <1>22

\* A fetch ends: it has been through everything, or its night is marked.
LEMMA EndInv ==
    ASSUME FetchInv, NEW t \in Threads, EndFetch(t) \/ (Refuse(t) /\ t # "main")
    PROVE  FetchInv'
<1>. USE DEF FetchInv
<1>1. /\ Busy(t) /\ job' = [job EXCEPT ![t] = Idle]
      /\ UNCHANGED <<clock, server, due>>
      /\ UNCHANGED <<locations, rows, asked, failed, checked>>
      /\ cut \subseteq cut' /\ cut' \in {cut, cut \cup {job[t].day}}
      /\ job[t].day \in cut' \/ (job[t].pc = "next" /\ job[t].left = {})
  BY DEF EndFetch, Done, Refuse, Busy, ghosts
<1>2. /\ job' \in [Threads -> {Idle} \cup Fetch] /\ job'[t] = Idle
      /\ \A u \in Threads \ {t} : job'[u] = job[u] /\ (Busy(u)' <=> Busy(u))
  BY <1>1, JobSet
<1>3. ~Busy(t)' /\ job[t].day \in Days /\ Progress(t)
  BY <1>1, <1>2, JobRecord DEF Busy, Idle, Progresses
<1>4. TypeOK'
  BY <1>1, <1>2, <1>3 DEF TypeOK, clock, server
<1>5. Calm' /\ LateStart' /\ NightsApart' /\ CheckedFirst'
  BY <1>1, <1>2, <1>3, StepKeeps
<1>6. NothingEarly' /\ NoDoubleForecast'
  BY <1>1 DEF NothingEarly, NoDoubleForecast, clock
<1>7. Progresses'
  <2>1. ASSUME NEW u \in Threads, u # t, Busy(u) PROVE Progress(u)'
    BY <1>1, <1>2, <2>1 DEF Progresses, Progress
  <2>. QED  BY <1>2, <1>3, <2>1 DEF Progresses
<1>8. CompleteUnlessCut'
  <2>1. ASSUME NEW e \in Days, e \notin cut'
        PROVE  \/ \E u \in Threads : Busy(u)' /\ job'[u].day = e
               \/ asked[e] = {}
               \/ \A r \in Regions : rows[e][r] > 0 \/ <<e, r>> \in failed
    <3>1. CASE e = job[t].day
      BY <1>1, <1>3, <2>1, <3>1 DEF Progress
    <3>2. CASE e # job[t].day /\ \E u \in Threads : Busy(u) /\ job[u].day = e
      <4>1. PICK u \in Threads : Busy(u) /\ job[u].day = e
        BY <3>2
      <4>. QED  BY <1>2, <3>2, <4>1
    <3>3. CASE e # job[t].day /\ ~\E u \in Threads : Busy(u) /\ job[u].day = e
      BY <1>1, <2>1, <3>3 DEF CompleteUnlessCut
    <3>. QED  BY <3>1, <3>2, <3>3
  <2>. QED  BY <1>1, <2>1 DEF CompleteUnlessCut
<1>9. AskedAll'
  <2>1. ASSUME NEW e \in Days, NEW r \in Regions, rows[e][r] > 0
        PROVE  \/ e \in cut'
               \/ \E u \in Threads : Busy(u)' /\ job'[u].day = e /\ job'[u].total = Regions
               \/ asked[e] = Regions
    <3>1. CASE \E u \in Threads : Busy(u) /\ job[u].day = e /\ job[u].total = Regions
      <4>1. PICK u \in Threads : Busy(u) /\ job[u].day = e /\ job[u].total = Regions
        BY <3>1
      <4>2. CASE u # t
        BY <1>2, <4>1, <4>2
      <4>3. CASE u = t /\ job[t].left = {}
        <5>1. \A q \in Regions : q \in asked[e]
          BY <1>3, <4>1, <4>3 DEF Progress
        <5>. QED  BY <5>1 DEF TypeOK
      <4>. QED  BY <1>1, <4>1, <4>2, <4>3
    <3>. QED  BY <1>1, <2>1, <3>1 DEF AskedAll
  <2>. QED  BY <1>1, <2>1 DEF AskedAll
<1>10. RestartRecovers'
  <2>1. ASSUME NEW e \in Days, NEW r \in Regions, checked.regions, e = checked.day - 1, StillToAsk(e, r)
        PROVE  StillToAsk(e, r)'
    <3>1. PICK u \in Threads : Busy(u) /\ job[u].day = e /\ r \in job[u].left
      BY <2>1 DEF StillToAsk
    <3>2. u # t
      <4>1. CASE EndFetch(t)
        BY <3>1, <4>1 DEF EndFetch, Done
      <4>2. CASE t # "main"
        <5>1. t = "scheduler" /\ checked.day \in Int /\ job[t].day \in Int
          BY <1>3, <4>2, DayTypes DEF Threads, TypeOK
        <5>2. job[t].day >= checked.day
          BY <1>1, <2>1, <5>1 DEF CheckedFirst
        <5>. QED  BY <2>1, <3>1, <5>1, <5>2
      <4>. QED  BY <4>1, <4>2
    <3>. QED  BY <1>2, <3>1, <3>2 DEF StillToAsk
  <2>. QED  BY <1>1, <2>1, RecoversKept
<1>. QED  BY <1>4, <1>5, <1>6, <1>7, <1>8, <1>9, <1>10

\* Every step keeps the invariant.
LEMMA NextInv == FetchInv /\ [Next]_vars => FetchInv'
<1>. SUFFICES ASSUME FetchInv, [Next]_vars PROVE FetchInv'
  OBVIOUS
<1>1. CASE UNCHANGED vars
  <2>1. UNCHANGED <<day, late, up, since, runners, starts, due, job, locations>>
        /\ UNCHANGED <<rows, asked, failed, cut, checked>>
    BY <1>1 DEF vars, clock, server, ghosts
  <2>2. TypeOK'
    BY <2>1 DEF FetchInv, TypeOK
  <2>3. Calm' /\ LateStart' /\ NightsApart' /\ NothingEarly' /\ CheckedFirst'
    BY <2>1 DEF FetchInv, Calm, LateStart, NightsApart, NothingEarly, CheckedFirst, Busy
  <2>4. locations \subseteq locations' /\ locations' \subseteq Regions
    BY <2>1 DEF FetchInv, TypeOK
  <2>. QED  BY <2>1, <2>2, <2>3, <2>4, TableKept DEF FetchInv
<1>2. ASSUME NEW t \in Threads, FetchStep(t) PROVE FetchInv'
  <2>1. CASE t = "main" /\ Refuse(t)
    BY <2>1, StopInv DEF Refuse
  <2>2. CASE t # "main" /\ Refuse(t)
    BY <2>2, EndInv
  <2>. QED  BY <1>2, <2>1, <2>2, TakeBatchInv, SaveInv, EndInv DEF FetchStep
<1>3. CASE Crash
  BY <1>3, StopInv DEF Crash
<1>. QED  BY <1>1, <1>2, <1>3, StrikeInv, MidnightInv, StartInv, RunLocationsInv, RunWeatherInv,
             BeginNightInv DEF Next

\* It holds in every reachable state.
LEMMA FetchInvariant == Spec => []FetchInv
<1>. QED  BY InitInv, NextInv, PTL DEF Spec

---------------------------------------------------------------------------
(* The properties *)

\* TypeOK: every variable keeps its type, and a day is never asked for that is
\* outside the table.
THEOREM TypeCorrect == Spec => []TypeOK
<1>1. FetchInv => TypeOK
  BY DEF FetchInv
<1>. QED  BY FetchInvariant, <1>1, PTL

\* NoDoubleForecast: fetchAndSave never stores a night of a region twice,
\* however the nightly fetch, the check at a start, crashes and midnight fall.
THEOREM StoredOnce == Spec => []NoDoubleForecast
<1>1. FetchInv => NoDoubleForecast
  BY DEF FetchInv
<1>. QED  BY FetchInvariant, <1>1, PTL

\* CompleteUnlessCut: a fetch that reached its end leaves nothing out that it
\* was given an answer for.
THEOREM CompleteAtEnd == Spec => []CompleteUnlessCut
<1>1. FetchInv => CompleteUnlessCut
  BY DEF FetchInv
<1>. QED  BY FetchInvariant, <1>1, PTL

\* RestartRecovers: WeatherInitializer makes up for last night - every region
\* has been asked for or will be by the fetch that is on - unless an earlier
\* fetch of that night was cut short after storing a part of it, which its
\* existsByForecastedAt takes for the whole.
THEOREM RestartMakesUp == Spec => []RestartRecovers
<1>1. FetchInv => RestartRecovers
  BY DEF FetchInv
<1>. QED  BY FetchInvariant, <1>1, PTL

=============================================================================
