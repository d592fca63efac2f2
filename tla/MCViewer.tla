------------------------------ MODULE MCViewer ------------------------------
EXTENDS Viewer

\* Periods are counted from six hours before the first date.
Msg(type, date, tr, p1) == [type |-> type, date |-> date, tr |-> tr, p1 |-> p1,
                            p2 |-> date + 6, sane |-> TRUE]
Field(type, dates) == [i \in DOMAIN dates |-> Msg(type, dates[i], 0, dates[i] + 6)]
Fields(types, dates) ==
    FlattenSeq([k \in DOMAIN types |-> Field(types[k], dates)])

\* Three dates, the last interval longer than the first; two dates far apart;
\* one date; no readable file.
D == <<0, 4, 10>>
Plain == <<<<Field("WIND_VX", D)>>, <<Field("WIND_VX", <<0, 15>>)>>,
           <<Field("WIND_VX", <<4>>)>>, <<<<>>>>>>
Later == {2, 4}

\* A file whose first interval is more than twice the longest there is.
Long == <<Field("WIND_VX", <<0, 20>>)>>

\* Precipitation over periods from the start of the run, from one date to the
\* next, or both in turn; sums and means; and one that misses the first date.
Starts == <<<<0, 0, 0>>, <<0, 6, 10>>, <<0, 0, 10>>, <<0, 6, 6>>>>
Periods(type, tr, s) == <<Msg(type, 0, tr, s[1]), Msg(type, 4, tr, s[2]),
                          Msg(type, 10, tr, s[3])>>
Rain == [i \in 1..8 |-> Periods("PRECIP_TOT", 3 + (i % 2), Starts[(i + 1) \div 2])]
RainFiles == FlattenSeq([i \in DOMAIN Rain |-> LET r == Rain[i] IN
    << <<r>>, <<Tail(r) \o Field("TEMP", <<0>>)>>,
       <<<<r[1], r[3]>> \o Field("TEMP", <<4>>), <<r[2]>>>> >>])

\* Winds and currents as components, as direction and speed, or as both.
Polar(tr, dates) == [i \in 1..2 * Len(dates) |->
    LET d == dates[(i + 1) \div 2]
    IN  Msg(IF i % 2 = 1 THEN "WIND_DIR" ELSE "WIND_SPEED", d, tr, d + 6)]
Uv == <<"WIND_VX", "WIND_VY">>
Insane(seq) == [i \in DOMAIN seq |-> IF seq[i].type = "VOGRD" /\ seq[i].date = 4
                                     THEN [seq[i] EXCEPT !.sane = FALSE] ELSE seq[i]]
VectorFiles ==
    <<<<Polar(0, D)>>, <<Polar(0, <<0, 4>>) \o Field("TEMP", <<10>>),
       Fields(Uv, <<4, 10>>)>>,
     <<Polar(3, <<4>>) \o Field("TEMP", <<0, 10>>), Fields(Uv, <<4>>)>>,
     <<Insane(Fields(<<"UOGRD", "VOGRD">>, D))>>,
     <<Fields(<<"CUR_DIR", "CUR_SPEED">>, <<0, 10>>) \o Field("TEMP", <<4>>),
       Fields(<<"UOGRD", "VOGRD">>, <<4, 10>>)>>,
     <<Field("UOGRD", <<0, 10>>) \o Field("TEMP", <<4>>)>>>>

\* Waves with gaps, for a copy of the next date; fields that others are
\* derived from; more than the budget.
OtherFiles ==
    <<<<Field("HTSGW", <<4>>) \o Field("WVHGT", <<0, 10>>)>>,
     <<Fields(<<"HTSGW", "WVPER">>, <<4, 10>>) \o Field("PRESSURE_GND", <<0>>)>>,
     <<Field("WVPER", <<10>>) \o Fields(<<"PER", "DIR">>, <<0, 4>>)>>,
     <<Field("GUST_VX", D), Field("GUST_VY", <<0, 4>>)>>,
     <<Fields(<<"TEMP", "HUMID">>, D)>>,
     <<Fields(<<"TEMP", "HUMID", "CLOUD_TOT">>, D)>>,
     <<Field("TEMP", D), <<>>, Field("PRESSURE_MSL", D), Field("CLOUD_TOT", <<0, 4, 10>>),
       Field("PRESSURE_GND", <<4>>)>>>>

AllFiles == Plain \o <<Long>> \o RainFiles \o VectorFiles \o OtherFiles

\* Four hours past a step of five, now is nearer to the next step by far.
Steps == <<1, 5, 9>>
\* Play back that stops, or loops to the start or to now, each with a start
\* option; a dialog may switch interpolation, and the preferences the latter.
Start == {[opts |-> [interp |-> FALSE, slices |-> 1, loop |-> "start"], start |-> 0],
          [opts |-> [interp |-> TRUE, slices |-> 1, loop |-> "now"], start |-> 1],
          [opts |-> [interp |-> TRUE, slices |-> 1, loop |-> "no"], start |-> 2]}
=============================================================================
