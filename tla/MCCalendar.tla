----------------------------- MODULE MCCalendar -----------------------------
(***************************************************************************)
(* Minutes and clocks of 2024 and 2025 for TLC, in four cities.            *)
(***************************************************************************)
EXTENDS TaskInterval

\* A day, counted from January 1st 2024, at a time.
At(day, hour, minute) == day * Day + hour * Hour + minute

\* New York leaves standard time on March 10th 2024 and 2025's 9th and returns on
\* November 3rd and 2nd.
NewYorkSummers == {<<At(69, 7, 0), At(307, 6, 0)>>, <<At(433, 7, 0), At(671, 6, 0)>>}

\* Santiago skips the midnight of September 8th 2024; the next winter is of 2025.
SantiagoWinters == {<<At(97, 3, 0), At(251, 4, 0)>>, <<At(461, 3, 0), At(731, 0, 0)>>}

During(seasons, t) == \E season \in seasons : season[1] <= t /\ t < season[2]

CityOffset(zone, t) ==
  CASE zone = "America/New_York" -> IF During(NewYorkSummers, t) THEN -240 ELSE -300
    [] zone = "America/Santiago" -> IF During(SantiagoWinters, t) THEN -240 ELSE -180
    [] zone = "Asia/Tokyo" -> 540
    [] OTHER -> 0

Cities == {"UTC", "America/New_York", "America/Santiago", "Asia/Tokyo"}
=============================================================================
