---------------------------- MODULE MCScheduling ----------------------------
(***************************************************************************)
(* Small values for the cadences, hours and domains of Scheduling.  The    *)
(* lengths of a day, of the cadences and of a proof keep their order.      *)
(***************************************************************************)
EXTENDS Scheduling, TLC

CONSTANTS d1, d2, p1, r1

OneCadence == [daily |-> 2]
TwoCadences == "daily" :> 2 @@ "weekly" :> 3

DailyOffer == [d \in Domains |-> {"daily"}]
\* The users of d2 choose between two cadences.
MixedOffer == [d \in Domains |-> IF d = d1 THEN {"daily"} ELSE {"daily", "weekly"}]

\* Only d1 is ever verified.
MixedModes ==
    [d \in Domains |-> {"passive_observation"} \cup
                         (IF d = d1 THEN {"authorized_assessment"} ELSE {})]

\* d1 keeps a window that wraps past the end of the day of three hours.
QuietNight == [d \in Domains |-> IF d = d1 THEN << 2, 1 >> ELSE None]
=============================================================================
