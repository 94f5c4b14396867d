--------------------------- MODULE MCNetworkTrace ---------------------------
\* One request of a persistent tab and one of a private tab; a plain address, a
\* tracker, a tracker that is excused and an origin whose rules deny it.
EXTENDS NetworkTrace

CONSTANTS r1, r2, plain, tracker, excused, denied

Https(origin) == [scheme |-> "https", origin |-> origin]

MCTabOf == (r1 :> PublicTab) @@ (r2 :> PrivateTab)
MCUrlsOf == (r1 :> {Https(plain), Https(tracker), Https(denied)}) @@ (r2 :> {Https(excused)})
MCTrackers == {Https(tracker), Https(excused)}
MCExcused == {Https(excused)}
MCPolicy == [DefaultPolicy EXCEPT !.origin = denied :> ("PageNetwork" :> "Deny")]
MCQueries == {{}, {[field |-> "blocked", value |-> TRUE, negate |-> FALSE]}}
=============================================================================
