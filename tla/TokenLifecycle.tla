--------------------------- MODULE TokenLifecycle ---------------------------
(* What the oauth2_token table promises to isAccessTokenRevoked(),           *)
(* isRefreshTokenRevoked() and isAuthCodeRevoked(): a token is issued once,  *)
(* is good until it is spent, and a spent token is never good again.  How a  *)
(* token is spent (revoked, or its row deleted by cron or by an update) and  *)
(* how many at once, is left open.                                           *)
VARIABLES good, spent

Init == good = {} /\ spent = {}

Issue == \E t \in good' \ (good \cup spent) :
           good' = good \cup {t} /\ spent' = spent

Spend == /\ good' \subseteq good
         /\ spent' = spent \cup (good \ good')

Next == Issue \/ Spend

Spec == Init /\ [][Next]_<<good, spent>>
===========================================================================
