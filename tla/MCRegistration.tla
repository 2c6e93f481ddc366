--------------------------- MODULE MCRegistration ---------------------------
(* Two master servers: both empty of other servers, or one of them full.   *)
EXTENDS Registration, TLC

TwoMasters == {0 :> 0 @@ 1 :> 0, 0 :> 0 @@ 1 :> 3}

(* The instance's times fit together as the code's do.                      *)
ASSUME TimesOfTheInstance == TimesFit

=============================================================================
