----------------------------- MODULE MCIdentity -----------------------------
(* Sessions and factors share no state but the user's document, of which each has
   its own part: either of them moves while the other rests. *)
EXTENDS MCAuthSessions, SignInFactors

(* Mails; somebody and Google's user with one address; the second factor. *)
SmallAllowed == [x \in Situations |->
    CASE x = "none"      -> {}
      [] x = "mails"     -> {"magic", "reset"}
      [] x = "strangers" -> {"register", "google", "verify"}
      [] x = "factor"    -> {"setup", "regenerate", "challenge"}]

IdentityInit ==
    /\ SessionInit /\ FactorInit
    /\ scenario = "none" <=> situation # "none"

IdentityNext ==
    \/ scenario # "none" /\ SessionNext /\ UNCHANGED factorVars
    \/ situation # "none" /\ FactorNext /\ UNCHANGED sessionVars

IdentitySpec == IdentityInit /\ [][IdentityNext]_<<sessionVars, factorVars>>
=============================================================================
