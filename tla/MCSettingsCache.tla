------------------------------ MODULE MCSettingsCache ------------------------------
(***************************************************************************)
(* An instance of SettingsCache for TLC: the user and the authentication   *)
(* flag of the mail server, which a get and a save take in other orders.   *)
(***************************************************************************)
EXTENDS SettingsCache, TLC

CONSTANTS user, authentication, v1, v2

MCGetOrder == <<authentication, user>>
MCSetOrder == <<user, authentication>>

MCSaved == {user :> v1 @@ authentication :> v1, user :> v2 @@ authentication :> v1}
====================================================================================
