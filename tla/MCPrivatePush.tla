-------------------------- MODULE MCPrivatePush --------------------------
(***************************************************************************)
(* Two invocations of any subcommand for TLC, on one laptop.               *)
(***************************************************************************)
EXTENDS PrivatePush, TLC

CONSTANTS one, two, d1, d2

MCInvocations == {one, two}
MCBothServices == <<"auth", "uam">>
MCOneLaptop   == one :> "laptop" @@ two :> "laptop"
MCTagArg      == one :> NoTag @@ two :> 1
MCBaked       == d1 :> 1 @@ d2 :> 2
MCSuffix      == d1 :> "s1" @@ d2 :> "s2"
=============================================================================
