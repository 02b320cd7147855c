---------------------------- MODULE MCRegistration ----------------------------
(***************************************************************************)
(* Two parts that take turns as the initial state: the requests of two     *)
(* accounts on two nodes of one machine, and the starts of the agent by    *)
(* which a node is registered in the first place.                          *)
(***************************************************************************)
EXTENDS MCSessions, Registration

\* Requests of alice's differ in nothing but when they were created.
Alike == Permutations({s1, s2})

VARIABLE scene   \* what this behaviour is about

Scene == {"requests", "registration"}

PlainInit == scene \in Scene /\ Init /\ RegistrationInit

PlainNext ==
  /\ UNCHANGED scene
  /\ IF scene = "requests" THEN Next ELSE UNCHANGED vars
  /\ IF scene = "registration" THEN RegistrationNext ELSE UNCHANGED registrationVars

PlainSpec == PlainInit /\ [][PlainNext]_<<vars, registrationVars, scene>>
=============================================================================
