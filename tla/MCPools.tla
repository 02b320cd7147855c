------------------------------ MODULE MCPools ------------------------------
(***************************************************************************)
(* A small instance of Pools: one group with two routes, one of which has  *)
(* two providers, and situations that take turns as the initial state.     *)
(***************************************************************************)
EXTENDS Pools

CONSTANTS
  alice, bruno, carla, dora, erik,   \* manager, two providers, two consumers
  grp, r1, r2, s1, s2, s3, a1, a2, m1, m2, m3, m4, home, shop, farm,
  os, workFund, resFund, burnFund

MCFund == {1, 2, 3} \cup {workFund, resFund, burnFund}
MCRoutesOf == grp :> {r1, r2}
MCProvidersOf == r1 :> {bruno, carla} @@ r2 :> {carla}
MCRate == grp :> 1
MCDuration == grp :> 2
MCRequester == s1 :> dora @@ s2 :> dora @@ s3 :> erik
MCHold == s1 :> 3 @@ s2 :> 3 @@ s3 :> 3
TwoWindows(n) == [windows |-> 2, working |-> 2, reserve |-> n]
MCOpening == alice :> 6 @@ bruno :> 0 @@ carla :> 0 @@ dora :> 6 @@ erik :> 3

Nothing == [what \in {"givers", "events", "parts", "requests", "flaky", "classed",
                      "parties", "supports", "authorities", "limits", "mandates",
                      "kinds"} |-> {}] @@ "windows" :> 3

MCCast ==
  \* Requests are settled and refunded while windows are offered by hand.
  [money |-> [Nothing EXCEPT !["givers"] = {alice}, !["requests"] = {s1, s2},
                             !["events"] = {"offer", "refund"},
                             !["parts"] = {0, 2}, !["windows"] = 2],
  \* One window and one request, with everything that may happen to them.
   cover |-> [Nothing EXCEPT !["requests"] = {s1},
                             !["events"] = {"offer", "cancel", "manage", "sample", "stop",
                                            "day", "fade", "release"},
                             !["parts"] = {0}, !["flaky"] = {r1}, !["windows"] = 1],
  \* Windows are renewed under permissions that fade or are revoked.
   renew |-> [Nothing EXCEPT !["parts"] = {0, 2}, !["kinds"] = {"ESSENTIAL"},
                             !["authorities"] = {a1}, !["limits"] = {TwoWindows(2)},
                             !["events"] = {"lapse", "revoke"},
                             !["mandates"] = {<<m1, r1, bruno>>, <<m2, r1, carla>>,
                                              <<m3, r2, carla>>}],
  \* A pool in its normal state, with a window that runs, may expand.
   grow |-> [Nothing EXCEPT !["parts"] = {0}, !["requests"] = {s2, s3},
                            !["events"] = {"stop"},
                            !["classed"] = {carla}, !["parties"] = {shop},
                            !["supports"] = {os}],
  \* Users are classified, support is declared and an expansion is authorized.
   declare |-> [Nothing EXCEPT !["classed"] = {alice, dora}, !["parties"] = {home, shop},
                               !["supports"] = {os}, !["authorities"] = {a1},
                               !["limits"] = {TwoWindows(0), TwoWindows(2)},
                               !["kinds"] = {"EXPANSION"}, !["windows"] = 0]]

-----------------------------------------------------------------------------
\* What each situation begins with.
Given == CASE scene # "grow" -> workFund :> 2 @@ resFund :> 2
           [] OTHER -> workFund :> 4 @@ resFund :> 2

\* Before it grows, the pool settled one request into working capital, burned what
\* was left of it, and its window has paid half.
Ran == scene = "grow"
FirstWindow == [NoWindow EXCEPT !.state = "ACTIVE", !.group = grp, !.route = r1, !.paid = 1,
                                !.accepted = {bruno, carla}]
FirstRequest == [NewRequest EXCEPT !.state = "SETTLED", !.window = 1, !.working = 2,
                                   !.burned = 1, !.separate = TRUE, !.recent = TRUE]
Balance(x) ==
  CASE x = Available(alice) -> MCOpening[alice] - Given[workFund] - Given[resFund]
    [] x = Escrow(workFund) -> Given[workFund]
    [] x = Escrow(resFund) -> Given[resFund]
    [] x = LabIssuer -> -15
    [] x[1] = "available" /\ x # Available(alice) -> MCOpening[x[2]]
    [] OTHER -> 0
Ran1(x) ==
  CASE x = Escrow(burnFund) -> 1
    [] x = Escrow(1) -> 1
    [] x = Available(Payee(r1)) -> 1
    [] x = Available(dora) -> -6
    [] x = Available(erik) -> -3
    [] x \in {Held(dora), Held(erik)} -> 3
    [] OTHER -> 0

MCInit ==
  /\ scene \in Scene
  /\ given = Given
  /\ balance = [x \in Account |-> Balance(x) + (IF Ran THEN Ran1(x) ELSE 0)]
  /\ journal = {k \in {<<"coop-funding", s, n>> : s \in Source, n \in {0, 2}} : k[3] < Given[k[2]]}
                \cup IF ~Ran THEN {}
                     ELSE {<<"route-lease", 1, "fund">>, <<"route-lease", 1, "pay", 1>>,
                           <<"hold", s1>>, <<"settle", s1>>, <<"hold", s2>>, <<"hold", s3>>}
  /\ pool = [paused |-> FALSE, support |-> "LONG", fresh |-> Ran,
             state |-> IF Ran THEN "NORMAL" ELSE "HIBERNATING",
             healthy |-> IF Ran THEN "DAY" ELSE "NEVER"]
  /\ ready = Route
  /\ window = [w \in Window |-> IF Ran /\ w = 1 THEN FirstWindow ELSE NoWindow]
  /\ request = [s \in Session |-> IF Ran /\ s = s1 THEN FirstRequest
                                  ELSE [NewRequest EXCEPT !.state = IF Ran THEN "QUEUED"
                                                                    ELSE "QUOTED"]]
  /\ costs = IF Ran THEN 1 ELSE 0
  /\ party = [u \in User |-> IF ~Ran THEN NULL
                             ELSE CASE u = dora -> shop [] u = erik -> farm [] OTHER -> home]
  /\ declared = [d \in Declared |-> IF Ran THEN "VALID" ELSE "NONE"]
  /\ demand = [w \in Window |-> NULL]
  /\ authority = [a \in Authority |->
       IF ~Ran THEN NoAuthority
       ELSE [NoAuthority EXCEPT
               !.state = "ACTIVE", !.group = grp, !.working = 4,
               !.windows = IF a = a1 THEN 1 ELSE 2,
               !.kind = IF a = a1 THEN "ESSENTIAL" ELSE "EXPANSION",
               !.support = IF a = a1 THEN NULL ELSE os]]
  /\ mandate = [m \in Mandate |->
       IF ~Ran \/ m # m4 THEN NoMandate
       ELSE [NoMandate EXCEPT !.state = "ACTIVE", !.kind = "EXPANSION", !.route = r2,
                              !.provider = carla, !.windows = 2]]
  /\ run = [w \in Window |-> NULL]
  /\ usage = [w \in Window |-> {}]
  /\ batch = <<>>

MCSpec == MCInit /\ [][Next]_allVars /\ Fairness
=============================================================================
