----------------------------- MODULE ObsBridge -----------------------------
(***************************************************************************)
(* The tracker page driving OBS (shared/obs-bridge.js and the OBS part of  *)
(* tracker/tracker.js): a connection that is asked for by a button, and    *)
(* pushes that make a situation's scene and sources exist and show it, one *)
(* awaited request after another, while situations and connections change. *)
(*                                                                         *)
(* OBS is external: it executes the requests of a connection in order.     *)
(***************************************************************************)
EXTENDS Integers, Sequences, FiniteSets, SequencesExt, FiniteSetsExt

CONSTANTS
  ObsSituations,  \* situations, each with a scene of its own
  Owned,          \* the sources Minamo owns in a situation, in order
  MaxClicks,      \* bound: clicks on Connect, the checkbox and the situations
  MaxPushes,      \* bound: handlers under way at a time
  NoSituation     \* nothing is known to be shown

ASSUME ObsAssumption ==
  /\ MaxClicks \in Nat /\ MaxPushes \in Nat
  /\ NoSituation \notin ObsSituations
  /\ \A s \in ObsSituations : Owned[s] \in Seq(STRING)

VARIABLES
  situation,   \* settings.situation
  autoScene,   \* chkObsAutoScene
  bridge,      \* obsBridge: 0 or the index of its socket
  sockets,     \* "connecting", "identified" or "closed", by click
  pushes,      \* handlers, each at what it awaits
  clicks,      \* clicks so far
  obs,         \* OBS: scenes, items <<scene, source>>, placed items, current scene
  shown,       \* history: what the last push showed, had it the field to itself
  mixed        \* history: a push has put one situation's sources in another's scene

obsVars == <<situation, autoScene, bridge, sockets, pushes, clicks, obs, shown, mixed>>

Pushes == 1 .. MaxPushes
Idle == {p \in Pushes : pushes[p].at = "done"}
Pushing == {p \in Pushes : pushes[p].at \in {"canvas", "lists", "requests"}}
\* A source is named after its situation and its place there.
SourcesOf(s) == [i \in DOMAIN Owned[s] |-> <<s, Owned[s][i]>>]

NewPush(kind, at, on) ==
  [kind |-> kind, at |-> at, on |-> on, scene |-> NoSituation, plan |-> NoSituation,
   todo |-> <<>>, alone |-> FALSE]
Done == NewPush("none", "done", 0)

ObsInit ==
  /\ situation \in ObsSituations /\ autoScene = FALSE
  /\ bridge = 0 /\ sockets = <<>> /\ clicks = 0 /\ pushes = [p \in Pushes |-> Done]
  /\ obs = [scenes |-> {}, items |-> {}, placed |-> {}, current |-> NoSituation]
  /\ shown = NoSituation /\ mixed = FALSE
-----------------------------------------------------------------------------
\* What OBS does with a request, and whether it accepts it.

Inputs(o) == {i[2] : i \in o.items}

Accepts(o, scene, request) ==
  LET source == request[2] IN
  CASE request[1] = "CreateScene" -> scene \notin o.scenes
    [] request[1] = "CreateInput" -> scene \in o.scenes /\ source \notin Inputs(o)
    [] request[1] = "SetInputSettings" -> source \in Inputs(o)
    [] request[1] \in {"GetSceneItemId", "SetSceneItemTransform"} -> <<scene, source>> \in o.items
    [] request[1] = "SetCurrentProgramScene" -> scene \in o.scenes

Execute(o, scene, request) ==
  IF ~Accepts(o, scene, request) THEN o
  ELSE CASE request[1] = "CreateScene" -> [o EXCEPT !.scenes = @ \cup {scene}]
         [] request[1] = "CreateInput" -> [o EXCEPT !.items = @ \cup {<<scene, request[2]>>}]
         [] request[1] = "SetSceneItemTransform" ->
              [o EXCEPT !.placed = @ \cup {<<scene, request[2]>>}]
         [] request[1] = "SetCurrentProgramScene" -> [o EXCEPT !.current = scene]
         [] OTHER -> o

\* The streamer deletes a scene that is not on air; its sources go with it.
RemoveScene(s) ==
  /\ s \in obs.scenes /\ s # obs.current
  /\ obs' = [obs EXCEPT !.scenes = @ \ {s}, !.items = {i \in @ : i[1] # s},
                        !.placed = {i \in @ : i[1] # s}]
  /\ UNCHANGED <<clicks, situation, autoScene, bridge, sockets, pushes, shown, mixed>>
-----------------------------------------------------------------------------
\* A handler that throws: connectObs closes and forgets whatever bridge there is now.
Fail(p, list, connections) ==
  /\ pushes' = [list EXCEPT ![p] = Done]
  /\ IF list[p].kind = "connect"
     THEN /\ bridge' = 0
          /\ sockets' = IF bridge = 0 THEN connections
                        ELSE [connections EXCEPT ![bridge] = "closed"]
     ELSE UNCHANGED bridge /\ sockets' = connections

\* Pushes that have the field to themselves no more.
Crowded(list) == [p \in Pushes |-> [list[p] EXCEPT !.alone = FALSE]]

\* A handler starts in a free place.
Begin(list, push) == [list EXCEPT ![Min(Idle)] = push]

\* pushSituationToObs: the scene is chosen now; the canvas size is asked for first.
StartPush(p, list, connections) ==
  IF bridge # 0 /\ connections[bridge] = "identified"
  THEN LET others == IF Pushing = {} THEN list ELSE Crowded(list) IN
       /\ pushes' = [others EXCEPT ![p].at = "canvas", ![p].on = bridge, ![p].scene = situation,
                                   ![p].alone = (Pushing = {})]
       /\ UNCHANGED bridge /\ sockets' = connections
       /\ shown' = NoSituation
  ELSE Fail(p, list, connections) /\ UNCHANGED shown

\* A rejected call is handled before any other event.
Rejected(p) == p \in Pushing /\ sockets[pushes[p].on] = "closed"
Quiet == \A p \in Pushes : ~Rejected(p)

Click == clicks < MaxClicks /\ clicks' = clicks + 1

\* btnConnectObs
ConnectObs ==
  LET closed == IF bridge = 0 THEN sockets ELSE [sockets EXCEPT ![bridge] = "closed"] IN
  /\ Quiet /\ Idle # {} /\ Click
  /\ sockets' = Append(closed, "connecting") /\ bridge' = Len(sockets) + 1
  /\ pushes' = Begin(pushes, NewPush("connect", "connect", Len(sockets) + 1))
  /\ UNCHANGED <<situation, autoScene, obs, shown, mixed>>

\* identified
Connected(p) ==
  /\ Quiet /\ pushes[p].at = "connect" /\ sockets[pushes[p].on] = "connecting"
  /\ StartPush(p, pushes, [sockets EXCEPT ![pushes[p].on] = "identified"])
  /\ UNCHANGED <<clicks, situation, autoScene, obs, mixed>>

\* error, close or the 8 s of connect
ConnectFails(p) ==
  /\ Quiet /\ pushes[p].at = "connect"
  /\ Fail(p, pushes, [sockets EXCEPT ![pushes[p].on] = "closed"])
  /\ UNCHANGED <<clicks, situation, autoScene, obs, shown, mixed>>

\* OBS quits, or the network does.
ConnectionLost(b) ==
  /\ Quiet /\ sockets[b] = "identified"
  /\ sockets' = [sockets EXCEPT ![b] = "closed"]
  /\ UNCHANGED <<clicks, situation, autoScene, bridge, pushes, obs, shown, mixed>>

\* chkObsAutoScene
TickAutoScene ==
  /\ Quiet /\ Click
  /\ autoScene' = ~autoScene
  /\ IF ~autoScene /\ bridge # 0 /\ sockets[bridge] = "identified"
     THEN /\ Idle # {}
          /\ StartPush(Min(Idle), Begin(pushes, NewPush("tick", "canvas", 0)), sockets)
     ELSE UNCHANGED <<bridge, sockets, pushes, shown>>
  /\ UNCHANGED <<situation, obs, mixed>>

\* selSituation: the settings at once, then the devices (TrackerMedia), then OBS.
Switch(s) ==
  /\ Quiet /\ s # situation /\ Idle # {} /\ Click
  /\ situation' = s
  /\ pushes' = Begin(Crowded(pushes), NewPush("switch", "devices", 0))
  /\ UNCHANGED <<autoScene, bridge, sockets, obs, shown, mixed>>

DevicesSwitched(p) ==
  /\ Quiet /\ pushes[p].at = "devices"
  /\ IF autoScene /\ bridge # 0 /\ sockets[bridge] = "identified"
     THEN StartPush(p, pushes, sockets)
     ELSE pushes' = [pushes EXCEPT ![p] = Done] /\ UNCHANGED <<bridge, sockets, shown>>
  /\ UNCHANGED <<clicks, situation, autoScene, obs, mixed>>

DevicesFail(p) ==
  /\ Quiet /\ pushes[p].at = "devices"
  /\ pushes' = [pushes EXCEPT ![p] = Done]
  /\ UNCHANGED <<clicks, situation, autoScene, bridge, sockets, obs, shown, mixed>>
-----------------------------------------------------------------------------
\* The canvas is there, or is not to be had: the plan is made of the settings of now,
\* and applied over the bridge of now.
CanvasSettled(p) ==
  /\ pushes[p].at = "canvas"
  /\ IF bridge # 0 /\ sockets[bridge] = "identified"
     THEN /\ pushes' = [pushes EXCEPT ![p].at = "lists", ![p].on = bridge, ![p].plan = situation]
          /\ mixed' = (mixed \/ situation # pushes[p].scene)
          /\ UNCHANGED <<bridge, sockets>>
     ELSE Fail(p, pushes, sockets) /\ UNCHANGED mixed
  /\ UNCHANGED <<clicks, situation, autoScene, obs, shown>>

\* Mutant: a scene that exists is taken to have its sources.
SourceRequestsForNewScene(plan, scene, o) ==
  IF scene \in o.scenes THEN <<>>
  ELSE <<<<"CreateScene", NoSituation>>>>
       \o [i \in DOMAIN Owned[plan] |-> <<"CreateInput", SourcesOf(plan)[i]>>]

\* buildObsSourceRequests
BuildObsSourceRequests(plan, scene, o) ==
  (IF scene \in o.scenes THEN <<>> ELSE <<<<"CreateScene", NoSituation>>>>)
  \o [i \in DOMAIN Owned[plan] |->
        <<IF SourcesOf(plan)[i] \in Inputs(o) THEN "SetInputSettings" ELSE "CreateInput",
          SourcesOf(plan)[i]>>]

ToAll(requestType, plan) == [i \in DOMAIN Owned[plan] |-> <<requestType, SourcesOf(plan)[i]>>]

\* GetSceneList and GetInputList
ListsArrive(p) ==
  LET push == pushes[p] IN
  /\ push.at = "lists" /\ sockets[push.on] = "identified" /\ Quiet
  /\ pushes' = [pushes EXCEPT ![p].at = "requests",
                  ![p].todo = BuildObsSourceRequests(push.plan, push.scene, obs)
                              \o ToAll("GetSceneItemId", push.plan)
                              \o <<<<"SetCurrentProgramScene", NoSituation>>>>]
  /\ UNCHANGED <<clicks, situation, autoScene, bridge, sockets, obs, shown, mixed>>

\* What is left to do once the first request has been answered: an item that was found
\* is positioned after the others have been looked for (buildObsTransformRequests).
AfterAnswer(push, accepted) ==
  LET request == Head(push.todo)
      rest == Tail(push.todo)
  IN  IF request[1] = "GetSceneItemId" /\ accepted
      THEN Front(rest) \o <<<<"SetSceneItemTransform", request[2]>>, Last(rest)>>
      ELSE rest

Answered(p) ==
  LET push == pushes[p]
      request == Head(push.todo)
      accepted == Accepts(obs, push.scene, request)
  IN  /\ push.at = "requests" /\ sockets[push.on] = "identified" /\ Quiet
      /\ obs' = Execute(obs, push.scene, request)
      /\ IF accepted \/ request[1] = "GetSceneItemId"
         THEN LET left == AfterAnswer(push, accepted) IN
              /\ pushes' = [pushes EXCEPT ![p] = IF left = <<>> THEN Done
                                                 ELSE [@ EXCEPT !.todo = left]]
              /\ shown' = IF left = <<>> /\ push.alone THEN push.plan ELSE shown
              /\ UNCHANGED <<bridge, sockets>>
         ELSE Fail(p, pushes, sockets) /\ UNCHANGED shown
      /\ UNCHANGED <<clicks, situation, autoScene, mixed>>

\* 8 s without an answer: OBS may have done it or not.
TimesOut(p) ==
  LET push == pushes[p] IN
  /\ push.at \in {"lists", "requests"} /\ sockets[push.on] = "identified" /\ Quiet
  /\ IF push.at = "lists" THEN UNCHANGED obs
     ELSE obs' \in {obs, Execute(obs, push.scene, Head(push.todo))}
  /\ IF push.at = "requests" /\ Head(push.todo)[1] = "GetSceneItemId"
     THEN /\ pushes' = [pushes EXCEPT ![p].todo = Tail(@), ![p].alone = FALSE]
          /\ UNCHANGED <<bridge, sockets>>
     ELSE Fail(p, pushes, sockets)
  /\ UNCHANGED <<clicks, situation, autoScene, shown, mixed>>

\* close() and the close event reject every call that waits.
CallRejected(p) ==
  /\ Rejected(p) /\ pushes[p].at # "canvas"
  /\ Fail(p, pushes, sockets)
  /\ UNCHANGED <<clicks, situation, autoScene, obs, shown, mixed>>

ObsNext ==
  \/ ConnectObs \/ TickAutoScene
  \/ \E s \in ObsSituations : Switch(s) \/ RemoveScene(s)
  \/ \E b \in DOMAIN sockets : ConnectionLost(b)
  \/ \E p \in Pushes :
       \/ Connected(p) \/ ConnectFails(p) \/ DevicesSwitched(p) \/ DevicesFail(p)
       \/ CanvasSettled(p) \/ ListsArrive(p) \/ Answered(p) \/ TimesOut(p) \/ CallRejected(p)

ObsSpec == ObsInit /\ [][ObsNext]_obsVars
-----------------------------------------------------------------------------
\* A push that has the field to itself shows its situation whatever earlier pushes left
\* half done: its scene is current and holds exactly its own sources, positioned.  No
\* scene ever holds another situation's source (a second avatar stacked on the first,
\* buildObsSourceRequests) unless the situation changed while a push awaited the canvas.
ObsShowsSituation ==
  ~mixed =>
    /\ \A i \in obs.items : i[1] = i[2][1]
    /\ shown # NoSituation =>
         /\ obs.current = shown
         /\ {i \in obs.items : i[1] = shown} = {<<shown, x>> : x \in ToSet(SourcesOf(shown))}
         /\ {i \in obs.items : i[1] = shown} \subseteq obs.placed
=============================================================================
