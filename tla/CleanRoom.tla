----------------------------- MODULE CleanRoom -----------------------------
(***************************************************************************)
(* A clean-room worker's container: how a run gets a container generation  *)
(* that attests the execution policy, receives its short-lived authority   *)
(* in that generation only, and loses it again (docker_sandbox.py and the  *)
(* container part of profile_runtime.py).                                  *)
(*                                                                         *)
(* Docker knows a container by its name, which is the worker's, and by an  *)
(* identity that is never used twice: the generation.  The service's       *)
(* threads look containers up by name between other threads' commands, so  *)
(* every decision is checked again by generation.  Two callers of          *)
(* ensure_ready, a compute release, the proxies' restarts and an image     *)
(* upgrade interleave; every docker command may fail.                      *)
(***************************************************************************)
EXTENDS Naturals, FiniteSets

CONSTANTS Launched,    \* the runs launched for the worker, in order 1..n
          MaxGens,     \* container generations, the legacy one included
          MaxImages,   \* builds of the workstation image
          MaxOutages   \* how often the proxies are recreated

ASSUME RoomsAssumption == MaxGens \in Nat \ {0}

VARIABLES box,      \* the containers by generation
          named,    \* the generation that has the worker's name, 0 for none
          image,    \* the configured image
          mission,  \* the worker's mission network
          base,     \* the proxies that attest on the base network
          seeded,   \* authority was written to the mounted home
          caller,   \* the ensure_ready callers
          rel,      \* the compute release
          bound,    \* the generation each run's capability grant names
          cleared,  \* runs whose authority was confirmed removed
          outages

cvars == <<box, named, image, mission, base, seeded, caller, rel, bound, cleared, outages>>

Gens == 1..MaxGens
Proxies == {"provider", "broker"}
Live == {"created", "running", "paused", "exited"}
NoBox == [st |-> "none", strict |-> FALSE, image |-> 0, holds |-> {}, sess |-> {}]
NoCall == [pc |-> "idle", gen |-> 0, run |-> 0, recreate |-> FALSE]
Callers == {"launch", "attach"}

Used == {g \in Gens : box[g].st # "none"}

\* What an inspection of a container reports: its options and its image.
Inspected(g) == [strict |-> box[g].strict, image |-> box[g].image]

\* _sandbox_matches_parallel_clean_room_policy on a fresh inspection: the
\* container was created with the strict options and from today's image.
StrictOptions(g) == Inspected(g).strict
TodaysImage(g) == Inspected(g).image = image
Matches(g) == g # 0 /\ StrictOptions(g) /\ TodaysImage(g)

\* A legacy container may be there from before the clean room existed.
CRInit ==
    /\ \/ /\ box = [g \in Gens |-> NoBox]
          /\ named = 0
       \/ /\ box = [[g \in Gens |-> NoBox] EXCEPT
                       ![1] = [NoBox EXCEPT !.st = "running", !.image = 1]]
          /\ named = 1
    /\ image = 1
    /\ mission = [up |-> FALSE, proxies |-> {}]
    /\ base = Proxies
    /\ seeded = FALSE
    /\ caller = [c \in Callers |-> NoCall]
    /\ rel = [pc |-> "idle", gen |-> 0]
    /\ bound = [r \in Launched |-> 0]
    /\ cleared = {}
    /\ outages = 0

Goes(c, pc) == caller' = [caller EXCEPT ![c].pc = pc]
GoesWith(c, pc, g) == caller' = [caller EXCEPT ![c].pc = pc, ![c].gen = g]

\* parallel_clean_room_readiness changes nothing: every proxy must attest.
ProxyReady(p) == p \in base
BaseReady == \A p \in Proxies : ProxyReady(p)

\* The mission network is created if it is missing, and proxies that are not
\* on it join it.
MissionCreated == IF mission.up THEN mission ELSE [up |-> TRUE, proxies |-> {}]
MissionJoined == [MissionCreated EXCEPT !.proxies = Proxies]

Attest == BaseReady /\ mission' = MissionJoined

\* The container the name denotes is running on the mission network.
Attached == named # 0 /\ box[named].st \in {"running", "paused"} /\ box[named].strict

(***************************************************************************)
(* ensure_ready                                                            *)
(***************************************************************************)

\* A launch takes the next run; its worker row allows a recreation.  Another
\* caller's row does so when it was read while no run was active.
Launch ==
    /\ caller["launch"].pc = "idle"
    /\ \E r \in Launched :
          /\ bound[r] = 0 /\ r \notin cleared
          /\ \A q \in Launched : q < r => bound[q] # 0
          /\ caller' = [caller EXCEPT !["launch"] =
                [pc |-> "probe", gen |-> 0, run |-> r, recreate |-> TRUE]]
    /\ UNCHANGED <<box, named, image, mission, base, seeded, rel, bound, cleared, outages>>

Attach ==
    /\ caller["attach"].pc = "idle"
    /\ caller' = [caller EXCEPT !["attach"] =
          [NoCall EXCEPT !.pc = "probe", !.recreate = (caller["launch"].pc = "idle")]]
    /\ UNCHANGED <<box, named, image, mission, base, seeded, rel, bound, cleared, outages>>

\* The substrate attests, then a fresh inspection decides: keep what attests
\* the policy, replace what does not if the row allows it, create otherwise.
Probe(c) ==
    /\ caller[c].pc = "probe"
    /\ Attest
    /\ \/ named = 0 /\ GoesWith(c, "create", 0)
       \/ Matches(named) /\ GoesWith(c, "boundary", named)
       \/ /\ named # 0 /\ ~Matches(named) /\ caller[c].recreate
          /\ GoesWith(c, "replace", named)
    /\ UNCHANGED <<box, named, image, base, seeded, rel, bound, cleared, outages>>

\* docker rm -f by generation; the name is free when it was this one's.
Removed(g) == [box EXCEPT ![g].st = "gone", ![g].holds = {}, ![g].sess = {}]
NameWithout(g) == IF named = g THEN 0 ELSE named

Replace(c) ==
    /\ caller[c].pc = "replace"
    /\ box' = Removed(caller[c].gen)
    /\ named' = NameWithout(caller[c].gen)
    /\ Goes(c, "replaced")
    /\ UNCHANGED <<image, mission, base, seeded, rel, bound, cleared, outages>>

\* The mission network goes with a container that was on it, unless another
\* endpoint than the two proxies is attached; a missing one is no error.
NetworkRemovable == ~mission.up \/ (mission.proxies = Proxies /\ ~Attached)
NoMission == [up |-> FALSE, proxies |-> {}]

\* Exact removal proves that generation gone; the name is probed again.
Replaced(c) ==
    /\ caller[c].pc = "replaced"
    /\ IF box[caller[c].gen].strict
       THEN NetworkRemovable /\ mission' = NoMission
       ELSE UNCHANGED mission
    /\ named = 0
    /\ Goes(c, "create")
    /\ UNCHANGED <<box, named, image, base, seeded, rel, bound, cleared, outages>>

\* An inert container reserves the name; a collision refuses it.
NewBox == [NoBox EXCEPT !.st = "created", !.strict = TRUE, !.image = image]

Create(c) ==
    /\ caller[c].pc = "create"
    /\ named = 0
    /\ \E g \in Gens :
          /\ g = Cardinality(Used) + 1
          /\ box' = [box EXCEPT ![g] = NewBox]
          /\ named' = g
          /\ GoesWith(c, "boundary", g)
    /\ UNCHANGED <<image, mission, base, seeded, rel, bound, cleared, outages>>

\* Network and generation attest again right before the home is seeded.
Boundary(c) ==
    /\ caller[c].pc = "boundary"
    /\ Attest
    /\ named = caller[c].gen
    /\ Matches(named)
    /\ Goes(c, "seed")
    /\ UNCHANGED <<box, named, image, base, seeded, rel, bound, cleared, outages>>

SeedBootstrap(c) ==
    /\ caller[c].pc = "seed"
    /\ seeded' = TRUE
    /\ Goes(c, "seeded")
    /\ UNCHANGED <<box, named, image, mission, base, rel, bound, cleared, outages>>

PostSeed(c) ==
    /\ caller[c].pc = "seeded"
    /\ named = caller[c].gen
    /\ Matches(named)
    /\ Goes(c, "start")
    /\ UNCHANGED <<box, named, image, mission, base, seeded, rel, bound, cleared, outages>>

\* docker start or unpause by generation, which a removed one refuses.
StartBox(c) ==
    /\ caller[c].pc = "start"
    /\ box[caller[c].gen].st \in Live
    /\ mission.up
    /\ box' = [box EXCEPT ![caller[c].gen].st = "running"]
    /\ named = caller[c].gen
    /\ Matches(named)
    /\ caller' = [caller EXCEPT ![c].pc = IF c = "attach" THEN "idle" ELSE "ready"]
    /\ UNCHANGED <<named, image, mission, base, seeded, rel, bound, cleared, outages>>

(***************************************************************************)
(* A run in its generation                                                 *)
(***************************************************************************)

\* The broker's grant names the generation the worker has at admission; the
\* run then makes its worker ready a second time.
Bind(c) ==
    /\ caller[c].pc = "ready"
    /\ bound[caller[c].run] = 0
    /\ named # 0
    /\ bound' = [bound EXCEPT ![caller[c].run] = named]
    /\ Goes(c, "probe")
    /\ UNCHANGED <<box, named, image, mission, base, seeded, rel, cleared, outages>>

\* The worker is the generation of the grant.
\* Mutant of SameGeneration: some generation is ready.
AnyGeneration(c) == named # 0
SameGeneration(c) == bound[caller[c].run] = named

RunInspect(c) ==
    /\ caller[c].pc = "ready"
    /\ bound[caller[c].run] # 0
    /\ named # 0
    /\ SameGeneration(c)
    /\ GoesWith(c, "project", named)
    /\ UNCHANGED <<box, named, image, mission, base, seeded, rel, bound, cleared, outages>>

\* Sessions of earlier runs are stopped, by the name; the authority is then
\* written to the tmpfs of the exact running generation.
Project(c) ==
    LET g == caller[c].gen
    IN  /\ caller[c].pc = "project"
        /\ Attest
        /\ named = g /\ box[g].st = "running" /\ Matches(g)
        /\ box' = [box EXCEPT ![g].sess = {},
                                ![g].holds = {caller[c].run} \cup (@ \ box[g].sess)]
        /\ Goes(c, "projected")
        /\ UNCHANGED <<named, image, base, seeded, rel, bound, cleared, outages>>

AfterProjection(c) ==
    /\ caller[c].pc = "projected"
    /\ named = caller[c].gen
    /\ Matches(named)
    /\ Goes(c, "session")
    /\ UNCHANGED <<box, named, image, mission, base, seeded, rel, bound, cleared, outages>>

\* The session is started in the container of that name.  Its script ends at
\* once when the authority is not there.
StartSession(c) ==
    /\ caller[c].pc = "session"
    /\ \/ /\ named # 0 /\ box[named].st = "running"
          /\ caller[c].run \in box[named].holds
          /\ box' = [box EXCEPT ![named].sess = @ \cup {caller[c].run}]
          /\ Goes(c, "publish")
       \/ Goes(c, "clear") /\ UNCHANGED box
    /\ UNCHANGED <<named, image, mission, base, seeded, rel, bound, cleared, outages>>

\* What stopping a run's processes in one generation leaves: the script's
\* trap scrubs the authority, a killed script leaves it.
BoxStopped(g, runs, scrubbed) ==
    [box EXCEPT ![g].sess = @ \ runs, ![g].holds = @ \ (IF scrubbed THEN runs ELSE {})]

\* The start is published with the container the name denotes by now; a
\* rejected start stops its session there and raises, past the clean-up.
Publish(c) ==
    /\ caller[c].pc = "publish"
    /\ \/ Goes(c, "wait") /\ UNCHANGED box
       \/ /\ named # 0 /\ box[named].st = "running"
          /\ \E scrubbed \in BOOLEAN : box' = BoxStopped(named, {caller[c].run}, scrubbed)
          /\ caller' = [caller EXCEPT ![c] = NoCall]
    /\ UNCHANGED <<named, image, mission, base, seeded, rel, bound, cleared, outages>>

\* The wait ends with the script, a timeout or the service's detach.
WaitEnds(c) ==
    /\ caller[c].pc = "wait"
    /\ Goes(c, "clear")
    /\ UNCHANGED <<box, named, image, mission, base, seeded, rel, bound, cleared, outages>>

\* Mutant of ClearAuthority: whatever the command reports is taken for done.
TrustingClear(c) ==
    /\ caller[c].pc = "clear"
    /\ box' = IF named = caller[c].gen /\ box[named].st = "running"
              THEN [box EXCEPT ![named].holds = @ \ {caller[c].run}] ELSE box
    /\ cleared' = cleared \cup {caller[c].run}
    /\ caller' = [caller EXCEPT ![c] = NoCall]
    /\ UNCHANGED <<named, image, mission, base, seeded, rel, bound, outages>>

\* Another generation under the name means the run's own is gone with its
\* tmpfs; in the run's own the command runs by generation, and a container
\* that is paused or not running refuses it.  An inspection that fails lets
\* the caller go on as if the authority were gone.
ClearAuthority(c) ==
    LET g == caller[c].gen
        r == caller[c].run
    IN  /\ caller[c].pc = "clear"
        /\ \/ named # g /\ cleared' = cleared \cup {r} /\ UNCHANGED box
           \/ /\ named = g /\ box[g].st = "running"
              /\ box' = [box EXCEPT ![g].holds = @ \ {r}]
              /\ cleared' = cleared \cup {r}
           \/ UNCHANGED <<box, cleared>>
        /\ caller' = [caller EXCEPT ![c] = NoCall]
        /\ UNCHANGED <<named, image, mission, base, seeded, rel, bound, outages>>

\* A docker command fails, a check refuses, or the process dies.
Abort(c) ==
    /\ caller[c].pc # "idle"
    /\ caller' = [caller EXCEPT ![c] = NoCall]
    /\ UNCHANGED <<box, named, image, mission, base, seeded, rel, bound, cleared, outages>>

(***************************************************************************)
(* Compute release, pause, and the world                                   *)
(***************************************************************************)

\* A release captures the generation it is for when it is claimed.
ReleaseCapture ==
    /\ rel.pc = "idle" /\ named # 0
    /\ rel' = [pc |-> "stop", gen |-> named]
    /\ UNCHANGED <<box, named, image, mission, base, seeded, caller, bound, cleared, outages>>

ReleaseStop ==
    /\ rel.pc = "stop"
    /\ \E scrubbed \in BOOLEAN :
          box' = IF box[rel.gen].st = "running"
                 THEN BoxStopped(rel.gen, box[rel.gen].sess, scrubbed) ELSE box
    /\ rel' = [rel EXCEPT !.pc = "remove"]
    /\ UNCHANGED <<named, image, mission, base, seeded, caller, bound, cleared, outages>>

ReleasePause ==
    /\ rel.pc = "remove"
    /\ named = rel.gen /\ box[rel.gen].st = "running"
    /\ box' = [box EXCEPT ![rel.gen].st = "paused"]
    /\ rel' = [pc |-> "idle", gen |-> 0]
    /\ UNCHANGED <<named, image, mission, base, seeded, caller, bound, cleared, outages>>

\* A container of another generation under the name refuses the removal.
ReleaseRemove ==
    /\ rel.pc = "remove"
    /\ named \in {0, rel.gen}
    /\ box' = Removed(rel.gen)
    /\ named' = NameWithout(rel.gen)
    /\ rel' = [rel EXCEPT !.pc = "network"]
    /\ UNCHANGED <<image, mission, base, seeded, caller, bound, cleared, outages>>

ReleaseNetwork ==
    /\ rel.pc = "network"
    /\ mission' = IF box[rel.gen].strict /\ NetworkRemovable THEN NoMission ELSE mission
    /\ rel' = [pc |-> "idle", gen |-> 0]
    /\ UNCHANGED <<box, named, image, base, seeded, caller, bound, cleared, outages>>

ReleaseAbort ==
    /\ rel.pc # "idle"
    /\ rel' = [pc |-> "idle", gen |-> 0]
    /\ UNCHANGED <<box, named, image, mission, base, seeded, caller, bound, cleared, outages>>

\* A run's script ends and scrubs its authority; a container stops and loses
\* its tmpfs.
ScriptEnds ==
    /\ \E g \in Gens : \E r \in box[g].sess :
          box[g].st = "running" /\ box' = BoxStopped(g, {r}, TRUE)
    /\ UNCHANGED <<named, image, mission, base, seeded, caller, rel, bound, cleared, outages>>

ContainerExits ==
    /\ \E g \in Gens :
          /\ box[g].st = "running"
          /\ box' = [box EXCEPT ![g].st = "exited", ![g].sess = {}, ![g].holds = {}]
    /\ UNCHANGED <<named, image, mission, base, seeded, caller, rel, bound, cleared, outages>>

\* The proxies are recreated and drop off every mission network; when they
\* are back, the start-up repair joins them again or removes the network of
\* a worker without container.
ProxiesRecreated ==
    /\ outages < MaxOutages
    /\ BaseReady
    /\ base' = {}
    /\ mission' = [mission EXCEPT !.proxies = {}]
    /\ outages' = outages + 1
    /\ UNCHANGED <<box, named, image, seeded, caller, rel, bound, cleared>>

ProxiesBack ==
    /\ ~BaseReady
    /\ base' = Proxies
    /\ UNCHANGED <<box, named, image, mission, seeded, caller, rel, bound, cleared, outages>>

RepairNetworks ==
    /\ BaseReady /\ mission.up
    /\ mission' = IF named = 0 THEN NoMission ELSE MissionJoined
    /\ mission' # mission
    /\ UNCHANGED <<box, named, image, base, seeded, caller, rel, bound, cleared, outages>>

UpgradeImage ==
    /\ image < MaxImages
    /\ image' = image + 1
    /\ UNCHANGED <<box, named, mission, base, seeded, caller, rel, bound, cleared, outages>>

CRNext ==
    \/ Launch \/ Attach
    \/ \E c \in Callers :
          \/ Probe(c) \/ Replace(c) \/ Replaced(c) \/ Create(c) \/ Boundary(c)
          \/ SeedBootstrap(c) \/ PostSeed(c) \/ StartBox(c) \/ Bind(c) \/ RunInspect(c)
          \/ Project(c) \/ AfterProjection(c) \/ StartSession(c) \/ Publish(c)
          \/ WaitEnds(c) \/ ClearAuthority(c) \/ Abort(c)
    \/ ReleaseCapture \/ ReleaseStop \/ ReleasePause \/ ReleaseRemove
    \/ ReleaseNetwork \/ ReleaseAbort
    \/ ScriptEnds \/ ContainerExits
    \/ ProxiesRecreated \/ ProxiesBack \/ RepairNetworks \/ UpgradeImage

CRSpec == CRInit /\ [][CRNext]_cvars

(***************************************************************************)
(* Properties                                                              *)
(***************************************************************************)

\* A run's authority and its session are only ever in the generation its
\* grant names, and that generation attests the policy.
AuthorityInItsGeneration ==
    \A g \in Gens :
        /\ \A r \in box[g].holds \cup box[g].sess : bound[r] = g
        /\ box[g].holds \cup box[g].sess # {} => box[g].strict

\* Once its removal is confirmed, a run's authority is in no container,
\* whichever generation has the name by then.
ClearedIsClean ==
    \A r \in cleared, g \in Gens : r \notin box[g].holds

\* No container of the time before the clean room sees a seeded home.
LegacyNeverSees ==
    seeded => \A g \in Gens : box[g].st \in Live => box[g].strict

\* A run's authority is only in the container generation that its grant names, which
\* attests the policy; once removed it is in no container; and no container from before
\* the clean room sees a seeded home (ensure_ready, project_parallel_clean_room_run_secrets
\* and clear_parallel_clean_room_run_authority against releases and image upgrades).
CleanRoomHolds == AuthorityInItsGeneration /\ ClearedIsClean /\ LegacyNeverSees
=============================================================================
